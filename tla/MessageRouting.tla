--------------------------- MODULE MessageRouting ---------------------------
(***************************************************************************)
(* The inbound pipeline of RemoteEndPoint up to routeParsedIncoming: the   *)
(* reader thread numbers the frames, the parse pool parses them in         *)
(* parallel, the reorder buffer restores the order of the wire, and the    *)
(* thread that closes a gap routes the frames that have become ready while *)
(* it holds route_dispatch_mutex.  startProcessingMessages() and stop()    *)
(* are modelled with the mutexes they take and the threads they join.      *)
(*                                                                         *)
(* A frame is its sequence number and the session that read it; what it    *)
(* holds, and what happens behind routeParsedIncoming, belongs to          *)
(* OrderedDispatcher, CancellationRegistry and PendingRequests.            *)
(***************************************************************************)
EXTENDS Integers, FiniteSets, Sequences, Functions

CONSTANTS
  Workers,              \* threads of the parse pool
  Main,                 \* the application thread, which starts and stops
  Nobody,               \* owner of a mutex that is free
  MaxSessions,          \* bound: calls of startProcessingMessages
  MaxFrames,            \* bound: frames read over the whole run
  Setups                \* the endpoints and applications to consider

\* The reader thread of session s is called s.
Readers == 1..MaxSessions

Threads == Workers \cup Readers

ASSUME ThreadAssumption ==
  /\ IsFiniteSet(Workers)
  /\ Main # Nobody
  /\ Main \notin Threads
  /\ Nobody \notin Threads
  /\ Workers \cap (0..MaxSessions) = {}  \* 0 stands for no thread

(***************************************************************************)
(* A setup is the RemoteEndPointLimits an endpoint is built with, where 0  *)
(* means no limit, together with the number of sessions the application    *)
(* starts and of frames the peer sends.                                    *)
(***************************************************************************)
Setup ==
  [sessions : 0..MaxSessions,
   frames : 0..MaxFrames,
   maxParseQueueSize : Nat,
   maxReorderBufferSize : Nat,
   frameSizeLimited : BOOLEAN,  \* max_frame_size is set
   dispatchLimited : BOOLEAN,   \* a limit behind routeParsedIncoming is set
   overloadPolicy : {"StopProcessing", "DropNewest"}]

ASSUME BoundAssumption ==
  /\ MaxSessions \in Nat
  /\ MaxFrames \in Nat
  /\ Setups \subseteq Setup

VARIABLES
  setup,        \* d_ptr->limits, and what the environment will do
  working,      \* d_ptr->working
  quit,         \* d_ptr->quit
  generation,   \* session_output_state->generation, 0 before the first start
  fresh,        \* history: resetMessageRouting has run in this generation
  lifecycle,    \* owner of lifecycle_mutex
  stage,        \* where start or stop, holding lifecycle_mutex, stands
  reader,       \* message_producer_thread_, 0 when null
  keepRunning,  \* message_producer->keepRunning
  interrupted,  \* input->interrupt() was called on the bound stream
  pool,         \* parse_pool: "none", "running" or "stopped"
  tasks,        \* tasks posted to parse_pool and not taken yet
  slots,        \* parse_queue_size
  nextSeq,      \* next_message_sequence
  nextRoute,    \* next_route_sequence
  buffer,       \* reorder_buffer, a partial function of sequence numbers
  dispatch,     \* owner of route_dispatch_mutex
  ready,        \* what the owner of route_dispatch_mutex still has to route
  pc,           \* control state of every thread but Main
  cur,          \* the frame a thread is working on
  routed        \* history: what routeParsedIncoming passed on, in order

lifeVars    == <<working, quit, generation, fresh, lifecycle, stage, reader>>
inputVars   == <<keepRunning, interrupted, nextSeq>>
poolVars    == <<pool, tasks, slots>>
routingVars == <<nextRoute, buffer, dispatch, ready, routed>>
vars == <<setup, lifeVars, inputVars, poolVars, routingVars, pc, cur>>

\* A frame: its number, the session whose reader read it, and the session
\* whose parse pool it was posted to.
NoFrame == [seq |-> 0, from |-> 0, in |-> 0]
Frame == [seq : Nat, from : 0..MaxSessions, in : 0..MaxSessions]

\* ParsedMessage: ok is false for the placeholder of a dropped frame.
Parsed == [ok : BOOLEAN, from : 0..MaxSessions]

\* A routed frame, with the session whose output state it was given, and
\* whether that session had reset the routing state yet.
Routed == [seq : Nat, from : 0..MaxSessions, session : 0..MaxSessions,
           fresh : BOOLEAN]

Empty == [s \in {} |-> [ok |-> FALSE, from |-> 0]]

StopsOnOverload == setup.overloadPolicy = "StopProcessing"

Init ==
  /\ setup \in Setups
  /\ working = FALSE
  /\ quit = FALSE
  /\ generation = 0
  /\ fresh = FALSE
  /\ lifecycle = Nobody
  /\ stage = "none"
  /\ reader = 0
  /\ keepRunning = FALSE
  /\ interrupted = FALSE
  /\ pool = "none"
  /\ tasks = <<>>
  /\ slots = 0
  /\ nextSeq = 0
  /\ nextRoute = 0
  /\ buffer = Empty
  /\ dispatch = Nobody
  /\ ready = Empty
  /\ pc = [t \in Threads |-> IF t \in Workers THEN "idle" ELSE "unborn"]
  /\ cur = [t \in Threads |-> NoFrame]
  /\ routed = <<>>

-----------------------------------------------------------------------------
(***************************************************************************)
(* startProcessingMessages().  The flags and the output state are set      *)
(* first; replacing parse_pool then joins the threads of the old pool; the *)
(* routing state is reset and the reader created last.                     *)
(***************************************************************************)
StartBegin ==
  /\ lifecycle = Nobody
  /\ ~working
  /\ generation < setup.sessions
  /\ lifecycle' = Main
  /\ stage' = "startPools"
  /\ working' = TRUE
  /\ quit' = FALSE
  /\ generation' = generation + 1
  /\ fresh' = FALSE
  /\ interrupted' = FALSE
  /\ UNCHANGED <<setup, reader, keepRunning, nextSeq, poolVars, routingVars, pc, cur>>

StartPools ==
  /\ stage = "startPools"
  /\ pool' = "running"
  /\ tasks' = <<>>
  /\ stage' = "startReader"
  /\ UNCHANGED <<setup, working, quit, generation, fresh, lifecycle, reader, slots,
                 inputVars, routingVars, pc, cur>>

OldPoolJoined == \A w \in Workers : pc[w] = "idle" \/ cur[w].in = generation

StartReader ==
  /\ stage = "startReader"
  /\ OldPoolJoined
  /\ dispatch = Nobody
  /\ buffer' = Empty
  /\ nextRoute' = nextSeq
  /\ fresh' = TRUE
  /\ reader' = generation
  /\ pc' = [pc EXCEPT ![generation] = "born"]
  /\ lifecycle' = Nobody
  /\ stage' = "none"
  /\ UNCHANGED <<setup, working, quit, generation, inputVars, poolVars, dispatch,
                 ready, routed, cur>>

-----------------------------------------------------------------------------
(***************************************************************************)
(* stop(), called by the application or by a thread whose overload handler *)
(* gives up on the session.                                                *)
(***************************************************************************)
CallsStop(t) == t # Main => pc[t] \in {"overload", "oversize"}

\* What a thread does once the stop() it called has returned.
AfterStop(t) ==
  IF pc[t] = "oversize" THEN "abort"
  ELSE IF dispatch = t THEN "routing"
  ELSE IF t \in Workers THEN "release" ELSE "reading"

StopReturns(t) == pc' = IF t = Main THEN pc ELSE [pc EXCEPT ![t] = AfterStop(t)]

StopIdle(t) ==
  /\ t # Main
  /\ CallsStop(t)
  /\ lifecycle = Nobody
  /\ ~working /\ reader = 0
  /\ StopReturns(t)
  /\ UNCHANGED <<setup, lifeVars, inputVars, poolVars, routingVars, cur>>

StopBegin(t) ==
  /\ CallsStop(t)
  /\ lifecycle = Nobody
  /\ working \/ reader # 0
  /\ lifecycle' = t
  /\ stage' = "stopRouting"
  /\ quit' = TRUE
  /\ UNCHANGED <<setup, working, generation, fresh, reader, inputVars, poolVars,
                 routingVars, pc, cur>>

\* Slip: the buffer is cleared without taking route_dispatch_mutex.
StopRoutingUnlocked ==
  /\ stage = "stopRouting"
  /\ buffer' = Empty
  /\ stage' = "stopInput"
  /\ UNCHANGED <<setup, working, quit, generation, fresh, lifecycle, reader,
                 inputVars, poolVars, nextRoute, dispatch, ready, routed,
                 pc, cur>>

\* clearMessageRouting
StopRouting ==
  /\ stage = "stopRouting"
  /\ dispatch = Nobody
  /\ buffer' = Empty
  /\ stage' = "stopInput"
  /\ UNCHANGED <<setup, working, quit, generation, fresh, lifecycle, reader,
                 inputVars, poolVars, nextRoute, dispatch, ready, routed,
                 pc, cur>>

\* Slip: a reader that is blocked on its input is not woken.
StopInputQuietly ==
  /\ stage = "stopInput"
  /\ keepRunning' = FALSE
  /\ stage' = "stopPools"
  /\ UNCHANGED <<setup, working, quit, generation, fresh, lifecycle, reader,
                 interrupted, nextSeq, poolVars, routingVars, pc, cur>>

\* keepRunning is cleared and input->interrupt() called.
StopInput ==
  /\ stage = "stopInput"
  /\ keepRunning' = FALSE
  /\ interrupted' = TRUE
  /\ stage' = "stopPools"
  /\ UNCHANGED <<setup, working, quit, generation, fresh, lifecycle, reader, nextSeq,
                 poolVars, routingVars, pc, cur>>

\* Slip: the counter is reset although tasks are still running.
StopPoolsResettingSlots ==
  /\ stage = "stopPools"
  /\ pool' = "stopped"
  /\ tasks' = <<>>
  /\ slots' = 0
  /\ stage' = "stopJoin"
  /\ UNCHANGED <<setup, working, quit, generation, fresh, lifecycle, reader,
                 inputVars, routingVars, pc, cur>>

\* thread_pool::stop() abandons the posted tasks, their slots included.
StopPools ==
  /\ stage = "stopPools"
  /\ pool' = "stopped"
  /\ tasks' = <<>>
  /\ stage' = "stopJoin"
  /\ UNCHANGED <<setup, working, quit, generation, fresh, lifecycle, reader, slots,
                 inputVars, routingVars, pc, cur>>

ReaderJoined(t) == t = reader \/ reader = 0 \/ pc[reader] = "exited"

StopJoin(t) ==
  /\ stage = "stopJoin"
  /\ lifecycle = t
  /\ ReaderJoined(t)
  /\ reader' = 0
  /\ working' = FALSE
  /\ lifecycle' = Nobody
  /\ stage' = "none"
  /\ StopReturns(t)
  /\ UNCHANGED <<setup, quit, generation, fresh, inputVars, poolVars, routingVars, cur>>

-----------------------------------------------------------------------------
(***************************************************************************)
(* The reader thread: listen(), nextMessageSequence() and postParseTask(). *)
(***************************************************************************)
Listen(r) ==
  /\ pc[r] = "born"
  /\ keepRunning' = TRUE
  /\ pc' = [pc EXCEPT ![r] = "reading"]
  /\ UNCHANGED <<setup, lifeVars, interrupted, nextSeq, poolVars, routingVars, cur>>

\* The top of the loop of listen(), up to the read that may block.
AwaitHeader(r) ==
  /\ pc[r] = "reading"
  /\ pc' = [pc EXCEPT ![r] = IF keepRunning THEN "header" ELSE "exited"]
  /\ UNCHANGED <<setup, lifeVars, inputVars, poolVars, routingVars, cur>>

\* A header has arrived; keepRunning is looked at for the last time.
ReadHeader(r) ==
  /\ pc[r] = "header"
  /\ pc' = [pc EXCEPT ![r] = IF keepRunning THEN "body" ELSE "exited"]
  /\ UNCHANGED <<setup, lifeVars, inputVars, poolVars, routingVars, cur>>

\* The header of a frame larger than max_frame_size: with DropNewest its
\* bytes are skipped before it has a number, otherwise the reader calls
\* stop().
ReadOversizedHeader(r) ==
  /\ pc[r] = "header"
  /\ keepRunning
  /\ setup.frameSizeLimited
  /\ pc' = [pc EXCEPT ![r] = IF StopsOnOverload THEN "oversize" ELSE "reading"]
  /\ UNCHANGED <<setup, lifeVars, inputVars, poolVars, routingVars, cur>>

\* The frame is complete and gets its number.
ReadBody(r) ==
  /\ pc[r] = "body"
  /\ nextSeq < setup.frames
  /\ nextSeq' = nextSeq + 1
  /\ cur' = [cur EXCEPT ![r] = [seq |-> nextSeq, from |-> r, in |-> 0]]
  /\ pc' = [pc EXCEPT ![r] = "post"]
  /\ UNCHANGED <<setup, lifeVars, keepRunning, interrupted, poolVars, routingVars>>

\* End of input, an interrupted stream, or the return after an oversized
\* frame: the producer stops for good.
ReaderEnds(r) ==
  /\ keepRunning' = FALSE
  /\ pc' = [pc EXCEPT ![r] = "exited"]
  /\ UNCHANGED <<setup, lifeVars, interrupted, nextSeq, poolVars, routingVars, cur>>

ReadEof(r)         == pc[r] \in {"header", "body"} /\ ReaderEnds(r)
ReadInterrupted(r) == interrupted /\ ReadEof(r)
ReadAborted(r)     == pc[r] = "abort" /\ ReaderEnds(r)

ParseQueueFull == setup.maxParseQueueSize # 0 /\ slots >= setup.maxParseQueueSize

PostDropped(r) ==
  /\ pc[r] = "post"
  /\ quit \/ pool = "none"
  /\ pc' = [pc EXCEPT ![r] = "reading"]
  /\ cur' = [cur EXCEPT ![r] = NoFrame]
  /\ UNCHANGED <<setup, lifeVars, inputVars, poolVars, routingVars>>

\* Slip: a dropped frame leaves no placeholder behind.
PostOverloadSilently(r) ==
  /\ pc[r] = "post"
  /\ ~quit /\ pool # "none"
  /\ ParseQueueFull
  /\ pc' = [pc EXCEPT ![r] = IF StopsOnOverload THEN "overload" ELSE "reading"]
  /\ UNCHANGED <<setup, lifeVars, inputVars, poolVars, routingVars, cur>>

\* acquireParseQueueSlot fails: DropNewest submits a placeholder, otherwise
\* the reader calls stop().
PostOverload(r) ==
  /\ pc[r] = "post"
  /\ ~quit /\ pool # "none"
  /\ ParseQueueFull
  /\ pc' = [pc EXCEPT ![r] = IF StopsOnOverload THEN "overload" ELSE "submit"]
  /\ UNCHANGED <<setup, lifeVars, inputVars, poolVars, routingVars, cur>>

PostParseTask(r) ==
  /\ pc[r] = "post"
  /\ ~quit /\ pool # "none"
  /\ ~ParseQueueFull
  /\ slots' = slots + 1
  /\ tasks' = IF pool = "stopped" THEN tasks
              ELSE Append(tasks, [cur[r] EXCEPT !.in = generation])
  /\ pc' = [pc EXCEPT ![r] = "reading"]
  /\ cur' = [cur EXCEPT ![r] = NoFrame]
  /\ UNCHANGED <<setup, lifeVars, inputVars, pool, routingVars>>

-----------------------------------------------------------------------------
(***************************************************************************)
(* The parse pool, and submitParsedMessage() which a worker calls with     *)
(* what it parsed and the reader with the placeholder of a frame it drops. *)
(***************************************************************************)
TakeTask(w) ==
  /\ pc[w] = "idle"
  /\ pool = "running"
  /\ tasks # <<>>
  /\ cur' = [cur EXCEPT ![w] = Head(tasks)]
  /\ tasks' = Tail(tasks)
  /\ pc' = [pc EXCEPT ![w] = "submit"]
  /\ UNCHANGED <<setup, lifeVars, inputVars, pool, slots, routingVars>>

\* Where a thread goes when submitParsedMessage returns.
AfterSubmit(t) == IF t \in Workers THEN "release" ELSE "reading"

\* release_parse_slot runs when the parse task ends.
ReleaseSlot(w) ==
  /\ pc[w] = "release"
  /\ slots' = slots - 1
  /\ pc' = [pc EXCEPT ![w] = "idle"]
  /\ cur' = [cur EXCEPT ![w] = NoFrame]
  /\ UNCHANGED <<setup, lifeVars, inputVars, pool, tasks, routingVars>>

\* Slip: the limit is exceeded by one.
ReorderBufferOverfull(t) ==
  /\ t \in Workers
  /\ cur[t].seq # nextRoute
  /\ setup.maxReorderBufferSize # 0
  /\ Cardinality(DOMAIN buffer) > setup.maxReorderBufferSize

\* Only a worker's message counts against the limit.
ReorderBufferFull(t) ==
  /\ t \in Workers
  /\ cur[t].seq # nextRoute
  /\ setup.maxReorderBufferSize # 0
  /\ Cardinality(DOMAIN buffer) >= setup.maxReorderBufferSize

SubmitAfterQuit(t) ==
  /\ pc[t] = "submit"
  /\ dispatch = Nobody
  /\ quit
  /\ pc' = [pc EXCEPT ![t] = AfterSubmit(t)]
  /\ UNCHANGED <<setup, lifeVars, inputVars, poolVars, routingVars, cur>>

SubmitOverload(t) ==
  /\ pc[t] = "submit"
  /\ dispatch = Nobody
  /\ ~quit
  /\ StopsOnOverload /\ ReorderBufferFull(t)
  /\ pc' = [pc EXCEPT ![t] = "overload"]
  /\ UNCHANGED <<setup, lifeVars, inputVars, poolVars, routingVars, cur>>

\* The message a thread submits, and the buffer with that message in it.
Submitted(t) == [ok |-> t \in Workers /\ ~ReorderBufferFull(t),
                 from |-> cur[t].from]

Filled(t) ==
  [s \in DOMAIN buffer \cup {cur[t].seq} |->
     IF s = cur[t].seq THEN Submitted(t) ELSE buffer[s]]

\* gap is the first number from nextRoute on that is still missing.  The
\* frames below it leave the buffer; the thread keeps route_dispatch_mutex
\* while it routes them.
Submit(t) ==
  /\ pc[t] = "submit"
  /\ dispatch = Nobody
  /\ ~quit
  /\ ~(StopsOnOverload /\ ReorderBufferFull(t))
  /\ \E gap \in nextRoute..nextSeq :
       /\ gap \notin DOMAIN Filled(t)
       /\ nextRoute..(gap - 1) \subseteq DOMAIN Filled(t)
       /\ nextRoute' = gap
       /\ ready' = Restrict(Filled(t), nextRoute..(gap - 1))
       /\ buffer' = Restrict(Filled(t), DOMAIN Filled(t) \ (nextRoute..(gap - 1)))
       /\ dispatch' = IF gap = nextRoute THEN Nobody ELSE t
       /\ pc' = [pc EXCEPT ![t] =
                   IF gap = nextRoute THEN AfterSubmit(t) ELSE "routing"]
  /\ UNCHANGED <<setup, lifeVars, inputVars, poolVars, routed, cur>>

\* Slip: the frames that are ready are routed in no particular order.
RouteAny ==
  \E s \in DOMAIN ready :
    /\ ready' = Restrict(ready, DOMAIN ready \ {s})
    /\ routed' = IF quit \/ ~ready[s].ok THEN routed
                 ELSE Append(routed, [seq |-> s, from |-> ready[s].from,
                                      session |-> generation, fresh |-> fresh])

\* Slip: the loop goes on routing after quit.
RouteFirstAfterQuit ==
  \E s \in DOMAIN ready :
    /\ \A u \in DOMAIN ready : s <= u
    /\ ready' = Restrict(ready, DOMAIN ready \ {s})
    /\ routed' = IF ~ready[s].ok THEN routed
                 ELSE Append(routed, [seq |-> s, from |-> ready[s].from,
                                      session |-> generation, fresh |-> fresh])

\* routeParsedIncoming for the first frame that is ready.
RouteFirst ==
  \E s \in DOMAIN ready :
    /\ \A u \in DOMAIN ready : s <= u
    /\ ready' = Restrict(ready, DOMAIN ready \ {s})
    /\ routed' = IF quit \/ ~ready[s].ok THEN routed
                 ELSE Append(routed, [seq |-> s, from |-> ready[s].from,
                                      session |-> generation, fresh |-> fresh])

Route(t) ==
  /\ pc[t] = "routing"
  /\ RouteFirst
  /\ UNCHANGED <<setup, lifeVars, inputVars, poolVars, nextRoute, buffer, dispatch,
                 pc, cur>>

\* A queue behind routeParsedIncoming is full: its overload handler calls
\* stop() from inside the routing loop.
RouteOverload(t) ==
  /\ pc[t] = "routing"
  /\ setup.dispatchLimited /\ StopsOnOverload
  /\ ~quit
  /\ RouteFirst
  /\ routed' # routed
  /\ pc' = [pc EXCEPT ![t] = "overload"]
  /\ UNCHANGED <<setup, lifeVars, inputVars, poolVars, nextRoute, buffer, dispatch, cur>>

RouteDone(t) ==
  /\ pc[t] = "routing"
  /\ DOMAIN ready = {}
  /\ dispatch' = Nobody
  /\ pc' = [pc EXCEPT ![t] = AfterSubmit(t)]
  /\ UNCHANGED <<setup, lifeVars, inputVars, poolVars, nextRoute, buffer, ready,
                 routed, cur>>

-----------------------------------------------------------------------------
StopSteps ==
  \/ StopRouting
  \/ StopInput
  \/ StopPools
  \/ \E t \in Threads \cup {Main} : StopJoin(t)

ReaderSteps(r) ==
  \/ Listen(r)
  \/ AwaitHeader(r)
  \/ ReadInterrupted(r)
  \/ ReadAborted(r)
  \/ PostDropped(r)
  \/ PostOverload(r)
  \/ PostParseTask(r)

SubmitSteps(t) ==
  \/ SubmitAfterQuit(t)
  \/ SubmitOverload(t)
  \/ Submit(t)
  \/ Route(t)
  \/ RouteDone(t)

WorkerSteps(w) == TakeTask(w) \/ ReleaseSlot(w)

\* What the environment chooses: frames, end of input, pressure behind the
\* router, and the application's calls.
Environment ==
  \/ StartBegin
  \/ StopBegin(Main)
  \/ \E r \in Readers : ReadHeader(r) \/ ReadBody(r)
                         \/ ReadOversizedHeader(r) \/ ReadEof(r)
  \/ \E t \in Threads : RouteOverload(t)

OverloadSteps(t) == StopIdle(t) \/ StopBegin(t)

Next ==
  \/ Environment
  \/ StartPools
  \/ StartReader
  \/ StopSteps
  \/ \E r \in Readers : ReaderSteps(r)
  \/ \E w \in Workers : WorkerSteps(w)
  \/ \E t \in Threads : SubmitSteps(t) \/ OverloadSteps(t)

Spec == Init /\ [][Next]_vars

\* Every thread that can take a step of its own eventually does; nothing is
\* assumed of the environment but that an interrupted stream, which may still
\* deliver what it has buffered, runs dry.
Fairness ==
  /\ WF_vars(StartPools)
  /\ WF_vars(StartReader)
  /\ WF_vars(StopSteps)
  /\ \A r \in Readers : WF_vars(ReaderSteps(r)) /\ SF_vars(ReadInterrupted(r))
  /\ \A w \in Workers : WF_vars(WorkerSteps(w))
  /\ \A t \in Threads : WF_vars(SubmitSteps(t)) /\ WF_vars(OverloadSteps(t))

FairSpec == Spec /\ Fairness

-----------------------------------------------------------------------------
(***************************************************************************)
(* Properties.                                                             *)
(***************************************************************************)
Stages == {"none", "startPools", "startReader", "stopRouting", "stopInput",
           "stopPools", "stopJoin"}

ControlStates == {"unborn", "born", "reading", "header", "body", "post", "submit", "routing",
                  "overload", "oversize", "abort", "exited", "idle", "release"}

\* The types of the variables: what every field of RemoteEndPoint::Data that
\* takes part in routing may hold.
TypeOK ==
  /\ setup \in Setups
  /\ working \in BOOLEAN /\ quit \in BOOLEAN /\ fresh \in BOOLEAN
  /\ generation \in 0..MaxSessions
  /\ lifecycle \in Threads \cup {Main, Nobody}
  /\ stage \in Stages
  /\ reader \in 0..MaxSessions
  /\ keepRunning \in BOOLEAN /\ interrupted \in BOOLEAN
  /\ pool \in {"none", "running", "stopped"}
  /\ tasks \in Seq(Frame)
  /\ slots \in Nat
  /\ nextSeq \in Nat /\ nextRoute \in Nat
  /\ DOMAIN buffer \subseteq Nat /\ buffer \in [DOMAIN buffer -> Parsed]
  /\ DOMAIN ready \subseteq Nat /\ ready \in [DOMAIN ready -> Parsed]
  /\ dispatch \in Threads \cup {Nobody}
  /\ pc \in [Threads -> ControlStates]
  /\ cur \in [Threads -> Frame]
  /\ routed \in Seq(Routed)

\* routeParsedIncoming sees the frames in the order of their sequence
\* numbers, whatever order the parse pool finishes them in, and also across
\* stop() and a restart: a frame is never routed twice or after a later one.
RoutedInWireOrder ==
  \A i, j \in DOMAIN routed : i < j => routed[i].seq < routed[j].seq

\* Within one session's routing the frames of submitParsedMessage follow one
\* another without a gap.  (With DropNewest a dropped frame leaves one, which
\* is why the property is about StopProcessing.)
NoFrameSkipped ==
  StopsOnOverload =>
    \A i \in DOMAIN routed : \A j \in DOMAIN routed :
      /\ j = i + 1
      /\ routed[i].session = routed[j].session
      /\ routed[i].fresh = routed[j].fresh
      => routed[j].seq = routed[i].seq + 1

\* The messages waiting in reorder_buffer never exceed the configured limit;
\* only placeholders of dropped frames may go beyond it.
ReorderBufferBounded ==
  setup.maxReorderBufferSize # 0 =>
    Cardinality({s \in DOMAIN buffer : buffer[s].ok}) <= setup.maxReorderBufferSize

\* Once clear() has passed clearMessageRouting, nothing of the session is
\* left in the buffer or in a routing loop, and nothing comes back until the
\* next start.
QuietAfterClear ==
  quit /\ stage # "stopRouting" => DOMAIN buffer = {} /\ DOMAIN ready = {}

\* Tasks that hold a slot of parse_queue_size.
Backlog == Len(tasks) + Cardinality({w \in Workers : pc[w] # "idle"})

\* parse_queue_size never counts fewer tasks than there are, so that the
\* limit is never exceeded and the counter never wraps below zero.
SlotsCoverBacklog == slots >= Backlog

\* A frame that was read is eventually passed by the router, unless the
\* session is stopped: the pool and the reorder buffer lose no number.
FramesPass ==
  \A s \in 0..(MaxFrames - 1) : (nextSeq > s) ~> (nextRoute > s \/ quit)

\* stop() and startProcessingMessages() return.  Under StopProcessing this
\* fails where a limit can be exceeded: see StopTerminates.
LifecycleTerminates == (lifecycle # Nobody) ~> (lifecycle = Nobody)

\* Overload handlers of the reader, of a worker or of the router call stop().
OverloadStops ==
  /\ StopsOnOverload
  /\ \/ setup.maxParseQueueSize # 0
     \/ setup.maxReorderBufferSize # 0
     \/ setup.frameSizeLimited
     \/ setup.dispatchLimited

\* stop() and startProcessingMessages() return wherever stop() is called by
\* the application alone: the threads they join are woken and come to an end.
StopTerminates ==
  (lifecycle # Nobody) ~> (lifecycle = Nobody \/ OverloadStops)

-----------------------------------------------------------------------------
(***************************************************************************)
(* The pipeline implements WireQueue.  A frame leaves the queue when it is *)
(* routed, not when submitParsedMessage takes it out of the buffer.        *)
(***************************************************************************)
Queue == INSTANCE WireQueue WITH
  lossy  <- ~StopsOnOverload,
  phase  <- IF quit THEN "closed" ELSE IF fresh THEN "open" ELSE "opening",
  read   <- nextSeq,
  passed <- IF DOMAIN ready = {} THEN nextRoute
            ELSE CHOOSE s \in DOMAIN ready : \A u \in DOMAIN ready : s <= u,
  out    <- [i \in DOMAIN routed |-> routed[i].seq]

\* Workers that finish in any order, full queues that stop the endpoint or
\* drop frames, stop() in the middle of a routing loop and a restart while
\* workers of the old session still submit: what routeParsedIncoming passes
\* on is what a queue of the frames of the wire would hand on.
ImplementsWireQueue == Queue!QueueSpec
=============================================================================
