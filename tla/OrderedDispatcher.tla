-------------------------- MODULE OrderedDispatcher --------------------------
(***************************************************************************)
(* What RemoteEndPoint does with a routed message: ordinary notifications  *)
(* go through a FIFO queue to the notification thread, a request waits     *)
(* ("parked") until the notifications routed before it have completed and  *)
(* then goes to the handler pool, and notifications that were marked with  *)
(* allowConcurrentNotification go to the pool at once.  stop() may be      *)
(* called by the application, by a handler, or by the overload handler of  *)
(* one of the queues; the endpoint may be started again by the application *)
(* or by the notification handler that stopped it.                         *)
(*                                                                         *)
(* Messages arrive one at a time and in wire order, which is what          *)
(* MessageRouting guarantees; the router holds route_dispatch_mutex while  *)
(* it enqueues one.                                                        *)
(***************************************************************************)
EXTENDS Integers, FiniteSets, Sequences

CONSTANTS
  Workers,                  \* threads of the handler pool
  Main,                     \* the application thread
  Router,                   \* the thread that routes the incoming messages
  Nobody,                   \* owner of a mutex that is free
  MaxSessions,              \* bound: calls of startProcessingMessages
  MaxMessages,              \* bound: messages routed over the whole run
  Setups                    \* the endpoints and applications to consider

\* The notification thread created by session s is called s.
Loops == 1..MaxSessions

Threads == Loops \cup Workers \cup {Main, Router}

ASSUME DispatcherThreads ==
  /\ Workers \cap Loops = {}
  /\ Main \notin Loops \cup Workers
  /\ Router \notin Loops \cup Workers \cup {Main}
  /\ Nobody \notin Threads
  /\ 0 \notin Threads             \* 0 stands for no thread

(***************************************************************************)
(* A setup: the limits of the endpoint (0 means no limit), the number of   *)
(* sessions the application starts, and whether handlers call stop() and,  *)
(* from the notification thread, start the endpoint again.                 *)
(***************************************************************************)
Setup ==
  [sessions : 0..MaxSessions,
   maxNotificationQueueSize : Nat,
   maxParkedRequests : Nat,
   overloadPolicy : {"StopProcessing", "DropNewest"},
   handlersStop : BOOLEAN]

ASSUME DispatcherBounds ==
  /\ MaxSessions \in Nat
  /\ MaxMessages \in Nat
  /\ Setups \subseteq Setup

VARIABLES
  setup,      \* d_ptr->limits, and what the environment will do
  working,    \* d_ptr->working
  quit,       \* d_ptr->quit
  session,    \* number of calls of startProcessingMessages
  lifecycle,  \* owner of lifecycle_mutex
  stage,      \* where start or stop stands
  overloaded, \* the router is in handleOverload, holding route_dispatch_mutex
  thread,     \* notification_thread, 0 when it is not joinable
  detached,   \* history: notification threads that were detached
  stopFlag,   \* notification_stop
  queue,      \* notification_queue: sequence numbers
  parked,     \* parked_requests: sequence numbers, which order it, and gates
  last,       \* last_ordered_notification_seq, -1 when there is none
  completed,  \* completed_notification_seq, -1 when there is none
  lpc,        \* control state of every notification thread
  item,       \* the notification it works on
  released,   \* the requests it has taken from parked and not posted yet
  pool,       \* handler_pool: "none", "running" or "stopped"
  tasks,      \* messages posted to handler_pool and not taken yet
  wpc,        \* control state of every pool thread
  wmsg,       \* the message it works on
  nextSeq,    \* the sequence number of the next message
  base        \* history: where the numbers of this session begin

lifeVars  == <<working, quit, session, lifecycle, stage, overloaded>>
queueVars == <<stopFlag, queue, parked, last, completed>>
loopVars  == <<thread, detached, lpc, item, released>>
poolVars  == <<pool, tasks, wpc, wmsg>>
seqVars   == <<nextSeq, base>>
vars == <<setup, lifeVars, queueVars, loopVars, poolVars, seqVars>>

Kinds == {"request", "concurrent"}
Message == [seq : Nat, kind : Kinds]
NoMessage == [seq |-> 0, kind |-> "concurrent"]
Parked == [seq : Nat, gate : Nat]

\* The two flags has_last_ordered_notification and has_completed_notification
\* are the value -1 of the number they guard.
None == -1

StopsOnOverload == setup.overloadPolicy = "StopProcessing"

Init ==
  /\ setup \in Setups
  /\ working = FALSE
  /\ quit = FALSE
  /\ session = 0
  /\ lifecycle = Nobody
  /\ stage = "none"
  /\ overloaded = FALSE
  /\ thread = 0
  /\ detached = {}
  /\ stopFlag = FALSE
  /\ queue = <<>>
  /\ parked = {}
  /\ last = None
  /\ completed = None
  /\ lpc = [l \in Loops |-> "unborn"]
  /\ item = [l \in Loops |-> 0]
  /\ released = [l \in Loops |-> {}]
  /\ pool = "none"
  /\ tasks = <<>>
  /\ wpc = [w \in Workers |-> "idle"]
  /\ wmsg = [w \in Workers |-> NoMessage]
  /\ nextSeq = 0
  /\ base = 0

-----------------------------------------------------------------------------
(***************************************************************************)
(* postToWorker.  A stopped pool runs nothing that is posted to it.        *)
(***************************************************************************)
Posted(msg) == IF quit \/ pool # "running" THEN tasks ELSE Append(tasks, msg)

\* Slip: the gate is compared strictly.
GateSatisfiedLate(gate) == completed # None /\ completed > gate

notificationGateSatisfied(gate) == completed # None /\ completed >= gate

(***************************************************************************)
(* enqueueNotification, enqueueRequest, and the direct way to the pool.    *)
(* With DropNewest a message that finds its queue full disappears.         *)
(***************************************************************************)
QueueFull ==
  /\ setup.maxNotificationQueueSize # 0
  /\ Len(queue) >= setup.maxNotificationQueueSize

\* Nothing is routed before the first start, nor while the old parse pool is
\* joined and the new reader not there yet.
RouterRuns ==
  /\ ~overloaded
  /\ pool # "none" /\ stage # "startDispatcher"
  /\ nextSeq < MaxMessages

routeNotification ==
  /\ RouterRuns
  /\ nextSeq' = nextSeq + 1
  /\ ~quit
  /\ \/ /\ ~stopFlag /\ ~QueueFull
        /\ last' = nextSeq
        /\ queue' = Append(queue, nextSeq)
        /\ UNCHANGED overloaded
     \/ /\ ~stopFlag /\ QueueFull
        /\ overloaded' = StopsOnOverload
        /\ UNCHANGED <<last, queue>>
     \/ /\ stopFlag
        /\ UNCHANGED <<last, queue, overloaded>>
  /\ UNCHANGED <<setup, working, quit, session, lifecycle, stage, stopFlag, parked,
                 completed, loopVars, poolVars, base>>

\* Slip: a request is parked only while its notification is still queued.
MustParkWhileQueued == ~stopFlag /\ last # None /\ \E i \in DOMAIN queue : queue[i] = last

MustPark == ~stopFlag /\ last # None /\ ~notificationGateSatisfied(last)

ParkedFull == setup.maxParkedRequests # 0 /\ Cardinality(parked) >= setup.maxParkedRequests

routeRequest ==
  /\ RouterRuns
  /\ nextSeq' = nextSeq + 1
  /\ ~quit
  /\ \/ /\ MustPark /\ ~ParkedFull
        /\ parked' = parked \cup {[seq |-> nextSeq, gate |-> last]}
        /\ UNCHANGED <<overloaded, tasks>>
     \/ /\ MustPark /\ ParkedFull
        /\ overloaded' = StopsOnOverload
        /\ UNCHANGED <<parked, tasks>>
     \/ /\ ~MustPark
        /\ tasks' = Posted([seq |-> nextSeq, kind |-> "request"])
        /\ UNCHANGED <<overloaded, parked>>
  /\ UNCHANGED <<setup, working, quit, session, lifecycle, stage, stopFlag, queue,
                 last, completed, loopVars, pool, wpc, wmsg, base>>

routeConcurrent ==
  /\ RouterRuns
  /\ nextSeq' = nextSeq + 1
  /\ ~quit
  /\ tasks' = Posted([seq |-> nextSeq, kind |-> "concurrent"])
  /\ UNCHANGED <<setup, lifeVars, queueVars, loopVars, pool, wpc, wmsg, base>>

-----------------------------------------------------------------------------
(***************************************************************************)
(* notificationLoop, run by the thread l.                                  *)
(***************************************************************************)
Take(l) ==
  /\ lpc[l] = "waiting"
  /\ queue # <<>>
  /\ item' = [item EXCEPT ![l] = Head(queue)]
  /\ queue' = Tail(queue)
  /\ lpc' = [lpc EXCEPT ![l] = "taken"]
  /\ UNCHANGED <<setup, lifeVars, stopFlag, parked, last, completed, thread, detached,
                 released, poolVars, seqVars>>

LoopExits(l) ==
  /\ lpc[l] = "waiting"
  /\ stopFlag /\ queue = <<>>
  /\ lpc' = [lpc EXCEPT ![l] = "exited"]
  /\ UNCHANGED <<setup, lifeVars, queueVars, thread, detached, item, released,
                 poolVars, seqVars>>

\* mainLoop runs the handler unless the endpoint is stopping.
Begin(l) ==
  /\ lpc[l] = "taken"
  /\ lpc' = [lpc EXCEPT ![l] = IF quit THEN "handled" ELSE "running"]
  /\ UNCHANGED <<setup, lifeVars, queueVars, thread, detached, item, released,
                 poolVars, seqVars>>

\* The handler returns, or calls stop(), once it is not in the middle of a
\* start.
HandlerReturns(l) ==
  /\ lpc[l] = "running"
  /\ lifecycle # l
  /\ lpc' = [lpc EXCEPT ![l] = "handled"]
  /\ UNCHANGED <<setup, lifeVars, queueVars, thread, detached, item, released,
                 poolVars, seqVars>>

HandlerCallsStop(l) ==
  /\ setup.handlersStop
  /\ lpc[l] = "running"
  /\ lifecycle # l
  /\ lpc' = [lpc EXCEPT ![l] = "stopping"]
  /\ UNCHANGED <<setup, lifeVars, queueVars, thread, detached, item, released,
                 poolVars, seqVars>>

\* releaseParkedRequestsLocked: the requests whose gate is now satisfied
\* leave parked.
Complete(l) ==
  /\ lpc[l] = "handled"
  /\ completed' = item[l]
  /\ released' = [released EXCEPT ![l] = {p \in parked : item[l] >= p.gate}]
  /\ parked' = {p \in parked : item[l] < p.gate}
  /\ lpc' = [lpc EXCEPT ![l] = "posting"]
  /\ UNCHANGED <<setup, lifeVars, stopFlag, queue, last, thread, detached, item,
                 poolVars, seqVars>>

\* postReadyParkedRequests, one request at a time and in their order.
Post(l) ==
  /\ lpc[l] = "posting"
  /\ \E p \in released[l] :
       /\ \A q \in released[l] : p.seq <= q.seq
       /\ tasks' = Posted([seq |-> p.seq, kind |-> "request"])
       /\ released' = [released EXCEPT ![l] = @ \ {p}]
  /\ UNCHANGED <<setup, lifeVars, queueVars, thread, detached, lpc, item, pool, wpc,
                 wmsg, seqVars>>

PostDone(l) ==
  /\ lpc[l] = "posting"
  /\ released[l] = {}
  /\ lpc' = [lpc EXCEPT ![l] = "waiting"]
  /\ UNCHANGED <<setup, lifeVars, queueVars, thread, detached, item, released,
                 poolVars, seqVars>>

-----------------------------------------------------------------------------
(***************************************************************************)
(* The handler pool.                                                       *)
(***************************************************************************)
WorkerBegins(w) ==
  /\ wpc[w] = "idle"
  /\ pool = "running"
  /\ tasks # <<>>
  /\ tasks' = Tail(tasks)
  /\ wmsg' = [wmsg EXCEPT ![w] = IF quit THEN NoMessage ELSE Head(tasks)]
  /\ wpc' = [wpc EXCEPT ![w] = IF quit THEN "idle" ELSE "running"]
  /\ UNCHANGED <<setup, lifeVars, queueVars, loopVars, pool, seqVars>>

WorkerReturns(w) ==
  /\ wpc[w] = "running"
  /\ wpc' = [wpc EXCEPT ![w] = "idle"]
  /\ wmsg' = [wmsg EXCEPT ![w] = NoMessage]
  /\ UNCHANGED <<setup, lifeVars, queueVars, loopVars, pool, tasks, seqVars>>

WorkerCallsStop(w) ==
  /\ setup.handlersStop
  /\ wpc[w] = "running"
  /\ wpc' = [wpc EXCEPT ![w] = "stopping"]
  /\ UNCHANGED <<setup, lifeVars, queueVars, loopVars, pool, tasks, wmsg, seqVars>>

-----------------------------------------------------------------------------
(***************************************************************************)
(* stop(): Main at any time, a handler or the router when it asked for it. *)
(***************************************************************************)
CallsStop(t) ==
  \/ t = Main
  \/ t = Router /\ overloaded
  \/ t \in Loops /\ lpc[t] = "stopping"
  \/ t \in Workers /\ wpc[t] = "stopping"

\* A handler goes on, and the router leaves handleOverload.
StopReturns(t) ==
  /\ lpc' = IF t \in Loops THEN [lpc EXCEPT ![t] = "running"] ELSE lpc
  /\ wpc' = IF t \in Workers THEN [wpc EXCEPT ![t] = "running"] ELSE wpc
  /\ overloaded' = IF t = Router THEN FALSE ELSE overloaded

StopIdle(t) ==
  /\ t # Main
  /\ CallsStop(t)
  /\ lifecycle = Nobody
  /\ ~working
  /\ StopReturns(t)
  /\ UNCHANGED <<setup, working, quit, session, lifecycle, stage, queueVars, thread,
                 detached, item, released, pool, tasks, wmsg, seqVars>>

StopBegin(t) ==
  /\ CallsStop(t)
  /\ lifecycle = Nobody
  /\ working
  /\ lifecycle' = t
  /\ stage' = "stopRouting"
  /\ quit' = TRUE
  /\ UNCHANGED <<setup, working, session, overloaded, queueVars, loopVars, poolVars,
                 seqVars>>

\* clearMessageRouting waits for the router to leave route_dispatch_mutex.
StopRouting ==
  /\ stage = "stopRouting"
  /\ ~overloaded
  /\ stage' = "stopDispatcher"
  /\ UNCHANGED <<setup, working, quit, session, lifecycle, overloaded, queueVars,
                 loopVars, poolVars, seqVars>>

\* Slip: the notification thread is not told to stop.
StopDispatcherSilently ==
  /\ stage = "stopDispatcher"
  /\ queue' = <<>>
  /\ parked' = {}
  /\ stage' = "stopJoin"
  /\ UNCHANGED <<setup, working, quit, session, lifecycle, overloaded, stopFlag, last,
                 completed, loopVars, poolVars, seqVars>>

\* stopOrderedDispatcher, first part
StopDispatcher ==
  /\ stage = "stopDispatcher"
  /\ stopFlag' = TRUE
  /\ queue' = <<>>
  /\ parked' = {}
  /\ stage' = "stopJoin"
  /\ UNCHANGED <<setup, working, quit, session, lifecycle, overloaded, last,
                 completed, loopVars, poolVars, seqVars>>

\* Slip: the notification thread is left running instead of being joined.
LoopJoinedNever(t) == TRUE

\* The thread detaches itself when it is the one that stops; anybody else
\* waits for it to exit.
LoopJoined(t) == thread = 0 \/ thread = t \/ lpc[thread] = "exited"

\* ... second part, then stopWorkerPools() and the end of stop().
StopJoin(t) ==
  /\ stage = "stopJoin"
  /\ lifecycle = t
  /\ LoopJoined(t)
  /\ detached' = IF thread = t THEN detached \cup {t} ELSE detached
  /\ thread' = 0
  /\ pool' = "stopped"
  /\ tasks' = <<>>
  /\ working' = FALSE
  /\ lifecycle' = Nobody
  /\ stage' = "none"
  /\ StopReturns(t)
  /\ UNCHANGED <<setup, quit, session, queueVars, item, released, wmsg, seqVars>>

-----------------------------------------------------------------------------
(***************************************************************************)
(* startProcessingMessages(), by the application or from the notification  *)
(* handler whose call of stop() has returned.                              *)
(***************************************************************************)
StartBegin(t) ==
  /\ t # Main => lpc[t] = "running" /\ t \in detached
  /\ lifecycle = Nobody
  /\ ~working
  /\ session < setup.sessions
  /\ lifecycle' = t
  /\ stage' = "startPools"
  /\ working' = TRUE
  /\ quit' = FALSE
  /\ session' = session + 1
  /\ UNCHANGED <<setup, overloaded, queueVars, loopVars, poolVars, seqVars>>

\* Replacing a pool joins the threads of the old one.
StartPools ==
  /\ stage = "startPools"
  /\ ~overloaded
  /\ \A w \in Workers : wpc[w] = "idle"
  /\ pool' = "running"
  /\ tasks' = <<>>
  /\ stage' = "startDispatcher"
  /\ UNCHANGED <<setup, working, quit, session, lifecycle, overloaded, queueVars,
                 loopVars, wpc, wmsg, seqVars>>

\* startOrderedDispatcher and the rest of the start.
StartDispatcher ==
  /\ stage = "startDispatcher"
  /\ stopFlag' = FALSE
  /\ last' = None
  /\ completed' = None
  /\ queue' = <<>>
  /\ parked' = {}
  /\ thread' = session
  /\ base' = nextSeq
  /\ lpc' = [lpc EXCEPT ![session] = "waiting"]
  /\ lifecycle' = Nobody
  /\ stage' = "none"
  /\ UNCHANGED <<setup, working, quit, session, overloaded, detached, item, released,
                 poolVars, nextSeq>>

-----------------------------------------------------------------------------
LoopSteps(l) ==
  \/ Take(l)
  \/ LoopExits(l)
  \/ Begin(l)
  \/ HandlerReturns(l)
  \/ Complete(l)
  \/ Post(l)
  \/ PostDone(l)

WorkerSteps(w) == WorkerBegins(w) \/ WorkerReturns(w)

StopSteps == StopRouting \/ StopDispatcher \/ \E t \in Threads : StopJoin(t)

StartSteps == StartPools \/ StartDispatcher

AskedStop(t) == StopIdle(t) \/ StopBegin(t)

\* Messages, the application's calls, and what handlers choose to call.
Environment ==
  \/ routeNotification
  \/ routeRequest
  \/ routeConcurrent
  \/ StopBegin(Main)
  \/ \E t \in Loops \cup {Main} : StartBegin(t)
  \/ \E l \in Loops : HandlerCallsStop(l)
  \/ \E w \in Workers : WorkerCallsStop(w)

Next ==
  \/ Environment
  \/ StopSteps
  \/ StartSteps
  \/ \E l \in Loops : LoopSteps(l)
  \/ \E w \in Workers : WorkerSteps(w)
  \/ \E t \in Threads \ {Main} : AskedStop(t)

Spec == Init /\ [][Next]_vars

\* Threads run, and handlers return; the environment does what it likes.
Fairness ==
  /\ WF_vars(StopSteps)
  /\ WF_vars(StartSteps)
  /\ \A l \in Loops : WF_vars(LoopSteps(l))
  /\ \A w \in Workers : WF_vars(WorkerSteps(w))
  /\ \A t \in Threads \ {Main} : WF_vars(AskedStop(t))

FairSpec == Spec /\ Fairness

-----------------------------------------------------------------------------
(***************************************************************************)
(* Properties.                                                             *)
(***************************************************************************)
Stages == {"none", "startPools", "startDispatcher", "stopRouting",
           "stopDispatcher", "stopJoin"}

LoopStates == {"unborn", "waiting", "taken", "running", "stopping", "handled",
               "posting", "exited"}

\* The types of the dispatcher's fields.  A gate is always the number of a
\* notification, never the -1 of "no notification yet".
TypeOK ==
  /\ setup \in Setups
  /\ working \in BOOLEAN /\ quit \in BOOLEAN /\ overloaded \in BOOLEAN
  /\ session \in 0..MaxSessions
  /\ lifecycle \in Threads \cup {Nobody}
  /\ stage \in Stages
  /\ thread \in 0..MaxSessions
  /\ detached \subseteq Loops
  /\ stopFlag \in BOOLEAN
  /\ queue \in Seq(Nat)
  /\ parked \subseteq Parked
  /\ last \in Nat \cup {None}
  /\ completed \in Nat \cup {None}
  /\ lpc \in [Loops -> LoopStates]
  /\ item \in [Loops -> Nat]
  /\ released \in [Loops -> SUBSET Parked]
  /\ pool \in {"none", "running", "stopped"}
  /\ tasks \in Seq(Message)
  /\ wpc \in [Workers -> {"idle", "running", "stopping"}]
  /\ wmsg \in [Workers -> Message]
  /\ nextSeq \in Nat /\ base \in Nat

\* A notification of this session that was accepted and whose handler has
\* not returned yet.
InHand(l) == lpc[l] \in {"taken", "running", "stopping"}
Pending ==
  {n \in {queue[i] : i \in DOMAIN queue} \cup
         {item[l] : l \in {k \in Loops : InHand(k)}} : n >= base}

\* The gate: while a request handler runs, every ordinary notification that
\* was routed before the request in the same session has completed.
GateOrder ==
  \A w \in Workers : \A n \in Pending :
    wpc[w] # "idle" /\ wmsg[w].kind = "request" => n > wmsg[w].seq

\* The handlers of a session's ordinary notifications run one at a time.
Handles(l) == lpc[l] \in {"running", "stopping"} /\ item[l] >= base
NotificationsSerial == \A l, k \in Loops : Handles(l) /\ Handles(k) => l = k

\* completed_notification_seq never goes back within a session, so that a
\* gate that was satisfied stays satisfied.
CompletedMonotone ==
  [][session' = session /\ completed' # None => completed' >= completed]_vars

\* Every parked request is taken from parked_requests again: its
\* notification completes, or the endpoint stops.
ParkedReleased ==
  \A s \in 0..(MaxMessages - 1) :
    (\E p \in parked : p.seq = s) ~> (quit \/ ~\E p \in parked : p.seq = s)

\* stop() and startProcessingMessages() return wherever stop() is called by
\* the application alone: the threads they join come to an end.
StopTerminates ==
  (lifecycle # Nobody) ~>
    (lifecycle = Nobody \/ setup.handlersStop \/ StopsOnOverload)
=============================================================================
