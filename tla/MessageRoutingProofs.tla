------------------------ MODULE MessageRoutingProofs ------------------------
(***************************************************************************)
(* Proofs about MessageRouting, for any number of workers, sessions and    *)
(* frames and any limits.                                                  *)
(***************************************************************************)
EXTENDS MessageRouting, FiniteSetTheorems, TLAPS

(***************************************************************************)
(* TypeOK, but for the sign of parse_queue_size, which needs the count of  *)
(* the tasks that hold a slot.                                             *)
(***************************************************************************)
TypeInv ==
  /\ setup \in Setups
  /\ working \in BOOLEAN /\ quit \in BOOLEAN /\ fresh \in BOOLEAN
  /\ generation \in 0..MaxSessions
  /\ lifecycle \in Threads \cup {Main, Nobody}
  /\ stage \in Stages
  /\ reader \in 0..MaxSessions
  /\ keepRunning \in BOOLEAN /\ interrupted \in BOOLEAN
  /\ pool \in {"none", "running", "stopped"}
  /\ tasks \in Seq(Frame)
  /\ slots \in Int
  /\ nextSeq \in Nat /\ nextRoute \in Nat
  /\ DOMAIN buffer \subseteq Nat /\ buffer \in [DOMAIN buffer -> Parsed]
  /\ DOMAIN ready \subseteq Nat /\ ready \in [DOMAIN ready -> Parsed]
  /\ dispatch \in Threads \cup {Nobody}
  /\ pc \in [Threads -> ControlStates]
  /\ cur \in [Threads -> Frame]
  /\ routed \in Seq(Routed)

LEMMA SetupFields ==
  ASSUME setup \in Setups
  PROVE  /\ setup.sessions \in 0..MaxSessions
         /\ setup.frames \in 0..MaxFrames
         /\ setup.maxParseQueueSize \in Nat
         /\ setup.maxReorderBufferSize \in Nat
BY BoundAssumption DEF Setup

LEMMA TypeInit == Init => TypeInv
<1> SUFFICES ASSUME Init
             PROVE  TypeInv
  OBVIOUS
<1>1. NoFrame \in Frame /\ 0 \in 0..MaxSessions
  BY BoundAssumption DEF NoFrame, Frame
<1>2. cur \in [Threads -> Frame] /\ pc \in [Threads -> ControlStates]
  BY <1>1 DEF Init, ControlStates
<1>3. /\ DOMAIN buffer = {} /\ buffer \in [DOMAIN buffer -> Parsed]
      /\ DOMAIN ready = {} /\ ready \in [DOMAIN ready -> Parsed]
  BY DEF Init, Empty
<1>4. tasks \in Seq(Frame) /\ routed \in Seq(Routed)
  BY DEF Init
<1>5. /\ working \in BOOLEAN /\ quit \in BOOLEAN /\ fresh \in BOOLEAN
      /\ keepRunning \in BOOLEAN /\ interrupted \in BOOLEAN
  BY DEF Init
<1>6. /\ slots \in Int /\ nextSeq \in Nat /\ nextRoute \in Nat
      /\ generation \in 0..MaxSessions /\ reader \in 0..MaxSessions
  BY <1>1 DEF Init
<1>7. /\ setup \in Setups
      /\ lifecycle \in Threads \cup {Main, Nobody}
      /\ dispatch \in Threads \cup {Nobody}
      /\ stage \in Stages
      /\ pool \in {"none", "running", "stopped"}
  BY DEF Init, Stages
<1> QED
  BY <1>2, <1>3, <1>4, <1>5, <1>6, <1>7 DEF TypeInv

\* The message that is buffered by submitParsedMessage, and the buffer.
LEMMA FilledType ==
  ASSUME TypeInv, NEW t \in Threads
  PROVE  /\ DOMAIN Filled(t) = DOMAIN buffer \cup {cur[t].seq}
         /\ DOMAIN Filled(t) \subseteq Nat
         /\ Filled(t) \in [DOMAIN Filled(t) -> Parsed]
<1>1. cur[t] \in Frame
  BY DEF TypeInv
<1>2. Submitted(t) \in Parsed
  BY <1>1 DEF Submitted, Parsed, Frame, ReorderBufferFull
<1> QED
  BY <1>1, <1>2 DEF Filled, TypeInv, Frame

LEMMA SubmitType ==
  ASSUME TypeInv, NEW t \in Threads, Submit(t)
  PROVE  TypeInv'
<1>1. PICK gap \in nextRoute..nextSeq :
        /\ nextRoute..(gap - 1) \subseteq DOMAIN Filled(t)
        /\ nextRoute' = gap
        /\ ready' = Restrict(Filled(t), nextRoute..(gap - 1))
        /\ buffer' = Restrict(Filled(t), DOMAIN Filled(t) \ (nextRoute..(gap - 1)))
        /\ dispatch' = IF gap = nextRoute THEN Nobody ELSE t
        /\ pc' = [pc EXCEPT ![t] =
                    IF gap = nextRoute THEN AfterSubmit(t) ELSE "routing"]
  BY DEF Submit
<1>2. /\ DOMAIN ready' \subseteq Nat
      /\ ready' \in [DOMAIN ready' -> Parsed]
  BY <1>1, FilledType DEF Restrict, TypeInv
<1>3. /\ DOMAIN buffer' \subseteq Nat
      /\ buffer' \in [DOMAIN buffer' -> Parsed]
  BY <1>1, FilledType DEF Restrict, TypeInv
<1>4. nextRoute' \in Nat /\ dispatch' \in Threads \cup {Nobody}
  BY <1>1 DEF TypeInv
<1>5. pc' \in [Threads -> ControlStates]
  BY <1>1 DEF TypeInv, AfterSubmit, ControlStates
<1> QED
  BY <1>2, <1>3, <1>4, <1>5 DEF Submit, TypeInv, lifeVars, inputVars, poolVars

LEMMA RouteFirstType ==
  ASSUME TypeInv, RouteFirst
  PROVE  /\ DOMAIN ready' \subseteq Nat
         /\ ready' \in [DOMAIN ready' -> Parsed]
         /\ routed' \in Seq(Routed)
<1>1. PICK s \in DOMAIN ready :
        /\ ready' = Restrict(ready, DOMAIN ready \ {s})
        /\ routed' = IF quit \/ ~ready[s].ok THEN routed
                     ELSE Append(routed, [seq |-> s, from |-> ready[s].from,
                                          session |-> generation, fresh |-> fresh])
  BY DEF RouteFirst
<1>2. ready[s] \in Parsed /\ s \in Nat
  BY DEF TypeInv
<1>3. [seq |-> s, from |-> ready[s].from, session |-> generation, fresh |-> fresh]
        \in Routed
  BY <1>2 DEF TypeInv, Routed, Parsed
<1> QED
  BY <1>1, <1>3 DEF Restrict, TypeInv

LEMMA StopReturnsType ==
  ASSUME TypeInv, NEW t, StopReturns(t)
  PROVE  pc' \in [Threads -> ControlStates]
<1>1. AfterStop(t) \in ControlStates
  BY DEF AfterStop, ControlStates
<1> QED
  BY <1>1 DEF StopReturns, TypeInv

LEMMA StartStopType ==
  ASSUME TypeInv,
         \/ StartBegin \/ StartPools \/ StartReader \/ StopSteps
         \/ \E t \in Threads \cup {Main} : StopIdle(t) \/ StopBegin(t)
  PROVE  TypeInv'
<1> USE DEF TypeInv, Stages, lifeVars, inputVars, poolVars, routingVars
<1>1. CASE StartBegin
  <2>1. setup.sessions \in 0..MaxSessions /\ MaxSessions \in Nat
    BY SetupFields, BoundAssumption
  <2>2. generation' \in 0..MaxSessions
    BY <1>1, <2>1 DEF StartBegin
  <2> QED
    BY <1>1, <2>2 DEF StartBegin
<1>2. CASE StartPools
  BY <1>2 DEF StartPools
<1>3. CASE StartReader
  <2>1. pc' \in [Threads -> ControlStates]
    BY <1>3 DEF StartReader, ControlStates
  <2> QED
    BY <1>3, <2>1 DEF StartReader, Empty, Parsed
<1>4. CASE StopRouting
  BY <1>4 DEF StopRouting, Empty, Parsed
<1>5. CASE StopInput
  BY <1>5 DEF StopInput
<1>6. CASE StopPools
  BY <1>6 DEF StopPools
<1>7. ASSUME NEW t \in Threads \cup {Main}, StopJoin(t)
      PROVE  TypeInv'
  <2>1. pc' \in [Threads -> ControlStates]
    BY <1>7, StopReturnsType DEF StopJoin
  <2>2. reader' \in 0..MaxSessions
    BY <1>7, BoundAssumption DEF StopJoin
  <2>3. working' \in BOOLEAN /\ lifecycle' \in Threads \cup {Main, Nobody}
    BY <1>7 DEF StopJoin
  <2> QED
    BY <1>7, <2>1, <2>2, <2>3 DEF StopJoin
<1>8. ASSUME NEW t \in Threads \cup {Main}, StopIdle(t)
      PROVE  TypeInv'
  BY <1>8, StopReturnsType DEF StopIdle
<1>9. ASSUME NEW t \in Threads \cup {Main}, StopBegin(t)
      PROVE  TypeInv'
  BY <1>9 DEF StopBegin
<1> QED
  BY <1>1, <1>2, <1>3, <1>4, <1>5, <1>6, <1>7, <1>8, <1>9 DEF StopSteps

LEMMA ReaderType ==
  ASSUME TypeInv, NEW r \in Readers,
         \/ ReaderSteps(r) \/ ReadHeader(r) \/ ReadBody(r)
         \/ ReadOversizedHeader(r) \/ ReadEof(r)
  PROVE  TypeInv'
<1> USE DEF TypeInv, ControlStates, lifeVars, inputVars, poolVars, routingVars
<1>0. r \in Threads /\ r \in 0..MaxSessions
  BY BoundAssumption DEF Threads, Readers
<1>1. CASE Listen(r)
  BY <1>1, <1>0 DEF Listen
<1>2. CASE AwaitHeader(r)
  BY <1>2, <1>0 DEF AwaitHeader
<1>3. CASE ReadHeader(r)
  BY <1>3, <1>0 DEF ReadHeader
<1>4. CASE ReadOversizedHeader(r)
  BY <1>4, <1>0 DEF ReadOversizedHeader
<1>5. CASE ReadBody(r)
  <2>1. [seq |-> nextSeq, from |-> r, in |-> 0] \in Frame
    BY <1>0, BoundAssumption DEF Frame
  <2> QED
    BY <1>5, <1>0, <2>1 DEF ReadBody
<1>6. CASE ReadEof(r) \/ ReadInterrupted(r) \/ ReadAborted(r)
  BY <1>6, <1>0 DEF ReadEof, ReadInterrupted, ReadAborted, ReaderEnds
<1>7. CASE PostDropped(r)
  <2>1. NoFrame \in Frame
    BY BoundAssumption DEF Frame, NoFrame
  <2> QED
    BY <1>7, <1>0, <2>1 DEF PostDropped
<1>8. CASE PostOverload(r)
  BY <1>8, <1>0 DEF PostOverload
<1>9. CASE PostParseTask(r)
  <2>1. NoFrame \in Frame
    BY BoundAssumption DEF Frame, NoFrame
  <2>2. [cur[r] EXCEPT !.in = generation] \in Frame
    BY <1>0 DEF Frame
  <2>3. tasks' \in Seq(Frame)
    BY <1>9, <2>2 DEF PostParseTask
  <2> QED
    BY <1>9, <1>0, <2>1, <2>3 DEF PostParseTask
<1> QED
  BY <1>1, <1>2, <1>3, <1>4, <1>5, <1>6, <1>7, <1>8, <1>9 DEF ReaderSteps

LEMMA WorkerType ==
  ASSUME TypeInv, NEW w \in Workers, WorkerSteps(w)
  PROVE  TypeInv'
<1> USE DEF TypeInv, ControlStates, lifeVars, inputVars, poolVars, routingVars
<1>0. w \in Threads
  BY DEF Threads
<1>1. CASE TakeTask(w)
  <2>1. Head(tasks) \in Frame /\ Tail(tasks) \in Seq(Frame)
    BY <1>1 DEF TakeTask
  <2> QED
    BY <1>1, <1>0, <2>1 DEF TakeTask
<1>2. CASE ReleaseSlot(w)
  <2>1. NoFrame \in Frame
    BY BoundAssumption DEF Frame, NoFrame
  <2> QED
    BY <1>2, <1>0, <2>1 DEF ReleaseSlot
<1> QED
  BY <1>1, <1>2 DEF WorkerSteps

LEMMA RoutingType ==
  ASSUME TypeInv, NEW t \in Threads, SubmitSteps(t) \/ RouteOverload(t)
  PROVE  TypeInv'
<1> USE DEF TypeInv, ControlStates, lifeVars, inputVars, poolVars, routingVars
<1>1. CASE SubmitAfterQuit(t)
  BY <1>1 DEF SubmitAfterQuit, AfterSubmit
<1>2. CASE SubmitOverload(t)
  BY <1>2 DEF SubmitOverload
<1>3. CASE Submit(t)
  BY <1>3, SubmitType
<1>4. CASE Route(t)
  BY <1>4, RouteFirstType DEF Route
<1>5. CASE RouteOverload(t)
  BY <1>5, RouteFirstType DEF RouteOverload
<1>6. CASE RouteDone(t)
  BY <1>6 DEF RouteDone, AfterSubmit
<1> QED
  BY <1>1, <1>2, <1>3, <1>4, <1>5, <1>6 DEF SubmitSteps

LEMMA TypeNext == TypeInv /\ [Next]_vars => TypeInv'
<1> SUFFICES ASSUME TypeInv, [Next]_vars
             PROVE  TypeInv'
  OBVIOUS
<1>1. CASE UNCHANGED vars
  BY <1>1 DEF TypeInv, vars, lifeVars, inputVars, poolVars, routingVars
<1>2. CASE Next
  BY <1>2, StartStopType, ReaderType, WorkerType, RoutingType
     DEF Next, Environment, OverloadSteps
<1> QED
  BY <1>1, <1>2

-----------------------------------------------------------------------------
(***************************************************************************)
(* The order of routing.  What is ready to be routed lies between what has *)
(* been routed and nextRoute, and only the owner of route_dispatch_mutex   *)
(* has anything ready.                                                     *)
(***************************************************************************)
RouteOrder ==
  /\ nextRoute <= nextSeq
  /\ dispatch = Nobody => DOMAIN ready = {}
  /\ \A s \in DOMAIN ready : s < nextRoute
  /\ \A i \in DOMAIN routed : routed[i].seq < nextRoute
  /\ \A i \in DOMAIN routed : \A s \in DOMAIN ready : routed[i].seq < s
  /\ RoutedInWireOrder

LEMMA RouteOrderInit == Init => RouteOrder
BY DEF Init, RouteOrder, RoutedInWireOrder, Empty

LEMMA RoutedSeqs ==
  ASSUME TypeInv, NEW i \in DOMAIN routed
  PROVE  routed[i] \in Routed /\ routed[i].seq \in Nat
<1>1. routed[i] \in Routed
  BY DEF TypeInv
<1> QED
  BY <1>1 DEF Routed

\* A step that leaves the routing state alone, but may number a frame.
LEMMA RouteOrderUntouched ==
  ASSUME TypeInv, RouteOrder, UNCHANGED routingVars, nextSeq' \in Nat, nextSeq <= nextSeq'
  PROVE  RouteOrder'
BY DEF RouteOrder, RoutedInWireOrder, routingVars, TypeInv

LEMMA SubmitOrder ==
  ASSUME TypeInv, RouteOrder, NEW t \in Threads, Submit(t)
  PROVE  RouteOrder'
<1>1. PICK gap \in nextRoute..nextSeq :
        /\ nextRoute' = gap
        /\ ready' = Restrict(Filled(t), nextRoute..(gap - 1))
        /\ dispatch' = IF gap = nextRoute THEN Nobody ELSE t
  BY DEF Submit
<1>2. routed' = routed /\ nextSeq' = nextSeq /\ nextRoute \in Nat /\ nextSeq \in Nat
  BY DEF Submit, inputVars, TypeInv
<1>3. DOMAIN ready' = nextRoute..(gap - 1)
  BY <1>1 DEF Restrict
<1>4. dispatch' = Nobody => DOMAIN ready' = {}
  <2>1. t # Nobody
    BY ThreadAssumption
  <2> QED
    BY <1>1, <1>2, <1>3, <2>1
<1>5. \A i \in DOMAIN routed : routed[i].seq \in Nat /\ routed[i].seq < nextRoute
  BY RoutedSeqs DEF RouteOrder
<1>6. \A s \in DOMAIN ready' : nextRoute <= s /\ s < gap
  BY <1>2, <1>3
<1>7. \A i \in DOMAIN routed : \A s \in DOMAIN ready' : routed[i].seq < s
  BY <1>2, <1>3, <1>5
<1>8. \A i \in DOMAIN routed : routed[i].seq < gap
  BY <1>2, <1>5
<1> QED
  BY <1>1, <1>2, <1>4, <1>6, <1>7, <1>8 DEF RouteOrder, RoutedInWireOrder

LEMMA RouteFirstOrder ==
  ASSUME TypeInv, RouteOrder, RouteFirst, UNCHANGED <<nextRoute, nextSeq, dispatch>>
  PROVE  RouteOrder'
<1>1. PICK s \in DOMAIN ready :
        /\ \A u \in DOMAIN ready : s <= u
        /\ ready' = Restrict(ready, DOMAIN ready \ {s})
        /\ \/ routed' = routed
           \/ routed' = Append(routed, [seq |-> s, from |-> ready[s].from,
                                        session |-> generation, fresh |-> fresh])
  BY DEF RouteFirst
<1>2. DOMAIN ready' = DOMAIN ready \ {s}
  BY <1>1 DEF Restrict
<1>3. s \in Nat /\ s < nextRoute /\ DOMAIN ready \subseteq Nat
  BY DEF TypeInv, RouteOrder
<1>4. \A u \in DOMAIN ready' : s < u
  BY <1>1, <1>2, <1>3
<1>5. dispatch' = Nobody => DOMAIN ready' = {}
  BY <1>2 DEF RouteOrder
<1>6. CASE routed' = routed
  BY <1>2, <1>5, <1>6 DEF RouteOrder, RoutedInWireOrder
<1>7. CASE routed' = Append(routed, [seq |-> s, from |-> ready[s].from,
                                     session |-> generation, fresh |-> fresh])
  <2>1. routed \in Seq(Routed)
    BY DEF TypeInv
  <2>2. /\ DOMAIN routed = 1..Len(routed)
        /\ DOMAIN routed' = 1..(Len(routed) + 1)
        /\ Len(routed) \in Nat
        /\ \A i \in 1..Len(routed) : routed'[i] = routed[i]
        /\ routed'[Len(routed) + 1].seq = s
    BY <1>7, <2>1
  <2>3. \A i \in 1..Len(routed) : routed'[i].seq \in Nat /\ routed'[i].seq < s
    BY <2>2, RoutedSeqs DEF RouteOrder
  <2>4. \A i \in DOMAIN routed' : routed'[i].seq < nextRoute
    BY <1>3, <2>2, <2>3 DEF TypeInv
  <2>5. \A i \in DOMAIN routed' : \A u \in DOMAIN ready' : routed'[i].seq < u
    BY <1>2, <1>3, <1>4, <2>2, <2>3
  <2>6. \A i, j \in DOMAIN routed' : i < j => routed'[i].seq < routed'[j].seq
    BY <2>2, <2>3 DEF RouteOrder, RoutedInWireOrder
  <2> QED
    BY <1>2, <1>5, <2>4, <2>5, <2>6 DEF RouteOrder, RoutedInWireOrder
<1> QED
  BY <1>1, <1>6, <1>7

LEMMA RouteOrderNext == TypeInv /\ RouteOrder /\ [Next]_vars => RouteOrder'
<1> SUFFICES ASSUME TypeInv, RouteOrder, [Next]_vars
             PROVE  RouteOrder'
  OBVIOUS
<1>0. nextSeq \in Nat /\ nextRoute \in Nat /\ nextRoute <= nextSeq
  BY DEF TypeInv, RouteOrder
<1>1. ASSUME NEW t \in Threads, Submit(t)
      PROVE  RouteOrder'
  BY <1>1, SubmitOrder
<1>2. ASSUME NEW t \in Threads, Route(t) \/ RouteOverload(t)
      PROVE  RouteOrder'
  BY <1>2, RouteFirstOrder DEF Route, RouteOverload, inputVars
<1>3. ASSUME NEW t \in Threads, RouteDone(t)
      PROVE  RouteOrder'
  BY <1>3 DEF RouteDone, RouteOrder, RoutedInWireOrder, inputVars
<1>4. CASE StartReader
  <2>1. /\ nextRoute' = nextSeq /\ nextSeq' = nextSeq
        /\ UNCHANGED <<dispatch, ready, routed>>
        /\ DOMAIN ready = {}
    BY <1>4 DEF StartReader, inputVars, RouteOrder
  <2>2. \A i \in DOMAIN routed : routed[i].seq < nextSeq
    BY <1>0, RoutedSeqs DEF RouteOrder
  <2> QED
    BY <1>0, <2>1, <2>2 DEF RouteOrder, RoutedInWireOrder
<1>5. CASE StopRouting
  BY <1>5 DEF StopRouting, inputVars, RouteOrder, RoutedInWireOrder
<1>6. ASSUME NEW r \in Readers, ReadBody(r)
      PROVE  RouteOrder'
  BY <1>0, <1>6, RouteOrderUntouched DEF ReadBody
<1>7. CASE UNCHANGED <<nextSeq, routingVars>>
  BY <1>0, <1>7, RouteOrderUntouched
<1> QED
  BY <1>1, <1>2, <1>3, <1>4, <1>5, <1>6, <1>7
     DEF Next, Environment, StopSteps, ReaderSteps, SubmitSteps, WorkerSteps,
         OverloadSteps, vars, inputVars, StartBegin, StartPools, StopIdle, StopBegin, StopInput,
         StopPools, StopJoin, Listen, AwaitHeader, ReadHeader,
         ReadOversizedHeader, ReaderEnds, ReadEof, ReadInterrupted, ReadAborted,
         PostDropped, PostOverload, PostParseTask, TakeTask, ReleaseSlot,
         SubmitAfterQuit, SubmitOverload

\* Whatever order the parse pool finishes in, and whatever the overload
\* handlers, stop() and restarts do, routeParsedIncoming sees the frames in
\* the order in which the reader numbered them.
THEOREM WireOrder == Spec => []RoutedInWireOrder
<1>1. Init => TypeInv /\ RouteOrder
  BY TypeInit, RouteOrderInit
<1>2. TypeInv /\ RouteOrder /\ [Next]_vars => TypeInv' /\ RouteOrder'
  BY TypeNext, RouteOrderNext
<1>3. RouteOrder => RoutedInWireOrder
  BY DEF RouteOrder
<1> QED
  BY <1>1, <1>2, <1>3, PTL DEF Spec

-----------------------------------------------------------------------------
(***************************************************************************)
(* The parse queue.  A thread that holds lifecycle_mutex is in the         *)
(* overload handler that called stop(), so a worker that returns from      *)
(* stop() was not idle.                                                    *)
(***************************************************************************)
Stoppers ==
  \A t \in Threads : lifecycle = t => pc[t] \in {"overload", "oversize"}

LEMMA StoppersInit == Init => Stoppers
BY ThreadAssumption DEF Init, Stoppers

LEMMA StoppersNext == TypeInv /\ Stoppers /\ [Next]_vars => Stoppers'
<1> SUFFICES ASSUME TypeInv, Stoppers, [Next]_vars
             PROVE  Stoppers'
  OBVIOUS
<1> USE DEF Stoppers, TypeInv, lifeVars
<1>0. Main \notin Threads /\ Nobody \notin Threads /\ Readers \subseteq Threads
      /\ Workers \subseteq Threads
  BY ThreadAssumption DEF Threads
<1>1. CASE StartBegin \/ StartPools \/ StartReader
  BY <1>0, <1>1 DEF StartBegin, StartPools, StartReader
<1>2. CASE StopRouting \/ StopInput \/ StopPools
  BY <1>2 DEF StopRouting, StopInput, StopPools
<1>3. ASSUME NEW t \in Threads \cup {Main}, StopJoin(t) \/ StopIdle(t)
      PROVE  Stoppers'
  BY <1>0, <1>3 DEF StopJoin, StopIdle
<1>4. ASSUME NEW t \in Threads \cup {Main}, StopBegin(t)
      PROVE  Stoppers'
  BY <1>0, <1>4 DEF StopBegin, CallsStop
<1>5. ASSUME NEW r \in Readers,
             \/ Listen(r) \/ AwaitHeader(r) \/ ReadHeader(r) \/ ReadBody(r)
             \/ ReadOversizedHeader(r) \/ PostDropped(r) \/ PostOverload(r)
             \/ PostParseTask(r)
      PROVE  Stoppers'
  BY <1>0, <1>5 DEF Listen, AwaitHeader, ReadHeader, ReadBody, ReadOversizedHeader,
     PostDropped, PostOverload, PostParseTask
<1>6. ASSUME NEW r \in Readers, ReadEof(r) \/ ReadInterrupted(r) \/ ReadAborted(r)
      PROVE  Stoppers'
  BY <1>0, <1>6 DEF ReadEof, ReadInterrupted, ReadAborted, ReaderEnds
<1>7. ASSUME NEW w \in Workers, TakeTask(w) \/ ReleaseSlot(w)
      PROVE  Stoppers'
  BY <1>0, <1>7 DEF TakeTask, ReleaseSlot
<1>8. ASSUME NEW t \in Threads,
             \/ SubmitAfterQuit(t) \/ SubmitOverload(t) \/ Submit(t)
             \/ Route(t) \/ RouteOverload(t) \/ RouteDone(t)
      PROVE  Stoppers'
  BY <1>8 DEF SubmitAfterQuit, SubmitOverload, Submit, Route, RouteOverload, RouteDone
<1>9. CASE UNCHANGED vars
  BY <1>9 DEF vars
<1> QED
  BY <1>1, <1>2, <1>3, <1>4, <1>5, <1>6, <1>7, <1>8, <1>9
     DEF Next, Environment, StopSteps, ReaderSteps, WorkerSteps, SubmitSteps,
         OverloadSteps

\* No other step makes a worker busy or idle.
SameIdle == \A w \in Workers : (pc'[w] = "idle") <=> (pc[w] = "idle")

LEMMA IdleKept ==
  ASSUME TypeInv, Stoppers, [Next]_vars,
         ~ \E w \in Workers : TakeTask(w) \/ ReleaseSlot(w)
  PROVE  SameIdle
<1> USE DEF SameIdle, TypeInv
<1>0. /\ Main \notin Threads /\ Workers \subseteq Threads
      /\ \A r \in Readers : r \in Threads /\ r \notin Workers
      /\ generation \notin Workers
  BY ThreadAssumption, BoundAssumption DEF Threads, Readers
<1>1. CASE StartBegin \/ StartPools \/ StartReader
  BY <1>0, <1>1 DEF StartBegin, StartPools, StartReader
<1>2. CASE StopRouting \/ StopInput \/ StopPools
  BY <1>2 DEF StopRouting, StopInput, StopPools
<1>3. ASSUME NEW t \in Threads \cup {Main}, StopJoin(t) \/ StopIdle(t)
      PROVE  SameIdle
  <2>1. t \in Threads => pc[t] \in {"overload", "oversize"}
    BY <1>0, <1>3 DEF StopJoin, StopIdle, CallsStop, Stoppers
  <2>2. AfterStop(t) # "idle"
    BY DEF AfterStop
  <2>3. StopReturns(t)
    BY <1>3 DEF StopJoin, StopIdle
  <2> QED
    BY <1>0, <2>1, <2>2, <2>3 DEF StopReturns
<1>4. ASSUME NEW t \in Threads \cup {Main}, StopBegin(t)
      PROVE  SameIdle
  BY <1>4 DEF StopBegin
<1>5. ASSUME NEW r \in Readers,
             \/ Listen(r) \/ AwaitHeader(r) \/ ReadHeader(r) \/ ReadBody(r)
             \/ ReadOversizedHeader(r) \/ PostDropped(r) \/ PostOverload(r)
             \/ PostParseTask(r)
      PROVE  SameIdle
  BY <1>0, <1>5 DEF Listen, AwaitHeader, ReadHeader, ReadBody, ReadOversizedHeader,
     PostDropped, PostOverload, PostParseTask
<1>6. ASSUME NEW r \in Readers, ReadEof(r) \/ ReadInterrupted(r) \/ ReadAborted(r)
      PROVE  SameIdle
  BY <1>0, <1>6 DEF ReadEof, ReadInterrupted, ReadAborted, ReaderEnds
<1>7. ASSUME NEW t \in Threads,
             \/ SubmitAfterQuit(t) \/ SubmitOverload(t) \/ Submit(t)
             \/ Route(t) \/ RouteOverload(t) \/ RouteDone(t)
      PROVE  SameIdle
  BY <1>0, <1>7 DEF SubmitAfterQuit, SubmitOverload, Submit, Route, RouteOverload,
     RouteDone, AfterSubmit
<1>8. CASE UNCHANGED vars
  BY <1>8 DEF vars
<1> QED
  BY <1>1, <1>2, <1>3, <1>4, <1>5, <1>6, <1>7, <1>8
     DEF Next, Environment, StopSteps, ReaderSteps, WorkerSteps, SubmitSteps,
         OverloadSteps

Busy == {w \in Workers : pc[w] # "idle"}

LEMMA BusyFinite == IsFiniteSet(Busy) /\ Cardinality(Busy) \in Nat
<1>1. IsFiniteSet(Busy)
  BY FS_Subset, ThreadAssumption DEF Busy
<1> QED
  BY <1>1, FS_CardinalityType

LEMMA SlotsInit == Init => SlotsCoverBacklog
<1> SUFFICES ASSUME Init
             PROVE  SlotsCoverBacklog
  OBVIOUS
<1>1. {w \in Workers : pc[w] # "idle"} = {}
  BY DEF Init, Threads
<1> QED
  BY <1>1, FS_EmptySet DEF Init, SlotsCoverBacklog, Backlog

LEMMA SlotsNext ==
  TypeInv /\ Stoppers /\ SlotsCoverBacklog /\ [Next]_vars => SlotsCoverBacklog'
<1> SUFFICES ASSUME TypeInv, Stoppers, SlotsCoverBacklog, [Next]_vars
             PROVE  SlotsCoverBacklog'
  OBVIOUS
<1>1. /\ Backlog = Len(tasks) + Cardinality(Busy)
      /\ Backlog' = Len(tasks') + Cardinality(Busy')
  BY DEF Backlog, Busy
<1>2. /\ IsFiniteSet(Busy) /\ Cardinality(Busy) \in Nat
      /\ Cardinality(Busy') \in Nat
      /\ slots \in Int /\ tasks \in Seq(Frame) /\ Len(tasks) \in Nat
  <2>1. /\ IsFiniteSet(Busy) /\ Cardinality(Busy) \in Nat
        /\ tasks \in Seq(Frame) /\ slots \in Int
    BY BusyFinite DEF TypeInv
  <2>2. IsFiniteSet(Busy')
    BY FS_Subset, ThreadAssumption DEF Busy
  <2> QED
    BY <2>1, <2>2, FS_CardinalityType
<1>3. ASSUME NEW w \in Workers, TakeTask(w)
      PROVE  SlotsCoverBacklog'
  <2>1. Busy' = Busy \cup {w} /\ w \notin Busy
    BY <1>3 DEF TakeTask, Busy, TypeInv, Threads
  <2>2. Cardinality(Busy') = Cardinality(Busy) + 1
    BY <1>2, <2>1, FS_AddElement
  <2>3. Len(tasks') = Len(tasks) - 1 /\ slots' = slots
    BY <1>2, <1>3 DEF TakeTask
  <2> QED
    BY <1>1, <1>2, <2>2, <2>3 DEF SlotsCoverBacklog
<1>4. ASSUME NEW w \in Workers, ReleaseSlot(w)
      PROVE  SlotsCoverBacklog'
  <2>1. Busy' = Busy \ {w} /\ w \in Busy
    BY <1>4 DEF ReleaseSlot, Busy, TypeInv, Threads
  <2>2. Cardinality(Busy') = Cardinality(Busy) - 1
    BY <1>2, <2>1, FS_RemoveElement
  <2>3. tasks' = tasks /\ slots' = slots - 1
    BY <1>4 DEF ReleaseSlot
  <2> QED
    BY <1>1, <1>2, <2>2, <2>3 DEF SlotsCoverBacklog
<1>5. CASE ~ \E w \in Workers : TakeTask(w) \/ ReleaseSlot(w)
  <2>1. Busy' = Busy
    BY <1>5, IdleKept DEF SameIdle, Busy
  <2>2. CASE StartPools \/ StopPools
    <3>1. slots' = slots /\ Len(tasks') = 0
      BY <2>2 DEF StartPools, StopPools
    <3> QED
      BY <1>1, <1>2, <2>1, <3>1 DEF SlotsCoverBacklog
  <2>3. ASSUME NEW r \in Readers, PostParseTask(r)
        PROVE  SlotsCoverBacklog'
    <3>1. slots' = slots + 1
      BY <2>3 DEF PostParseTask
    <3>2. \/ tasks' = tasks
          \/ tasks' = Append(tasks, [cur[r] EXCEPT !.in = generation])
      BY <2>3 DEF PostParseTask
    <3>3. cur[r] \in Frame /\ [cur[r] EXCEPT !.in = generation] \in Frame
      <4>1. cur[r] \in Frame /\ generation \in 0..MaxSessions
        BY DEF TypeInv, Threads
      <4> QED
        BY <4>1 DEF Frame
    <3>4. Len(tasks') <= Len(tasks) + 1 /\ Len(tasks') \in Nat
      BY <1>2, <3>2, <3>3
    <3> QED
      BY <1>1, <1>2, <2>1, <3>1, <3>4 DEF SlotsCoverBacklog
  <2>4. CASE UNCHANGED <<slots, tasks>>
    BY <1>1, <2>1, <2>4 DEF SlotsCoverBacklog
  <2> QED
    BY <1>5, <2>2, <2>3, <2>4
       DEF Next, Environment, StopSteps, ReaderSteps, SubmitSteps, WorkerSteps,
           OverloadSteps, vars, poolVars, StartBegin, StartReader, StopIdle,
           StopBegin, StopRouting, StopInput, StopJoin, Listen, AwaitHeader,
           ReadHeader, ReadBody, ReadOversizedHeader, ReaderEnds, ReadEof,
           ReadInterrupted, ReadAborted, PostDropped, PostOverload,
           SubmitAfterQuit, SubmitOverload, Submit, Route, RouteOverload, RouteDone
<1> QED
  BY <1>3, <1>4, <1>5

\* parse_queue_size never counts fewer parse tasks than are queued or
\* running, through stop(), abandoned tasks and restarts: the limit of
\* acquireParseQueueSlot is never exceeded.
THEOREM BacklogCovered == Spec => []SlotsCoverBacklog
<1>1. Init => TypeInv /\ Stoppers /\ SlotsCoverBacklog
  BY TypeInit, StoppersInit, SlotsInit
<1>2. TypeInv /\ Stoppers /\ SlotsCoverBacklog /\ [Next]_vars
        => (TypeInv /\ Stoppers /\ SlotsCoverBacklog)'
  BY TypeNext, StoppersNext, SlotsNext
<1> QED
  BY <1>1, <1>2, PTL DEF Spec

\* The fields of RemoteEndPoint::Data hold what their types say; in
\* particular the unsigned parse_queue_size never wraps below zero.
THEOREM TypeCorrect == Spec => []TypeOK
<1>1. Init => TypeInv /\ Stoppers /\ SlotsCoverBacklog
  BY TypeInit, StoppersInit, SlotsInit
<1>2. TypeInv /\ Stoppers /\ SlotsCoverBacklog /\ [Next]_vars
        => (TypeInv /\ Stoppers /\ SlotsCoverBacklog)'
  BY TypeNext, StoppersNext, SlotsNext
<1>3. TypeInv /\ SlotsCoverBacklog => TypeOK
  <2> SUFFICES ASSUME TypeInv, SlotsCoverBacklog
               PROVE  TypeOK
    OBVIOUS
  <2>1. tasks \in Seq(Frame) /\ Len(tasks) \in Nat /\ slots \in Int
    BY DEF TypeInv
  <2>2. Backlog \in Nat
    BY <2>1, BusyFinite DEF Backlog, Busy
  <2>3. slots \in Nat
    BY <2>1, <2>2 DEF SlotsCoverBacklog
  <2> QED
    BY <2>3 DEF TypeInv, TypeOK
<1> QED
  BY <1>1, <1>2, <1>3, PTL DEF Spec

-----------------------------------------------------------------------------
(***************************************************************************)
(* stop() and the reorder buffer.                                          *)
(***************************************************************************)
LEMMA QuietInit == Init => QuietAfterClear
BY DEF Init, QuietAfterClear, Empty

LEMMA QuietNext == RouteOrder /\ QuietAfterClear /\ [Next]_vars => QuietAfterClear'
<1> SUFFICES ASSUME RouteOrder, QuietAfterClear, [Next]_vars
             PROVE  QuietAfterClear'
  OBVIOUS
<1> USE DEF QuietAfterClear
<1>1. CASE StartBegin \/ (\E t \in Threads \cup {Main} : StopBegin(t))
  BY <1>1 DEF StartBegin, StopBegin
<1>2. CASE StopRouting \/ StartReader
  BY <1>2 DEF StopRouting, StartReader, RouteOrder, Empty
<1>3. ASSUME NEW t \in Threads, Submit(t)
      PROVE  QuietAfterClear'
  BY <1>3 DEF Submit, lifeVars
<1>4. ASSUME NEW t \in Threads, Route(t) \/ RouteOverload(t)
      PROVE  QuietAfterClear'
  BY <1>4 DEF Route, RouteOverload, RouteFirst, lifeVars
<1>5. CASE UNCHANGED <<quit, stage, buffer, ready>>
  BY <1>5
<1>6. CASE /\ StartPools \/ StopInput \/ StopPools
              \/ \E t \in Threads \cup {Main} : StopJoin(t)
  BY <1>6 DEF StartPools, StopInput, StopPools, StopJoin, routingVars
<1> QED
  BY <1>1, <1>2, <1>3, <1>4, <1>5, <1>6
     DEF Next, Environment, StopSteps, ReaderSteps, SubmitSteps, WorkerSteps,
         OverloadSteps, vars, lifeVars, routingVars, StopIdle, Listen,
         AwaitHeader, ReadHeader, ReadBody, ReadOversizedHeader, ReaderEnds,
         ReadEof, ReadInterrupted, ReadAborted, PostDropped, PostOverload,
         PostParseTask, TakeTask, ReleaseSlot, SubmitAfterQuit, SubmitOverload,
         RouteDone

\* Once clear() is past clearMessageRouting, no frame of the session waits in
\* the reorder buffer or in a routing loop until the next start.
THEOREM StopQuiets == Spec => []QuietAfterClear
<1>1. Init => TypeInv /\ RouteOrder /\ QuietAfterClear
  BY TypeInit, RouteOrderInit, QuietInit
<1>2. TypeInv /\ RouteOrder /\ QuietAfterClear /\ [Next]_vars
        => (TypeInv /\ RouteOrder /\ QuietAfterClear)'
  BY TypeNext, RouteOrderNext, QuietNext
<1> QED
  BY <1>1, <1>2, PTL DEF Spec

Waiting == {s \in DOMAIN buffer : buffer[s].ok}

BufferInv == IsFiniteSet(DOMAIN buffer) /\ ReorderBufferBounded

LEMMA BufferInit == Init => BufferInv
<1> SUFFICES ASSUME Init
             PROVE  BufferInv
  OBVIOUS
<1>1. DOMAIN buffer = {} /\ {s \in DOMAIN buffer : buffer[s].ok} = {}
  BY DEF Init, Empty
<1>2. setup.maxReorderBufferSize \in Nat
  BY SetupFields DEF Init
<1> QED
  BY <1>1, <1>2, FS_EmptySet DEF BufferInv, ReorderBufferBounded

LEMMA SubmitBuffer ==
  ASSUME TypeInv, BufferInv, NEW t \in Threads, Submit(t)
  PROVE  BufferInv'
<1> DEFINE n == cur[t].seq
           limit == setup.maxReorderBufferSize
<1>1. PICK gap \in nextRoute..nextSeq :
        /\ gap \notin DOMAIN Filled(t)
        /\ buffer' = Restrict(Filled(t), DOMAIN Filled(t) \ (nextRoute..(gap - 1)))
  BY DEF Submit
<1>2. DOMAIN Filled(t) = DOMAIN buffer \cup {n}
  BY FilledType
<1>3. /\ DOMAIN buffer' \subseteq DOMAIN buffer \cup {n}
      /\ \A s \in DOMAIN buffer' :
           /\ buffer'[s] = IF s = n THEN Submitted(t) ELSE buffer[s]
           /\ s \notin nextRoute..(gap - 1)
  BY <1>1, <1>2 DEF Restrict, Filled
<1>4. /\ IsFiniteSet(DOMAIN buffer \cup {n})
      /\ Cardinality(DOMAIN buffer \cup {n}) <= Cardinality(DOMAIN buffer) + 1
      /\ Cardinality(DOMAIN buffer) \in Nat
      /\ Cardinality(DOMAIN buffer \cup {n}) \in Nat
  <2> HIDE DEF n
  <2>1. IsFiniteSet(DOMAIN buffer)
    BY DEF BufferInv
  <2>2. /\ IsFiniteSet(DOMAIN buffer \cup {n})
        /\ Cardinality(DOMAIN buffer \cup {n}) =
             IF n \in DOMAIN buffer THEN Cardinality(DOMAIN buffer)
                                    ELSE Cardinality(DOMAIN buffer) + 1
    BY <2>1, FS_AddElement, Zenon
  <2>3. Cardinality(DOMAIN buffer) \in Nat
    BY <2>1, FS_CardinalityType
  <2> QED
    BY <2>2, <2>3
<1>5. IsFiniteSet(DOMAIN buffer')
  BY <1>3, <1>4, FS_Subset
<1>6. /\ IsFiniteSet(Waiting) /\ Cardinality(Waiting) \in Nat
      /\ IsFiniteSet(Waiting') /\ Cardinality(Waiting') \in Nat
  <2>1. Waiting \subseteq DOMAIN buffer /\ Waiting' \subseteq DOMAIN buffer'
    BY DEF Waiting
  <2>2. IsFiniteSet(Waiting) /\ IsFiniteSet(Waiting')
    BY <1>5, <2>1, FS_Subset DEF BufferInv
  <2> QED
    BY <2>2, FS_CardinalityType
<1>7. limit \in Nat /\ setup' = setup /\ (limit # 0 => Cardinality(Waiting) <= limit)
  BY SetupFields DEF Submit, TypeInv, BufferInv, ReorderBufferBounded, Waiting
<1>8. CASE ~Submitted(t).ok
  <2>1. Waiting' \subseteq Waiting
    BY <1>3, <1>8 DEF Waiting
  <2>2. Cardinality(Waiting') <= Cardinality(Waiting)
    BY <1>6, <2>1, FS_Subset
  <2> QED
    BY <1>5, <1>6, <1>7, <2>2 DEF BufferInv, ReorderBufferBounded, Waiting
<1>9. CASE n = nextRoute
  <2>1. nextRoute \in nextRoute..(gap - 1)
    BY <1>1, <1>2, <1>9 DEF TypeInv
  <2>2. Waiting' \subseteq Waiting
    BY <1>3, <1>9, <2>1 DEF Waiting
  <2>3. Cardinality(Waiting') <= Cardinality(Waiting)
    BY <1>6, <2>2, FS_Subset
  <2> QED
    BY <1>5, <1>6, <1>7, <2>3 DEF BufferInv, ReorderBufferBounded, Waiting
<1>10. CASE limit # 0 => Cardinality(DOMAIN buffer) < limit
  <2>1. Waiting' \subseteq DOMAIN buffer \cup {n}
    BY <1>3 DEF Waiting
  <2>2. Cardinality(Waiting') <= Cardinality(DOMAIN buffer \cup {n})
    BY <1>4, <2>1, FS_Subset
  <2>3. limit # 0 => Cardinality(Waiting') <= limit
    BY <1>4, <1>6, <1>7, <1>10, <2>2
  <2> QED
    BY <1>5, <1>7, <2>3 DEF BufferInv, ReorderBufferBounded, Waiting
<1>11. \/ ~Submitted(t).ok \/ n = nextRoute
       \/ limit # 0 => Cardinality(DOMAIN buffer) < limit
  <2>1. Submitted(t).ok => ~ReorderBufferFull(t) /\ t \in Workers
    BY DEF Submitted
  <2>2. ~ReorderBufferFull(t) /\ t \in Workers =>
          n = nextRoute \/ limit = 0 \/ ~(Cardinality(DOMAIN buffer) >= limit)
    BY DEF ReorderBufferFull
  <2> QED
    BY <1>4, <1>7, <2>1, <2>2
<1> QED
  BY <1>8, <1>9, <1>10, <1>11

LEMMA BufferNext == TypeInv /\ BufferInv /\ [Next]_vars => BufferInv'
<1> SUFFICES ASSUME TypeInv, BufferInv, [Next]_vars
             PROVE  BufferInv'
  OBVIOUS
<1>1. ASSUME NEW t \in Threads, Submit(t)
      PROVE  BufferInv'
  BY <1>1, SubmitBuffer
<1>2. CASE StopRouting \/ StartReader
  <2>1. /\ setup' = setup /\ DOMAIN buffer' = {}
        /\ {s \in DOMAIN buffer' : buffer'[s].ok} = {}
    BY <1>2 DEF StopRouting, StartReader, Empty
  <2>2. setup.maxReorderBufferSize \in Nat
    BY SetupFields DEF TypeInv
  <2> QED
    BY <2>1, <2>2, FS_EmptySet DEF BufferInv, ReorderBufferBounded
<1>3. CASE UNCHANGED <<setup, buffer>>
  BY <1>3 DEF BufferInv, ReorderBufferBounded
<1> QED
  BY <1>1, <1>2, <1>3
     DEF Next, Environment, StopSteps, ReaderSteps, SubmitSteps, WorkerSteps,
         OverloadSteps, vars, routingVars, StartBegin, StartPools, StopIdle,
         StopBegin, StopInput, StopPools, StopJoin, Listen, AwaitHeader, ReadHeader,
         ReadBody, ReadOversizedHeader, ReaderEnds, ReadEof, ReadInterrupted,
         ReadAborted, PostDropped, PostOverload, PostParseTask, TakeTask,
         ReleaseSlot, SubmitAfterQuit, SubmitOverload, Route, RouteOverload,
         RouteDone

\* max_reorder_buffer_size bounds the messages that wait in reorder_buffer,
\* whatever the placeholders of dropped frames and stale numbers do.
THEOREM BufferBounded == Spec => []ReorderBufferBounded
<1>1. Init => TypeInv /\ BufferInv
  BY TypeInit, BufferInit
<1>2. TypeInv /\ BufferInv /\ [Next]_vars => (TypeInv /\ BufferInv)'
  BY TypeNext, BufferNext
<1>3. BufferInv => ReorderBufferBounded
  BY DEF BufferInv
<1> QED
  BY <1>1, <1>2, <1>3, PTL DEF Spec

-----------------------------------------------------------------------------
(***************************************************************************)
(* No frame is skipped.  A period is the time in which generation and      *)
(* fresh do not change.  Under StopProcessing there are no placeholders,   *)
(* what is ready reaches up to nextRoute without a gap, and within a       *)
(* period it begins right after the last routed frame.                     *)
(***************************************************************************)
PeriodsPast ==
  /\ \A i \in DOMAIN routed :
       /\ routed[i].session <= generation
       /\ routed[i].session = generation /\ routed[i].fresh => fresh
  /\ stage \in {"startPools", "startReader"} => ~fresh

ReadersDontSubmit == \A r \in Readers : pc[r] # "submit"

NoPlaceholders ==
  /\ \A s \in DOMAIN buffer : buffer[s].ok
  /\ \A s \in DOMAIN ready : ready[s].ok

ReadyReachesUp ==
  \A s \in DOMAIN ready : \A u \in s..(nextRoute - 1) : u \in DOMAIN ready

ThisPeriod(i) == routed[i].session = generation /\ routed[i].fresh = fresh

ReadyFollowsLast ==
  \A i \in DOMAIN routed :
    i = Len(routed) /\ ThisPeriod(i) /\ ~quit =>
      routed[i].seq + 1 = nextRoute \/ routed[i].seq + 1 \in DOMAIN ready

Contiguous ==
  \A i \in DOMAIN routed : \A j \in DOMAIN routed :
    /\ j = i + 1
    /\ routed[i].session = routed[j].session
    /\ routed[i].fresh = routed[j].fresh
    => routed[j].seq = routed[i].seq + 1

SkipInv ==
  /\ PeriodsPast
  /\ StopsOnOverload =>
       /\ ReadersDontSubmit
       /\ NoPlaceholders
       /\ ReadyReachesUp
       /\ ReadyFollowsLast
       /\ Contiguous

LEMMA SkipInit == Init => SkipInv
<1> SUFFICES ASSUME Init
             PROVE  SkipInv
  OBVIOUS
<1>1. routed = <<>> /\ DOMAIN buffer = {} /\ DOMAIN ready = {} /\ stage = "none"
  BY DEF Init, Empty
<1>2. ReadersDontSubmit
  BY DEF Init, ReadersDontSubmit, Threads
<1> QED
  BY <1>1, <1>2 DEF SkipInv, PeriodsPast, NoPlaceholders, ReadyReachesUp,
     ReadyFollowsLast, Contiguous

LEMMA RoutedFields ==
  ASSUME TypeInv, NEW i \in DOMAIN routed
  PROVE  /\ routed[i].seq \in Nat
         /\ routed[i].session \in 0..MaxSessions
         /\ routed[i].fresh \in BOOLEAN
<1>1. routed[i] \in Routed
  BY DEF TypeInv
<1> QED
  BY <1>1 DEF Routed

\* What routeParsedIncoming appends.
LEMMA RouteFirstAppends ==
  ASSUME TypeInv, NEW e \in Routed, routed' = Append(routed, e)
  PROVE  /\ DOMAIN routed = 1..Len(routed)
         /\ DOMAIN routed' = 1..(Len(routed) + 1)
         /\ Len(routed) \in Nat /\ Len(routed') = Len(routed) + 1
         /\ \A i \in 1..Len(routed) : routed'[i] = routed[i]
         /\ routed'[Len(routed) + 1] = e
<1>1. routed \in Seq(Routed)
  BY DEF TypeInv
<1> QED
  BY <1>1

LEMMA PeriodsNext == TypeInv /\ PeriodsPast /\ [Next]_vars => PeriodsPast'
<1> SUFFICES ASSUME TypeInv, PeriodsPast, [Next]_vars
             PROVE  PeriodsPast'
  OBVIOUS
<1>0. generation \in Nat /\ \A i \in DOMAIN routed : routed[i].session \in Nat
  BY RoutedFields, BoundAssumption DEF TypeInv
<1>1. CASE StartBegin
  <2>1. routed' = routed /\ generation' = generation + 1 /\ ~fresh'
    BY <1>1 DEF StartBegin, routingVars
  <2> QED
    BY <1>0, <2>1 DEF PeriodsPast
<1>2. CASE StartReader
  BY <1>2 DEF StartReader, PeriodsPast
<1>3. ASSUME NEW t \in Threads, Route(t) \/ RouteOverload(t)
      PROVE  PeriodsPast'
  <2>1. PICK s \in DOMAIN ready :
          \/ routed' = routed
          \/ routed' = Append(routed, [seq |-> s, from |-> ready[s].from,
                                       session |-> generation, fresh |-> fresh])
    BY <1>3 DEF Route, RouteOverload, RouteFirst
  <2>2. generation' = generation /\ fresh' = fresh /\ stage' = stage
    BY <1>3 DEF Route, RouteOverload, lifeVars
  <2>3. CASE routed' = routed
    BY <2>2, <2>3 DEF PeriodsPast
  <2>4. CASE routed' = Append(routed, [seq |-> s, from |-> ready[s].from,
                                       session |-> generation, fresh |-> fresh])
    <3>1. [seq |-> s, from |-> ready[s].from, session |-> generation,
           fresh |-> fresh] \in Routed
      <4>1. ready[s] \in Parsed /\ s \in Nat
        BY DEF TypeInv
      <4> QED
        BY <4>1 DEF TypeInv, Routed, Parsed
    <3> QED
      BY <1>0, <2>2, <2>4, <3>1, RouteFirstAppends DEF PeriodsPast
  <2> QED
    BY <2>1, <2>3, <2>4
<1>4. CASE UNCHANGED <<routed, generation, fresh>>
           /\ (stage' \in {"startPools", "startReader"}
                 => stage \in {"startPools", "startReader"})
  BY <1>4 DEF PeriodsPast
<1> QED
  BY <1>1, <1>2, <1>3, <1>4
     DEF Next, Environment, StopSteps, ReaderSteps, SubmitSteps, WorkerSteps,
         OverloadSteps, vars, lifeVars, routingVars, StartPools, StopIdle,
         StopBegin, StopRouting, StopInput, StopPools, StopJoin, Listen,
         AwaitHeader, ReadHeader, ReadBody, ReadOversizedHeader, ReaderEnds,
         ReadEof, ReadInterrupted, ReadAborted, PostDropped, PostOverload,
         PostParseTask, TakeTask, ReleaseSlot, SubmitAfterQuit, SubmitOverload,
         Submit, RouteDone

LEMMA ReadersNext ==
  ASSUME TypeInv, StopsOnOverload, ReadersDontSubmit, [Next]_vars
  PROVE  ReadersDontSubmit'
<1> USE DEF ReadersDontSubmit, TypeInv
<1>0. /\ Readers \subseteq Threads /\ Workers \subseteq Threads
      /\ \A w \in Workers : w \notin Readers
  BY ThreadAssumption, BoundAssumption DEF Threads, Readers
<1>1. CASE StartReader
  BY <1>0, <1>1 DEF StartReader
<1>2. ASSUME NEW t \in Threads \cup {Main}, StopJoin(t) \/ StopIdle(t)
      PROVE  ReadersDontSubmit'
  BY <1>0, <1>2 DEF StopJoin, StopIdle, StopReturns, AfterStop
<1>3. ASSUME NEW r \in Readers,
             \/ Listen(r) \/ AwaitHeader(r) \/ ReadHeader(r) \/ ReadBody(r)
             \/ ReadOversizedHeader(r) \/ PostDropped(r) \/ PostOverload(r)
             \/ PostParseTask(r)
      PROVE  ReadersDontSubmit'
  BY <1>0, <1>3 DEF Listen, AwaitHeader, ReadHeader, ReadBody, ReadOversizedHeader,
     PostDropped, PostOverload, PostParseTask
<1>4. ASSUME NEW r \in Readers, ReadEof(r) \/ ReadInterrupted(r) \/ ReadAborted(r)
      PROVE  ReadersDontSubmit'
  BY <1>0, <1>4 DEF ReadEof, ReadInterrupted, ReadAborted, ReaderEnds
<1>5. ASSUME NEW w \in Workers, TakeTask(w) \/ ReleaseSlot(w)
      PROVE  ReadersDontSubmit'
  BY <1>0, <1>5 DEF TakeTask, ReleaseSlot
<1>6. ASSUME NEW t \in Threads,
             \/ SubmitAfterQuit(t) \/ SubmitOverload(t) \/ Submit(t)
             \/ Route(t) \/ RouteOverload(t) \/ RouteDone(t)
      PROVE  ReadersDontSubmit'
  BY <1>0, <1>6 DEF SubmitAfterQuit, SubmitOverload, Submit, Route, RouteOverload,
     RouteDone, AfterSubmit
<1>7. CASE UNCHANGED pc
  BY <1>7
<1> QED
  BY <1>1, <1>2, <1>3, <1>4, <1>5, <1>6, <1>7
     DEF Next, Environment, StopSteps, ReaderSteps, SubmitSteps, WorkerSteps,
         OverloadSteps, vars, StartBegin, StartPools, StopBegin, StopRouting,
         StopInput, StopPools

\* The conjuncts that speak of the frames.
FramesFollow ==
  NoPlaceholders /\ ReadyReachesUp /\ ReadyFollowsLast /\ Contiguous

LEMMA SubmitFollows ==
  ASSUME TypeInv, RouteOrder, StopsOnOverload, ReadersDontSubmit, FramesFollow,
         NEW t \in Threads, Submit(t)
  PROVE  FramesFollow'
<1>1. PICK gap \in nextRoute..nextSeq :
        /\ nextRoute..(gap - 1) \subseteq DOMAIN Filled(t)
        /\ nextRoute' = gap
        /\ ready' = Restrict(Filled(t), nextRoute..(gap - 1))
        /\ buffer' = Restrict(Filled(t), DOMAIN Filled(t) \ (nextRoute..(gap - 1)))
  BY DEF Submit
<1>2. nextRoute \in Nat /\ gap \in Nat /\ nextRoute <= gap
  BY <1>1 DEF TypeInv
<1>3. /\ dispatch = Nobody /\ ~quit /\ pc[t] = "submit" /\ ~ReorderBufferFull(t)
      /\ UNCHANGED <<routed, generation, fresh, quit>>
  BY DEF Submit, lifeVars
<1>4. Submitted(t).ok
  BY <1>3 DEF Submitted, ReadersDontSubmit, Threads
<1>5. \A s \in DOMAIN Filled(t) : Filled(t)[s].ok
  BY <1>4 DEF Filled, FramesFollow, NoPlaceholders
<1>6. NoPlaceholders'
  BY <1>1, <1>5 DEF NoPlaceholders, Restrict
<1>7. DOMAIN ready = {} /\ DOMAIN ready' = nextRoute..(gap - 1)
  BY <1>1, <1>3 DEF Restrict, RouteOrder
<1>8. ReadyReachesUp'
  BY <1>1, <1>2, <1>7 DEF ReadyReachesUp
<1>9. ReadyFollowsLast'
  BY <1>1, <1>2, <1>3, <1>7 DEF ReadyFollowsLast, FramesFollow, ThisPeriod
<1> QED
  BY <1>3, <1>6, <1>8, <1>9 DEF FramesFollow, Contiguous

LEMMA RouteFollows ==
  ASSUME TypeInv, RouteOrder, FramesFollow, RouteFirst,
         UNCHANGED <<nextRoute, buffer, generation, fresh, quit>>
  PROVE  FramesFollow'
<1>1. PICK s \in DOMAIN ready :
        /\ \A u \in DOMAIN ready : s <= u
        /\ ready' = Restrict(ready, DOMAIN ready \ {s})
        /\ routed' = IF quit \/ ~ready[s].ok THEN routed
                     ELSE Append(routed, [seq |-> s, from |-> ready[s].from,
                                          session |-> generation, fresh |-> fresh])
  BY DEF RouteFirst
<1>2. /\ DOMAIN ready' = DOMAIN ready \ {s}
      /\ \A u \in DOMAIN ready' : ready'[u] = ready[u]
  BY <1>1 DEF Restrict
<1>3. /\ s \in Nat /\ s < nextRoute /\ DOMAIN ready \subseteq Nat
      /\ nextRoute \in Nat
  BY DEF TypeInv, RouteOrder
<1>4. NoPlaceholders'
  BY <1>2 DEF FramesFollow, NoPlaceholders
<1>5. ReadyReachesUp'
  BY <1>1, <1>2, <1>3 DEF FramesFollow, ReadyReachesUp
<1>6. CASE quit
  BY <1>1, <1>4, <1>5, <1>6 DEF FramesFollow, ReadyFollowsLast, Contiguous
<1>7. CASE ~quit
  <2> DEFINE e == [seq |-> s, from |-> ready[s].from, session |-> generation,
                   fresh |-> fresh]
             n == Len(routed)
  <2>1. routed' = Append(routed, e)
    BY <1>1, <1>7 DEF FramesFollow, NoPlaceholders
  <2>2. e \in Routed
    <3>1. ready[s] \in Parsed
      BY DEF TypeInv
    <3> QED
      BY <1>3, <3>1 DEF TypeInv, Routed, Parsed
  <2>3. e.seq = s /\ e.session = generation /\ e.fresh = fresh
    OBVIOUS
  <2> HIDE DEF e
  <2>4. /\ DOMAIN routed = 1..n /\ DOMAIN routed' = 1..(n + 1)
        /\ n \in Nat /\ Len(routed') = n + 1
        /\ \A i \in 1..n : routed'[i] = routed[i]
        /\ routed'[n + 1] = e
    BY <2>1, <2>2, RouteFirstAppends
  <2> HIDE DEF n
  <2>5. s + 1 = nextRoute \/ s + 1 \in DOMAIN ready'
    BY <1>2, <1>3 DEF FramesFollow, ReadyReachesUp
  <2>6. ReadyFollowsLast'
    BY <2>3, <2>4, <2>5 DEF ReadyFollowsLast
  <2>7. ASSUME n \in DOMAIN routed, ThisPeriod(n)
        PROVE  s = routed[n].seq + 1
    <3>1. routed[n].seq \in Nat /\ routed[n].seq < s
      BY <2>7, RoutedSeqs DEF RouteOrder
    <3>2. routed[n].seq + 1 = nextRoute \/ routed[n].seq + 1 \in DOMAIN ready
      BY <1>7, <2>7 DEF FramesFollow, ReadyFollowsLast, n
    <3> QED
      BY <1>1, <1>3, <3>1, <3>2
  <2>8. Contiguous'
    <3> SUFFICES ASSUME NEW i \in DOMAIN routed', NEW j \in DOMAIN routed',
                        j = i + 1,
                        routed'[i].session = routed'[j].session,
                        routed'[i].fresh = routed'[j].fresh
                 PROVE  routed'[j].seq = routed'[i].seq + 1
      BY DEF Contiguous
    <3>1. i \in 1..n
      BY <2>4
    <3>2. CASE j \in 1..n
      BY <2>4, <3>1, <3>2 DEF FramesFollow, Contiguous
    <3>3. CASE j = n + 1
      <4>1. i = n /\ routed'[i] = routed[n] /\ routed'[j] = e
        BY <2>4, <3>1, <3>3
      <4>2. ThisPeriod(n)
        BY <2>3, <4>1 DEF ThisPeriod
      <4> QED
        BY <2>3, <2>4, <2>7, <3>1, <4>1, <4>2
    <3> QED
      BY <2>4, <3>2, <3>3
  <2> QED
    BY <1>4, <1>5, <2>6, <2>8 DEF FramesFollow
<1> QED
  BY <1>6, <1>7

LEMMA FollowsNext ==
  ASSUME TypeInv, RouteOrder, PeriodsPast, StopsOnOverload, ReadersDontSubmit,
         FramesFollow, [Next]_vars
  PROVE  FramesFollow'
<1>0. generation \in Nat /\ \A i \in DOMAIN routed : routed[i].session \in Nat
  BY RoutedFields, BoundAssumption DEF TypeInv
<1>1. ASSUME NEW t \in Threads, Submit(t)
      PROVE  FramesFollow'
  BY <1>1, SubmitFollows
<1>2. ASSUME NEW t \in Threads, Route(t) \/ RouteOverload(t)
      PROVE  FramesFollow'
  BY <1>2, RouteFollows DEF Route, RouteOverload, lifeVars
<1>3. CASE StartBegin
  <2>1. UNCHANGED <<buffer, ready, nextRoute, routed>> /\ generation' = generation + 1
    BY <1>3 DEF StartBegin, routingVars
  <2>2. \A i \in DOMAIN routed : ~ThisPeriod(i)'
    BY <1>0, <2>1 DEF PeriodsPast, ThisPeriod
  <2> QED
    BY <2>1, <2>2 DEF FramesFollow, NoPlaceholders, ReadyReachesUp, ReadyFollowsLast,
       Contiguous
<1>4. CASE StartReader
  <2>1. /\ UNCHANGED <<ready, routed, generation>>
        /\ DOMAIN buffer' = {} /\ DOMAIN ready = {} /\ ~fresh /\ fresh'
    BY <1>4 DEF StartReader, RouteOrder, Empty, PeriodsPast
  <2>2. \A i \in DOMAIN routed : ~ThisPeriod(i)'
    BY <2>1 DEF PeriodsPast, ThisPeriod
  <2> QED
    BY <2>1, <2>2 DEF FramesFollow, NoPlaceholders, ReadyReachesUp, ReadyFollowsLast,
       Contiguous
<1>5. CASE StopRouting
  BY <1>5 DEF StopRouting, FramesFollow, NoPlaceholders, ReadyReachesUp,
     ReadyFollowsLast, ThisPeriod, Contiguous, Empty
<1>6. CASE /\ UNCHANGED <<nextRoute, buffer, ready, routed, generation, fresh>>
           /\ quit' = quit \/ quit'
  BY <1>6 DEF FramesFollow, NoPlaceholders, ReadyReachesUp, ReadyFollowsLast,
     ThisPeriod, Contiguous
<1> QED
  BY <1>1, <1>2, <1>3, <1>4, <1>5, <1>6
     DEF Next, Environment, StopSteps, ReaderSteps, SubmitSteps, WorkerSteps,
         OverloadSteps, vars, lifeVars, routingVars, StartPools, StopIdle,
         StopBegin, StopInput, StopPools, StopJoin, Listen, AwaitHeader,
         ReadHeader, ReadBody, ReadOversizedHeader, ReaderEnds, ReadEof,
         ReadInterrupted, ReadAborted, PostDropped, PostOverload, PostParseTask,
         TakeTask, ReleaseSlot, SubmitAfterQuit, SubmitOverload, RouteDone

\* Under StopProcessing the frames that routeParsedIncoming passes on in one
\* period of a session follow one another without a gap: the reorder buffer
\* loses no frame that the pool has parsed.
THEOREM FramesContiguous == Spec => []NoFrameSkipped
<1>1. Init => TypeInv /\ RouteOrder /\ SkipInv
  BY TypeInit, RouteOrderInit, SkipInit
<1>2. SkipInv /\ TypeInv /\ RouteOrder /\ [Next]_vars => SkipInv'
  <2> SUFFICES ASSUME SkipInv, TypeInv, RouteOrder, [Next]_vars
               PROVE  SkipInv'
    OBVIOUS
  <2>1. PeriodsPast'
    BY PeriodsNext DEF SkipInv
  <2>2. StopsOnOverload' = StopsOnOverload
    <3>1. setup' = setup
      BY DEF Next, Environment, StopSteps, ReaderSteps, SubmitSteps, WorkerSteps,
         OverloadSteps, vars, StartBegin, StartPools, StartReader, StopIdle,
         StopBegin, StopRouting, StopInput, StopPools, StopJoin, Listen,
         AwaitHeader, ReadHeader, ReadBody, ReadOversizedHeader, ReaderEnds,
         ReadEof, ReadInterrupted, ReadAborted, PostDropped, PostOverload,
         PostParseTask, TakeTask, ReleaseSlot, SubmitAfterQuit, SubmitOverload,
         Submit, Route, RouteOverload, RouteDone
    <3> QED
      BY <3>1 DEF StopsOnOverload
  <2>3. ASSUME StopsOnOverload
        PROVE  ReadersDontSubmit' /\ FramesFollow'
    BY <2>3, ReadersNext, FollowsNext DEF SkipInv, FramesFollow
  <2> QED
    BY <2>1, <2>2, <2>3 DEF SkipInv, FramesFollow
<1>3. SkipInv => NoFrameSkipped
  BY DEF SkipInv, Contiguous, NoFrameSkipped
<1> QED
  BY <1>1, <1>2, <1>3, TypeNext, RouteOrderNext, PTL DEF Spec

-----------------------------------------------------------------------------
(***************************************************************************)
(* The pipeline implements WireQueue.  The mapping follows the numbers: a  *)
(* routing loop passes the frames one by one from nextRoute before the     *)
(* submission to nextRoute after it, so what is ready must reach up to     *)
(* nextRoute without a gap under either policy; and the flags say in which *)
(* order a session closes, is begun again and opens.                       *)
(***************************************************************************)
Passed ==
  IF DOMAIN ready = {} THEN nextRoute
  ELSE CHOOSE s \in DOMAIN ready : \A u \in DOMAIN ready : s <= u

Phase == IF quit THEN "closed" ELSE IF fresh THEN "open" ELSE "opening"

Handed == [i \in DOMAIN routed |-> routed[i].seq]

\* Every stage belongs to a holder of lifecycle_mutex; quit is raised by the
\* stages of stop() and down during those of startProcessingMessages().
LifeInv ==
  /\ stage # "none" => lifecycle # Nobody
  /\ stage \in {"stopRouting", "stopInput", "stopPools", "stopJoin"} => quit
  /\ stage \in {"startPools", "startReader"} => working /\ ~quit /\ ~fresh
  /\ ~quit /\ fresh => working

LEMMA LifeInit == Init => LifeInv
BY DEF Init, LifeInv

LEMMA LifeNext == TypeInv /\ LifeInv /\ [Next]_vars => LifeInv'
<1> SUFFICES ASSUME TypeInv, LifeInv, [Next]_vars
             PROVE  LifeInv'
  OBVIOUS
<1> USE DEF LifeInv
<1>0. Main # Nobody /\ \A t \in Threads : t # Nobody
  BY ThreadAssumption
<1>1. CASE StartBegin
  BY <1>0, <1>1 DEF StartBegin
<1>2. CASE StartPools \/ StartReader
  <2>1. working /\ working' /\ ~quit /\ ~quit'
    BY <1>2 DEF StartPools, StartReader
  <2>2. stage' = "none" \/ (stage' = "startReader" /\ ~fresh' /\ lifecycle' # Nobody)
    BY <1>2 DEF StartPools, StartReader
  <2> QED
    BY <2>1, <2>2
<1>3. CASE StopRouting \/ StopInput \/ StopPools
  BY <1>3 DEF StopRouting, StopInput, StopPools
<1>4. ASSUME NEW t \in Threads \cup {Main}, StopJoin(t)
      PROVE  LifeInv'
  BY <1>4 DEF StopJoin
<1>5. ASSUME NEW t \in Threads \cup {Main}, StopBegin(t)
      PROVE  LifeInv'
  BY <1>0, <1>5 DEF StopBegin
<1>6. CASE UNCHANGED lifeVars
  BY <1>6 DEF lifeVars
<1> QED
  BY <1>1, <1>2, <1>3, <1>4, <1>5, <1>6
     DEF Next, Environment, StopSteps, ReaderSteps, SubmitSteps, WorkerSteps,
         OverloadSteps, vars, StopIdle, Listen, AwaitHeader, ReadHeader, ReadBody,
         ReadOversizedHeader, ReaderEnds, ReadEof, ReadInterrupted, ReadAborted,
         PostDropped, PostOverload, PostParseTask, TakeTask, ReleaseSlot,
         SubmitAfterQuit, SubmitOverload, Submit, Route, RouteOverload, RouteDone

\* What is ready is found by its first frame.
LEMMA PassedIsFirst ==
  ASSUME NEW S \in SUBSET Nat, NEW s \in S, \A u \in S : s <= u
  PROVE  (CHOOSE v \in S : \A u \in S : v <= u) = s
<1>1. \A v \in S : (\A u \in S : v <= u) => v = s
  OBVIOUS
<1> QED
  BY <1>1

LEMMA AppendDef ==
  ASSUME NEW S, NEW q \in Seq(S), NEW e \in S
  PROVE  Append(q, e) = [i \in 1..(Len(q) + 1) |-> IF i = Len(q) + 1 THEN e ELSE q[i]]
<1>1. /\ Len(q) \in Nat
      /\ Append(q, e) \in Seq(S)
      /\ Len(Append(q, e)) = Len(q) + 1
      /\ \A i \in 1..(Len(q) + 1) : Append(q, e)[i] = IF i = Len(q) + 1 THEN e ELSE q[i]
  OBVIOUS
<1> DEFINE a == Append(q, e)
<1>2. DOMAIN a = 1..(Len(q) + 1) /\ a = [i \in DOMAIN a |-> a[i]]
  <2>1. a \in Seq(S) /\ Len(a) = Len(q) + 1
    BY <1>1
  <2> HIDE DEF a
  <2> QED
    BY <2>1
<1> HIDE DEF a
<1>3. \A i \in 1..(Len(q) + 1) : a[i] = IF i = Len(q) + 1 THEN e ELSE q[i]
  BY <1>1 DEF a
<1>4. a = [i \in 1..(Len(q) + 1) |-> IF i = Len(q) + 1 THEN e ELSE q[i]]
  BY <1>2, <1>3
<1> QED
  BY <1>4 DEF a

\* What is ready reaches up to nextRoute; where no frame is dropped nothing in
\* the buffer or in the routing loop is a placeholder.
ReadyInv ==
  /\ ReadyReachesUp
  /\ StopsOnOverload => ReadersDontSubmit /\ NoPlaceholders

LEMMA ReadyInit == Init => ReadyInv
BY SkipInit DEF SkipInv, ReadyInv, ReadyReachesUp, Init, Empty

LEMMA SubmitReady ==
  ASSUME TypeInv, RouteOrder, ReadyInv, NEW t \in Threads, Submit(t)
  PROVE  /\ ReadyReachesUp'
         /\ StopsOnOverload => NoPlaceholders'
         /\ Passed' = Passed
<1>1. PICK gap \in nextRoute..nextSeq :
        /\ nextRoute..(gap - 1) \subseteq DOMAIN Filled(t)
        /\ nextRoute' = gap
        /\ ready' = Restrict(Filled(t), nextRoute..(gap - 1))
        /\ buffer' = Restrict(Filled(t), DOMAIN Filled(t) \ (nextRoute..(gap - 1)))
  BY DEF Submit
<1>2. nextRoute \in Nat /\ gap \in Nat /\ nextRoute <= gap
  BY <1>1 DEF TypeInv
<1>3. DOMAIN ready = {} /\ DOMAIN ready' = nextRoute..(gap - 1)
  BY <1>1 DEF Restrict, RouteOrder, Submit
<1>4. ReadyReachesUp'
  BY <1>1, <1>2, <1>3 DEF ReadyReachesUp
<1>5. ASSUME StopsOnOverload
      PROVE  NoPlaceholders'
  <2>1. pc[t] = "submit" /\ ~ReorderBufferFull(t)
    BY <1>5 DEF Submit
  <2>2. Submitted(t).ok
    BY <1>5, <2>1 DEF Submitted, ReadyInv, ReadersDontSubmit, Threads
  <2>3. \A s \in DOMAIN Filled(t) : Filled(t)[s].ok
    BY <1>5, <2>2 DEF Filled, ReadyInv, NoPlaceholders
  <2> QED
    BY <1>1, <2>3 DEF NoPlaceholders, Restrict
<1>6. Passed' = nextRoute
  <2>1. CASE gap = nextRoute
    BY <1>1, <1>2, <1>3, <2>1 DEF Passed
  <2>2. CASE gap # nextRoute
    <3>1. /\ DOMAIN ready' \in SUBSET Nat /\ nextRoute \in DOMAIN ready'
          /\ \A u \in DOMAIN ready' : nextRoute <= u
      BY <1>2, <1>3, <2>2
    <3>2. (CHOOSE v \in DOMAIN ready' : \A u \in DOMAIN ready' : v <= u) = nextRoute
      BY <3>1, PassedIsFirst
    <3> QED
      BY <3>1, <3>2 DEF Passed
  <2> QED
    BY <2>1, <2>2
<1> QED
  BY <1>3, <1>4, <1>5, <1>6 DEF Passed

\* One step of the routing loop hands on one frame, or gives it up.
LEMMA RouteReady ==
  ASSUME TypeInv, RouteOrder, ReadyInv, RouteFirst, UNCHANGED <<nextRoute, buffer>>
  PROVE  /\ ReadyReachesUp'
         /\ StopsOnOverload => NoPlaceholders'
         /\ Passed \in Nat /\ Passed < nextRoute /\ Passed' = Passed + 1
         /\ \/ ~quit /\ Handed' = Append(Handed, Passed)
            \/ (quit \/ ~StopsOnOverload) /\ Handed' = Handed
<1>1. PICK s \in DOMAIN ready :
        /\ \A u \in DOMAIN ready : s <= u
        /\ ready' = Restrict(ready, DOMAIN ready \ {s})
        /\ routed' = IF quit \/ ~ready[s].ok THEN routed
                     ELSE Append(routed, [seq |-> s, from |-> ready[s].from,
                                          session |-> generation, fresh |-> fresh])
  BY DEF RouteFirst
<1>2. /\ DOMAIN ready' = DOMAIN ready \ {s}
      /\ \A u \in DOMAIN ready' : ready'[u] = ready[u]
  BY <1>1 DEF Restrict
<1>3. /\ s \in Nat /\ s < nextRoute /\ DOMAIN ready \subseteq Nat
      /\ nextRoute \in Nat
  BY DEF TypeInv, RouteOrder
<1>4. StopsOnOverload => NoPlaceholders'
  BY <1>2 DEF ReadyInv, NoPlaceholders
<1>5. ReadyReachesUp'
  BY <1>1, <1>2, <1>3 DEF ReadyInv, ReadyReachesUp
<1>6. Passed = s
  BY <1>1, <1>3, PassedIsFirst DEF Passed
<1>7. Passed' = s + 1
  <2>1. CASE s + 1 = nextRoute
    <3>1. DOMAIN ready' = {}
      <4>1. \A u \in DOMAIN ready : s <= u /\ u < nextRoute /\ u \in Nat
        BY <1>1, <1>3 DEF RouteOrder
      <4> QED
        BY <1>2, <1>3, <2>1, <4>1
    <3>2. nextRoute' = nextRoute
      OBVIOUS
    <3> QED
      BY <2>1, <3>1, <3>2 DEF Passed
  <2>2. CASE s + 1 # nextRoute
    <3>1. s + 1 \in DOMAIN ready
      BY <1>3, <2>2 DEF ReadyInv, ReadyReachesUp
    <3>2. /\ DOMAIN ready' \in SUBSET Nat /\ s + 1 \in DOMAIN ready'
          /\ \A u \in DOMAIN ready' : s + 1 <= u
      <4>1. \A u \in DOMAIN ready \ {s} : u \in Nat /\ s + 1 <= u
        BY <1>1, <1>3
      <4>2. s + 1 # s
        BY <1>3
      <4> QED
        BY <1>2, <3>1, <4>1, <4>2, Zenon
    <3>3. (CHOOSE v \in DOMAIN ready' : \A u \in DOMAIN ready' : v <= u) = s + 1
      BY <3>2, PassedIsFirst
    <3> QED
      BY <3>2, <3>3 DEF Passed
  <2> QED
    BY <2>1, <2>2
<1>8. CASE quit \/ ~ready[s].ok
  <2>1. routed' = routed /\ (quit \/ ~StopsOnOverload)
    BY <1>1, <1>8 DEF ReadyInv, NoPlaceholders
  <2> QED
    BY <1>3, <1>4, <1>5, <1>6, <1>7, <2>1 DEF Handed
<1>9. CASE ~quit /\ ready[s].ok
  <2> DEFINE e == [seq |-> s, from |-> ready[s].from, session |-> generation,
                   fresh |-> fresh]
  <2>1. routed' = Append(routed, e) /\ e.seq = s
    BY <1>1, <1>9
  <2>2. e \in Routed
    <3>1. ready[s] \in Parsed
      BY DEF TypeInv
    <3> QED
      BY <1>3, <3>1 DEF TypeInv, Routed, Parsed
  <2> HIDE DEF e
  <2>3. /\ DOMAIN routed = 1..Len(routed) /\ DOMAIN routed' = 1..(Len(routed) + 1)
        /\ Len(routed) \in Nat
        /\ \A i \in 1..Len(routed) : routed'[i] = routed[i]
        /\ routed'[Len(routed) + 1] = e
    BY <2>1, <2>2, RouteFirstAppends
  <2>4. Handed \in Seq(Nat) /\ Len(Handed) = Len(routed)
    <3>1. Handed = [i \in 1..Len(routed) |-> routed[i].seq]
      BY <2>3 DEF Handed
    <3>2. \A i \in 1..Len(routed) : routed[i].seq \in Nat
      BY <2>3, RoutedSeqs
    <3> QED
      BY <2>3, <3>1, <3>2
  <2>5. Handed' = [i \in 1..(Len(routed) + 1) |-> routed'[i].seq]
    BY <2>3 DEF Handed
  <2>6. Append(Handed, s) = [i \in 1..(Len(routed) + 1) |-> routed'[i].seq]
    <3>1. Append(Handed, s)
            = [i \in 1..(Len(Handed) + 1) |-> IF i = Len(Handed) + 1 THEN s ELSE Handed[i]]
      BY <1>3, <2>4, AppendDef
    <3>2. \A i \in 1..(Len(routed) + 1) :
            routed'[i].seq = IF i = Len(routed) + 1 THEN s ELSE Handed[i]
      BY <2>1, <2>3 DEF Handed
    <3> QED
      BY <2>4, <3>1, <3>2
  <2> QED
    BY <1>3, <1>4, <1>5, <1>6, <1>7, <1>9, <2>5, <2>6
<1> QED
  BY <1>8, <1>9
LEMMA SetupKept == [Next]_vars => setup' = setup
BY DEF Next, Environment, StopSteps, ReaderSteps, SubmitSteps, WorkerSteps,
   OverloadSteps, vars, StartBegin, StartPools, StartReader, StopIdle,
   StopBegin, StopRouting, StopInput, StopPools, StopJoin, Listen,
   AwaitHeader, ReadHeader, ReadBody, ReadOversizedHeader, ReaderEnds,
   ReadEof, ReadInterrupted, ReadAborted, PostDropped, PostOverload,
   PostParseTask, TakeTask, ReleaseSlot, SubmitAfterQuit, SubmitOverload,
   Submit, Route, RouteOverload, RouteDone

LEMMA ReadyNext == TypeInv /\ RouteOrder /\ ReadyInv /\ [Next]_vars => ReadyInv'
<1> SUFFICES ASSUME TypeInv, RouteOrder, ReadyInv, [Next]_vars
             PROVE  ReadyInv'
  OBVIOUS
<1>1. StopsOnOverload' = StopsOnOverload
  BY SetupKept DEF StopsOnOverload
<1>2. StopsOnOverload => ReadersDontSubmit'
  BY ReadersNext DEF ReadyInv
<1>3. ASSUME NEW t \in Threads, Submit(t)
      PROVE  ReadyInv'
  BY <1>1, <1>2, <1>3, SubmitReady DEF ReadyInv
<1>4. ASSUME NEW t \in Threads, Route(t) \/ RouteOverload(t)
      PROVE  ReadyInv'
  BY <1>1, <1>2, <1>4, RouteReady DEF Route, RouteOverload, ReadyInv
<1>5. CASE StartReader \/ StopRouting
  <2>1. /\ ready' = ready /\ DOMAIN ready = {} /\ DOMAIN buffer' = {}
    BY <1>5 DEF StartReader, StopRouting, RouteOrder, Empty
  <2> QED
    BY <1>1, <1>2, <2>1 DEF ReadyInv, ReadyReachesUp, NoPlaceholders
<1>6. CASE UNCHANGED <<nextRoute, buffer, ready>>
  BY <1>1, <1>2, <1>6 DEF ReadyInv, ReadyReachesUp, NoPlaceholders
<1> QED
  BY <1>3, <1>4, <1>5, <1>6
     DEF Next, Environment, StopSteps, ReaderSteps, SubmitSteps, WorkerSteps,
         OverloadSteps, vars, routingVars, StartBegin, StartPools, StopIdle,
         StopBegin, StopInput, StopPools, StopJoin, Listen, AwaitHeader,
         ReadHeader, ReadBody, ReadOversizedHeader, ReaderEnds, ReadEof,
         ReadInterrupted, ReadAborted, PostDropped, PostOverload, PostParseTask,
         TakeTask, ReleaseSlot, SubmitAfterQuit, SubmitOverload, RouteDone

\* A step that passes no frame and keeps the flags is a stuttering step.
LEMMA QueueStutters ==
  ASSUME UNCHANGED <<setup, quit, fresh, nextSeq>>, Passed' = Passed, Handed' = Handed
  PROVE  UNCHANGED Queue!queueVars
BY DEF Queue!queueVars, StopsOnOverload, Passed, Handed

LEMMA QueueStep ==
  ASSUME TypeInv, RouteOrder, LifeInv, ReadyInv, [Next]_vars
  PROVE  [Queue!QueueNext]_Queue!queueVars
<1>0. setup' = setup
  BY SetupKept
<1>1. ASSUME NEW t \in Threads, Submit(t)
      PROVE  UNCHANGED Queue!queueVars
  <2>1. Passed' = Passed
    BY <1>1, SubmitReady
  <2>2. UNCHANGED <<setup, quit, fresh, nextSeq>> /\ Handed' = Handed
    BY <1>1 DEF Submit, lifeVars, inputVars, Handed
  <2> QED
    BY <2>1, <2>2, QueueStutters
<1>2. ASSUME NEW t \in Threads, Route(t) \/ RouteOverload(t)
      PROVE  Queue!HandOn \/ Queue!GiveUp
  <2>1. UNCHANGED <<setup, quit, fresh, nextSeq, nextRoute>> /\ RouteFirst
    BY <1>2 DEF Route, RouteOverload, lifeVars, inputVars
  <2>2. /\ Passed \in Nat /\ Passed < nextRoute /\ Passed' = Passed + 1
        /\ \/ ~quit /\ Handed' = Append(Handed, Passed)
           \/ (quit \/ ~StopsOnOverload) /\ Handed' = Handed
    BY <1>2, <2>1, RouteReady DEF Route, RouteOverload
  <2>3. Passed < nextSeq
    BY <2>2 DEF TypeInv, RouteOrder
  <2>4. CASE ~quit /\ Handed' = Append(Handed, Passed)
    BY <2>1, <2>2, <2>3, <2>4 DEF Queue!HandOn, StopsOnOverload, Passed, Handed
  <2>5. CASE (quit \/ ~StopsOnOverload) /\ Handed' = Handed
    BY <2>1, <2>2, <2>3, <2>5 DEF Queue!GiveUp, StopsOnOverload, Passed, Handed
  <2> QED
    BY <2>2, <2>4, <2>5
<1>3. CASE StartBegin
  <2>1. /\ ~working /\ ~quit' /\ ~fresh'
        /\ UNCHANGED <<setup, nextSeq, nextRoute, ready, routed>>
    BY <1>3 DEF StartBegin, routingVars
  <2>2. Passed' = Passed /\ Handed' = Handed
    BY <2>1 DEF Passed, Handed
  <2>3. CASE quit
    <3>1. Queue!Reopen
      BY <2>1, <2>2, <2>3 DEF Queue!Reopen, StopsOnOverload, Passed, Handed
    <3> QED
      BY <3>1 DEF Queue!QueueNext
  <2>4. CASE ~quit
    <3>1. ~fresh
      BY <2>1, <2>4 DEF LifeInv
    <3> QED
      BY <2>1, <2>2, <2>4, <3>1 DEF Queue!queueVars, StopsOnOverload, Passed, Handed
  <2> QED
    BY <2>3, <2>4
<1>4. CASE StartReader
  <2>1. /\ ~quit /\ ~fresh /\ ~quit' /\ fresh' /\ nextRoute' = nextSeq
        /\ UNCHANGED <<setup, nextSeq, ready, routed>> /\ DOMAIN ready = {}
    BY <1>4 DEF StartReader, LifeInv, RouteOrder, inputVars
  <2> QED
    BY <2>1 DEF Queue!QueueNext, Queue!Open, StopsOnOverload
<1>5. ASSUME NEW t \in Threads \cup {Main}, StopBegin(t)
      PROVE  Queue!Close
  <2>1. quit' /\ UNCHANGED <<setup, nextSeq, nextRoute, ready, routed>>
    BY <1>5 DEF StopBegin, inputVars, routingVars
  <2> QED
    BY <2>1 DEF Queue!Close, StopsOnOverload
<1>6. ASSUME NEW r \in Readers, ReadBody(r)
      PROVE  Queue!Read
  <2>1. nextSeq' = nextSeq + 1 /\ UNCHANGED <<setup, quit, fresh, nextRoute, ready, routed>>
    BY <1>6 DEF ReadBody, lifeVars, routingVars
  <2> QED
    BY <2>1 DEF Queue!Read, StopsOnOverload
<1>7. CASE UNCHANGED <<quit, fresh, nextSeq, nextRoute, ready, routed>>
  BY <1>0, <1>7, QueueStutters DEF Passed, Handed
<1> QED
  BY <1>1, <1>2, <1>3, <1>4, <1>5, <1>6, <1>7
     DEF Queue!QueueNext, Next, Environment, StopSteps, ReaderSteps, SubmitSteps,
         WorkerSteps, OverloadSteps, vars, lifeVars, inputVars, routingVars,
         StartPools, StopIdle, StopRouting, StopInput, StopPools, StopJoin, Listen,
         AwaitHeader, ReadHeader, ReadOversizedHeader, ReaderEnds, ReadEof,
         ReadInterrupted, ReadAborted, PostDropped, PostOverload, PostParseTask,
         TakeTask, ReleaseSlot, SubmitAfterQuit, SubmitOverload, RouteDone

\* For any number of workers, sessions and frames and any limits, what
\* routeParsedIncoming passes on is what a queue of the frames of the wire
\* hands on: submitParsedMessage and the routing loop skip a frame only where
\* the policy is DropNewest or the endpoint is stopped, and stop() and
\* startProcessingMessages() close and open the queue.
THEOREM Refinement == Spec => ImplementsWireQueue
<1>1. Init => TypeInv /\ RouteOrder /\ LifeInv /\ ReadyInv
  BY TypeInit, RouteOrderInit, LifeInit, ReadyInit
<1>2. TypeInv /\ RouteOrder /\ LifeInv /\ ReadyInv /\ [Next]_vars
        => (TypeInv /\ RouteOrder /\ LifeInv /\ ReadyInv)'
  BY TypeNext, RouteOrderNext, LifeNext, ReadyNext
<1>3. Init => Queue!QueueInit
  <2> SUFFICES ASSUME Init
               PROVE  Queue!QueueInit
    OBVIOUS
  <2>1. /\ ~quit /\ ~fresh /\ nextSeq = 0 /\ nextRoute = 0
        /\ DOMAIN ready = {} /\ routed = <<>>
    BY DEF Init, Empty
  <2>2. [i \in DOMAIN routed |-> routed[i].seq] = <<>>
    BY <2>1
  <2> QED
    BY <2>1, <2>2 DEF Queue!QueueInit, StopsOnOverload
<1>4. TypeInv /\ RouteOrder /\ LifeInv /\ ReadyInv /\ [Next]_vars
        => [Queue!QueueNext]_Queue!queueVars
  BY QueueStep
<1> QED
  BY <1>1, <1>2, <1>3, <1>4, PTL DEF Spec, ImplementsWireQueue, Queue!QueueSpec
=============================================================================
