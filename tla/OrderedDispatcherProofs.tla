---------------------- MODULE OrderedDispatcherProofs ----------------------
(***************************************************************************)
(* Proofs about OrderedDispatcher, for any number of workers, sessions and *)
(* messages and any limits.                                                *)
(***************************************************************************)
EXTENDS OrderedDispatcher, TLAPS

LEMMA Bounds ==
  /\ MaxSessions \in Nat
  /\ Loops = 1..MaxSessions
  /\ \A st \in Setups : st.sessions \in 0..MaxSessions
BY DispatcherBounds DEF Setup, Loops

LEMMA TypeInit == Init => TypeOK
<1> SUFFICES ASSUME Init
             PROVE  TypeOK
  OBVIOUS
<1> USE DEF Init
<1>1. setup \in Setups /\ session \in 0..MaxSessions /\ thread \in 0..MaxSessions
  BY Bounds
<1>2. /\ working \in BOOLEAN /\ quit \in BOOLEAN /\ overloaded \in BOOLEAN
      /\ stopFlag \in BOOLEAN
  OBVIOUS
<1>3. /\ lifecycle \in Threads \cup {Nobody}
      /\ stage \in Stages
      /\ pool \in {"none", "running", "stopped"}
  BY DEF Stages
<1>4. /\ detached \subseteq Loops /\ queue \in Seq(Nat) /\ parked \subseteq Parked
      /\ last \in Nat \cup {None} /\ completed \in Nat \cup {None}
      /\ tasks \in Seq(Message)
      /\ nextSeq \in Nat /\ base \in Nat
  OBVIOUS
<1>5. /\ lpc \in [Loops -> LoopStates] /\ item \in [Loops -> Nat]
      /\ released \in [Loops -> SUBSET Parked]
  BY DEF LoopStates
<1>6. NoMessage \in Message
  BY DEF NoMessage, Message, Kinds
<1>7. /\ wpc \in [Workers -> {"idle", "running", "stopping"}]
      /\ wmsg \in [Workers -> Message]
  BY <1>6
<1> QED
  BY <1>1, <1>2, <1>3, <1>4, <1>5, <1>7 DEF TypeOK

LEMMA PostedType ==
  ASSUME TypeOK, NEW s \in Nat, NEW k \in Kinds
  PROVE  Posted([seq |-> s, kind |-> k]) \in Seq(Message)
<1>1. [seq |-> s, kind |-> k] \in Message /\ tasks \in Seq(Message)
  BY DEF Message, TypeOK
<1> QED
  BY <1>1 DEF Posted

LEMMA AppendNat ==
  ASSUME NEW q \in Seq(Nat), NEW n \in Nat
  PROVE  Append(q, n) \in Seq(Nat)
OBVIOUS

LEMMA RouterType ==
  ASSUME TypeOK, routeNotification \/ routeRequest \/ routeConcurrent
  PROVE  TypeOK'
<1> USE DEF TypeOK, lifeVars, queueVars, loopVars, poolVars, seqVars
<1>1. nextSeq \in Nat /\ nextSeq + 1 \in Nat
  OBVIOUS
<1>2. CASE routeNotification
  <2>1. last' \in Nat \cup {None}
    BY <1>1, <1>2 DEF routeNotification
  <2>0. queue' = queue \/ queue' = Append(queue, nextSeq)
    BY <1>2 DEF routeNotification
  <2>3. queue' \in Seq(Nat)
    BY <1>1, <2>0, AppendNat
  <2>2. overloaded' \in BOOLEAN
    BY <1>2 DEF routeNotification, StopsOnOverload
  <2> QED
    BY <1>1, <1>2, <2>1, <2>2, <2>3 DEF routeNotification
<1>3. CASE routeRequest
  <2>1. MustPark => last \in Nat
    BY DEF MustPark
  <2>2. parked' \subseteq Parked
    BY <1>1, <1>3, <2>1 DEF routeRequest, Parked
  <2>3. Posted([seq |-> nextSeq, kind |-> "request"]) \in Seq(Message)
    BY <1>1, PostedType DEF Kinds
  <2>4. tasks' \in Seq(Message)
    BY <1>3, <2>3 DEF routeRequest
  <2>5. overloaded' \in BOOLEAN
    BY <1>3 DEF routeRequest, StopsOnOverload
  <2> QED
    BY <1>1, <1>3, <2>2, <2>4, <2>5 DEF routeRequest
<1>4. CASE routeConcurrent
  <2>1. Posted([seq |-> nextSeq, kind |-> "concurrent"]) \in Seq(Message)
    BY <1>1, PostedType DEF Kinds
  <2> QED
    BY <1>1, <1>4, <2>1 DEF routeConcurrent
<1> QED
  BY <1>2, <1>3, <1>4

LEMMA LoopType ==
  ASSUME TypeOK, NEW l \in Loops, LoopSteps(l) \/ HandlerCallsStop(l)
  PROVE  TypeOK'
<1> USE DEF TypeOK, LoopStates, lifeVars, queueVars, loopVars, poolVars, seqVars
<1>1. CASE Take(l)
  <2>1. Head(queue) \in Nat /\ Tail(queue) \in Seq(Nat)
    BY <1>1 DEF Take
  <2> QED
    BY <1>1, <2>1 DEF Take
<1>2. CASE LoopExits(l)
  BY <1>2 DEF LoopExits
<1>3. CASE Begin(l)
  BY <1>3 DEF Begin
<1>4. CASE HandlerReturns(l)
  BY <1>4 DEF HandlerReturns
<1>5. CASE HandlerCallsStop(l)
  BY <1>5 DEF HandlerCallsStop
<1>6. CASE Complete(l)
  <2>1. completed' \in Nat \cup {None}
    BY <1>6 DEF Complete
  <2>2. parked' \subseteq Parked /\ released' \in [Loops -> SUBSET Parked]
    BY <1>6 DEF Complete
  <2> QED
    BY <1>6, <2>1, <2>2 DEF Complete
<1>7. CASE Post(l)
  <2>1. PICK p \in released[l] :
          /\ tasks' = Posted([seq |-> p.seq, kind |-> "request"])
          /\ released' = [released EXCEPT ![l] = @ \ {p}]
    BY <1>7 DEF Post
  <2>2. p.seq \in Nat
    BY DEF Parked
  <2>3. tasks' \in Seq(Message)
    BY <2>1, <2>2, PostedType DEF Kinds
  <2>4. released' \in [Loops -> SUBSET Parked]
    BY <2>1
  <2> QED
    BY <1>7, <2>3, <2>4 DEF Post
<1>8. CASE PostDone(l)
  BY <1>8 DEF PostDone
<1> QED
  BY <1>1, <1>2, <1>3, <1>4, <1>5, <1>6, <1>7, <1>8 DEF LoopSteps

LEMMA WorkerType ==
  ASSUME TypeOK, NEW w \in Workers, WorkerSteps(w) \/ WorkerCallsStop(w)
  PROVE  TypeOK'
<1> USE DEF TypeOK, lifeVars, queueVars, loopVars, poolVars, seqVars
<1>1. NoMessage \in Message
  BY DEF NoMessage, Message, Kinds
<1>2. CASE WorkerBegins(w)
  <2>1. Head(tasks) \in Message /\ Tail(tasks) \in Seq(Message)
    BY <1>2 DEF WorkerBegins
  <2> QED
    BY <1>1, <1>2, <2>1 DEF WorkerBegins
<1>3. CASE WorkerReturns(w)
  BY <1>1, <1>3 DEF WorkerReturns
<1>4. CASE WorkerCallsStop(w)
  BY <1>4 DEF WorkerCallsStop
<1> QED
  BY <1>2, <1>3, <1>4 DEF WorkerSteps

LEMMA LifecycleType ==
  ASSUME TypeOK,
         \/ StartSteps \/ StopSteps
         \/ \E t \in Threads : StopIdle(t) \/ StopBegin(t)
         \/ \E t \in Loops \cup {Main} : StartBegin(t)
  PROVE  TypeOK'
<1> USE DEF TypeOK, Stages, lifeVars, queueVars, loopVars, poolVars, seqVars
<1>1. ASSUME NEW t \in Loops \cup {Main}, StartBegin(t)
      PROVE  TypeOK'
  <2>1. session' \in 0..MaxSessions
    BY <1>1, Bounds DEF StartBegin
  <2>2. lifecycle' \in Threads \cup {Nobody}
    BY <1>1 DEF StartBegin, Threads
  <2> QED
    BY <1>1, <2>1, <2>2 DEF StartBegin
<1>2. CASE StartPools
  BY <1>2 DEF StartPools
<1>3. CASE StartDispatcher
  <2>1. lpc' \in [Loops -> LoopStates]
    BY <1>3 DEF StartDispatcher, LoopStates
  <2>2. /\ last' \in Nat \cup {None} /\ completed' \in Nat \cup {None}
        /\ queue' \in Seq(Nat) /\ parked' \subseteq Parked
    BY <1>3 DEF StartDispatcher
  <2> QED
    BY <1>3, <2>1, <2>2 DEF StartDispatcher
<1>4. CASE StopRouting
  BY <1>4 DEF StopRouting
<1>5. CASE StopDispatcher
  <2>1. queue' \in Seq(Nat) /\ parked' \subseteq Parked
    BY <1>5 DEF StopDispatcher
  <2> QED
    BY <1>5, <2>1 DEF StopDispatcher
<1>6. ASSUME NEW t \in Threads, StopReturns(t)
      PROVE  /\ lpc' \in [Loops -> LoopStates]
             /\ wpc' \in [Workers -> {"idle", "running", "stopping"}]
             /\ overloaded' \in BOOLEAN
  BY <1>6 DEF StopReturns, LoopStates
<1>7. ASSUME NEW t \in Threads, StopJoin(t)
      PROVE  TypeOK'
  <2>1. detached' \subseteq Loops
    <3>1. t = thread => t \in Loops
      BY Bounds, DispatcherThreads
    <3>2. detached' = detached \/ (t = thread /\ detached' = detached \cup {t})
      BY <1>7 DEF StopJoin
    <3> QED
      BY <3>1, <3>2
  <2>2. thread' \in 0..MaxSessions /\ tasks' \in Seq(Message)
    BY <1>7, Bounds DEF StopJoin
  <2>3. StopReturns(t)
    BY <1>7 DEF StopJoin
  <2> QED
    BY <1>6, <1>7, <2>1, <2>2, <2>3 DEF StopJoin
<1>8. ASSUME NEW t \in Threads, StopIdle(t)
      PROVE  TypeOK'
  <2>1. StopReturns(t)
    BY <1>8 DEF StopIdle
  <2> QED
    BY <1>6, <1>8, <2>1 DEF StopIdle
<1>9. ASSUME NEW t \in Threads, StopBegin(t)
      PROVE  TypeOK'
  BY <1>9 DEF StopBegin
<1> QED
  BY <1>1, <1>2, <1>3, <1>4, <1>5, <1>7, <1>8, <1>9 DEF StartSteps, StopSteps

LEMMA TypeNext == TypeOK /\ [Next]_vars => TypeOK'
<1> SUFFICES ASSUME TypeOK, [Next]_vars
             PROVE  TypeOK'
  OBVIOUS
<1>1. CASE UNCHANGED vars
  BY <1>1 DEF TypeOK, vars, lifeVars, queueVars, loopVars, poolVars, seqVars
<1>2. CASE Next
  BY <1>2, RouterType, LoopType, WorkerType, LifecycleType
     DEF Next, Environment, AskedStop, Threads
<1> QED
  BY <1>1, <1>2

\* The dispatcher's fields hold what their types say; in particular a parked
\* request always waits for the number of a notification.
THEOREM TypeCorrect == Spec => []TypeOK
BY TypeInit, TypeNext, PTL DEF Spec

-----------------------------------------------------------------------------
(***************************************************************************)
(* The lifecycle: which stage of start and stop goes with which flags.     *)
(***************************************************************************)
Starting == {"startPools", "startDispatcher"}
Stopping == {"stopRouting", "stopDispatcher", "stopJoin"}

Lifeline ==
  /\ thread <= session
  /\ \A l \in detached : l <= session
  /\ stage # "none" => working
  /\ thread # 0 => working
  /\ pool = "running" => working
  /\ stage = "startPools" => pool # "running"
  /\ stage \in Stopping => quit
  /\ stopFlag => queue = <<>>
  /\ stopFlag /\ ~quit => stage \in Starting
  /\ \A l \in Loops : lifecycle = l => lpc[l] \in {"running", "stopping"}

LEMMA LifelineInit == Init => Lifeline
<1> SUFFICES ASSUME Init
             PROVE  Lifeline
  OBVIOUS
<1>1. \A l \in Loops : lifecycle # l
  BY DispatcherThreads DEF Init, Threads
<1> QED
  BY <1>1 DEF Init, Lifeline, Stopping

LEMMA LifelineNext == TypeOK /\ Lifeline /\ [Next]_vars => Lifeline'
<1> SUFFICES ASSUME TypeOK, Lifeline, [Next]_vars
             PROVE  Lifeline'
  OBVIOUS
<1> USE DEF Lifeline, lifeVars, queueVars, loopVars, poolVars, seqVars
<1>0. /\ session \in Nat /\ thread \in Nat
      /\ \A l \in Loops : l # Nobody /\ l # Main /\ l # Router
      /\ lpc \in [Loops -> LoopStates]
      /\ \A l \in detached : l \in Nat
  BY DispatcherThreads, Bounds DEF TypeOK, Threads
<1>1. CASE routeNotification
  BY <1>1 DEF routeNotification
<1>2. CASE routeRequest
  BY <1>2 DEF routeRequest
<1>3. CASE routeConcurrent
  BY <1>3 DEF routeConcurrent
<1>4. ASSUME NEW l \in Loops, Take(l)
      PROVE  Lifeline'
  BY <1>0, <1>4 DEF Take
<1>5. ASSUME NEW l \in Loops, LoopExits(l) \/ Begin(l) \/ PostDone(l)
      PROVE  Lifeline'
  BY <1>0, <1>5 DEF LoopExits, Begin, PostDone
<1>6. ASSUME NEW l \in Loops, HandlerReturns(l) \/ HandlerCallsStop(l)
      PROVE  Lifeline'
  BY <1>0, <1>6 DEF HandlerReturns, HandlerCallsStop
<1>7. ASSUME NEW l \in Loops, Complete(l) \/ Post(l)
      PROVE  Lifeline'
  BY <1>0, <1>7 DEF Complete, Post
<1>8. ASSUME NEW w \in Workers, WorkerBegins(w) \/ WorkerReturns(w) \/ WorkerCallsStop(w)
      PROVE  Lifeline'
  BY <1>8 DEF WorkerBegins, WorkerReturns, WorkerCallsStop
<1>9. ASSUME NEW t \in Threads, StopIdle(t)
      PROVE  Lifeline'
  <2>1. \A l \in Loops : lifecycle' # l
    BY <1>0, <1>9 DEF StopIdle
  <2> QED
    BY <1>9, <2>1 DEF StopIdle
<1>10. ASSUME NEW t \in Threads, StopBegin(t)
       PROVE  Lifeline'
  <2>1. \A l \in Loops : lifecycle' = l => lpc'[l] = "stopping"
    BY <1>0, <1>10, DispatcherThreads DEF StopBegin, CallsStop
  <2> QED
    BY <1>10, <2>1 DEF StopBegin, Stopping, Starting
<1>11. CASE StopRouting
  BY <1>11 DEF StopRouting, Stopping, Starting
<1>12. CASE StopDispatcher
  BY <1>12 DEF StopDispatcher, Stopping, Starting
<1>13. ASSUME NEW t \in Threads, StopJoin(t)
       PROVE  Lifeline'
  <2>1. \A l \in Loops : lifecycle' # l
    BY <1>0, <1>13 DEF StopJoin
  <2>2. /\ thread' = 0 /\ ~working' /\ pool' = "stopped" /\ stage' = "none"
        /\ quit /\ UNCHANGED <<quit, session, stopFlag, queue>>
    BY <1>13 DEF StopJoin, Stopping
  <2>3. \A l \in detached' : l <= session
    BY <1>0, <1>13 DEF StopJoin
  <2> QED
    BY <1>0, <2>1, <2>2, <2>3 DEF Stopping
<1>14. ASSUME NEW t \in Loops \cup {Main}, StartBegin(t)
       PROVE  Lifeline'
  <2>1. \A l \in Loops : lifecycle' = l => lpc'[l] = "running"
    BY <1>0, <1>14 DEF StartBegin
  <2>2. /\ session' = session + 1 /\ stage' = "startPools" /\ working' /\ ~quit'
        /\ pool # "running" /\ UNCHANGED <<thread, detached, pool, stopFlag, queue>>
    BY <1>14 DEF StartBegin
  <2>3. thread' <= session' /\ \A l \in detached' : l <= session'
    BY <1>0, <2>2
  <2> QED
    BY <2>1, <2>2, <2>3 DEF Stopping, Starting
<1>15. CASE StartPools
  BY <1>15 DEF StartPools, Stopping, Starting
<1>16. CASE StartDispatcher
  <2>1. \A l \in Loops : lifecycle' # l
    BY <1>0, <1>16 DEF StartDispatcher
  <2> QED
    BY <1>0, <1>16, <2>1 DEF StartDispatcher, Stopping, Starting
<1>17. CASE UNCHANGED vars
  BY <1>17 DEF vars
<1> QED
  BY <1>1, <1>2, <1>3, <1>4, <1>5, <1>6, <1>7, <1>8, <1>9, <1>10, <1>11, <1>12,
     <1>13, <1>14, <1>15, <1>16, <1>17
     DEF Next, Environment, StopSteps, StartSteps, LoopSteps, WorkerSteps,
         AskedStop, Threads

-----------------------------------------------------------------------------
(***************************************************************************)
(* As long as no endpoint was restarted after its notification thread had  *)
(* been detached, there is one notification thread.                        *)
(***************************************************************************)
DetachedIsCurrent == detached \subseteq {session}

Live(l) == lpc[l] \notin {"unborn", "exited"}

OneLoop ==
  \A l \in Loops : Live(l) =>
    l = session /\ stage \notin Starting /\ (thread = l \/ l \in detached)

LEMMA DetachedBackwards ==
  ASSUME TypeOK, Lifeline, [Next]_vars, DetachedIsCurrent'
  PROVE  DetachedIsCurrent
<1>1. session \in Nat /\ \A l \in detached : l \in Nat /\ l <= session
  BY Bounds DEF TypeOK, Lifeline
<1>2. ASSUME NEW t \in Loops \cup {Main}, StartBegin(t)
      PROVE  DetachedIsCurrent
  <2>1. session' = session + 1 /\ detached' = detached
    BY <1>2 DEF StartBegin, loopVars
  <2> QED
    BY <1>1, <2>1 DEF DetachedIsCurrent
<1>3. ASSUME NEW t \in Threads, StopJoin(t)
      PROVE  DetachedIsCurrent
  BY <1>3 DEF StopJoin, DetachedIsCurrent
<1>4. CASE UNCHANGED <<session, detached>>
  BY <1>4 DEF DetachedIsCurrent
<1> QED
  BY <1>2, <1>3, <1>4
     DEF Next, Environment, StopSteps, StartSteps, LoopSteps, WorkerSteps,
         AskedStop, vars, lifeVars, loopVars, routeNotification, routeRequest,
         routeConcurrent, Take, LoopExits, Begin, HandlerReturns, HandlerCallsStop,
         Complete, Post, PostDone, WorkerBegins, WorkerReturns, WorkerCallsStop,
         StopIdle, StopBegin, StopRouting, StopDispatcher, StartPools,
         StartDispatcher

LEMMA OneLoopInit == Init => OneLoop
BY DEF Init, OneLoop, Live

\* A stop() that returns to a handler finds it where it called.
LEMMA StopReturnsLive ==
  ASSUME TypeOK, NEW t \in Threads, StopReturns(t),
         t \in Loops => lpc[t] \in {"running", "stopping"}
  PROVE  \A l \in Loops :
           \/ lpc'[l] = lpc[l]
           \/ l = t /\ lpc[l] \in {"running", "stopping"} /\ lpc'[l] = "running"
BY DEF StopReturns, TypeOK

LEMMA OneLoopNext ==
  ASSUME TypeOK, Lifeline, OneLoop, [Next]_vars, DetachedIsCurrent'
  PROVE  OneLoop'
<1> USE DEF OneLoop, Live
<1>0. /\ session \in Nat /\ lpc \in [Loops -> LoopStates]
      /\ \A l \in Loops : l \in Nat /\ l # 0
      /\ \A l \in detached : l \in Nat /\ l <= session
  BY Bounds DEF TypeOK, Lifeline
<1>1. ASSUME NEW l \in Loops,
             \/ Take(l) \/ LoopExits(l) \/ Begin(l) \/ HandlerReturns(l)
             \/ HandlerCallsStop(l) \/ Complete(l) \/ Post(l) \/ PostDone(l)
      PROVE  OneLoop'
  <2>1. UNCHANGED <<session, stage, thread, detached>>
    BY <1>1 DEF Take, LoopExits, Begin, HandlerReturns, HandlerCallsStop, Complete,
       Post, PostDone, lifeVars
  <2>2. Live(l) /\ \A k \in Loops : k # l => lpc'[k] = lpc[k]
    BY <1>0, <1>1 DEF Take, LoopExits, Begin, HandlerReturns, HandlerCallsStop,
       Complete, Post, PostDone
  <2> QED
    BY <2>1, <2>2
<1>2. ASSUME NEW t \in Threads, StopIdle(t)
      PROVE  OneLoop'
  <2>1. UNCHANGED <<session, stage, thread, detached>> /\ StopReturns(t)
    BY <1>2 DEF StopIdle
  <2>2. t \in Loops => lpc[t] \in {"running", "stopping"}
    BY <1>2, DispatcherThreads DEF StopIdle, CallsStop, Threads
  <2> QED
    BY <2>1, <2>2, StopReturnsLive
<1>3. ASSUME NEW t \in Threads, StopBegin(t)
      PROVE  OneLoop'
  BY <1>3 DEF StopBegin, loopVars, Starting
<1>4. CASE StopRouting \/ StopDispatcher
  BY <1>4 DEF StopRouting, StopDispatcher, loopVars, Starting
<1>5. ASSUME NEW t \in Threads, StopJoin(t)
      PROVE  OneLoop'
  <2>1. /\ StopReturns(t) /\ session' = session /\ stage' = "none"
        /\ detached' = IF thread = t THEN detached \cup {t} ELSE detached
        /\ thread = 0 \/ thread = t \/ lpc[thread] = "exited"
        /\ t \in Loops => lpc[t] \in {"running", "stopping"}
    BY <1>5 DEF StopJoin, LoopJoined, Lifeline
  <2>2. \A l \in Loops : Live(l)' => Live(l)
    BY <2>1, StopReturnsLive
  <2> QED
    BY <1>0, <2>1, <2>2 DEF Starting
<1>6. ASSUME NEW t \in Loops \cup {Main}, StartBegin(t)
      PROVE  OneLoop'
  <2>1. /\ session' = session + 1 /\ UNCHANGED <<detached, lpc>>
        /\ thread = 0
    BY <1>6 DEF StartBegin, loopVars, Lifeline
  <2>2. detached = {}
    BY <1>0, <2>1 DEF DetachedIsCurrent
  <2>3. \A l \in Loops : ~Live(l)
    BY <1>0, <2>1, <2>2
  <2> QED
    BY <2>1, <2>3
<1>7. CASE StartPools
  BY <1>7 DEF StartPools, loopVars, Starting
<1>8. CASE StartDispatcher
  <2>1. \A l \in Loops : ~Live(l)
    BY <1>8 DEF StartDispatcher, Starting
  <2>2. /\ UNCHANGED session /\ thread' = session /\ stage' = "none"
        /\ lpc' = [lpc EXCEPT ![session] = "waiting"]
    BY <1>8 DEF StartDispatcher
  <2> QED
    BY <1>0, <2>1, <2>2 DEF Starting
<1>9. CASE UNCHANGED <<session, stage, thread, detached, lpc>>
  BY <1>9
<1> QED
  BY <1>1, <1>2, <1>3, <1>4, <1>5, <1>6, <1>7, <1>8, <1>9
     DEF Next, Environment, StopSteps, StartSteps, LoopSteps, WorkerSteps,
         AskedStop, Threads, vars, lifeVars, loopVars, routeNotification,
         routeRequest, routeConcurrent, WorkerBegins, WorkerReturns, WorkerCallsStop

-----------------------------------------------------------------------------
(***************************************************************************)
(* The order of the notifications: what waits in the queue is in order and *)
(* lies between the last completed and the last accepted notification, and *)
(* so does, before it, the one in hand.                                    *)
(***************************************************************************)
Holding(l) == lpc[l] \in {"taken", "running", "stopping", "handled"}

QueueOrder ==
  /\ completed <= last /\ last < nextSeq
  /\ \A i, j \in DOMAIN queue : i < j => queue[i] < queue[j]
  /\ \A i \in DOMAIN queue : completed < queue[i] /\ queue[i] <= last
  /\ \A l \in Loops : Holding(l) =>
       /\ completed < item[l] /\ item[l] <= last
       /\ \A i \in DOMAIN queue : item[l] < queue[i]

LEMMA NumberTypes ==
  ASSUME TypeOK
  PROVE  /\ nextSeq \in Nat /\ last \in Int /\ completed \in Int
         /\ queue \in Seq(Nat) /\ Len(queue) \in Nat /\ DOMAIN queue = 1..Len(queue)
         /\ \A i \in DOMAIN queue : queue[i] \in Nat
         /\ \A l \in Loops : item[l] \in Nat
BY DEF TypeOK, None

LEMMA QueueOrderInit == Init => QueueOrder
BY DEF Init, QueueOrder, Holding, None

\* Nothing is added, and no number changes.
LEMMA QueueOrderKept ==
  ASSUME TypeOK, QueueOrder,
         UNCHANGED <<last, completed>>, nextSeq' \in Nat, nextSeq <= nextSeq',
         queue' = queue \/ queue' = <<>>,
         \A l \in Loops : Holding(l)' => Holding(l) /\ item'[l] = item[l]
  PROVE  QueueOrder'
<1>1. nextSeq \in Nat /\ last \in Int
  BY NumberTypes
<1>2. completed' <= last' /\ last' < nextSeq'
  BY <1>1 DEF QueueOrder
<1>3. CASE queue' = queue
  BY <1>2, <1>3 DEF QueueOrder
<1>4. CASE queue' = <<>>
  <2>1. DOMAIN queue' = {}
    BY <1>4
  <2> QED
    BY <1>2, <2>1 DEF QueueOrder
<1> QED
  BY <1>3, <1>4

LEMMA NotificationOrder ==
  ASSUME TypeOK, QueueOrder, routeNotification
  PROVE  QueueOrder'
<1>1. /\ nextSeq' = nextSeq + 1 /\ nextSeq \in Nat
      /\ UNCHANGED <<completed, lpc, item>>
  BY NumberTypes DEF routeNotification, loopVars
<1>2. CASE UNCHANGED <<last, queue>>
  BY <1>1, <1>2, QueueOrderKept DEF Holding
<1>3. CASE last' = nextSeq /\ queue' = Append(queue, nextSeq)
  <2>1. /\ Len(queue) \in Nat /\ DOMAIN queue = 1..Len(queue)
        /\ DOMAIN queue' = 1..(Len(queue) + 1)
        /\ \A i \in 1..Len(queue) : queue'[i] = queue[i]
        /\ queue'[Len(queue) + 1] = nextSeq
    BY <1>3, NumberTypes
  <2>2. last \in Int /\ completed \in Int /\ last < nextSeq
    BY NumberTypes DEF QueueOrder
  <2>3. \A i \in 1..Len(queue) :
          /\ queue[i] \in Nat /\ queue[i] <= last /\ completed < queue[i]
    BY <2>1, NumberTypes DEF QueueOrder
  <2>4. completed < nextSeq
    BY <1>1, <2>2 DEF QueueOrder
  <2>5. \A i \in DOMAIN queue' : completed < queue'[i] /\ queue'[i] <= nextSeq
    BY <1>1, <2>1, <2>2, <2>3, <2>4
  <2>6. \A i, j \in DOMAIN queue' : i < j => queue'[i] < queue'[j]
    BY <1>1, <2>1, <2>2, <2>3 DEF QueueOrder
  <2>7. \A l \in Loops : Holding(l) =>
          /\ completed < item[l] /\ item[l] <= nextSeq
          /\ \A i \in DOMAIN queue' : item[l] < queue'[i]
    BY <1>1, <2>1, <2>2, NumberTypes DEF QueueOrder
  <2> QED
    BY <1>1, <1>3, <2>2, <2>4, <2>5, <2>6, <2>7 DEF QueueOrder, Holding
<1> QED
  BY <1>2, <1>3 DEF routeNotification

LEMMA TakeOrder ==
  ASSUME TypeOK, OneLoop, QueueOrder, NEW l \in Loops, Take(l)
  PROVE  QueueOrder'
<1>1. /\ lpc[l] = "waiting" /\ queue # <<>>
      /\ item' = [item EXCEPT ![l] = queue[1]]
      /\ queue' = Tail(queue)
      /\ lpc' = [lpc EXCEPT ![l] = "taken"]
      /\ UNCHANGED <<last, completed, nextSeq>>
  BY NumberTypes DEF Take, seqVars
<1>2. \A k \in Loops : Holding(k)' => k = l
  BY <1>1 DEF OneLoop, Live, Holding, TypeOK
<1>3. item'[l] = queue[1]
  BY <1>1 DEF TypeOK
<1>4. /\ Len(queue) \in Nat \ {0} /\ DOMAIN queue = 1..Len(queue)
      /\ DOMAIN queue' = 1..(Len(queue) - 1)
      /\ \A i \in 1..(Len(queue) - 1) : queue'[i] = queue[i + 1]
  BY <1>1, NumberTypes
<1>5. \A i, j \in DOMAIN queue' : i < j => queue'[i] < queue'[j]
  BY <1>4 DEF QueueOrder
<1>6. \A i \in DOMAIN queue' :
        completed < queue'[i] /\ queue'[i] <= last /\ queue[1] < queue'[i]
  BY <1>4 DEF QueueOrder
<1>7. completed < queue[1] /\ queue[1] <= last
  BY <1>4 DEF QueueOrder
<1> QED
  BY <1>1, <1>2, <1>3, <1>5, <1>6, <1>7 DEF QueueOrder

LEMMA CompleteOrder ==
  ASSUME TypeOK, OneLoop, QueueOrder, NEW l \in Loops, Complete(l)
  PROVE  QueueOrder'
<1>1. /\ lpc[l] = "handled" /\ completed' = item[l]
      /\ lpc' = [lpc EXCEPT ![l] = "posting"]
      /\ UNCHANGED <<last, queue, item, nextSeq>>
  BY DEF Complete, seqVars
<1>2. \A k \in Loops : ~Holding(k)'
  BY <1>1 DEF OneLoop, Live, Holding, TypeOK
<1>3. item[l] <= last /\ \A i \in DOMAIN queue : item[l] < queue[i]
  BY <1>1 DEF QueueOrder, Holding
<1> QED
  BY <1>1, <1>2, <1>3 DEF QueueOrder

LEMMA QueueOrderNext ==
  ASSUME TypeOK, Lifeline, OneLoop, QueueOrder, [Next]_vars
  PROVE  QueueOrder'
<1>0. /\ nextSeq \in Nat /\ nextSeq + 1 \in Nat /\ nextSeq <= nextSeq + 1
      /\ nextSeq <= nextSeq
      /\ lpc \in [Loops -> LoopStates]
  BY NumberTypes DEF TypeOK
<1> USE DEF lifeVars, queueVars, loopVars, poolVars, seqVars
<1>1. CASE routeNotification
  BY <1>1, NotificationOrder
<1>2. CASE routeRequest \/ routeConcurrent
  <2>1. nextSeq' = nextSeq + 1 /\ UNCHANGED <<last, completed, queue, lpc, item>>
    BY <1>2 DEF routeRequest, routeConcurrent
  <2> QED
    BY <1>0, <2>1, QueueOrderKept DEF Holding
<1>3. ASSUME NEW l \in Loops, Take(l)
      PROVE  QueueOrder'
  BY <1>3, TakeOrder
<1>4. ASSUME NEW l \in Loops, Complete(l)
      PROVE  QueueOrder'
  BY <1>4, CompleteOrder
<1>5. ASSUME NEW l \in Loops,
             \/ LoopExits(l) \/ Begin(l) \/ HandlerReturns(l) \/ HandlerCallsStop(l)
             \/ Post(l) \/ PostDone(l)
      PROVE  QueueOrder'
  <2>1. UNCHANGED <<last, completed, queue, item, nextSeq>>
    BY <1>5 DEF LoopExits, Begin, HandlerReturns, HandlerCallsStop, Post, PostDone
  <2>2. \A k \in Loops : Holding(k)' => Holding(k)
    BY <1>0, <1>5 DEF LoopExits, Begin, HandlerReturns, HandlerCallsStop, Post,
       PostDone, Holding
  <2> QED
    BY <1>0, <2>1, <2>2, QueueOrderKept
<1>6. ASSUME NEW t \in Threads, StopIdle(t) \/ StopJoin(t)
      PROVE  QueueOrder'
  <2>1. UNCHANGED <<last, completed, queue, item, nextSeq>> /\ StopReturns(t)
    BY <1>6 DEF StopIdle, StopJoin
  <2>2. t \in Loops => lpc[t] \in {"running", "stopping"}
    BY <1>6, DispatcherThreads
       DEF StopIdle, StopJoin, CallsStop, Threads, Lifeline
  <2>3. \A k \in Loops : Holding(k)' => Holding(k)
    BY <2>1, <2>2, StopReturnsLive DEF Holding
  <2> QED
    BY <1>0, <2>1, <2>3, QueueOrderKept
<1>7. CASE StopDispatcher
  <2>1. queue' = <<>> /\ UNCHANGED <<last, completed, item, lpc, nextSeq>>
    BY <1>7 DEF StopDispatcher
  <2> QED
    BY <1>0, <2>1, QueueOrderKept DEF Holding
<1>8. CASE StartDispatcher
  <2>1. \A l \in Loops : ~Holding(l)'
    BY <1>0, <1>8 DEF StartDispatcher, OneLoop, Live, Starting, Holding
  <2>2. /\ queue' = <<>> /\ last' = -1 /\ completed' = -1 /\ nextSeq' = nextSeq
    BY <1>8 DEF StartDispatcher, None
  <2>3. DOMAIN queue' = {}
    BY <2>2
  <2> QED
    BY <1>0, <2>1, <2>2, <2>3 DEF QueueOrder
<1>9. CASE UNCHANGED <<last, completed, queue, item, lpc, nextSeq>>
  BY <1>0, <1>9, QueueOrderKept DEF Holding
<1> QED
  BY <1>1, <1>2, <1>3, <1>4, <1>5, <1>6, <1>7, <1>8, <1>9
     DEF Next, Environment, StopSteps, StartSteps, LoopSteps, WorkerSteps,
         AskedStop, Threads, vars, WorkerBegins, WorkerReturns, WorkerCallsStop,
         StopBegin, StopRouting, StartBegin, StartPools

-----------------------------------------------------------------------------
(***************************************************************************)
(* The gate.  Coming are the notifications that are not completed;         *)
(* Flights the requests that have passed their gate.                       *)
(***************************************************************************)
Coming ==
  {queue[i] : i \in DOMAIN queue} \cup {item[l] : l \in {k \in Loops : InHand(k)}}

IsFlight(q) ==
  \/ \E i \in DOMAIN tasks : tasks[i].kind = "request" /\ tasks[i].seq = q
  \/ \E w \in Workers : wmsg[w].kind = "request" /\ wmsg[w].seq = q
  \/ \E l \in Loops : \E p \in released[l] : p.seq = q

Passed(q) == q < nextSeq /\ \A n \in Coming : q < n

Waits(p) == p.seq < nextSeq /\ \A n \in Coming : n <= p.gate \/ p.seq < n

GateInv ==
  /\ \A q \in Nat : IsFlight(q) => Passed(q)
  /\ \A p \in parked : Waits(p)

LEMMA GateInit == Init => GateInv
BY DEF Init, GateInv, IsFlight, NoMessage

LEMMA ComingType ==
  ASSUME TypeOK
  PROVE  Coming \subseteq Nat
BY NumberTypes DEF Coming

\* A request keeps its place when only new notifications are added.
LEMMA PlacesKept ==
  ASSUME TypeOK, GateInv, nextSeq' \in Nat, nextSeq <= nextSeq',
         Coming' \subseteq Coming \cup {nextSeq}
  PROVE  /\ \A q \in Nat : IsFlight(q) => Passed(q)'
         /\ \A p \in parked : Waits(p)'
<1>1. nextSeq \in Nat /\ Coming \subseteq Nat
  BY NumberTypes, ComingType
<1>2. \A q \in Nat : Passed(q) => Passed(q)'
  BY <1>1 DEF Passed
<1>3. \A p \in parked : p \in Parked /\ p.seq \in Nat
  BY DEF TypeOK, Parked
<1>4. \A p \in parked : Waits(p)'
  BY <1>1, <1>3 DEF GateInv, Waits
<1> QED
  BY <1>2, <1>4 DEF GateInv

LEMMA GateKept ==
  ASSUME TypeOK, GateInv, nextSeq' \in Nat, nextSeq <= nextSeq',
         Coming' \subseteq Coming \cup {nextSeq},
         \A q \in Nat : IsFlight(q)' => IsFlight(q),
         parked' \subseteq parked
  PROVE  GateInv'
BY PlacesKept DEF GateInv

\* A message that is posted becomes a flight if it is a request.
LEMMA PostedFlight ==
  ASSUME TypeOK, NEW s \in Nat, NEW k \in Kinds,
         tasks' = Posted([seq |-> s, kind |-> k]), UNCHANGED wmsg,
         \A l \in Loops : released'[l] \subseteq released[l],
         NEW q \in Nat, IsFlight(q)'
  PROVE  IsFlight(q) \/ (q = s /\ k = "request" /\ pool = "running" /\ ~quit)
<1>1. tasks \in Seq(Message)
  BY DEF TypeOK
<1>2. CASE tasks' = tasks
  BY <1>2 DEF IsFlight
<1>3. CASE ~quit /\ pool = "running" /\ tasks' = Append(tasks, [seq |-> s, kind |-> k])
  <2>1. /\ Len(tasks) \in Nat /\ DOMAIN tasks = 1..Len(tasks)
        /\ DOMAIN tasks' = 1..(Len(tasks) + 1)
        /\ \A i \in 1..Len(tasks) : tasks'[i] = tasks[i]
        /\ tasks'[Len(tasks) + 1] = [seq |-> s, kind |-> k]
    BY <1>1, <1>3
  <2>2. \A i \in DOMAIN tasks' : i \in DOMAIN tasks \/ i = Len(tasks) + 1
    BY <2>1
  <2> QED
    BY <1>3, <2>1, <2>2 DEF IsFlight
<1> QED
  BY <1>2, <1>3 DEF Posted

LEMMA NotificationGate ==
  ASSUME TypeOK, GateInv, routeNotification
  PROVE  GateInv'
<1>1. /\ nextSeq' = nextSeq + 1 /\ nextSeq \in Nat
      /\ UNCHANGED <<item, lpc, tasks, wmsg, released, parked>>
  BY NumberTypes DEF routeNotification, loopVars, poolVars
<1>2. queue' = queue \/ queue' = Append(queue, nextSeq)
  BY DEF routeNotification
<1>3. \A i \in DOMAIN queue' : queue'[i] \in {queue[j] : j \in DOMAIN queue} \cup {nextSeq}
  <2>1. CASE queue' = queue
    BY <2>1
  <2>2. CASE queue' = Append(queue, nextSeq)
    <3>1. /\ Len(queue) \in Nat /\ DOMAIN queue = 1..Len(queue)
          /\ DOMAIN queue' = 1..(Len(queue) + 1)
          /\ \A i \in 1..Len(queue) : queue'[i] = queue[i]
          /\ queue'[Len(queue) + 1] = nextSeq
      BY <2>2, NumberTypes
    <3> QED
      BY <3>1
  <2> QED
    BY <1>2, <2>1, <2>2
<1>4. Coming' \subseteq Coming \cup {nextSeq}
  BY <1>1, <1>3 DEF Coming, InHand
<1> QED
  BY <1>1, <1>4, GateKept DEF IsFlight

\* Where a request need not be parked, every notification is completed.
LEMMA NothingComing ==
  ASSUME TypeOK, Lifeline, QueueOrder, RouterRuns, ~quit, ~MustPark, pool = "running"
  PROVE  Coming = {}
<1>1. ~stopFlag
  BY DEF Lifeline, Starting, RouterRuns
<1>2. last = -1 \/ completed >= last
  BY <1>1 DEF MustPark, notificationGateSatisfied, None
<1>3. last \in Int /\ completed \in Int /\ Coming \subseteq Nat
  BY NumberTypes, ComingType
<1>4. \A n \in Coming : completed < n /\ n <= last
  BY DEF Coming, InHand, QueueOrder, Holding
<1> QED
  BY <1>2, <1>3, <1>4

LEMMA RequestGate ==
  ASSUME TypeOK, Lifeline, QueueOrder, GateInv, routeRequest
  PROVE  GateInv'
<1>1. /\ nextSeq' = nextSeq + 1 /\ nextSeq \in Nat
      /\ UNCHANGED <<queue, item, lpc, wmsg, released>>
      /\ RouterRuns /\ ~quit
  BY NumberTypes DEF routeRequest, loopVars
<1>2. Coming' = Coming /\ Coming \subseteq Nat
  BY <1>1, ComingType DEF Coming, InHand
<1>3. /\ nextSeq' \in Nat /\ nextSeq <= nextSeq' /\ nextSeq < nextSeq'
      /\ Coming' \subseteq Coming \cup {nextSeq}
  BY <1>1, <1>2
<1>4. /\ \A q \in Nat : IsFlight(q) => Passed(q)'
      /\ \A p \in parked : Waits(p)'
  BY <1>3, PlacesKept
<1>5. CASE MustPark /\ parked' = parked \cup {[seq |-> nextSeq, gate |-> last]}
           /\ UNCHANGED tasks
  <2>1. \A q \in Nat : IsFlight(q)' => IsFlight(q)
    BY <1>1, <1>5 DEF IsFlight
  <2>2. \A n \in Coming : n <= last
    BY DEF Coming, InHand, QueueOrder, Holding
  <2>3. \A p : p = [seq |-> nextSeq, gate |-> last] => Waits(p)'
    <3>1. \A n \in Coming' : n <= last
      BY <1>2, <2>2
    <3> QED
      BY <1>3, <3>1 DEF Waits
  <2>4. \A p \in parked' : Waits(p)'
    BY <1>4, <1>5, <2>3
  <2> QED
    BY <1>4, <2>1, <2>4 DEF GateInv
<1>6. CASE UNCHANGED <<parked, tasks>>
  <2>1. \A q \in Nat : IsFlight(q)' => IsFlight(q)
    BY <1>1, <1>6 DEF IsFlight
  <2> QED
    BY <1>4, <1>6, <2>1 DEF GateInv
<1>7. CASE /\ ~MustPark /\ UNCHANGED parked
           /\ tasks' = Posted([seq |-> nextSeq, kind |-> "request"])
  <2>1. \A q \in Nat : IsFlight(q)' =>
          IsFlight(q) \/ (q = nextSeq /\ pool = "running")
    BY <1>1, <1>7, PostedFlight DEF Kinds
  <2>2. pool = "running" => Coming' = {}
    BY <1>1, <1>2, <1>7, NothingComing
  <2>3. \A q \in Nat : q = nextSeq /\ pool = "running" => Passed(q)'
    BY <1>3, <2>2 DEF Passed
  <2>4. \A q \in Nat : IsFlight(q)' => Passed(q)'
    BY <1>4, <2>1, <2>3
  <2> QED
    BY <1>4, <1>7, <2>4 DEF GateInv
<1> QED
  BY <1>5, <1>6, <1>7 DEF routeRequest

LEMMA CompleteGate ==
  ASSUME TypeOK, OneLoop, QueueOrder, GateInv, NEW l \in Loops, Complete(l)
  PROVE  GateInv'
<1>1. /\ lpc[l] = "handled"
      /\ released' = [released EXCEPT ![l] = {p \in parked : item[l] >= p.gate}]
      /\ parked' = {p \in parked : item[l] < p.gate}
      /\ lpc' = [lpc EXCEPT ![l] = "posting"]
      /\ UNCHANGED <<queue, item, nextSeq, tasks, wmsg>>
  BY DEF Complete, poolVars, seqVars
<1>2. \A k \in Loops : ~InHand(k) /\ ~InHand(k)'
  BY <1>1 DEF OneLoop, Live, InHand, TypeOK
<1>3. /\ Coming = {queue[i] : i \in DOMAIN queue} /\ Coming' = Coming
      /\ Coming \subseteq Nat /\ item[l] \in Nat /\ nextSeq \in Nat
  BY <1>1, <1>2, ComingType, NumberTypes DEF Coming
<1>4. \A n \in Coming : item[l] < n
  BY <1>1, <1>3 DEF QueueOrder, Holding
<1>5. /\ \A q \in Nat : IsFlight(q) => Passed(q)'
      /\ \A p \in parked : Waits(p)'
  BY <1>1, <1>3, PlacesKept
<1>6. \A p \in parked : p.seq \in Nat /\ p.gate \in Nat
  BY DEF TypeOK, Parked
<1>7. ASSUME NEW p \in parked, item[l] >= p.gate
      PROVE  Passed(p.seq)'
  <2>1. p.seq < nextSeq /\ \A n \in Coming : n <= p.gate \/ p.seq < n
    BY DEF GateInv, Waits
  <2>2. \A n \in Coming : p.seq < n
    BY <1>3, <1>4, <1>6, <1>7, <2>1
  <2> QED
    BY <1>1, <1>3, <2>1, <2>2 DEF Passed
<1>8. \A q \in Nat : IsFlight(q)' =>
        IsFlight(q) \/ \E p \in parked : item[l] >= p.gate /\ p.seq = q
  BY <1>1 DEF IsFlight, TypeOK
<1>9. \A q \in Nat : IsFlight(q)' => Passed(q)'
  BY <1>5, <1>7, <1>8
<1> QED
  BY <1>1, <1>5, <1>9 DEF GateInv

LEMMA PostGate ==
  ASSUME TypeOK, GateInv, NEW l \in Loops, Post(l)
  PROVE  GateInv'
<1>1. PICK p \in released[l] :
        /\ tasks' = Posted([seq |-> p.seq, kind |-> "request"])
        /\ released' = [released EXCEPT ![l] = @ \ {p}]
  BY DEF Post
<1>2. UNCHANGED <<queue, item, lpc, nextSeq, wmsg, parked>> /\ nextSeq \in Nat
  BY NumberTypes DEF Post, queueVars, seqVars
<1>3. p.seq \in Nat
  BY DEF TypeOK, Parked
<1>4. \A k \in Loops : released'[k] \subseteq released[k]
  BY <1>1 DEF TypeOK
<1>5. IsFlight(p.seq)
  BY DEF IsFlight
<1>6. \A q \in Nat : IsFlight(q)' => IsFlight(q)
  BY <1>1, <1>2, <1>3, <1>4, <1>5, PostedFlight DEF Kinds
<1>7. Coming' = Coming
  BY <1>2 DEF Coming, InHand
<1> QED
  BY <1>2, <1>6, <1>7, GateKept

LEMMA TakeGate ==
  ASSUME TypeOK, OneLoop, GateInv, NEW l \in Loops, Take(l)
  PROVE  GateInv'
<1>1. /\ queue # <<>>
      /\ item' = [item EXCEPT ![l] = queue[1]]
      /\ queue' = Tail(queue)
      /\ lpc' = [lpc EXCEPT ![l] = "taken"]
      /\ UNCHANGED <<nextSeq, tasks, wmsg, released, parked>>
  BY NumberTypes DEF Take, seqVars, poolVars
<1>2. /\ Len(queue) \in Nat \ {0} /\ DOMAIN queue = 1..Len(queue)
      /\ DOMAIN queue' = 1..(Len(queue) - 1)
      /\ \A i \in 1..(Len(queue) - 1) : queue'[i] = queue[i + 1]
  BY <1>1, NumberTypes
<1>3. \A i \in DOMAIN queue' : queue'[i] \in {queue[j] : j \in DOMAIN queue}
  BY <1>2
<1>4. queue[1] \in {queue[j] : j \in DOMAIN queue}
  BY <1>2
<1>5. \A k \in Loops : InHand(k)' =>
        (k # l /\ InHand(k) /\ item'[k] = item[k]) \/ item'[k] = queue[1]
  BY <1>1 DEF InHand, TypeOK
<1>6. Coming' \subseteq Coming
  BY <1>3, <1>4, <1>5 DEF Coming
<1> QED
  BY <1>1, <1>6, GateKept, NumberTypes DEF IsFlight

LEMMA WorkerGate ==
  ASSUME TypeOK, GateInv, NEW w \in Workers,
         WorkerBegins(w) \/ WorkerReturns(w) \/ WorkerCallsStop(w)
  PROVE  GateInv'
<1>1. UNCHANGED <<queue, item, lpc, nextSeq, released, parked>> /\ nextSeq \in Nat
  BY NumberTypes DEF WorkerBegins, WorkerReturns, WorkerCallsStop, queueVars,
     loopVars, seqVars
<1>2. Coming' = Coming
  BY <1>1 DEF Coming, InHand
<1>3. NoMessage.kind # "request" /\ tasks \in Seq(Message)
      /\ wmsg \in [Workers -> Message]
  BY DEF NoMessage, TypeOK
<1>4. CASE WorkerBegins(w)
  <2>1. /\ tasks # <<>> /\ tasks' = Tail(tasks)
        /\ wmsg' = [wmsg EXCEPT ![w] = IF quit THEN NoMessage ELSE tasks[1]]
    BY <1>3, <1>4 DEF WorkerBegins
  <2>2. /\ Len(tasks) \in Nat \ {0} /\ DOMAIN tasks = 1..Len(tasks)
        /\ DOMAIN tasks' = 1..(Len(tasks) - 1)
        /\ \A i \in 1..(Len(tasks) - 1) : tasks'[i] = tasks[i + 1]
    BY <1>3, <2>1
  <2>3. \A i \in DOMAIN tasks' : \E j \in DOMAIN tasks : tasks'[i] = tasks[j]
    BY <2>2
  <2>4. \A v \in Workers :
          wmsg'[v] = wmsg[v] \/ wmsg'[v] = NoMessage \/ wmsg'[v] = tasks[1]
    BY <1>3, <2>1
  <2>5. 1 \in DOMAIN tasks
    BY <2>2
  <2>6. \A q \in Nat : IsFlight(q)' => IsFlight(q)
    BY <1>1, <1>3, <2>3, <2>4, <2>5 DEF IsFlight
  <2> QED
    BY <1>1, <1>2, <2>6, GateKept
<1>5. CASE WorkerReturns(w) \/ WorkerCallsStop(w)
  <2>1. tasks' = tasks /\ \A v \in Workers : wmsg'[v] = wmsg[v] \/ wmsg'[v] = NoMessage
    BY <1>3, <1>5 DEF WorkerReturns, WorkerCallsStop
  <2>2. \A q \in Nat : IsFlight(q)' => IsFlight(q)
    BY <1>1, <1>3, <2>1 DEF IsFlight
  <2> QED
    BY <1>1, <1>2, <2>2, GateKept
<1> QED
  BY <1>4, <1>5

LEMMA GateNext ==
  ASSUME TypeOK, Lifeline, OneLoop, QueueOrder, GateInv, [Next]_vars
  PROVE  GateInv'
<1>0. nextSeq \in Nat /\ nextSeq + 1 \in Nat /\ lpc \in [Loops -> LoopStates]
  BY NumberTypes DEF TypeOK
<1> USE DEF lifeVars, queueVars, loopVars, poolVars, seqVars
<1>1. CASE routeNotification
  BY <1>1, NotificationGate
<1>2. CASE routeRequest
  BY <1>2, RequestGate
<1>3. CASE routeConcurrent
  <2>1. /\ nextSeq' = nextSeq + 1
        /\ UNCHANGED <<queue, item, lpc, wmsg, released, parked>>
        /\ tasks' = Posted([seq |-> nextSeq, kind |-> "concurrent"])
    BY <1>3 DEF routeConcurrent
  <2>2. \A q \in Nat : IsFlight(q)' => IsFlight(q)
    BY <1>0, <2>1, PostedFlight DEF Kinds
  <2>3. Coming' = Coming
    BY <2>1 DEF Coming, InHand
  <2> QED
    BY <1>0, <2>1, <2>2, <2>3, GateKept
<1>4. ASSUME NEW l \in Loops, Take(l) \/ Complete(l) \/ Post(l)
      PROVE  GateInv'
  BY <1>4, TakeGate, CompleteGate, PostGate
<1>5. ASSUME NEW l \in Loops,
             \/ LoopExits(l) \/ Begin(l) \/ HandlerReturns(l) \/ HandlerCallsStop(l)
             \/ PostDone(l)
      PROVE  GateInv'
  <2>1. UNCHANGED <<queue, item, nextSeq, tasks, wmsg, released, parked>>
    BY <1>5 DEF LoopExits, Begin, HandlerReturns, HandlerCallsStop, PostDone
  <2>2. \A k \in Loops : InHand(k)' => InHand(k)
    BY <1>0, <1>5 DEF LoopExits, Begin, HandlerReturns, HandlerCallsStop, PostDone,
       InHand
  <2>3. Coming' \subseteq Coming
    BY <2>1, <2>2 DEF Coming
  <2> QED
    BY <1>0, <2>1, <2>3, GateKept DEF IsFlight
<1>6. ASSUME NEW w \in Workers,
             WorkerBegins(w) \/ WorkerReturns(w) \/ WorkerCallsStop(w)
      PROVE  GateInv'
  BY <1>6, WorkerGate
<1>7. ASSUME NEW t \in Threads, StopIdle(t) \/ StopJoin(t)
      PROVE  GateInv'
  <2>1. /\ UNCHANGED <<queue, item, nextSeq, wmsg, released, parked>>
        /\ StopReturns(t) /\ (tasks' = tasks \/ tasks' = <<>>)
    BY <1>7 DEF StopIdle, StopJoin
  <2>2. t \in Loops => lpc[t] \in {"running", "stopping"}
    BY <1>7, DispatcherThreads
       DEF StopIdle, StopJoin, CallsStop, Threads, Lifeline
  <2>3. \A k \in Loops : InHand(k)' => InHand(k)
    BY <2>1, <2>2, StopReturnsLive DEF InHand
  <2>4. Coming' \subseteq Coming
    BY <2>1, <2>3 DEF Coming
  <2> QED
    BY <1>0, <2>1, <2>4, GateKept DEF IsFlight
<1>8. CASE StopDispatcher
  <2>1. /\ queue' = <<>> /\ parked' = {}
        /\ UNCHANGED <<item, lpc, nextSeq, tasks, wmsg, released>>
    BY <1>8 DEF StopDispatcher
  <2>2. Coming' \subseteq Coming
    BY <2>1 DEF Coming, InHand
  <2> QED
    BY <1>0, <2>1, <2>2, GateKept DEF IsFlight
<1>9. CASE StartDispatcher
  <2>1. /\ queue' = <<>> /\ parked' = {}
        /\ UNCHANGED <<item, nextSeq, tasks, wmsg, released>>
        /\ lpc' = [lpc EXCEPT ![session] = "waiting"]
    BY <1>9 DEF StartDispatcher
  <2>2. \A k \in Loops : InHand(k)' => InHand(k)
    BY <1>0, <2>1 DEF InHand
  <2>3. Coming' \subseteq Coming
    BY <2>1, <2>2 DEF Coming
  <2> QED
    BY <1>0, <2>1, <2>3, GateKept DEF IsFlight
<1>10. CASE StartPools
  <2>1. /\ tasks' = <<>>
        /\ UNCHANGED <<queue, parked, item, lpc, nextSeq, wmsg, released>>
    BY <1>10 DEF StartPools
  <2>2. Coming' = Coming
    BY <2>1 DEF Coming, InHand
  <2> QED
    BY <1>0, <2>1, <2>2, GateKept DEF IsFlight
<1>11. CASE UNCHANGED <<queue, parked, item, lpc, nextSeq, tasks, wmsg, released>>
  <2>1. Coming' = Coming
    BY <1>11 DEF Coming, InHand
  <2> QED
    BY <1>0, <1>11, <2>1, GateKept DEF IsFlight
<1> QED
  BY <1>1, <1>2, <1>3, <1>4, <1>5, <1>6, <1>7, <1>8, <1>9, <1>10, <1>11
     DEF Next, Environment, StopSteps, StartSteps, LoopSteps, WorkerSteps,
         AskedStop, Threads, vars, StopBegin, StopRouting, StartBegin

-----------------------------------------------------------------------------
DispatcherInv ==
  /\ TypeOK
  /\ Lifeline
  /\ DetachedIsCurrent => OneLoop /\ QueueOrder /\ GateInv

LEMMA DispatcherInvariant == Spec => []DispatcherInv
<1>1. Init => DispatcherInv
  BY TypeInit, LifelineInit, OneLoopInit, QueueOrderInit, GateInit DEF DispatcherInv
<1>2. DispatcherInv /\ [Next]_vars => DispatcherInv'
  <2> SUFFICES ASSUME DispatcherInv, [Next]_vars
               PROVE  DispatcherInv'
    OBVIOUS
  <2>1. TypeOK' /\ Lifeline'
    BY TypeNext, LifelineNext DEF DispatcherInv
  <2>2. ASSUME DetachedIsCurrent'
        PROVE  OneLoop' /\ QueueOrder' /\ GateInv'
    <3>1. DetachedIsCurrent
      BY <2>2, DetachedBackwards DEF DispatcherInv
    <3> QED
      BY <2>2, <3>1, OneLoopNext, QueueOrderNext, GateNext DEF DispatcherInv
  <2> QED
    BY <2>1, <2>2 DEF DispatcherInv
<1> QED
  BY <1>1, <1>2, PTL DEF Spec

\* A request handler runs only when every ordinary notification routed before
\* it in the session has completed, for every interleaving of router,
\* notification thread and pool, also while stop() runs, as long as the
\* endpoint was not restarted after a notification handler had stopped it
\* (where DispatcherGateBroken shows the gate fail).
THEOREM GateHolds == Spec => [](DetachedIsCurrent => GateOrder)
<1>1. DispatcherInv => (DetachedIsCurrent => GateOrder)
  <2> SUFFICES ASSUME DispatcherInv, DetachedIsCurrent,
                      NEW w \in Workers, NEW n \in Pending,
                      wmsg[w].kind = "request"
               PROVE  n > wmsg[w].seq
    BY DEF GateOrder
  <2>1. n \in Coming /\ Coming \subseteq Nat
    BY ComingType DEF Pending, Coming, DispatcherInv
  <2>2. wmsg[w] \in Message
    BY DEF DispatcherInv, TypeOK
  <2>3. wmsg[w].seq \in Nat /\ IsFlight(wmsg[w].seq)
    BY <2>2 DEF IsFlight, Message
  <2>4. wmsg[w].seq < n
    BY <2>1, <2>3 DEF DispatcherInv, GateInv, Passed
  <2> QED
    BY <2>1, <2>3, <2>4
<1> QED
  BY <1>1, DispatcherInvariant, PTL

\* Under the same condition notificationLoop runs on one thread only, so the
\* handlers of ordinary notifications never overlap.
THEOREM SerialHolds == Spec => [](DetachedIsCurrent => NotificationsSerial)
<1>1. DispatcherInv => (DetachedIsCurrent => NotificationsSerial)
  BY DEF DispatcherInv, OneLoop, Live, NotificationsSerial, Handles
<1> QED
  BY <1>1, DispatcherInvariant, PTL

\* Only the end of a notification moves completed_notification_seq, and it
\* moves it forward; only a start takes the number away.
LEMMA CompletedForward ==
  ASSUME DispatcherInv, DetachedIsCurrent, [Next]_vars, completed' # None
  PROVE  completed' >= completed
<1>0. completed \in Int /\ \A l \in Loops : item[l] \in Nat
  BY NumberTypes DEF DispatcherInv
<1>1. ASSUME NEW l \in Loops, Complete(l)
      PROVE  completed' >= completed
  <2>1. completed' = item[l] /\ Holding(l)
    BY <1>1 DEF Complete, Holding
  <2>2. completed < item[l]
    BY <2>1 DEF DispatcherInv, QueueOrder
  <2> QED
    BY <1>0, <2>1, <2>2
<1>2. CASE completed' = completed
  BY <1>0, <1>2
<1>3. CASE StartDispatcher
  BY <1>3 DEF StartDispatcher
<1> QED
  BY <1>1, <1>2, <1>3
     DEF Next, Environment, StopSteps, StartSteps, LoopSteps, WorkerSteps,
         AskedStop, vars, queueVars, routeNotification, routeRequest,
         routeConcurrent, Take, LoopExits, Begin, HandlerReturns, HandlerCallsStop,
         Post, PostDone, WorkerBegins, WorkerReturns, WorkerCallsStop,
         StopIdle, StopBegin, StopRouting, StopDispatcher, StopJoin, StartBegin, StartPools

\* completed_notification_seq never goes back within a session, so that a gate
\* that was found satisfied stays satisfied, as long as the endpoint is not
\* restarted while a detached notification thread still has one to complete.
THEOREM CompletedNeverBack == Spec /\ []DetachedIsCurrent => CompletedMonotone
<1>1. DispatcherInv /\ DetachedIsCurrent /\ [Next]_vars
        => [session' = session /\ completed' # None => completed' >= completed]_vars
  BY CompletedForward
<1> QED
  BY <1>1, DispatcherInvariant, PTL DEF Spec, CompletedMonotone
=============================================================================
