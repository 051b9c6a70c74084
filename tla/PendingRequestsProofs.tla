----------------------- MODULE PendingRequestsProofs -----------------------
(***************************************************************************)
(* Proofs about PendingRequests, for any number of calls, ids and          *)
(* responses and any limit: the endpoint forgets no call it has sent, and  *)
(* stop() leaves no future open.  Both hold where the application chooses  *)
(* all ids or none; an application that mixes the two can have an entry of *)
(* the table overwritten, as the run PendingIdClash shows.                 *)
(***************************************************************************)
EXTENDS PendingRequests, TLAPS

CallStates == {"new", "checked", "pending", "sent", "expiring", "expired", "refused"}

StopStages == {"working", "routing", "output", "pending", "pools", "stopped"}

\* The types of the variables.
TypeInv ==
  /\ setup \in Setups
  /\ quitting \in BOOLEAN /\ outputActive \in BOOLEAN /\ output \in BOOLEAN
  /\ sendMutex \in Calls \cup {Nobody}
  /\ stage \in StopStages
  /\ nextId \in Nat
  /\ DOMAIN table \subseteq RequestIds /\ table \in [DOMAIN table -> Calls]
  /\ call \in [Calls -> [at : CallStates, id : RequestIds \cup {Unassigned}, deferred : BOOLEAN]]
  /\ captured \subseteq (1..MaxReplies) \X RequestIds \X Calls
  /\ removed \subseteq Calls
  /\ posted \subseteq Calls
  /\ outcome \in [Calls -> {"none", "response", "stopped"}]

\* stop() raises quit first, then clears active; from the moment it has held
\* m_sendMutex no send is in progress, and once it is past the router nothing
\* is between the table and its completion.
StopInv ==
  /\ quitting <=> stage # "working"
  /\ stage \in {"output", "pending", "pools", "stopped"} => ~outputActive /\ removed = {}
  /\ stage \in {"pending", "pools", "stopped"} => sendMutex = Nobody

\* Only the owner of m_sendMutex is inside internalSendRequestWithPolicy.
MutexInv == \A c \in Calls : call[c].at \in {"checked", "pending"} => sendMutex = c

\* The application leaves all ids to the endpoint, or none.
OneKindOfIds == ~(setup.autoIds /\ setup.chosenIds)

\* A call that uses its id: it is being sent, or its wait has not returned.
Live(c) ==
  /\ call[c].id # Unassigned
  /\ \/ call[c].at \in {"checked", "pending", "expiring"}
     \/ call[c].at = "sent" /\ outcome[c] = "none"

\* Where ids are assigned they are below m_id, so that the next one is new.
BelowNextId ==
  OneKindOfIds /\ setup.autoIds =>
    /\ \A i \in DOMAIN table : i < nextId
    /\ \A c \in Calls : call[c].id < nextId

\* A request comes to pendingRequest with an id as its application works.
KindOfId ==
  \A c \in Calls : call[c].at = "checked" =>
    /\ ~setup.chosenIds => call[c].id = Unassigned
    /\ ~setup.autoIds => call[c].id # Unassigned

OnlyWaitsExpire == ~setup.timeouts => \A c \in Calls : call[c].at # "expiring"

\* Where waits time out, no two calls use an id at the same time.
LiveIdsDiffer ==
  OneKindOfIds /\ setup.timeouts =>
    \A c, d \in Calls : Live(c) /\ Live(d) /\ c # d => call[c].id # call[d].id

IdsInv == BelowNextId /\ KindOfId /\ OnlyWaitsExpire /\ LiveIdsDiffer

\* A call that is being written or was sent, and has no outcome.
Unanswered(c) == call[c].at \in {"pending", "sent"} /\ outcome[c] = "none"

\* Where the outcome of such a call will come from, until stop() has failed
\* the calls in the table.
Covered ==
  stage \in {"working", "routing", "output", "pending"} =>
    \A c \in Calls : Unanswered(c) =>
      \/ IsPending(call[c].id, c)
      \/ c \in removed
      \/ call[c].deferred /\ (c \in posted \/ quitting)

\* The router completes one call at a time.
OneRemoved == \A c, d \in removed : c = d

\* After stop() has failed the calls in the table no future is open.
FailedInv ==
  stage \in {"pools", "stopped"} =>
    \A c \in Calls : ~call[c].deferred => ~Open(c)

CallInv ==
  /\ StopInv
  /\ MutexInv
  /\ IdsInv
  /\ OneRemoved
  /\ OneKindOfIds => Covered /\ FailedInv

-----------------------------------------------------------------------------
LEMMA WithoutEntry ==
  ASSUME NEW f, NEW x
  PROVE  /\ DOMAIN Erased(f, x) = DOMAIN f \ {x}
         /\ \A y \in DOMAIN f \ {x} : Erased(f, x)[y] = f[y]
BY DEF Erased, Restrict

LEMMA WithEntry ==
  ASSUME NEW f, NEW x, NEW v
  PROVE  /\ DOMAIN Inserted(f, x, v) = DOMAIN f \cup {x}
         /\ Inserted(f, x, v)[x] = v
         /\ \A y \in DOMAIN f : y # x => Inserted(f, x, v)[y] = f[y]
BY DEF Inserted

\* A table without an entry, or with another one, is still a table.
LEMMA TableType ==
  ASSUME TypeInv
  PROVE  /\ \A i : LET t == Erased(table, i)
                   IN  DOMAIN t \subseteq RequestIds /\ t \in [DOMAIN t -> Calls]
         /\ \A i \in RequestIds, c \in Calls :
              LET t == Inserted(table, i, c)
              IN  DOMAIN t \subseteq RequestIds /\ t \in [DOMAIN t -> Calls]
<1>1. DOMAIN table \subseteq RequestIds /\ table \in [DOMAIN table -> Calls]
  BY DEF TypeInv
<1>2. ASSUME NEW i
      PROVE  LET t == Erased(table, i)
             IN  DOMAIN t \subseteq RequestIds /\ t \in [DOMAIN t -> Calls]
  BY <1>1 DEF Erased, Restrict
<1>3. ASSUME NEW i \in RequestIds, NEW c \in Calls
      PROVE  LET t == Inserted(table, i, c)
             IN  DOMAIN t \subseteq RequestIds /\ t \in [DOMAIN t -> Calls]
  BY <1>1 DEF Inserted
<1> QED
  BY <1>2, <1>3

LEMMA CompletedType ==
  ASSUME TypeInv, NEW cs, NEW how \in {"response", "stopped"}
  PROVE  CompletedAs(cs, how) \in [Calls -> {"none", "response", "stopped"}]
BY DEF TypeInv, CompletedAs

LEMMA CallFields ==
  ASSUME TypeInv, NEW c \in Calls
  PROVE  /\ call[c].at \in CallStates
         /\ call[c].id \in RequestIds \cup {Unassigned}
         /\ call[c].deferred \in BOOLEAN
<1>1. call[c] \in [at : CallStates, id : RequestIds \cup {Unassigned}, deferred : BOOLEAN]
  BY DEF TypeInv
<1> QED
  BY <1>1

LEMMA MoveToType ==
  ASSUME TypeInv, NEW c \in Calls, NEW where \in CallStates, MoveTo(c, where)
  PROVE  /\ call' \in [Calls -> [at : CallStates, id : RequestIds \cup {Unassigned},
                                deferred : BOOLEAN]]
         /\ call'[c].at = where /\ call'[c].id = call[c].id
         /\ call'[c].deferred = call[c].deferred
         /\ \A d \in Calls : d # c => call'[d] = call[d]
<1>1. call \in [Calls -> [at : CallStates, id : RequestIds \cup {Unassigned},
                         deferred : BOOLEAN]]
  BY DEF TypeInv
<1> QED
  BY <1>1 DEF MoveTo

LEMMA TypeInit == PendingInit => TypeInv
<1> SUFFICES ASSUME PendingInit
             PROVE  TypeInv
  OBVIOUS
<1>1. call \in [Calls -> [at : CallStates, id : RequestIds \cup {Unassigned},
                         deferred : BOOLEAN]]
  BY DEF PendingInit, NewCall, CallStates
<1>2. DOMAIN table = {} /\ table \in [DOMAIN table -> Calls]
  BY DEF PendingInit
<1>3. outcome \in [Calls -> {"none", "response", "stopped"}]
  BY DEF PendingInit
<1>4. quitting \in BOOLEAN /\ outputActive \in BOOLEAN /\ output \in BOOLEAN
  BY DEF PendingInit
<1>5. /\ setup \in Setups /\ sendMutex \in Calls \cup {Nobody}
      /\ stage \in StopStages /\ nextId \in Nat
      /\ captured = {} /\ removed = {} /\ posted = {}
  BY DEF PendingInit, StopStages
<1> QED
  BY <1>1, <1>2, <1>3, <1>4, <1>5 DEF TypeInv

LEMMA SendType ==
  ASSUME TypeInv, NEW c \in Calls,
         \/ Send(c) \/ SendSteps(c) \/ WriteFails(c) \/ PeerReplies(c)
         \/ WaitTimesOut(c) \/ RemoveExpired(c)
  PROVE  TypeInv'
<1> USE DEF stopVars, replyVars
<1>1. ASSUME NEW id \in RequestIds \cup {Unassigned}, NEW deferred \in BOOLEAN,
             SendBegin(c, id, deferred)
      PROVE  TypeInv'
  <2>1. CASE outputActive /\ output
    <3>1. call' = [call EXCEPT ![c] = [at |-> "checked", id |-> id,
                                       deferred |-> deferred]]
      BY <1>1, <2>1 DEF SendBegin
    <3>2. call' \in [Calls -> [at : CallStates, id : RequestIds \cup {Unassigned},
                              deferred : BOOLEAN]]
      BY <3>1 DEF TypeInv, CallStates
    <3> QED
      BY <1>1, <2>1, <3>2 DEF SendBegin, TypeInv
  <2>2. CASE ~(outputActive /\ output)
    <3>1. MoveTo(c, "refused")
      BY <1>1, <2>2 DEF SendBegin
    <3>2. call' \in [Calls -> [at : CallStates, id : RequestIds \cup {Unassigned},
                              deferred : BOOLEAN]]
      BY <3>1, MoveToType DEF CallStates
    <3> QED
      BY <1>1, <2>2, <3>2 DEF SendBegin, TypeInv
  <2> QED
    BY <2>1, <2>2
<1>2. CASE PendingRequest(c)
  <2>1. CASE TableFull \/ Duplicate(call[c].id)
    <3>1. MoveTo(c, "refused")
      BY <1>2, <2>1 DEF PendingRequest
    <3>2. call' \in [Calls -> [at : CallStates, id : RequestIds \cup {Unassigned},
                              deferred : BOOLEAN]]
      BY <3>1, MoveToType DEF CallStates
    <3> QED
      BY <1>2, <2>1, <3>2 DEF PendingRequest, TypeInv
  <2>2. CASE ~(TableFull \/ Duplicate(call[c].id))
    <3> DEFINE id == IF call[c].id = Unassigned THEN nextId ELSE call[c].id
    <3>1. /\ nextId' = IF call[c].id = Unassigned THEN nextId + 1 ELSE nextId
          /\ table' = Inserted(table, id, c)
          /\ call' = [call EXCEPT ![c].at = "pending", ![c].id = id]
      BY <1>2, <2>2 DEF PendingRequest
    <3>2. id \in RequestIds
      <4>1. nextId \in RequestIds
        BY <1>2, PendingAssumption DEF PendingRequest, TypeInv, RequestIds
      <4> QED
        BY <4>1, CallFields
    <3>3. call' \in [Calls -> [at : CallStates, id : RequestIds \cup {Unassigned},
                              deferred : BOOLEAN]]
      BY <3>1, <3>2 DEF TypeInv, CallStates
    <3>4. DOMAIN table' \subseteq RequestIds /\ table' \in [DOMAIN table' -> Calls]
      BY <3>1, <3>2, TableType
    <3>5. nextId' \in Nat
      BY <3>1 DEF TypeInv
    <3> QED
      BY <1>2, <2>2, <3>3, <3>4, <3>5 DEF PendingRequest, TypeInv
  <2> QED
    BY <2>1, <2>2
<1>3. CASE WriteRequest(c)
  <2>1. call' \in [Calls -> [at : CallStates, id : RequestIds \cup {Unassigned},
                            deferred : BOOLEAN]]
    BY <1>3, MoveToType DEF WriteRequest, CallStates
  <2> QED
    BY <1>3, <2>1 DEF WriteRequest, TypeInv
<1>4. CASE WriteFails(c)
  <2>1. call' \in [Calls -> [at : CallStates, id : RequestIds \cup {Unassigned},
                            deferred : BOOLEAN]]
    BY <1>4, MoveToType DEF WriteFails, CallStates
  <2>2. DOMAIN table' \subseteq RequestIds /\ table' \in [DOMAIN table' -> Calls]
    BY <1>4, TableType DEF WriteFails, TypeInv
  <2> QED
    BY <1>4, <2>1, <2>2 DEF WriteFails, TypeInv
<1>5. CASE PeerReplies(c)
  BY <1>5 DEF PeerReplies, TypeInv
<1>6. CASE WaitTimesOut(c)
  <2>1. call' \in [Calls -> [at : CallStates, id : RequestIds \cup {Unassigned},
                            deferred : BOOLEAN]]
    BY <1>6, MoveToType DEF WaitTimesOut, CallStates
  <2> QED
    BY <1>6, <2>1 DEF WaitTimesOut, TypeInv
<1>7. CASE RemoveExpired(c)
  <2>1. call' \in [Calls -> [at : CallStates, id : RequestIds \cup {Unassigned},
                            deferred : BOOLEAN]]
    BY <1>7, MoveToType DEF RemoveExpired, CallStates
  <2>2. DOMAIN table' \subseteq RequestIds /\ table' \in [DOMAIN table' -> Calls]
    BY <1>7, TableType DEF RemoveExpired
  <2> QED
    BY <1>7, <2>1, <2>2 DEF RemoveExpired, TypeInv
<1> QED
  BY <1>1, <1>2, <1>3, <1>4, <1>5, <1>6, <1>7 DEF Send, SendSteps

LEMMA ReplyType ==
  ASSUME TypeInv, ReplySteps
  PROVE  TypeInv'
<1> USE DEF stopVars, replyVars
<1>1. ASSUME NEW n \in 1..MaxReplies, NEW id \in RequestIds, ParseReply(<<n, id>>)
      PROVE  TypeInv'
  <2>1. \/ captured' = captured
        \/ id \in DOMAIN table /\ captured' = captured \cup {<<n, id, table[id]>>}
    BY <1>1 DEF ParseReply
  <2>2. captured' \subseteq (1..MaxReplies) \X RequestIds \X Calls
    BY <2>1 DEF TypeInv
  <2> QED
    BY <1>1, <2>2 DEF ParseReply, TypeInv
<1>2. ASSUME NEW n \in 1..MaxReplies, NEW id \in RequestIds, NEW c \in Calls,
             RouteDropped(<<n, id, c>>) \/ RouteReply(<<n, id, c>>)
      PROVE  TypeInv'
  <2>1. CASE RouteDropped(<<n, id, c>>)
    BY <2>1 DEF RouteDropped, TypeInv
  <2>2. CASE RouteReply(<<n, id, c>>)
    <3>1. table' = Erased(table, id) /\ removed' = {c} /\ captured' \subseteq captured
      BY <2>2 DEF RouteReply
    <3>2. DOMAIN table' \subseteq RequestIds /\ table' \in [DOMAIN table' -> Calls]
      BY <3>1, TableType
    <3> QED
      BY <2>2, <3>1, <3>2 DEF RouteReply, TypeInv
  <2> QED
    BY <1>2, <2>1, <2>2
<1>3. ASSUME NEW c \in Calls, Deliver(c) \/ RunCallback(c)
      PROVE  TypeInv'
  <2>1. outcome' \in [Calls -> {"none", "response", "stopped"}]
    BY <1>3, CompletedType DEF Deliver, RunCallback, TypeInv
  <2>2. removed' \subseteq Calls /\ posted' \subseteq Calls
    BY <1>3 DEF Deliver, RunCallback, TypeInv
  <2> QED
    BY <1>3, <2>1, <2>2 DEF Deliver, RunCallback, TypeInv
<1> QED
  BY <1>1, <1>2, <1>3 DEF ReplySteps

LEMMA StopType ==
  ASSUME TypeInv, StopQuit \/ StopSteps
  PROVE  TypeInv'
<1> USE DEF stopVars, replyVars, TypeInv, StopStages
<1>1. CASE StopQuit
  BY <1>1 DEF StopQuit
<1>2. CASE StopActive
  BY <1>2 DEF StopActive
<1>3. CASE StopSends
  BY <1>3 DEF StopSends
<1>4. CASE failPendingRequests
  <2>1. outcome' \in [Calls -> {"none", "response", "stopped"}]
    BY <1>4, CompletedType DEF failPendingRequests
  <2> QED
    BY <1>4, <2>1 DEF failPendingRequests
<1>5. CASE StopWorkerPools
  BY <1>5 DEF StopWorkerPools
<1> QED
  BY <1>1, <1>2, <1>3, <1>4, <1>5 DEF StopSteps

LEMMA TypeNext == TypeInv /\ [PendingNext]_pendingVars => TypeInv'
<1> SUFFICES ASSUME TypeInv, [PendingNext]_pendingVars
             PROVE  TypeInv'
  OBVIOUS
<1>1. CASE UNCHANGED pendingVars
  BY <1>1 DEF TypeInv, pendingVars, stopVars, replyVars
<1> QED
  BY <1>1, SendType, ReplyType, StopType DEF PendingNext

-----------------------------------------------------------------------------
LEMMA StopInvNext == TypeInv /\ StopInv /\ [PendingNext]_pendingVars => StopInv'
<1> SUFFICES ASSUME TypeInv, StopInv, [PendingNext]_pendingVars
             PROVE  StopInv'
  OBVIOUS
<1> USE DEF StopInv, stopVars
<1>1. ASSUME NEW c \in Calls, NEW id, NEW deferred, SendBegin(c, id, deferred)
      PROVE  StopInv'
  <2>1. UNCHANGED <<quitting, outputActive, stage, removed>> /\ (outputActive \/ sendMutex' = sendMutex)
    BY <1>1 DEF SendBegin
  <2> QED
    BY <2>1
<1>2. ASSUME NEW c \in Calls, PendingRequest(c) \/ WriteRequest(c) \/ WriteFails(c)
      PROVE  StopInv'
  <2>1. /\ UNCHANGED <<quitting, outputActive, stage, removed>>
        /\ sendMutex' = Nobody \/ sendMutex' = sendMutex
    BY <1>2 DEF PendingRequest, WriteRequest, WriteFails
  <2> QED
    BY <2>1
<1>3. ASSUME NEW m, RouteReply(m)
      PROVE  StopInv'
  <2>1. UNCHANGED <<quitting, outputActive, stage, sendMutex>> /\ ~quitting
    BY <1>3 DEF RouteReply
  <2> QED
    BY <2>1
<1>4. ASSUME NEW c \in Calls, Deliver(c)
      PROVE  StopInv'
  BY <1>4 DEF Deliver
<1>5. CASE StopQuit
  BY <1>5 DEF StopQuit
<1>6. CASE StopActive
  BY <1>6 DEF StopActive
<1>7. CASE StopSends
  BY <1>7 DEF StopSends
<1>8. CASE failPendingRequests \/ StopWorkerPools
  BY <1>8 DEF failPendingRequests, StopWorkerPools
<1>9. CASE UNCHANGED <<quitting, outputActive, stage, removed, sendMutex>>
  BY <1>9
<1> QED
  BY <1>1, <1>2, <1>3, <1>4, <1>5, <1>6, <1>7, <1>8, <1>9
     DEF PendingNext, Send, SendSteps, ReplySteps, StopSteps, pendingVars, PeerReplies, ParseReply,
         RouteDropped, RunCallback, WaitTimesOut, RemoveExpired

\* What the steps of a call c do to the calls.
LEMMA SendEffect ==
  ASSUME TypeInv, NEW c \in Calls, NEW id \in RequestIds \cup {Unassigned},
         NEW deferred \in BOOLEAN, SendBegin(c, id, deferred)
  PROVE  /\ \A d \in Calls : d # c => call'[d] = call[d]
         /\ \/ /\ call'[c] = [at |-> "checked", id |-> id, deferred |-> deferred]
               /\ outputActive /\ sendMutex' = c
            \/ /\ call'[c].at = "refused" /\ call'[c].id = call[c].id
               /\ sendMutex' = sendMutex
<1>1. call \in [Calls -> [at : CallStates, id : RequestIds \cup {Unassigned},
                         deferred : BOOLEAN]]
  BY DEF TypeInv
<1>2. CASE outputActive /\ output
  BY <1>1, <1>2 DEF SendBegin
<1>3. CASE ~(outputActive /\ output)
  BY <1>3, MoveToType DEF SendBegin, CallStates
<1> QED
  BY <1>2, <1>3

LEMMA PendingEffect ==
  ASSUME TypeInv, NEW c \in Calls, PendingRequest(c)
  PROVE  /\ \A d \in Calls : d # c => call'[d] = call[d]
         /\ call'[c].deferred = call[c].deferred
         /\ \/ /\ call'[c].at = "refused" /\ call'[c].id = call[c].id
               /\ sendMutex' = Nobody /\ UNCHANGED <<table, nextId>>
            \/ /\ ~Duplicate(call[c].id)
               /\ call'[c].at = "pending"
               /\ call'[c].id = IF call[c].id = Unassigned THEN nextId ELSE call[c].id
               /\ nextId' = IF call[c].id = Unassigned THEN nextId + 1 ELSE nextId
               /\ table' = Inserted(table, call'[c].id, c)
               /\ sendMutex' = sendMutex
<1>1. call \in [Calls -> [at : CallStates, id : RequestIds \cup {Unassigned},
                         deferred : BOOLEAN]]
  BY DEF TypeInv
<1>2. CASE TableFull \/ Duplicate(call[c].id)
  BY <1>2, MoveToType DEF PendingRequest, CallStates
<1>3. CASE ~(TableFull \/ Duplicate(call[c].id))
  BY <1>1, <1>3 DEF PendingRequest
<1> QED
  BY <1>2, <1>3

\* The other steps of a call move it on and leave its id alone.
LEMMA MoveEffect ==
  ASSUME TypeInv, NEW c \in Calls,
         WriteRequest(c) \/ WriteFails(c) \/ WaitTimesOut(c) \/ RemoveExpired(c)
  PROVE  /\ \A d \in Calls : d # c => call'[d] = call[d]
         /\ call'[c].id = call[c].id
         /\ call'[c].deferred = call[c].deferred
         /\ WriteRequest(c) => call'[c].at = "sent"
         /\ WriteFails(c) => call'[c].at = "refused"
         /\ WaitTimesOut(c) => call'[c].at = "expiring"
         /\ RemoveExpired(c) => call'[c].at = "expired"
BY MoveToType DEF WriteRequest, WriteFails, WaitTimesOut, RemoveExpired, CallStates

LEMMA MutexNext == TypeInv /\ MutexInv /\ [PendingNext]_pendingVars => MutexInv'
<1> SUFFICES ASSUME TypeInv, MutexInv, [PendingNext]_pendingVars
             PROVE  MutexInv'
  OBVIOUS
<1>0. \A c \in Calls : c # Nobody
  BY PendingAssumption
<1> USE DEF MutexInv
<1>1. ASSUME NEW c \in Calls, NEW id \in RequestIds \cup {Unassigned}, NEW deferred \in BOOLEAN,
             SendBegin(c, id, deferred)
      PROVE  MutexInv'
  <2>1. sendMutex = Nobody
    BY <1>1 DEF SendBegin
  <2> QED
    BY <1>0, <1>1, <2>1, SendEffect
<1>2. ASSUME NEW c \in Calls, PendingRequest(c)
      PROVE  MutexInv'
  <2>1. call[c].at = "checked"
    BY <1>2 DEF PendingRequest
  <2> QED
    BY <1>0, <1>2, <2>1, PendingEffect
<1>3. ASSUME NEW c \in Calls, WriteRequest(c) \/ WriteFails(c)
      PROVE  MutexInv'
  <2>1. call[c].at = "pending" /\ sendMutex' = Nobody
    BY <1>3 DEF WriteRequest, WriteFails
  <2> QED
    BY <1>0, <1>3, <2>1, MoveEffect
<1>4. ASSUME NEW c \in Calls, WaitTimesOut(c) \/ RemoveExpired(c)
      PROVE  MutexInv'
  <2>1. sendMutex' = sendMutex
    BY <1>4 DEF WaitTimesOut, RemoveExpired
  <2> QED
    BY <1>4, <2>1, MoveEffect
<1>5. CASE UNCHANGED <<call, sendMutex>>
  BY <1>5
<1> QED
  BY <1>1, <1>2, <1>3, <1>4, <1>5
     DEF PendingNext, Send, SendSteps, ReplySteps, StopSteps, pendingVars, PeerReplies, ParseReply,
         RouteDropped, RouteReply, Deliver, RunCallback, StopQuit, StopActive,
         StopSends, failPendingRequests, StopWorkerPools

LEMMA OneRemovedNext == OneRemoved /\ [PendingNext]_pendingVars => OneRemoved'
<1> SUFFICES ASSUME OneRemoved, [PendingNext]_pendingVars
             PROVE  OneRemoved'
  OBVIOUS
<1> USE DEF OneRemoved
<1>1. ASSUME NEW m, RouteReply(m)
      PROVE  OneRemoved'
  BY <1>1 DEF RouteReply
<1>2. ASSUME NEW c, Deliver(c)
      PROVE  OneRemoved'
  BY <1>2 DEF Deliver
<1>3. CASE UNCHANGED removed
  BY <1>3
<1> QED
  BY <1>1, <1>2, <1>3
     DEF PendingNext, Send, SendSteps, ReplySteps, StopSteps, pendingVars, SendBegin, PendingRequest,
         WriteRequest, WriteFails, WaitTimesOut, RemoveExpired, PeerReplies, ParseReply,
         RouteDropped, RunCallback, StopQuit, StopActive, StopSends,
         failPendingRequests, StopWorkerPools

LEMMA SetupKept == [PendingNext]_pendingVars => setup' = setup
BY DEF PendingNext, Send, SendSteps, ReplySteps, StopSteps, pendingVars, SendBegin, PendingRequest,
   WriteRequest, WriteFails, WaitTimesOut, RemoveExpired, PeerReplies, ParseReply,
   RouteDropped, RouteReply, Deliver, RunCallback, StopQuit, StopActive, StopSends,
   failPendingRequests, StopWorkerPools

\* No step takes an outcome back.
LEMMA OutcomeKept ==
  ASSUME TypeInv, [PendingNext]_pendingVars, NEW c \in Calls, outcome'[c] = "none"
  PROVE  outcome[c] = "none"
<1>1. ASSUME NEW cs, NEW how \in {"response", "stopped"}, outcome' = CompletedAs(cs, how)
      PROVE  outcome[c] = "none"
  BY <1>1 DEF CompletedAs
<1> QED
  BY <1>1
     DEF PendingNext, Send, SendSteps, ReplySteps, StopSteps, pendingVars, SendBegin, PendingRequest,
         WriteRequest, WriteFails, WaitTimesOut, RemoveExpired, PeerReplies, ParseReply,
         RouteDropped, RouteReply, Deliver, RunCallback, StopQuit, StopActive,
         StopSends, failPendingRequests, StopWorkerPools

LEMMA SetupFields ==
  ASSUME TypeInv
  PROVE  /\ setup.autoIds \in BOOLEAN /\ setup.chosenIds \in BOOLEAN
         /\ setup.timeouts \in BOOLEAN
BY PendingAssumption DEF TypeInv, Setup

LEMMA SendIds ==
  ASSUME TypeInv, MutexInv, IdsInv, setup' = setup, NEW c \in Calls,
         NEW id \in RequestIds \cup {Unassigned}, NEW deferred \in BOOLEAN,
         SendBegin(c, id, deferred)
  PROVE  IdsInv'
<1>1. /\ call[c].at = "new" /\ sendMutex = Nobody
      /\ UNCHANGED <<table, nextId, outcome>>
      /\ id = Unassigned => setup.autoIds
      /\ id # Unassigned => setup.chosenIds /\ ~StillWaits(id)
  BY DEF SendBegin
<1>2. nextId \in Nat /\ Unassigned < nextId /\ OneKindOfIds' = OneKindOfIds
  BY DEF TypeInv, Unassigned, OneKindOfIds
<1>3. \A d \in Calls : call[d].at \notin {"checked", "pending"}
  BY <1>1, PendingAssumption DEF MutexInv
<1>4. CASE call'[c].at = "refused" /\ call'[c].id = call[c].id
           /\ \A d \in Calls : d # c => call'[d] = call[d]
  <2>1. BelowNextId'
    BY <1>1, <1>2, <1>4 DEF IdsInv, BelowNextId
  <2>2. KindOfId' /\ OnlyWaitsExpire'
    BY <1>4 DEF IdsInv, KindOfId, OnlyWaitsExpire
  <2>3. LiveIdsDiffer'
    BY <1>1, <1>2, <1>4 DEF IdsInv, LiveIdsDiffer, Live
  <2> QED
    BY <2>1, <2>2, <2>3 DEF IdsInv
<1>5. CASE call'[c] = [at |-> "checked", id |-> id, deferred |-> deferred]
           /\ \A d \in Calls : d # c => call'[d] = call[d]
  <2>1. call'[c].at = "checked" /\ call'[c].id = id
    BY <1>5
  <2>2. BelowNextId'
    BY <1>1, <1>2, <1>5, <2>1 DEF IdsInv, BelowNextId, OneKindOfIds
  <2>3. KindOfId' /\ OnlyWaitsExpire'
    BY <1>1, <1>5, <2>1, SetupFields DEF IdsInv, KindOfId, OnlyWaitsExpire
  <2>4. LiveIdsDiffer'
    <3> SUFFICES ASSUME OneKindOfIds', setup'.timeouts, NEW d \in Calls, NEW e \in Calls,
                        Live(d)', Live(e)', d # e
                 PROVE  call'[d].id # call'[e].id
      BY DEF LiveIdsDiffer
    <3>1. \A x \in Calls : x # c => (Live(x)' <=> Live(x))
      BY <1>1, <1>5 DEF Live
    <3>2. \A x \in Calls : x # c /\ Live(x) /\ id # Unassigned => call[x].id # id
      BY <1>1, <1>3 DEF Live, StillWaits
    <3>3. Live(c)' => id # Unassigned
      BY <2>1 DEF Live
    <3>4. CASE d # c /\ e # c
      BY <1>2, <1>5, <3>1, <3>4 DEF IdsInv, LiveIdsDiffer
    <3>5. CASE d = c \/ e = c
      BY <1>5, <2>1, <3>1, <3>2, <3>3, <3>5
    <3> QED
      BY <3>4, <3>5
  <2> QED
    BY <2>2, <2>3, <2>4 DEF IdsInv
<1> QED
  BY <1>4, <1>5, SendEffect

LEMMA PendingIds ==
  ASSUME TypeInv, MutexInv, IdsInv, setup' = setup, NEW c \in Calls, PendingRequest(c)
  PROVE  IdsInv'
<1>1. call[c].at = "checked" /\ outcome' = outcome
  BY DEF PendingRequest
<1>2. nextId \in Nat /\ OneKindOfIds' = OneKindOfIds /\ DOMAIN table \subseteq Int
  BY PendingAssumption DEF TypeInv, OneKindOfIds, RequestIds
<1>3. \A d \in Calls : call[d].id \in Int
  BY CallFields, PendingAssumption DEF RequestIds, Unassigned
<1>4. \A d \in Calls : d # c => call'[d] = call[d]
  BY PendingEffect
<1>5. CASE call'[c].at = "refused" /\ call'[c].id = call[c].id
           /\ UNCHANGED <<table, nextId>>
  <2>1. BelowNextId'
    BY <1>1, <1>2, <1>4, <1>5 DEF IdsInv, BelowNextId
  <2>2. KindOfId' /\ OnlyWaitsExpire'
    BY <1>4, <1>5 DEF IdsInv, KindOfId, OnlyWaitsExpire
  <2>3. LiveIdsDiffer'
    BY <1>1, <1>2, <1>4, <1>5 DEF IdsInv, LiveIdsDiffer, Live
  <2> QED
    BY <2>1, <2>2, <2>3 DEF IdsInv
<1>6. CASE /\ call'[c].at = "pending"
           /\ call'[c].id = IF call[c].id = Unassigned THEN nextId ELSE call[c].id
           /\ nextId' = IF call[c].id = Unassigned THEN nextId + 1 ELSE nextId
           /\ table' = Inserted(table, call'[c].id, c)
  <2>1. KindOfId' /\ OnlyWaitsExpire'
    BY <1>4, <1>6 DEF IdsInv, KindOfId, OnlyWaitsExpire
  <2>2. ASSUME call[c].id # Unassigned
        PROVE  BelowNextId' /\ LiveIdsDiffer'
    <3>1. nextId' = nextId /\ call'[c].id = call[c].id
      BY <1>6, <2>2
    <3>2. DOMAIN table' = DOMAIN table \cup {call[c].id}
      BY <1>6, <3>1 DEF Inserted
    <3>3. BelowNextId'
      BY <1>2, <1>4, <3>1, <3>2 DEF IdsInv, BelowNextId
    <3>4. LiveIdsDiffer'
      BY <1>1, <1>2, <1>4, <1>6, <2>2, <3>1 DEF IdsInv, LiveIdsDiffer, Live
    <3> QED
      BY <3>3, <3>4
  <2>3. ASSUME call[c].id = Unassigned
        PROVE  BelowNextId' /\ LiveIdsDiffer'
    <3>1. nextId' = nextId + 1 /\ call'[c].id = nextId
      BY <1>6, <2>3
    <3>2. DOMAIN table' = DOMAIN table \cup {nextId}
      BY <1>6, <3>1 DEF Inserted
    <3>3. setup.autoIds
      BY <1>1, <2>3, SetupFields DEF IdsInv, KindOfId
    <3>4. BelowNextId'
      BY <1>2, <1>3, <1>4, <3>1, <3>2, <3>3 DEF IdsInv, BelowNextId
    <3>5. OneKindOfIds => \A d \in Calls : d # c => call[d].id < nextId
      BY <3>3 DEF IdsInv, BelowNextId
    <3>6. LiveIdsDiffer'
      BY <1>1, <1>2, <1>3, <1>4, <3>1, <3>5 DEF IdsInv, LiveIdsDiffer, Live
    <3> QED
      BY <3>4, <3>6
  <2> QED
    BY <2>1, <2>2, <2>3 DEF IdsInv
<1> QED
  BY <1>5, <1>6, PendingEffect

LEMMA IdsNext == TypeInv /\ MutexInv /\ IdsInv /\ [PendingNext]_pendingVars => IdsInv'
<1> SUFFICES ASSUME TypeInv, MutexInv, IdsInv, [PendingNext]_pendingVars
             PROVE  IdsInv'
  OBVIOUS
<1>0. setup' = setup /\ OneKindOfIds' = OneKindOfIds
  BY SetupKept DEF OneKindOfIds
<1>1. ASSUME NEW c \in Calls, NEW id \in RequestIds \cup {Unassigned}, NEW deferred \in BOOLEAN,
             SendBegin(c, id, deferred)
      PROVE  IdsInv'
  BY <1>0, <1>1, SendIds
<1>2. ASSUME NEW c \in Calls, PendingRequest(c)
      PROVE  IdsInv'
  BY <1>0, <1>2, PendingIds
<1>3. ASSUME NEW c \in Calls,
             WriteRequest(c) \/ WriteFails(c) \/ WaitTimesOut(c) \/ RemoveExpired(c)
      PROVE  IdsInv'
  <2>1. /\ UNCHANGED <<nextId, outcome>>
        /\ table' = table \/ table' = Erased(table, call[c].id)
    BY <1>3 DEF WriteRequest, WriteFails, WaitTimesOut, RemoveExpired
  <2>2. DOMAIN table' \subseteq DOMAIN table
    BY <2>1, WithoutEntry
  <2>3. /\ \A d \in Calls : d # c => call'[d] = call[d]
        /\ call'[c].id = call[c].id
        /\ \/ WriteRequest(c) /\ call'[c].at = "sent"
           \/ WriteFails(c) /\ call'[c].at = "refused"
           \/ WaitTimesOut(c) /\ call'[c].at = "expiring"
           \/ RemoveExpired(c) /\ call'[c].at = "expired"
    BY <1>3, MoveEffect
  <2>4. BelowNextId'
    BY <1>0, <2>1, <2>2, <2>3 DEF IdsInv, BelowNextId
  <2>5. KindOfId'
    BY <1>0, <2>3 DEF IdsInv, KindOfId
  <2>6. OnlyWaitsExpire'
    BY <1>0, <2>3 DEF IdsInv, OnlyWaitsExpire, WaitTimesOut
  <2>7. Live(c)' => Live(c)
    BY <2>1, <2>3 DEF Live, WriteRequest, WaitTimesOut
  <2>8. LiveIdsDiffer'
    <3>1. \A d \in Calls : Live(d)' => Live(d)
      BY <2>1, <2>3, <2>7 DEF Live
    <3>2. \A d \in Calls : call'[d].id = call[d].id
      BY <2>3
    <3> QED
      BY <1>0, <3>1, <3>2 DEF IdsInv, LiveIdsDiffer
  <2> QED
    BY <2>4, <2>5, <2>6, <2>8 DEF IdsInv
<1>4. CASE /\ UNCHANGED <<nextId, call>>
           /\ DOMAIN table' \subseteq DOMAIN table
  <2>1. \A d \in Calls : Live(d)' => Live(d)
    BY <1>4, OutcomeKept DEF Live
  <2>2. LiveIdsDiffer'
    BY <1>0, <1>4, <2>1 DEF IdsInv, LiveIdsDiffer
  <2> QED
    BY <1>0, <1>4, <2>2 DEF IdsInv, BelowNextId, KindOfId, OnlyWaitsExpire
<1>5. ASSUME NEW m, RouteReply(m)
      PROVE  IdsInv'
  <2>1. table' = Erased(table, m[2]) /\ UNCHANGED <<nextId, call>>
    BY <1>5 DEF RouteReply
  <2>2. DOMAIN table' \subseteq DOMAIN table
    BY <2>1 DEF Erased, Restrict
  <2> QED
    BY <1>4, <2>1, <2>2
<1>6. CASE failPendingRequests
  BY <1>4, <1>6 DEF failPendingRequests
<1> QED
  BY <1>1, <1>2, <1>3, <1>4, <1>5, <1>6
     DEF PendingNext, Send, SendSteps, ReplySteps, StopSteps, pendingVars, PeerReplies, ParseReply,
         RouteDropped, Deliver, RunCallback, StopQuit, StopActive, StopSends, StopWorkerPools

\* An outcome is missing only where it was missing before.
LEMMA UnansweredKept ==
  ASSUME TypeInv, [PendingNext]_pendingVars, NEW c \in Calls, call'[c] = call[c], Unanswered(c)'
  PROVE  Unanswered(c)
BY OutcomeKept DEF Unanswered

LEMMA SendCovered ==
  ASSUME TypeInv, StopInv, Covered, [PendingNext]_pendingVars, NEW c \in Calls,
         NEW id \in RequestIds \cup {Unassigned}, NEW deferred \in BOOLEAN,
         SendBegin(c, id, deferred)
  PROVE  Covered'
<1>1. UNCHANGED <<stage, table, removed, posted, quitting>>
  BY DEF SendBegin, stopVars
<1>2. /\ \A d \in Calls : d # c => call'[d] = call[d]
      /\ \/ call'[c] = [at |-> "checked", id |-> id, deferred |-> deferred]
         \/ call'[c].at = "refused"
  BY SendEffect
<1>3. ~Unanswered(c)'
  BY <1>2 DEF Unanswered
<1>4. \A d \in Calls : d # c /\ Unanswered(d)' => Unanswered(d)
  BY <1>2, UnansweredKept
<1> QED
  BY <1>1, <1>2, <1>3, <1>4 DEF Covered, IsPending

LEMMA PendingCovered ==
  ASSUME TypeInv, IdsInv, OneKindOfIds, Covered, [PendingNext]_pendingVars, NEW c \in Calls,
         PendingRequest(c)
  PROVE  Covered'
<1>1. UNCHANGED <<stage, removed, posted, quitting>> /\ call[c].at = "checked"
  BY DEF PendingRequest, stopVars
<1>2. \A d \in Calls : d # c => call'[d] = call[d]
  BY PendingEffect
<1>3. \A d \in Calls : d # c /\ Unanswered(d)' => Unanswered(d)
  BY <1>2, UnansweredKept
<1>4. CASE call'[c].at = "refused" /\ table' = table
  <2>1. ~Unanswered(c)'
    BY <1>4 DEF Unanswered
  <2> QED
    BY <1>1, <1>2, <1>3, <1>4, <2>1 DEF Covered, IsPending
<1>5. CASE /\ ~Duplicate(call[c].id)
           /\ call'[c].id = IF call[c].id = Unassigned THEN nextId ELSE call[c].id
           /\ table' = Inserted(table, call'[c].id, c)
  <2>1. call'[c].id \notin DOMAIN table
    <3>1. CASE call[c].id # Unassigned
      BY <1>5, <3>1 DEF Duplicate
    <3>2. CASE call[c].id = Unassigned
      <4>1. setup.autoIds
        BY <1>1, <3>2, SetupFields DEF IdsInv, KindOfId
      <4>2. nextId \in Nat /\ \A i \in DOMAIN table : i < nextId
        BY <4>1 DEF IdsInv, BelowNextId, TypeInv
      <4> QED
        BY <1>5, <3>2, <4>2
    <3> QED
      BY <3>1, <3>2
  <2>2. /\ DOMAIN table' = DOMAIN table \cup {call'[c].id}
        /\ table'[call'[c].id] = c
        /\ \A j \in DOMAIN table : table'[j] = table[j]
    <3> DEFINE i == call'[c].id
    <3>1. table' = Inserted(table, i, c) /\ i \notin DOMAIN table
      BY <1>5, <2>1
    <3> HIDE DEF i
    <3>2. /\ DOMAIN table' = DOMAIN table \cup {i} /\ table'[i] = c
          /\ \A j \in DOMAIN table : table'[j] = table[j]
      BY <3>1 DEF Inserted
    <3> QED
      BY <3>2 DEF i
  <2>3. IsPending(call[c].id, c)'
    BY <2>2 DEF IsPending
  <2>4. \A d \in Calls : d # c /\ IsPending(call[d].id, d) => IsPending(call[d].id, d)'
    BY <1>2, <2>2 DEF IsPending
  <2> QED
    BY <1>1, <1>2, <1>3, <2>3, <2>4 DEF Covered
<1> QED
  BY <1>4, <1>5, PendingEffect

\* A write that fails takes back its own entry, and a wait that gives up
\* removes what is pending under its id, which is its own.
LEMMA MoveCovered ==
  ASSUME TypeInv, IdsInv, OneKindOfIds, Covered, [PendingNext]_pendingVars, NEW c \in Calls,
         WriteRequest(c) \/ WriteFails(c) \/ WaitTimesOut(c) \/ RemoveExpired(c)
  PROVE  Covered'
<1>1. UNCHANGED <<stage, removed, posted, quitting, outcome>>
  BY DEF WriteRequest, WriteFails, WaitTimesOut, RemoveExpired, stopVars
<1>2. /\ \A d \in Calls : d # c => call'[d] = call[d]
      /\ call'[c].id = call[c].id /\ call'[c].deferred = call[c].deferred
      /\ WriteFails(c) => call'[c].at = "refused"
      /\ WaitTimesOut(c) => call'[c].at = "expiring"
      /\ RemoveExpired(c) => call'[c].at = "expired"
  BY MoveEffect
<1>3. \A d \in Calls : d # c /\ Unanswered(d)' => Unanswered(d)
  BY <1>2, UnansweredKept
<1>4. CASE WriteRequest(c)
  <2>1. Unanswered(c)' => Unanswered(c)
    BY <1>1, <1>4 DEF WriteRequest, Unanswered
  <2>2. table' = table
    BY <1>4 DEF WriteRequest
  <2> QED
    BY <1>1, <1>2, <1>3, <2>1, <2>2 DEF Covered, IsPending
<1>5. CASE WriteFails(c) \/ WaitTimesOut(c) \/ RemoveExpired(c)
  <2>1. ~Unanswered(c)'
    BY <1>2, <1>5 DEF Unanswered
  <2>2. ASSUME NEW d \in Calls, d # c, Unanswered(d), IsPending(call[d].id, d)
        PROVE  IsPending(call[d].id, d)'
    <3>1. CASE table' = table
      BY <1>2, <2>2, <3>1 DEF IsPending
    <3>2. CASE WriteFails(c) /\ IsPending(call[c].id, c)
      <4>1. call[d].id # call[c].id
        BY <2>2, <3>2 DEF IsPending
      <4>2. table' = Erased(table, call[c].id)
        BY <3>2 DEF WriteFails
      <4> QED
        BY <1>2, <2>2, <4>1, <4>2 DEF IsPending, Erased, Restrict
    <3>3. CASE RemoveExpired(c)
      <4>1. call[c].at = "expiring" /\ table' = Erased(table, call[c].id)
        BY <3>3 DEF RemoveExpired
      <4>2. setup.timeouts
        BY <4>1, SetupFields DEF IdsInv, OnlyWaitsExpire
      <4>3. call[d].id \in RequestIds /\ call[d].id # Unassigned
        BY <2>2, PendingAssumption DEF IsPending, TypeInv, RequestIds, Unassigned
      <4>4. Live(d)
        BY <2>2, <4>3 DEF Live, Unanswered
      <4>5. call[d].id # call[c].id
        <5>1. CASE call[c].id = Unassigned
          BY <4>3, <5>1
        <5>2. CASE call[c].id # Unassigned
          <6>1. Live(c)
            BY <4>1, <5>2 DEF Live
          <6> QED
            BY <2>2, <4>2, <4>4, <6>1 DEF IdsInv, LiveIdsDiffer
        <5> QED
          BY <5>1, <5>2
      <4> QED
        BY <1>2, <2>2, <4>1, <4>5 DEF IsPending, Erased, Restrict
    <3> QED
      BY <1>5, <3>1, <3>2, <3>3 DEF WriteFails, WaitTimesOut
  <2> QED
    BY <1>1, <1>2, <1>3, <2>1, <2>2 DEF Covered
<1> QED
  BY <1>4, <1>5

LEMMA ReplyCovered ==
  ASSUME TypeInv, OneRemoved, Covered, [PendingNext]_pendingVars, ReplySteps
  PROVE  Covered'
<1>0. UNCHANGED <<stage, call, quitting>>
  BY DEF ReplySteps, ParseReply, RouteDropped, RouteReply, Deliver, RunCallback, stopVars
<1>1. \A d \in Calls : Unanswered(d)' => Unanswered(d)
  BY <1>0, UnansweredKept
<1>2. CASE UNCHANGED <<table, removed, posted>>
  BY <1>0, <1>1, <1>2 DEF Covered, IsPending
<1>3. ASSUME NEW n, NEW id, NEW c \in Calls, RouteReply(<<n, id, c>>)
      PROVE  Covered'
  <2>1. /\ table' = Erased(table, id) /\ removed' = {c} /\ posted' = posted
        /\ removed = {} /\ IsPending(id, c)
    BY <1>3 DEF RouteReply
  <2>2. \A d \in Calls :
          IsPending(call[d].id, d) => IsPending(call[d].id, d)' \/ d \in removed'
    BY <1>0, <2>1 DEF IsPending, Erased, Restrict
  <2> QED
    BY <1>0, <1>1, <2>1, <2>2 DEF Covered
<1>4. ASSUME NEW c \in Calls, Deliver(c)
      PROVE  Covered'
  <2>1. table' = table /\ removed = {c} /\ removed' = {}
    BY <1>4 DEF Deliver, OneRemoved
  <2>2. call[c].deferred \in BOOLEAN
    BY CallFields
  <2>3. CASE call[c].deferred
    <3>1. posted' = IF quitting THEN posted ELSE posted \cup {c}
      BY <1>4, <2>3 DEF Deliver
    <3> QED
      BY <1>0, <1>1, <2>1, <2>3, <3>1 DEF Covered, IsPending
  <2>4. CASE ~call[c].deferred
    <3>1. posted' = posted /\ outcome' = CompletedAs({c}, "response")
      BY <1>4, <2>4 DEF Deliver
    <3>2. ~Unanswered(c)'
      BY <3>1 DEF Unanswered, CompletedAs
    <3> QED
      BY <1>0, <1>1, <2>1, <3>1, <3>2 DEF Covered, IsPending
  <2> QED
    BY <2>2, <2>3, <2>4
<1>5. ASSUME NEW c \in Calls, RunCallback(c)
      PROVE  Covered'
  <2>1. /\ UNCHANGED <<table, removed>> /\ posted' = posted \ {c}
        /\ outcome' = CompletedAs({c}, "response")
    BY <1>5 DEF RunCallback
  <2>2. ~Unanswered(c)'
    BY <2>1 DEF Unanswered, CompletedAs
  <2> QED
    BY <1>0, <1>1, <2>1, <2>2 DEF Covered, IsPending
<1> QED
  BY <1>2, <1>3, <1>4, <1>5 DEF ReplySteps, ParseReply, RouteDropped

LEMMA CoveredNext ==
  ASSUME TypeInv, CallInv, OneKindOfIds, [PendingNext]_pendingVars
  PROVE  Covered'
<1> USE DEF CallInv
<1>1. ASSUME NEW c \in Calls, Send(c)
      PROVE  Covered'
  BY <1>1, SendCovered DEF Send
<1>2. ASSUME NEW c \in Calls, PendingRequest(c)
      PROVE  Covered'
  BY <1>2, PendingCovered
<1>3. ASSUME NEW c \in Calls,
             WriteRequest(c) \/ WriteFails(c) \/ WaitTimesOut(c) \/ RemoveExpired(c)
      PROVE  Covered'
  BY <1>3, MoveCovered
<1>4. CASE ReplySteps
  BY <1>4, ReplyCovered
<1>5. CASE StopQuit \/ StopActive \/ StopSends
  <2>1. UNCHANGED <<table, call, removed, posted, outcome>>
        /\ stage \in {"working", "routing", "output"} /\ (quitting => quitting')
    BY <1>5 DEF StopQuit, StopActive, StopSends
  <2> QED
    BY <2>1 DEF Covered, IsPending, Unanswered
<1>6. CASE failPendingRequests \/ StopWorkerPools
  <2>1. stage' \notin {"working", "routing", "output", "pending"}
    BY <1>6 DEF failPendingRequests, StopWorkerPools
  <2> QED
    BY <2>1 DEF Covered
<1>7. CASE UNCHANGED <<stage, quitting, table, call, removed, posted, outcome>>
  BY <1>7 DEF Covered, IsPending, Unanswered
<1> QED
  BY <1>1, <1>2, <1>3, <1>4, <1>5, <1>6, <1>7
     DEF PendingNext, SendSteps, StopSteps, pendingVars, stopVars, PeerReplies

LEMMA FailedNext ==
  ASSUME TypeInv, CallInv, OneKindOfIds, [PendingNext]_pendingVars
  PROVE  FailedInv'
<1> SUFFICES ASSUME stage' \in {"pools", "stopped"}, NEW c \in Calls,
                    ~call'[c].deferred, Open(c)'
             PROVE  FALSE
  BY DEF FailedInv
<1>1. /\ StopInv /\ MutexInv /\ Covered /\ FailedInv
  BY DEF CallInv
<1>2. outcome[c] = "none"
  BY OutcomeKept DEF Open
<1>3. CASE failPendingRequests
  <2>1. /\ stage = "pending" /\ call' = call
        /\ outcome' = CompletedAs(Range(table), "stopped")
    BY <1>3 DEF failPendingRequests
  <2>2. Unanswered(c) /\ ~call[c].deferred
    BY <1>2, <2>1 DEF Open, Unanswered
  <2>3. removed = {}
    BY <1>1, <2>1 DEF StopInv
  <2>4. IsPending(call[c].id, c)
    BY <1>1, <2>1, <2>2, <2>3 DEF Covered
  <2>5. c \in Range(table)
    BY <2>4 DEF IsPending, Range
  <2>6. outcome'[c] = "stopped"
    BY <1>2, <2>1, <2>5 DEF CompletedAs
  <2> QED
    BY <2>6 DEF Open
<1>4. CASE ~failPendingRequests
  <2>1. stage \in {"pools", "stopped"}
    BY <1>4 DEF PendingNext, Send, SendSteps, ReplySteps, StopSteps, pendingVars, stopVars, SendBegin,
       PendingRequest, WriteRequest, WriteFails, WaitTimesOut, RemoveExpired, PeerReplies,
       ParseReply, RouteDropped, RouteReply, Deliver, RunCallback, StopQuit,
       StopActive, StopSends, StopWorkerPools
  <2>2. \A d \in Calls : call[d].at \notin {"checked", "pending"}
    BY <1>1, <2>1, PendingAssumption DEF StopInv, MutexInv
  <2>3. call'[c] = call[c]
    <3>1. ASSUME NEW d \in Calls, Send(d)
          PROVE  call'[c] = call[c]
      <4>1. ~outputActive
        BY <1>1, <2>1 DEF StopInv
      <4>2. call'[d].at = "refused" /\ \A e \in Calls : e # d => call'[e] = call[e]
        BY <3>1, <4>1, SendEffect DEF Send
      <4> QED
        BY <4>2 DEF Open
    <3>2. ASSUME NEW d \in Calls, WaitTimesOut(d) \/ RemoveExpired(d)
          PROVE  call'[c] = call[c]
      <4>1. call'[d].at # "sent" /\ \A e \in Calls : e # d => call'[e] = call[e]
        BY <3>2, MoveEffect
      <4> QED
        BY <4>1 DEF Open
    <3>3. ASSUME NEW d \in Calls, SendSteps(d) \/ WriteFails(d)
          PROVE  FALSE
      BY <2>2, <3>3 DEF SendSteps, PendingRequest, WriteRequest, WriteFails
    <3> QED
      BY <3>1, <3>2, <3>3
         DEF PendingNext, ReplySteps, StopSteps, pendingVars, PeerReplies, ParseReply, RouteDropped,
             RouteReply, Deliver, RunCallback, StopQuit, StopActive, StopSends,
             failPendingRequests, StopWorkerPools
  <2>4. Open(c) /\ ~call[c].deferred
    BY <1>2, <2>3 DEF Open
  <2> QED
    BY <1>1, <2>1, <2>4 DEF FailedInv
<1> QED
  BY <1>3, <1>4

LEMMA CallInit == PendingInit => CallInv
<1> SUFFICES ASSUME PendingInit
             PROVE  CallInv
  OBVIOUS
<1>1. /\ ~quitting /\ stage = "working" /\ removed = {} /\ nextId = 0
      /\ DOMAIN table = {}
      /\ \A c \in Calls : call[c].at = "new" /\ call[c].id = Unassigned
  BY DEF PendingInit, NewCall
<1>2. StopInv /\ MutexInv /\ OneRemoved /\ Covered /\ FailedInv
  BY <1>1 DEF StopInv, MutexInv, OneRemoved, Covered, Unanswered, FailedInv
<1>3. IdsInv
  BY <1>1 DEF IdsInv, BelowNextId, KindOfId, OnlyWaitsExpire, LiveIdsDiffer, Live,
     Unassigned
<1> QED
  BY <1>2, <1>3 DEF CallInv

LEMMA CallNext == TypeInv /\ CallInv /\ [PendingNext]_pendingVars => CallInv'
<1> SUFFICES ASSUME TypeInv, CallInv, [PendingNext]_pendingVars
             PROVE  CallInv'
  OBVIOUS
<1>1. StopInv' /\ MutexInv' /\ IdsInv' /\ OneRemoved'
  BY StopInvNext, MutexNext, IdsNext, OneRemovedNext DEF CallInv
<1>2. OneKindOfIds' = OneKindOfIds
  BY SetupKept DEF OneKindOfIds
<1>3. OneKindOfIds => Covered' /\ FailedInv'
  BY CoveredNext, FailedNext
<1> QED
  BY <1>1, <1>2, <1>3 DEF CallInv

\* As long as the endpoint works, a call that was sent keeps its entry in
\* _client_request_futures until a response takes it: duplicate ids, failed
\* writes, late and repeated responses and expired waits never remove the
\* entry of another call.
THEOREM CallsKept == PendingSpec => [](OneKindOfIds => NoCallLost)
<1>1. PendingInit => TypeInv /\ CallInv
  BY TypeInit, CallInit
<1>2. TypeInv /\ CallInv /\ [PendingNext]_pendingVars => (TypeInv /\ CallInv)'
  BY TypeNext, CallNext
<1>3. TypeInv /\ CallInv => (OneKindOfIds => NoCallLost)
  <2> SUFFICES ASSUME TypeInv, CallInv, OneKindOfIds, ~quitting, NEW c \in Calls, Open(c)
               PROVE  IsPending(call[c].id, c) \/ c \in removed \/ c \in posted
    BY DEF NoCallLost
  <2>1. stage = "working" /\ Covered
    BY DEF CallInv, StopInv
  <2>2. Unanswered(c)
    BY DEF Open, Unanswered
  <2> QED
    BY <2>1, <2>2 DEF Covered
<1> QED
  BY <1>1, <1>2, <1>3, PTL DEF PendingSpec

\* When stop() returns, failPendingRequests has failed every future and every
\* blocking wait that no response had completed, those of a send() that raced
\* with stop() included.
THEOREM FuturesFail == PendingSpec => [](OneKindOfIds => StopFailsFutures)
<1>1. PendingInit => TypeInv /\ CallInv
  BY TypeInit, CallInit
<1>2. TypeInv /\ CallInv /\ [PendingNext]_pendingVars => (TypeInv /\ CallInv)'
  BY TypeNext, CallNext
<1>3. CallInv => (OneKindOfIds => StopFailsFutures)
  BY DEF CallInv, FailedInv, StopFailsFutures
<1> QED
  BY <1>1, <1>2, <1>3, PTL DEF PendingSpec
=============================================================================
