------------------------ MODULE CancellationRegistry ------------------------
(***************************************************************************)
(* $/cancelRequest: RequestCancellationRegistry and the code around it.    *)
(* A request registers a canceler under its id when its handler is about   *)
(* to run; a cancel that finds no canceler waits in a table for the        *)
(* request; an asynchronous handler keeps ("retains") the canceler after   *)
(* it has returned; stop() cancels everything and empties the tables.      *)
(*                                                                         *)
(* The position of a message in wire is its sequence number, and a request *)
(* is named by that number.  The cookie that tells two uses of an id apart *)
(* is the number of the request that registered.                           *)
(***************************************************************************)
EXTENDS Integers, FiniteSets, Sequences, Functions

CONSTANTS
  Ids,            \* request ids
  MaxMessages,    \* bound: requests and cancels received
  MaxStops,       \* bound: calls of stop()
  Setups          \* the endpoints and peers to consider

(***************************************************************************)
(* A setup: the limits max_pending_cancel_requests and                     *)
(* max_seen_request_ids of the endpoint (0 means no limit), whether it has *)
(* handlers that return a future, and when the peer reuses a request's id: *)
(* at once, when it has the answer, or well after it.  A peer that waits   *)
(* does so over a restart too.                                             *)
(***************************************************************************)
Setup ==
  [pendingLimit : Nat, seenLimit : Nat, async : BOOLEAN,
   reuseAfter : {"received", "answered", "done"}]

ASSUME RegistryAssumption ==
  /\ MaxMessages \in Nat
  /\ MaxStops \in Nat
  /\ Setups \subseteq Setup

VARIABLES
  setup,         \* d_ptr->limits, the handlers and the peer
  wire,          \* history: the messages received so far
  session,       \* number of calls of stop() so far
  quit,          \* d_ptr->quit
  stopped,       \* from stop() until the new pools have replaced the old ones
  state,         \* where each request stands
  cancelers,     \* requestCancelers: id to cookie
  pending,       \* pendingCancelRequests: id to sequence number
  pendingOrder,  \* pendingCancelOrder
  seen,          \* seenRequestIds: id to sequence number
  seenOrder,     \* seenRequestOrder
  retained,      \* retainedRequestCancelers: <<id, cookie>> to a count
  holds,         \* the keys a request's asynchronous completion has retained
  newest,        \* history: the request that last registered under each id
  cancelled      \* history: <<request, cause>>, the cancel or ByStop

tableVars == <<cancelers, newest, pending, pendingOrder, seen, seenOrder, retained>>
vars == <<setup, wire, session, quit, stopped, state, tableVars, holds, cancelled>>

ByStop == 0

Slots == 1..MaxMessages
Received == DOMAIN wire
Requests == {n \in Slots : state[n] # "none"}
IdOf(r) == wire[r].id

\* From registering its canceler to its answer, a request is running.
Running(r) == state[r] \in {"running", "retaining", "async"}

Reusable(r) ==
  CASE setup.reuseAfter = "received" -> TRUE
    [] setup.reuseAfter = "answered" -> state[r] \in {"answered", "releasing", "done"}
    [] setup.reuseAfter = "done"     -> state[r] = "done"

EmptyTable == [x \in {} |-> 0]
Without(f, x) == Restrict(f, DOMAIN f \ {x})
With(f, x, v) == [y \in DOMAIN f \cup {x} |-> IF y = x THEN v ELSE f[y]]

Init ==
  /\ setup \in Setups
  /\ wire = <<>>
  /\ session = 0
  /\ quit = FALSE
  /\ stopped = FALSE
  /\ state = [n \in Slots |-> "none"]
  /\ cancelers = EmptyTable
  /\ newest = EmptyTable
  /\ pending = EmptyTable
  /\ pendingOrder = <<>>
  /\ seen = EmptyTable
  /\ seenOrder = <<>>
  /\ retained = EmptyTable
  /\ holds = EmptyTable
  /\ cancelled = {}

-----------------------------------------------------------------------------
(***************************************************************************)
(* recordPendingCancel and recordSeenRequest put an entry into a table and *)
(* at the end of the order, and then drop entries from the front of the    *)
(* order while the table is too large.  An entry of the order whose number *)
(* is no longer the table's is stale and removes nothing.  k is the number *)
(* of entries the loop takes from the front.                               *)
(***************************************************************************)
\* Slip: stale entries of the order remove the newer entry too.
PrunedBlindly(table, order, k) ==
  Restrict(table, {x \in DOMAIN table : \A i \in 1..k : order[i][1] # x})

Pruned(table, order, k) ==
  Restrict(table,
           {x \in DOMAIN table : \A i \in 1..k : order[i] # <<x, table[x]>>})

\* Slip: one entry too many stays.
FitsLoosely(table, limit) == limit = 0 \/ Cardinality(DOMAIN table) <= limit + 1

Fits(table, limit) == limit = 0 \/ Cardinality(DOMAIN table) <= limit

PruneStops(table, order, k, limit) ==
  /\ Fits(Pruned(table, order, k), limit) \/ k = Len(order)
  /\ \A j \in 0..(k - 1) : ~Fits(Pruned(table, order, j), limit)

\* Slip: an id that already stands in the order is not appended again.
AppendedOnce(order, id, n) ==
  IF \E i \in DOMAIN order : order[i][1] = id THEN order ELSE Append(order, <<id, n>>)

Appended(order, id, n) == Append(order, <<id, n>>)

recordPendingCancel(id, n) ==
  LET table == With(pending, id, n)
      order == Appended(pendingOrder, id, n)
  IN  \E k \in 0..Len(order) :
        /\ PruneStops(table, order, k, setup.pendingLimit)
        /\ pending' = Pruned(table, order, k)
        /\ pendingOrder' = SubSeq(order, k + 1, Len(order))

recordSeenRequest(id, n) ==
  LET table == With(seen, id, n)
      order == Appended(seenOrder, id, n)
  IN  \E k \in 0..Len(order) :
        /\ PruneStops(table, order, k, setup.seenLimit)
        /\ seen' = Pruned(table, order, k)
        /\ seenOrder' = SubSeq(order, k + 1, Len(order))

-----------------------------------------------------------------------------
(***************************************************************************)
(* The messages.  A peer may reuse the id of a request it has an answer    *)
(* for; the request's own cleanup may still be to come.                    *)
(***************************************************************************)
Receive(kind, id) ==
  /\ ~stopped
  /\ Len(wire) < MaxMessages
  /\ wire' = Append(wire, [kind |-> kind, id |-> id, session |-> session])

ReceiveRequest(id) ==
  /\ Receive("request", id)
  /\ \A r \in Requests : IdOf(r) = id => Reusable(r)
  /\ state' = [state EXCEPT ![Len(wire) + 1] = "routed"]
  /\ UNCHANGED <<setup, session, quit, stopped, tableVars, holds, cancelled>>

\* Slip: the table keeps the older of two cancels.
SupersedesNever(id, n) == id \notin DOMAIN pending

Supersedes(id, n) == id \notin DOMAIN pending \/ pending[id] < n

onCancel(id) ==
  LET n == Len(wire) + 1
  IN  /\ Receive("cancel", id)
      /\ \/ /\ id \in DOMAIN cancelers
            /\ cancelled' = cancelled \cup {<<cancelers[id], n>>}
            /\ UNCHANGED <<pending, pendingOrder>>
         \/ /\ id \notin DOMAIN cancelers
            /\ IF Supersedes(id, n) THEN recordPendingCancel(id, n)
                                    ELSE UNCHANGED <<pending, pendingOrder>>
            /\ UNCHANGED cancelled
      /\ UNCHANGED <<setup, session, quit, stopped, state, cancelers, newest, seen, seenOrder,
                     retained, holds>>

-----------------------------------------------------------------------------
(***************************************************************************)
(* A request's handler.  mainLoop looks at quit first; registering the     *)
(* canceler is a later step.                                               *)
(***************************************************************************)
Enter(r) ==
  /\ state[r] = "routed"
  /\ ~quit
  /\ state' = [state EXCEPT ![r] = "entered"]
  /\ UNCHANGED <<setup, wire, session, quit, stopped, tableVars, holds, cancelled>>

\* A stopped pool forgets the tasks it has not begun, and one that has begun
\* returns if it finds quit set.
Dropped(r) ==
  /\ state[r] = "routed"
  /\ stopped
  /\ state' = [state EXCEPT ![r] = "done"]
  /\ UNCHANGED <<setup, wire, session, quit, stopped, tableVars, holds, cancelled>>

\* Slip: a cancel that is waiting is always taken to be for this request.
CancelIsForAny(id, r) == id \in DOMAIN pending

\* A waiting cancel is for request r if no request had this id before, or if
\* it came after r.
CancelIsFor(id, r) == id \in DOMAIN pending /\ (id \notin DOMAIN seen \/ pending[id] > r)

cancelableRequestContext(r) ==
  LET id == IdOf(r)
  IN  /\ state[r] = "entered"
      /\ state' = [state EXCEPT ![r] = "running"]
      /\ cancelers' = With(cancelers, id, r)
      /\ newest' = With(newest, id, r)
      /\ cancelled' = cancelled \cup
           {c \in {<<r, n>> : n \in Received} : CancelIsFor(id, r) /\ c[2] = pending[id]}
      /\ pending' = Without(pending, id)
      /\ recordSeenRequest(id, r)
      /\ UNCHANGED <<setup, wire, session, quit, stopped, pendingOrder, retained, holds>>

\* Slip: whoever finishes removes the canceler of the id.
UnregisteredAny(key) == Without(cancelers, key[1])

\* The canceler of an id is removed by the request that registered it.
Unregistered(key) ==
  IF key[1] \in DOMAIN cancelers /\ cancelers[key[1]] = key[2]
  THEN Without(cancelers, key[1]) ELSE cancelers

\* A synchronous handler has written its response ...
Answer(r) ==
  /\ state[r] = "running"
  /\ state' = [state EXCEPT ![r] = "answered"]
  /\ UNCHANGED <<setup, wire, session, quit, stopped, tableVars, holds, cancelled>>

\* ... and the context of the request is left.
LeaveContext(r) ==
  /\ state[r] = "answered"
  /\ state' = [state EXCEPT ![r] = "done"]
  /\ cancelers' = IF <<IdOf(r), r>> \in DOMAIN retained THEN cancelers
                  ELSE Unregistered(<<IdOf(r), r>>)
  /\ UNCHANGED <<setup, wire, session, quit, stopped, newest, pending, pendingOrder, seen,
                 seenOrder, retained, holds, cancelled>>

\* ++retainedRequestCancelers[key]
CountOneMore(key) == IF key \in DOMAIN retained THEN retained[key] + 1 ELSE 1

\* retainRequestCancellation: an asynchronous handler has returned a future;
\* the key is that of the canceler registered under the id at this moment.
Retain(r) ==
  /\ state[r] = "running"
  /\ setup.async
  /\ state' = [state EXCEPT ![r] = "retaining"]
  /\ IF IdOf(r) \in DOMAIN cancelers
     THEN LET key == <<IdOf(r), cancelers[IdOf(r)]>>
          IN  /\ holds' = With(holds, r, key)
              /\ retained' = With(retained, key, CountOneMore(key))
     ELSE UNCHANGED <<holds, retained>>
  /\ UNCHANGED <<setup, wire, session, quit, stopped, cancelers, newest, pending, pendingOrder,
                 seen, seenOrder, cancelled>>

\* The handler's own context is left while the future is still open.
LeaveAsyncContext(r) ==
  /\ state[r] = "retaining"
  /\ state' = [state EXCEPT ![r] = "async"]
  /\ cancelers' = IF <<IdOf(r), r>> \in DOMAIN retained THEN cancelers
                  ELSE Unregistered(<<IdOf(r), r>>)
  /\ UNCHANGED <<setup, wire, session, quit, stopped, newest, pending, pendingOrder, seen,
                 seenOrder, retained, holds, cancelled>>

\* The future is ready and its answer written (or dropped by stop()).
AnswerAsync(r) ==
  /\ state[r] = "async"
  /\ state' = [state EXCEPT ![r] = "releasing"]
  /\ UNCHANGED <<setup, wire, session, quit, stopped, tableVars, holds, cancelled>>

\* The retainer is released: the last one removes the canceler.
Release(r) ==
  /\ state[r] = "releasing"
  /\ state' = [state EXCEPT ![r] = "done"]
  /\ holds' = Without(holds, r)
  /\ IF r \notin DOMAIN holds
     THEN UNCHANGED <<retained, cancelers>>
     ELSE LET key == holds[r]
          IN  IF key \in DOMAIN retained /\ retained[key] > 1
              THEN /\ retained' = With(retained, key, retained[key] - 1)
                   /\ UNCHANGED cancelers
              ELSE /\ retained' = Without(retained, key)
                   /\ cancelers' = Unregistered(key)
  /\ UNCHANGED <<setup, wire, session, quit, stopped, newest, pending, pendingOrder, seen,
                 seenOrder, cancelled>>

-----------------------------------------------------------------------------
(***************************************************************************)
(* clear(): every registered canceler is invoked and the tables emptied.   *)
(* The pools are stopped and not joined.                                   *)
(***************************************************************************)
Stop ==
  /\ ~stopped
  /\ session < MaxStops
  /\ quit' = TRUE
  /\ stopped' = TRUE
  /\ session' = session + 1
  /\ cancelled' = cancelled \cup {<<cancelers[id], ByStop>> : id \in DOMAIN cancelers}
  /\ cancelers' = EmptyTable
  /\ newest' = EmptyTable
  /\ retained' = EmptyTable
  /\ pending' = EmptyTable
  /\ pendingOrder' = <<>>
  /\ seen' = EmptyTable
  /\ seenOrder' = <<>>
  /\ UNCHANGED <<setup, wire, state, holds>>

\* A new start clears quit: a worker of the old pool that has taken a task and
\* not yet looked at quit may still enter its handler.
Start ==
  /\ quit
  /\ quit' = FALSE
  /\ UNCHANGED <<setup, wire, session, stopped, state, tableVars, holds, cancelled>>

\* Then it joins the old pools, and only afterwards a message can come in.  Of
\* the old requests those are left whose future is with the completion loop.
StartPools ==
  /\ stopped /\ ~quit
  /\ \A r \in Requests : state[r] \in {"async", "releasing", "done"}
  /\ stopped' = FALSE
  /\ UNCHANGED <<setup, wire, session, quit, state, tableVars, holds, cancelled>>

-----------------------------------------------------------------------------
Handle(r) ==
  \/ Enter(r)
  \/ Dropped(r)
  \/ cancelableRequestContext(r)
  \/ Answer(r)
  \/ LeaveContext(r)
  \/ Retain(r)
  \/ LeaveAsyncContext(r)
  \/ AnswerAsync(r)
  \/ Release(r)

Next ==
  \/ \E id \in Ids : ReceiveRequest(id) \/ onCancel(id)
  \/ \E r \in Slots : Handle(r)
  \/ Stop
  \/ Start
  \/ StartPools

Spec == Init /\ [][Next]_vars

-----------------------------------------------------------------------------
(***************************************************************************)
(* Properties.                                                             *)
(***************************************************************************)
\* Both tables stay within their configured size, although entries leave
\* them without leaving the order and ids come back with a new number.
TablesBounded ==
  /\ setup.pendingLimit # 0 => Cardinality(DOMAIN pending) <= setup.pendingLimit
  /\ setup.seenLimit # 0 => Cardinality(DOMAIN seen) <= setup.seenLimit

\* Every entry of a table can still be found by pruning: it stands in the
\* order with its current number.
OrderCoversTable ==
  /\ \A x \in DOMAIN pending : \E i \in DOMAIN pendingOrder :
       pendingOrder[i] = <<x, pending[x]>>
  /\ \A x \in DOMAIN seen : \E i \in DOMAIN seenOrder :
       seenOrder[i] = <<x, seen[x]>>

\* Recording a cancel never prunes that same cancel, although older entries
\* of the order may name its id.
NewestCancelKept ==
  [][Len(wire') > Len(wire) /\ pendingOrder' # pendingOrder
       => wire'[Len(wire')].id \in DOMAIN pending']_vars

\* The peer does not reuse an id before it has the answer.
PeerWaits == setup.reuseAfter # "received"

\* A cancel never reaches back: if the peer waits for answers, and as long as
\* no seen id is pruned, a request is cancelled by a message that came before
\* it only if it is the first of its session with this id.
NoStaleCancel ==
  PeerWaits /\ setup.seenLimit = 0 => \A c \in cancelled :
    c[2] # ByStop /\ c[2] < c[1] =>
      \A r \in Requests : r < c[1] /\ IdOf(r) = IdOf(c[1]) =>
        wire[r].session # wire[c[1]].session

\* A cancel that was routed after a request reaches it: once the handler
\* runs, and until it has answered, the request is cancelled.  A request of
\* an earlier session has lost its cancels with that session.
CancelReachesRequest ==
  setup.pendingLimit = 0 /\ ~stopped =>
    \A r \in Requests : \A n \in Received :
      /\ Running(r) /\ wire[r].session = session /\ n > r
      /\ wire[n].kind = "cancel" /\ wire[n].id = IdOf(r)
      => \E c \in cancelled : c[1] = r

\* The same for a peer that does not reuse an id before the request has left
\* its cancellation context, which the peer cannot observe.
CancelReachesLateReuse == setup.reuseAfter = "done" => CancelReachesRequest

\* "If a client reuses an ID, the last wins" (RemoteEndPoint.cpp:264): of the
\* requests that share an id, the one that registered last can be cancelled as
\* long as it runs, whatever the others do.
LastWins ==
  ~stopped =>
    \A id \in DOMAIN newest :
      Running(newest[id]) => id \in DOMAIN cancelers /\ cancelers[id] = newest[id]

\* The last wins over requests that are still running if none of them returns
\* a future; otherwise it wins over requests that have been answered, whose
\* cleanup and release come later, for a peer that waits for the answer.
\* (retainRequestCancellation of an earlier request would take the canceler of
\* the last one for its own.)
LastWinsUnlessRetained == PeerWaits \/ ~setup.async => LastWins
=============================================================================
