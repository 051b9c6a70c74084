--------------------- MODULE CancellationRegistryProofs ---------------------
(***************************************************************************)
(* Proofs about CancellationRegistry, for any set of ids, any number of    *)
(* messages and stops and any limits: the tables and their orders stay     *)
(* consistent and bounded, and a peer that does not reuse the id of a      *)
(* request it has no answer for gets exactly the cancellations it asked    *)
(* for.                                                                    *)
(***************************************************************************)
EXTENDS CancellationRegistry, FiniteSetTheorems, SequenceTheorems, TLAPS

States == {"none", "routed", "entered", "running", "answered", "retaining", "async",
           "releasing", "done"}

Message == [kind : {"request", "cancel"}, id : Ids, session : Nat]

Entry == Ids \X Nat

\* The types of the variables.
TypeInv ==
  /\ setup \in Setups
  /\ wire \in Seq(Message) /\ Len(wire) <= MaxMessages
  /\ session \in Nat
  /\ quit \in BOOLEAN
  /\ stopped \in BOOLEAN
  /\ state \in [Slots -> States]
  /\ DOMAIN cancelers \subseteq Ids /\ cancelers \in [DOMAIN cancelers -> Slots]
  /\ DOMAIN newest \subseteq Ids /\ newest \in [DOMAIN newest -> Slots]
  /\ DOMAIN pending \subseteq Ids /\ pending \in [DOMAIN pending -> Nat]
  /\ pendingOrder \in Seq(Entry)
  /\ DOMAIN seen \subseteq Ids /\ seen \in [DOMAIN seen -> Nat]
  /\ seenOrder \in Seq(Entry)
  /\ DOMAIN retained \subseteq Ids \X Slots /\ retained \in [DOMAIN retained -> Nat]
  /\ DOMAIN holds \subseteq Slots /\ holds \in [DOMAIN holds -> Ids \X Slots]
  /\ cancelled \subseteq Slots \X Nat

\* A request was received, in a session that has begun, and what waits was
\* received.
NumbersInv ==
  /\ \A r \in Requests : r \in Received /\ wire[r].session <= session
  /\ \A x \in DOMAIN pending : pending[x] \in Received
  /\ \A i \in DOMAIN pendingOrder : pendingOrder[i][2] <= Len(wire)

\* The tables and their orders.
OrderInv ==
  /\ OrderCoversTable
  /\ IsFiniteSet(DOMAIN pending)
  /\ IsFiniteSet(DOMAIN seen)
  /\ TablesBounded

Finished(r) == state[r] \in {"answered", "releasing", "done"}

\* Of the requests with one id only the last may still be without an answer.
OneAtATime ==
  \A r1, r2 \in Requests : r1 < r2 /\ IdOf(r1) = IdOf(r2) =>
    /\ Finished(r1)
    /\ setup.reuseAfter = "done" => state[r1] = "done"

\* From registering its canceler until it has left its context.
Registered == {"running", "answered", "retaining", "async", "releasing"}

\* A registered canceler belongs to a request that has not left its context,
\* and a running request finds no canceler but its own under its id.
CancelerInv ==
  /\ \A id \in DOMAIN cancelers :
       /\ cancelers[id] \in Requests /\ IdOf(cancelers[id]) = id
       /\ state[cancelers[id]] \in Registered
  /\ \A r \in Requests : Running(r) /\ IdOf(r) \in DOMAIN cancelers =>
       cancelers[IdOf(r)] = r

\* A request retains its own canceler, once, as soon as its handler has
\* returned a future.
RetainInv ==
  /\ \A r \in DOMAIN holds :
       /\ r \in Requests /\ holds[r] = <<IdOf(r), r>>
       /\ state[r] \in {"retaining", "async", "releasing"}
  /\ \A key \in DOMAIN retained :
       retained[key] = 1 /\ key[2] \in DOMAIN holds /\ holds[key[2]] = key
  /\ \A id \in DOMAIN cancelers :
       state[cancelers[id]] \in {"retaining", "async", "releasing"} =>
         <<id, cancelers[id]>> \in DOMAIN retained

\* The request that registered last is the one that can be cancelled, and the
\* running request of this session is the one that registered last.
NewestInv ==
  /\ \A id \in DOMAIN newest :
       /\ newest[id] \in Requests /\ IdOf(newest[id]) = id
       /\ Running(newest[id]) => id \in DOMAIN cancelers /\ cancelers[id] = newest[id]
  /\ \A r \in Requests : Running(r) /\ wire[r].session = session =>
       IdOf(r) \in DOMAIN newest /\ newest[IdOf(r)] = r

\* Of a session's requests only futures are open when the next one starts;
\* what has run in this session is in seen; a stopped endpoint has no cancel
\* waiting.
SessionInv ==
  /\ \A r \in Requests :
       wire[r].session # session /\ state[r] \notin {"async", "releasing", "done"} => stopped
  /\ stopped => DOMAIN pending = {} /\ \A r \in Requests : wire[r].session # session
  /\ setup.seenLimit = 0 => \A r \in Requests :
       wire[r].session = session /\ state[r] \notin {"routed", "entered"} =>
         IdOf(r) \in DOMAIN seen

\* Cancelled requests are requests.
CancelledInv == \A c \in cancelled : c[1] \in Requests

\* A cancel that has come waits for its request, or has reached it, within a
\* session.
CancelWaits ==
  setup.reuseAfter = "done" /\ setup.pendingLimit = 0 /\ ~stopped =>
    \A r \in Requests : \A n \in Received :
      /\ wire[r].session = session /\ n > r
      /\ wire[n].kind = "cancel" /\ wire[n].id = IdOf(r)
      =>
        /\ state[r] \in {"routed", "entered"} =>
             IdOf(r) \in DOMAIN pending /\ pending[IdOf(r)] > r
        /\ Running(r) => \E c \in cancelled : c[1] = r

PeerInv == OneAtATime /\ CancelerInv /\ RetainInv /\ NewestInv

-----------------------------------------------------------------------------
(***************************************************************************)
(* Tables.                                                                 *)
(***************************************************************************)
LEMMA WithoutEntry ==
  ASSUME NEW f, NEW x
  PROVE  /\ DOMAIN Without(f, x) = DOMAIN f \ {x}
         /\ \A y \in DOMAIN f \ {x} : Without(f, x)[y] = f[y]
BY DEF Without, Restrict

LEMMA WithEntry ==
  ASSUME NEW f, NEW x, NEW v
  PROVE  /\ DOMAIN With(f, x, v) = DOMAIN f \cup {x}
         /\ With(f, x, v)[x] = v
         /\ \A y \in DOMAIN f : y # x => With(f, x, v)[y] = f[y]
BY DEF With

Table(f, D, R) == DOMAIN f \subseteq D /\ f \in [DOMAIN f -> R]

LEMMA TableWithout ==
  ASSUME NEW D, NEW R, NEW f, Table(f, D, R), NEW x
  PROVE  Table(Without(f, x), D, R)
BY DEF Table, Without, Restrict

LEMMA TableWith ==
  ASSUME NEW D, NEW R, NEW f, Table(f, D, R), NEW x \in D, NEW v \in R
  PROVE  Table(With(f, x, v), D, R)
BY DEF Table, With

\* Every entry of a table stands in the order.
Covers(order, table) ==
  \A x \in DOMAIN table : \E i \in DOMAIN order : order[i] = <<x, table[x]>>

\* What is left of a table when the first k entries of the order are taken.
LEMMA PrunedEntries ==
  ASSUME NEW table, Table(table, Ids, Nat), NEW order \in Seq(Entry),
         NEW k \in 0..Len(order)
  PROVE  /\ \A x : x \in DOMAIN Pruned(table, order, k) <=>
              x \in DOMAIN table /\ \A i \in 1..k : order[i] # <<x, table[x]>>
         /\ \A x \in DOMAIN Pruned(table, order, k) :
              Pruned(table, order, k)[x] = table[x]
         /\ Table(Pruned(table, order, k), Ids, Nat)
<1> DEFINE D == {x \in DOMAIN table : \A i \in 1..k : order[i] # <<x, table[x]>>}
<1>1. Pruned(table, order, k) = [x \in D |-> table[x]]
  BY DEF Pruned, Restrict
<1>2. D \subseteq DOMAIN table
  OBVIOUS
<1> HIDE DEF D
<1>3. Table([x \in D |-> table[x]], Ids, Nat)
  BY <1>2 DEF Table
<1>4. /\ DOMAIN Pruned(table, order, k) = D
      /\ \A x \in D : Pruned(table, order, k)[x] = table[x]
  BY <1>1
<1>5. Table(Pruned(table, order, k), Ids, Nat)
  BY <1>1, <1>3
<1> QED
  BY <1>4, <1>5 DEF D

LEMMA OrderTail ==
  ASSUME NEW order \in Seq(Entry), NEW k \in 0..Len(order)
  PROVE  LET tail == SubSeq(order, k + 1, Len(order))
         IN  /\ tail \in Seq(Entry)
             /\ Len(tail) = Len(order) - k
             /\ \A i \in 1..(Len(order) - k) : tail[i] = order[k + i]
             /\ DOMAIN tail = 1..(Len(order) - k)
<1> DEFINE n == Len(order)
           tail == SubSeq(order, k + 1, n)
<1>0. n \in Nat /\ k \in 0..n /\ DOMAIN order = 1..n
  OBVIOUS
<1>1. \A i \in (k + 1)..n : order[i] \in Entry
  BY <1>0
<1>2. /\ tail \in Seq(Entry)
      /\ Len(tail) = IF k + 1 <= n THEN n - (k + 1) + 1 ELSE 0
      /\ \A i \in 1..(n - (k + 1) + 1) : tail[i] = order[(k + 1) + i - 1]
  BY <1>0, <1>1, SubSeqProperties
<1> HIDE DEF n, tail
<1>3. DOMAIN tail = 1..Len(tail)
  BY <1>2
<1>4. Len(tail) = n - k
  <2>1. Len(tail) = IF k + 1 <= n THEN n - (k + 1) + 1 ELSE 0
    BY <1>2
  <2>2. CASE k + 1 <= n
    <3>1. Len(tail) = n - (k + 1) + 1
      BY <2>1, <2>2
    <3>2. n - (k + 1) + 1 = n - k
      BY <1>0
    <3> QED
      BY <3>1, <3>2
  <2>3. CASE ~(k + 1 <= n)
    <3>1. Len(tail) = 0 /\ n - k = 0
      BY <1>0, <2>1, <2>3
    <3> QED
      BY <3>1
  <2> QED
    BY <2>2, <2>3
<1>5. ASSUME NEW i \in 1..(n - k)
      PROVE  tail[i] = order[k + i]
  <2>1. i \in 1..(n - (k + 1) + 1) /\ (k + 1) + i - 1 = k + i
    BY <1>0
  <2> QED
    BY <1>2, <2>1
<1> QED
  BY <1>2, <1>3, <1>4, <1>5 DEF tail, n

\* recordPendingCancel and recordSeenRequest, for any table and order ...
Records(t0, o0, id, n, limit, t, o) ==
  \E k \in 0..Len(Appended(o0, id, n)) :
    /\ PruneStops(With(t0, id, n), Appended(o0, id, n), k, limit)
    /\ t = Pruned(With(t0, id, n), Appended(o0, id, n), k)
    /\ o = SubSeq(Appended(o0, id, n), k + 1, Len(Appended(o0, id, n)))

\* ... and what they leave.
Recorded(t0, o0, id, n, limit, t, o) ==
  /\ Table(t, Ids, Nat)
  /\ o \in Seq(Entry)
  /\ \A x \in DOMAIN t :
       x \in DOMAIN t0 \cup {id} /\ t[x] = IF x = id THEN n ELSE t0[x]
  /\ \A i \in DOMAIN o : o[i] = <<id, n>> \/ \E j \in DOMAIN o0 : o[i] = o0[j]
  /\ Covers(o, t)
  /\ IsFiniteSet(DOMAIN t)
  /\ limit # 0 => Cardinality(DOMAIN t) <= limit
  /\ limit = 0 => DOMAIN t = DOMAIN t0 \cup {id}
  /\ (\A i \in DOMAIN o0 : o0[i][2] < n) => id \in DOMAIN t

LEMMA RecordEntry ==
  ASSUME NEW t0, Table(t0, Ids, Nat), IsFiniteSet(DOMAIN t0),
         NEW o0 \in Seq(Entry), Covers(o0, t0),
         NEW id \in Ids, NEW n \in Nat, NEW limit \in Nat,
         NEW t, NEW o, Records(t0, o0, id, n, limit, t, o)
  PROVE  Recorded(t0, o0, id, n, limit, t, o)
<1>0. PICK k \in 0..Len(Appended(o0, id, n)) :
        /\ PruneStops(With(t0, id, n), Appended(o0, id, n), k, limit)
        /\ t = Pruned(With(t0, id, n), Appended(o0, id, n), k)
        /\ o = SubSeq(Appended(o0, id, n), k + 1, Len(Appended(o0, id, n)))
  BY DEF Records
<1> DEFINE table == With(t0, id, n)
           order == Appended(o0, id, n)
<1>1. /\ Table(table, Ids, Nat)
      /\ DOMAIN table = DOMAIN t0 \cup {id}
      /\ \A x \in DOMAIN table : table[x] = IF x = id THEN n ELSE t0[x]
  <2>1. Table(table, Ids, Nat)
    BY TableWith
  <2> QED
    BY <2>1 DEF With
<1>2. <<id, n>> \in Entry
  BY DEF Entry
<1>3. /\ order \in Seq(Entry) /\ Len(order) = Len(o0) + 1 /\ Len(o0) \in Nat
      /\ DOMAIN o0 = 1..Len(o0) /\ DOMAIN order = 1..Len(order)
      /\ \A i \in 1..Len(o0) : order[i] = o0[i]
      /\ order[Len(o0) + 1] = <<id, n>>
  BY <1>2 DEF Appended
<1>4. /\ k \in 0..Len(order)
      /\ PruneStops(table, order, k, limit)
      /\ t = Pruned(table, order, k)
      /\ o = SubSeq(order, k + 1, Len(order))
  BY <1>0
<1> HIDE DEF table, order
<1>p. ASSUME NEW j \in 0..Len(order)
       PROVE  /\ \A x : x \in DOMAIN Pruned(table, order, j) <=>
                   x \in DOMAIN table /\ \A i \in 1..j : order[i] # <<x, table[x]>>
              /\ \A x \in DOMAIN Pruned(table, order, j) :
                   Pruned(table, order, j)[x] = table[x]
              /\ Table(Pruned(table, order, j), Ids, Nat)
  <2>1. Table(table, Ids, Nat) /\ order \in Seq(Entry)
    BY <1>1, <1>3
  <2> QED
    BY <2>1, PrunedEntries, Zenon
<1>5. /\ \A x : x \in DOMAIN t <=>
           x \in DOMAIN table /\ \A i \in 1..k : order[i] # <<x, table[x]>>
      /\ \A x \in DOMAIN t : t[x] = table[x]
      /\ Table(t, Ids, Nat)
  BY <1>4, <1>p
<1>6. /\ o \in Seq(Entry)
      /\ DOMAIN o = 1..(Len(order) - k)
      /\ \A i \in 1..(Len(order) - k) : o[i] = order[k + i]
  BY <1>3, <1>4, OrderTail
<1>7. Covers(order, table)
  <2> SUFFICES ASSUME NEW x \in DOMAIN table
               PROVE  \E i \in 1..Len(order) : order[i] = <<x, table[x]>>
    BY <1>3 DEF Covers
  <2>1. CASE x = id
    BY <1>1, <1>3, <2>1
  <2>2. CASE x # id
    <3>1. PICK i \in DOMAIN o0 : o0[i] = <<x, t0[x]>>
      BY <1>1, <2>2 DEF Covers
    <3>2. order[i] = <<x, table[x]>> /\ i \in 1..Len(order)
      BY <1>1, <1>3, <2>2, <3>1
    <3> QED
      BY <3>2
  <2> QED
    BY <2>1, <2>2
<1>8. Covers(o, t)
  <2> SUFFICES ASSUME NEW x \in DOMAIN t
               PROVE  \E i \in DOMAIN o : o[i] = <<x, t[x]>>
    BY DEF Covers
  <2>1. PICK j \in DOMAIN order : order[j] = <<x, table[x]>>
    BY <1>5, <1>7 DEF Covers
  <2>2. j \in 1..Len(order) /\ j \notin 1..k /\ Len(order) \in Nat
    BY <1>3, <1>5, <2>1
  <2>3. j - k \in DOMAIN o /\ o[j - k] = order[j]
    BY <1>4, <1>6, <2>2
  <2> QED
    BY <1>5, <2>1, <2>3
<1>9. \A x \in DOMAIN t : x \in DOMAIN t0 \cup {id} /\ t[x] = IF x = id THEN n ELSE t0[x]
  BY <1>1, <1>5
<1>10. \A i \in DOMAIN o : o[i] = <<id, n>> \/ \E j \in DOMAIN o0 : o[i] = o0[j]
  <2> SUFFICES ASSUME NEW i \in DOMAIN o
               PROVE  o[i] = <<id, n>> \/ \E j \in DOMAIN o0 : o[i] = o0[j]
    OBVIOUS
  <2>1. k + i \in 1..Len(order) /\ o[i] = order[k + i]
    BY <1>3, <1>4, <1>6
  <2>2. k + i = Len(o0) + 1 \/ k + i \in 1..Len(o0)
    BY <1>3, <2>1
  <2> QED
    BY <1>3, <2>1, <2>2
<1>11. IsFiniteSet(DOMAIN table) /\ IsFiniteSet(DOMAIN t)
  <2>1. IsFiniteSet(DOMAIN t0 \cup {id})
    BY FS_AddElement
  <2>2. DOMAIN t \subseteq DOMAIN table
    BY <1>5
  <2> QED
    BY <1>1, <2>1, <2>2, FS_Subset
<1>12. k = Len(order) => DOMAIN t = {}
  BY <1>3, <1>5, <1>7 DEF Covers
<1>13. limit # 0 => Cardinality(DOMAIN t) <= limit
  <2>1. CASE k = Len(order)
    BY <1>12, <2>1, FS_EmptySet
  <2>2. CASE k # Len(order)
    BY <1>4, <2>2 DEF PruneStops, Fits
  <2> QED
    BY <2>1, <2>2
<1>14. limit = 0 => k = 0
  <2>1. limit = 0 => \A j : Fits(Pruned(table, order, j), limit)
    BY DEF Fits
  <2>2. k # 0 => 0 \in 0..(k - 1)
    BY <1>3, <1>4
  <2> QED
    BY <1>4, <2>1, <2>2 DEF PruneStops
<1>15. limit = 0 => DOMAIN t = DOMAIN t0 \cup {id}
  <2>1. limit = 0 => \A x : x \in DOMAIN t <=> x \in DOMAIN table
    BY <1>5, <1>14
  <2> QED
    BY <1>1, <2>1
<1>16. ASSUME \A i \in DOMAIN o0 : o0[i][2] < n
       PROVE  id \in DOMAIN t
  <2> SUFFICES ASSUME id \notin DOMAIN t
               PROVE  FALSE
    OBVIOUS
  <2> DEFINE m == Len(o0)
             rest == Pruned(table, order, m)
  <2>1. PICK i \in 1..k : order[i] = <<id, n>>
    BY <1>1, <1>5
  <2>2. i \notin 1..m
    <3>1. ASSUME i \in 1..m
          PROVE  FALSE
      <4>1. o0[i] = <<id, n>> /\ o0[i][2] < n
        BY <1>3, <1>16, <2>1, <3>1
      <4> QED
        BY <4>1
    <3> QED
      BY <3>1
  <2>3. k = m + 1 /\ m \in 0..(k - 1) /\ m \in 0..Len(order)
    BY <1>3, <1>4, <2>1, <2>2
  <2>4. ~Fits(rest, limit)
    BY <1>4, <2>3 DEF PruneStops
  <2>5. \A x : x \in DOMAIN rest <=>
          x \in DOMAIN table /\ \A j \in 1..m : order[j] # <<x, table[x]>>
    BY <1>p, <2>3
  <2>6. ASSUME NEW x \in DOMAIN t0, x # id
        PROVE  x \notin DOMAIN rest
    <3>1. PICK j \in DOMAIN o0 : o0[j] = <<x, t0[x]>>
      BY DEF Covers
    <3>2. j \in 1..m /\ order[j] = <<x, table[x]>>
      BY <1>1, <1>3, <2>6, <3>1
    <3> QED
      BY <2>5, <3>2
  <2>7. DOMAIN rest \subseteq {id}
    BY <1>1, <2>5, <2>6
  <2>8. Cardinality(DOMAIN rest) <= 1 /\ Cardinality(DOMAIN rest) \in Nat
    <3>1. IsFiniteSet({id}) /\ Cardinality({id}) = 1
      BY FS_Singleton
    <3>2. IsFiniteSet(DOMAIN rest) /\ Cardinality(DOMAIN rest) <= Cardinality({id})
      BY <2>7, <3>1, FS_Subset
    <3> QED
      BY <3>1, <3>2, FS_CardinalityType
  <2> QED
    BY <2>4, <2>8 DEF Fits
<1> QED
  BY <1>5, <1>6, <1>8, <1>9, <1>10, <1>11, <1>13, <1>15, <1>16 DEF Recorded

-----------------------------------------------------------------------------
(***************************************************************************)
(* The tables and their orders under every step.                           *)
(***************************************************************************)
BaseInv == TypeInv /\ NumbersInv /\ OrderInv

LEMMA SetupTypes ==
  ASSUME TypeInv
  PROVE  /\ setup.pendingLimit \in Nat
         /\ setup.seenLimit \in Nat
         /\ setup.reuseAfter \in {"received", "answered", "done"}
BY RegistryAssumption DEF TypeInv, Setup

LEMMA RequestTypes ==
  ASSUME TypeInv, NumbersInv
  PROVE  /\ Len(wire) \in Nat /\ Received = 1..Len(wire)
         /\ \A r \in Requests : r \in Slots /\ r \in Nat /\ r \in Received /\ IdOf(r) \in Ids
         /\ \A n \in Received : wire[n] \in Message /\ wire[n].id \in Ids
<1>1. Len(wire) \in Nat /\ Received = 1..Len(wire)
  BY DEF TypeInv, Received
<1>2. \A n \in Received : wire[n] \in Message
  BY DEF TypeInv, Received
<1>3. \A n \in Received : wire[n].id \in Ids
  BY <1>2 DEF Message
<1>4. \A r \in Requests : r \in Slots /\ r \in Nat /\ r \in Received
  BY RegistryAssumption DEF NumbersInv, Requests, Slots
<1> QED
  BY <1>1, <1>2, <1>3, <1>4 DEF IdOf

LEMMA PendingRecorded ==
  ASSUME TypeInv, OrderInv, NEW id \in Ids, NEW n \in Nat, recordPendingCancel(id, n)
  PROVE  Recorded(pending, pendingOrder, id, n, setup.pendingLimit, pending', pendingOrder')
<1>1. Records(pending, pendingOrder, id, n, setup.pendingLimit, pending', pendingOrder')
  BY DEF recordPendingCancel, Records
<1>2. /\ Table(pending, Ids, Nat) /\ IsFiniteSet(DOMAIN pending)
      /\ pendingOrder \in Seq(Entry) /\ Covers(pendingOrder, pending)
      /\ setup.pendingLimit \in Nat
  BY SetupTypes DEF TypeInv, OrderInv, OrderCoversTable, Covers, Table
<1> QED
  BY <1>1, <1>2, RecordEntry

LEMMA SeenRecorded ==
  ASSUME TypeInv, OrderInv, NEW id \in Ids, NEW n \in Nat, recordSeenRequest(id, n)
  PROVE  Recorded(seen, seenOrder, id, n, setup.seenLimit, seen', seenOrder')
<1>1. Records(seen, seenOrder, id, n, setup.seenLimit, seen', seenOrder')
  BY DEF recordSeenRequest, Records
<1>2. /\ Table(seen, Ids, Nat) /\ IsFiniteSet(DOMAIN seen)
      /\ seenOrder \in Seq(Entry) /\ Covers(seenOrder, seen)
      /\ setup.seenLimit \in Nat
  BY SetupTypes DEF TypeInv, OrderInv, OrderCoversTable, Covers, Table
<1> QED
  BY <1>1, <1>2, RecordEntry

\* A step of one request's handler.
LEMMA OneStep ==
  ASSUME TypeInv, NEW r \in Slots, state[r] # "none", NEW s \in States \ {"none"},
         state' = [state EXCEPT ![r] = s], wire' = wire
  PROVE  /\ state' \in [Slots -> States]
         /\ Requests' = Requests /\ r \in Requests
         /\ state'[r] = s
         /\ \A q \in Requests : q # r => state'[q] = state[q]
         /\ \A q \in Requests : IdOf(q)' = IdOf(q)
BY DEF TypeInv, Requests, IdOf

\* A message is received.
LEMMA OneMessage ==
  ASSUME TypeInv, NumbersInv, NEW kind \in {"request", "cancel"}, NEW id \in Ids,
         Receive(kind, id)
  PROVE  /\ wire' \in Seq(Message) /\ Len(wire') = Len(wire) + 1 /\ Len(wire') <= MaxMessages
         /\ Received' = Received \cup {Len(wire) + 1}
         /\ Len(wire) + 1 \in Slots /\ Len(wire) + 1 \notin Requests
         /\ \A n \in Received : wire'[n] = wire[n]
         /\ \A r \in Requests : IdOf(r)' = IdOf(r) /\ r < Len(wire) + 1
         /\ wire'[Len(wire) + 1] = [kind |-> kind, id |-> id, session |-> session]
<1>1. [kind |-> kind, id |-> id, session |-> session] \in Message
  BY DEF TypeInv, Message
<1>2. /\ wire' \in Seq(Message) /\ Len(wire') = Len(wire) + 1
      /\ \A n \in Received : wire'[n] = wire[n]
      /\ wire'[Len(wire) + 1] = [kind |-> kind, id |-> id, session |-> session]
  BY <1>1 DEF Receive, TypeInv, Received
<1>3. Len(wire') <= MaxMessages /\ Len(wire) + 1 \in Slots
  BY <1>2, RegistryAssumption DEF Receive, TypeInv, Slots
<1>4. Received' = Received \cup {Len(wire) + 1}
  <2>1. Received' = 1..(Len(wire) + 1) /\ Received = 1..Len(wire) /\ Len(wire) \in Nat
    BY <1>2 DEF Received, TypeInv
  <2> QED
    BY <2>1
<1>5. Len(wire) + 1 \notin Requests /\ \A r \in Requests : r < Len(wire) + 1
  BY RequestTypes
<1>6. \A r \in Requests : IdOf(r)' = IdOf(r)
  BY <1>2 DEF NumbersInv, IdOf
<1> QED
  BY <1>2, <1>3, <1>4, <1>5, <1>6

LEMMA BaseInit ==
  ASSUME Init
  PROVE  BaseInv
<1>1. TypeInv
  <2>1. /\ wire \in Seq(Message) /\ Len(wire) <= MaxMessages
        /\ pendingOrder \in Seq(Entry) /\ seenOrder \in Seq(Entry)
    BY RegistryAssumption DEF Init
  <2>2. \A D, R : Table(EmptyTable, D, R)
    BY DEF Table, EmptyTable
  <2>3. state \in [Slots -> States]
    BY DEF Init, States
  <2>4. /\ setup \in Setups /\ session \in Nat /\ cancelled \subseteq Slots \X Nat
        /\ quit \in BOOLEAN /\ stopped \in BOOLEAN
    BY DEF Init
  <2> QED
    BY <2>1, <2>2, <2>3, <2>4 DEF Init, TypeInv, Table
<1>2. NumbersInv
  BY DEF Init, NumbersInv, Requests, Received, EmptyTable
<1>3. OrderInv
  <2>1. DOMAIN pending = {} /\ DOMAIN seen = {}
    BY DEF Init, EmptyTable
  <2>2. IsFiniteSet({}) /\ Cardinality({}) = 0
    BY FS_EmptySet
  <2> QED
    BY <1>1, <2>1, <2>2, SetupTypes DEF OrderInv, OrderCoversTable, TablesBounded
<1> QED
  BY <1>1, <1>2, <1>3 DEF BaseInv

\* Without a record step the orders stay as they are.
LEMMA OrderKept ==
  ASSUME OrderInv, UNCHANGED <<setup, pending, pendingOrder, seen, seenOrder>>
  PROVE  OrderInv'
BY DEF OrderInv, OrderCoversTable, TablesBounded

LEMMA BaseNext ==
  ASSUME BaseInv, [Next]_vars
  PROVE  BaseInv'
<1> USE DEF BaseInv
<1>1. ASSUME NEW id \in Ids, ReceiveRequest(id)
      PROVE  BaseInv'
  <2>0. Receive("request", id)
    BY <1>1 DEF ReceiveRequest
  <2>1. TypeInv'
    BY <1>1, <2>0, OneMessage DEF ReceiveRequest, TypeInv, tableVars, States
  <2>2. NumbersInv'
    <3>1. /\ Requests' = Requests \cup {Len(wire) + 1}
          /\ Received' = Received \cup {Len(wire) + 1}
      BY <1>1, <2>0, OneMessage DEF ReceiveRequest, TypeInv, Requests
    <3>5. \A r \in Requests' : wire'[r].session <= session'
      <4>1. wire'[Len(wire) + 1] = [kind |-> "request", id |-> id, session |-> session]
        BY <2>0, OneMessage
      <4>2. \A r \in Requests : wire'[r] = wire[r]
        BY <2>0, OneMessage DEF NumbersInv
      <4>3. session' = session /\ session \in Nat
        BY <1>1 DEF ReceiveRequest, TypeInv
      <4> QED
        BY <3>1, <4>1, <4>2, <4>3 DEF NumbersInv
    <3>2. Len(wire') = Len(wire) + 1 /\ Len(wire) \in Nat
      BY <2>0, OneMessage, RequestTypes
    <3>3. pending' = pending /\ pendingOrder' = pendingOrder
      BY <1>1 DEF ReceiveRequest, tableVars
    <3>4. \A i \in DOMAIN pendingOrder : pendingOrder[i][2] \in Nat
      BY DEF TypeInv, Entry
    <3> QED
      BY <3>1, <3>2, <3>3, <3>4, <3>5 DEF NumbersInv
  <2>3. OrderInv'
    BY <1>1, OrderKept DEF ReceiveRequest, tableVars
  <2> QED
    BY <2>1, <2>2, <2>3
<1>2. ASSUME NEW id \in Ids, onCancel(id)
      PROVE  BaseInv'
  <2> DEFINE n == Len(wire) + 1
  <2>0. Receive("cancel", id)
    BY <1>2 DEF onCancel
  <2>1. /\ n \in Nat /\ n \in Slots
        /\ wire' \in Seq(Message) /\ Len(wire') = n /\ Len(wire') <= MaxMessages
        /\ Received' = Received \cup {n} /\ Received = 1..Len(wire) /\ Len(wire) \in Nat
        /\ \A r \in Requests : wire'[r] = wire[r]
    <3>1. Len(wire) \in Nat /\ Received = 1..Len(wire)
      BY RequestTypes
    <3>2. /\ n \in Slots /\ Received' = Received \cup {n}
          /\ wire' \in Seq(Message) /\ Len(wire') = n /\ Len(wire') <= MaxMessages
          /\ \A r \in Requests : wire'[r] = wire[r]
      BY <2>0, OneMessage DEF NumbersInv
    <3> QED
      BY <3>1, <3>2
  <2>2. /\ UNCHANGED <<setup, session, quit, stopped, state, cancelers, newest, seen,
                       seenOrder, retained, holds>>
        /\ Requests' = Requests
    BY <1>2 DEF onCancel, Requests
  <2>3. CASE UNCHANGED <<pending, pendingOrder>>
    <3>1. cancelled' \subseteq Slots \X Nat
      <4>1. cancelled' = cancelled \/ \E c \in Slots : cancelled' = cancelled \cup {<<c, n>>}
        BY <1>2 DEF onCancel, TypeInv
      <4> QED
        BY <2>1, <4>1 DEF TypeInv
    <3>2. TypeInv'
      BY <2>1, <2>2, <2>3, <3>1 DEF TypeInv
    <3>3. NumbersInv'
      <4>1. \A i \in DOMAIN pendingOrder : pendingOrder[i][2] \in Nat
        BY DEF TypeInv, Entry
      <4> QED
        BY <2>1, <2>2, <2>3, <4>1 DEF NumbersInv
    <3>4. OrderInv'
      BY <2>2, <2>3, OrderKept
    <3> QED
      BY <3>2, <3>3, <3>4
  <2>4. CASE recordPendingCancel(id, n) /\ UNCHANGED cancelled
    <3> HIDE DEF n
    <3>1. Recorded(pending, pendingOrder, id, n, setup.pendingLimit, pending', pendingOrder')
      BY <2>1, <2>4, PendingRecorded
    <3>2. TypeInv'
      BY <2>1, <2>2, <2>4, <3>1 DEF TypeInv, Recorded, Table
    <3>3. NumbersInv'
      <4>1. \A x \in DOMAIN pending' : pending'[x] \in Received'
        BY <2>1, <3>1 DEF NumbersInv, Recorded
      <4>2. ASSUME NEW i \in DOMAIN pendingOrder'
            PROVE  pendingOrder'[i][2] <= n
        <5>1. CASE pendingOrder'[i] = <<id, n>>
          BY <2>1, <5>1
        <5>2. ASSUME NEW j \in DOMAIN pendingOrder, pendingOrder'[i] = pendingOrder[j]
              PROVE  pendingOrder'[i][2] <= n
          <6>1. pendingOrder[j][2] \in Nat /\ pendingOrder[j][2] <= Len(wire)
            BY DEF TypeInv, Entry, NumbersInv
          <6> QED
            BY <2>1, <5>2, <6>1 DEF n
        <5> QED
          BY <3>1, <5>1, <5>2 DEF Recorded
      <4> QED
        BY <2>1, <2>2, <4>1, <4>2 DEF NumbersInv
    <3>4. OrderInv'
      BY <2>2, <3>1 DEF OrderInv, OrderCoversTable, TablesBounded, Recorded, Covers
    <3> QED
      BY <3>2, <3>3, <3>4
  <2> QED
    BY <1>2, <2>3, <2>4 DEF onCancel
<1>3. ASSUME NEW r \in Slots, Handle(r)
      PROVE  BaseInv'
  <2>1. ASSUME state[r] # "none", NEW s \in States \ {"none"},
               state' = [state EXCEPT ![r] = s],
               UNCHANGED <<setup, wire, session, quit, stopped, newest, pending, pendingOrder,
                           seen, seenOrder, cancelled>>,
               Table(cancelers', Ids, Slots), Table(retained', Ids \X Slots, Nat),
               Table(holds', Slots, Ids \X Slots)
        PROVE  BaseInv'
    <3>1. state' \in [Slots -> States] /\ Requests' = Requests
      BY <2>1, OneStep
    <3>2. TypeInv'
      BY <2>1, <3>1 DEF TypeInv, Table
    <3>3. NumbersInv'
      BY <2>1, <3>1 DEF NumbersInv, Received
    <3>4. OrderInv'
      BY <2>1, OrderKept
    <3> QED
      BY <3>2, <3>3, <3>4
  <2>2. /\ Table(cancelers, Ids, Slots) /\ Table(retained, Ids \X Slots, Nat)
        /\ Table(holds, Slots, Ids \X Slots)
    BY DEF TypeInv, Table
  <2>3. ASSUME NEW key
        PROVE  Table(Unregistered(key), Ids, Slots)
    BY <2>2, TableWithout DEF Unregistered
  <2>4. state[r] # "none" => r \in Requests /\ IdOf(r) \in Ids
    BY RequestTypes DEF Requests
  <2>5. CASE Enter(r) \/ Dropped(r) \/ Answer(r) \/ AnswerAsync(r)
    BY <2>1, <2>2, <2>5 DEF Enter, Dropped, Answer, AnswerAsync, States, tableVars
  <2>6. CASE LeaveContext(r) \/ LeaveAsyncContext(r)
    <3>1. Table(cancelers', Ids, Slots)
      BY <2>2, <2>3, <2>6 DEF LeaveContext, LeaveAsyncContext
    <3> QED
      BY <2>1, <2>2, <2>6, <3>1 DEF LeaveContext, LeaveAsyncContext, States
  <2>7. CASE Retain(r)
    <3>1. Table(holds', Slots, Ids \X Slots) /\ Table(retained', Ids \X Slots, Nat)
      <4>1. CASE IdOf(r) \in DOMAIN cancelers
        <5> DEFINE key == <<IdOf(r), cancelers[IdOf(r)]>>
        <5>1. key \in Ids \X Slots /\ CountOneMore(key) \in Nat
          BY <2>2, <4>1 DEF Table, CountOneMore
        <5> HIDE DEF key
        <5>2. holds' = With(holds, r, key) /\ retained' = With(retained, key, CountOneMore(key))
          BY <2>7, <4>1 DEF Retain, key
        <5> QED
          BY <2>2, <5>1, <5>2, TableWith
      <4>2. CASE IdOf(r) \notin DOMAIN cancelers
        BY <2>2, <2>7, <4>2 DEF Retain
      <4> QED
        BY <4>1, <4>2
    <3> QED
      BY <2>1, <2>2, <2>7, <3>1 DEF Retain, States
  <2>8. CASE Release(r)
    <3>1. Table(holds', Slots, Ids \X Slots)
      BY <2>2, <2>8, TableWithout DEF Release
    <3>2. Table(retained', Ids \X Slots, Nat) /\ Table(cancelers', Ids, Slots)
      <4>1. CASE r \notin DOMAIN holds
        BY <2>2, <2>8, <4>1 DEF Release
      <4>2. CASE r \in DOMAIN holds
        <5> DEFINE key == holds[r]
        <5>1. key \in Ids \X Slots
          BY <2>2, <4>2 DEF Table
        <5>2. CASE key \in DOMAIN retained /\ retained[key] > 1
          <6>1. retained[key] - 1 \in Nat
            BY <2>2, <5>2 DEF Table
          <6>2. retained' = With(retained, key, retained[key] - 1) /\ cancelers' = cancelers
            BY <2>8, <4>2, <5>2 DEF Release
          <6> QED
            BY <2>2, <5>1, <6>1, <6>2, TableWith
        <5>3. CASE ~(key \in DOMAIN retained /\ retained[key] > 1)
          <6>1. retained' = Without(retained, key) /\ cancelers' = Unregistered(key)
            BY <2>8, <4>2, <5>3 DEF Release
          <6> QED
            BY <2>2, <2>3, <6>1, TableWithout
        <5> QED
          BY <5>2, <5>3
      <4> QED
        BY <4>1, <4>2
    <3> QED
      BY <2>1, <2>8, <3>1, <3>2 DEF Release, States
  <2>9. CASE cancelableRequestContext(r)
    <3> DEFINE id == IdOf(r)
    <3>0. /\ state[r] = "entered" /\ state' = [state EXCEPT ![r] = "running"]
          /\ wire' = wire /\ "running" \in States \ {"none"} /\ state[r] # "none"
      BY <2>9 DEF cancelableRequestContext, States
    <3>1. state' \in [Slots -> States] /\ Requests' = Requests /\ id \in Ids /\ r \in Nat
      BY <2>4, <3>0, OneStep, RequestTypes
    <3> HIDE DEF id
    <3>2. /\ cancelers' = With(cancelers, id, r)
          /\ newest' = With(newest, id, r)
          /\ pending' = Without(pending, id)
          /\ recordSeenRequest(id, r)
          /\ UNCHANGED <<setup, wire, session, quit, stopped, pendingOrder, retained, holds>>
      BY <2>9 DEF cancelableRequestContext, id
    <3>3. cancelled' \subseteq Slots \X Nat
      BY <2>9, RequestTypes DEF cancelableRequestContext, TypeInv
    <3>4. Recorded(seen, seenOrder, id, r, setup.seenLimit, seen', seenOrder')
      BY <3>1, <3>2, SeenRecorded
    <3>5. Table(cancelers', Ids, Slots) /\ Table(newest', Ids, Slots)
      <4>1. Table(newest, Ids, Slots)
        BY DEF TypeInv, Table
      <4> QED
        BY <2>2, <3>1, <3>2, <4>1, TableWith
    <3>6. /\ DOMAIN pending' = DOMAIN pending \ {id}
          /\ \A x \in DOMAIN pending' : pending'[x] = pending[x]
      BY <3>2, WithoutEntry
    <3>7. Table(pending', Ids, Nat)
      BY <3>2, TableWithout DEF TypeInv, Table
    <3>8. TypeInv'
      BY <3>1, <3>2, <3>3, <3>4, <3>5, <3>7 DEF TypeInv, Table, Recorded
    <3>9. NumbersInv'
      BY <3>1, <3>2, <3>6 DEF NumbersInv, Received
    <3>10. OrderInv'
      <4>1. OrderCoversTable'
        BY <3>2, <3>4, <3>6 DEF OrderInv, OrderCoversTable, Recorded, Covers
      <4>2. IsFiniteSet(DOMAIN pending') /\ Cardinality(DOMAIN pending') <= Cardinality(DOMAIN pending)
        BY <3>6, FS_Subset DEF OrderInv
      <4>3. IsFiniteSet(DOMAIN seen')
        BY <3>4 DEF Recorded
      <4>4. TablesBounded'
        <5>1. Cardinality(DOMAIN pending') \in Nat /\ Cardinality(DOMAIN pending) \in Nat
          BY <4>2, FS_CardinalityType DEF OrderInv
        <5> QED
          BY <3>2, <3>4, <4>2, <5>1, SetupTypes DEF OrderInv, TablesBounded, Recorded
      <4> QED
        BY <4>1, <4>2, <4>3, <4>4 DEF OrderInv
    <3> QED
      BY <3>8, <3>9, <3>10
  <2> QED
    BY <1>3, <2>5, <2>6, <2>7, <2>8, <2>9 DEF Handle
<1>4. CASE Stop
  <2>1. TypeInv'
    <3>1. cancelled' \subseteq Slots \X Nat
      BY <1>4 DEF Stop, TypeInv, ByStop
    <3>2. state' \in [Slots -> States]
      BY <1>4 DEF Stop, TypeInv, States
    <3> QED
      BY <1>4, <3>1, <3>2 DEF Stop, TypeInv, EmptyTable, Entry
  <2>2. NumbersInv'
    <3>1. Requests' = Requests
      BY <1>4 DEF Stop, Requests
    <3>2. session \in Nat /\ \A r \in Requests : wire[r].session \in Nat
      BY RequestTypes DEF TypeInv, Message
    <3> QED
      BY <1>4, <3>1, <3>2 DEF Stop, NumbersInv, Received, EmptyTable
  <2>3. OrderInv'
    <3>1. DOMAIN pending' = {} /\ DOMAIN seen' = {} /\ setup' = setup
      BY <1>4 DEF Stop, EmptyTable
    <3>2. IsFiniteSet({}) /\ Cardinality({}) = 0
      BY FS_EmptySet
    <3> QED
      BY <3>1, <3>2, SetupTypes DEF OrderInv, OrderCoversTable, TablesBounded
  <2> QED
    BY <2>1, <2>2, <2>3
<1>5. CASE Start \/ StartPools
  <2>1. TypeInv' /\ NumbersInv'
    BY <1>5 DEF Start, StartPools, TypeInv, NumbersInv, Requests, Received, tableVars
  <2>2. OrderInv'
    BY <1>5, OrderKept DEF Start, StartPools, tableVars
  <2> QED
    BY <2>1, <2>2
<1>6. CASE UNCHANGED vars
  <2>1. TypeInv' /\ NumbersInv'
    BY <1>6 DEF vars, TypeInv, NumbersInv, Requests, Received, tableVars
  <2>2. OrderInv'
    BY <1>6, OrderKept DEF vars, tableVars
  <2> QED
    BY <2>1, <2>2
<1> QED
  BY <1>1, <1>2, <1>3, <1>4, <1>5, <1>6 DEF Next

\* For every setup, every entry of a table can be found by pruning.
THEOREM OrderCovers == Spec => []OrderCoversTable
<1>1. BaseInv => OrderCoversTable
  BY DEF BaseInv, OrderInv
<1> QED
  BY <1>1, BaseInit, BaseNext, PTL DEF Spec

\* For every setup, both tables stay within their limits.
THEOREM Bounded == Spec => []TablesBounded
<1>1. BaseInv => TablesBounded
  BY DEF BaseInv, OrderInv
<1> QED
  BY <1>1, BaseInit, BaseNext, PTL DEF Spec

\* For every setup, the cancel that is recorded last is still in the table.
THEOREM NewestKept == Spec => NewestCancelKept
<1>1. ASSUME BaseInv, [Next]_vars
      PROVE  [Len(wire') > Len(wire) /\ pendingOrder' # pendingOrder
                => wire'[Len(wire')].id \in DOMAIN pending']_vars
  <2> SUFFICES ASSUME Next, Len(wire') > Len(wire), pendingOrder' # pendingOrder
               PROVE  wire'[Len(wire')].id \in DOMAIN pending'
    BY <1>1
  <2> USE <1>1 DEF BaseInv
  <2>0. Len(wire) \in Nat
    BY RequestTypes
  <2>1. PICK id \in Ids : onCancel(id)
    <3>1. wire' # wire
      BY <2>0
    <3>2. ASSUME NEW r \in Slots
          PROVE  ~Handle(r)
      BY <3>1 DEF Handle, Enter, Dropped, cancelableRequestContext, Answer, LeaveContext, Retain,
                  LeaveAsyncContext, AnswerAsync, Release
    <3>3. ~Stop /\ ~Start /\ ~StartPools
      BY <3>1 DEF Stop, Start, StartPools
    <3>4. \A id \in Ids : ~ReceiveRequest(id)
      BY DEF ReceiveRequest, tableVars
    <3> QED
      BY <3>2, <3>3, <3>4 DEF Next
  <2> DEFINE n == Len(wire) + 1
  <2>2. recordPendingCancel(id, n) /\ Receive("cancel", id)
    BY <2>1 DEF onCancel
  <2>3. n \in Nat /\ \A i \in DOMAIN pendingOrder : pendingOrder[i][2] < n
    <3>1. \A i \in DOMAIN pendingOrder :
            pendingOrder[i][2] \in Nat /\ pendingOrder[i][2] <= Len(wire)
      BY DEF TypeInv, Entry, NumbersInv
    <3> QED
      BY <2>0, <3>1
  <2>4. wire'[Len(wire')].id = id
    <3>1. /\ Len(wire') = n
          /\ wire'[n] = [kind |-> "cancel", id |-> id, session |-> session]
      BY <2>2, OneMessage
    <3> QED
      BY <3>1
  <2> HIDE DEF n
  <2>5. id \in DOMAIN pending'
    BY <2>2, <2>3, PendingRecorded DEF Recorded
  <2> QED
    BY <2>4, <2>5
<1> QED
  BY <1>1, BaseInit, BaseNext, PTL DEF Spec, NewestCancelKept

-----------------------------------------------------------------------------
(***************************************************************************)
(* A peer that waits for an answer before it reuses the id.                *)
(***************************************************************************)
LEMMA PeerInit ==
  ASSUME Init
  PROVE  PeerInv
BY DEF Init, PeerInv, OneAtATime, CancelerInv, RetainInv, NewestInv, Requests, EmptyTable

\* Two requests with one id are never both without an answer.
LEMMA OnlyOne ==
  ASSUME BaseInv, OneAtATime, NEW r \in Requests, NEW q \in Requests,
         IdOf(q) = IdOf(r), ~Finished(r), ~Finished(q)
  PROVE  q = r
<1>1. r \in Nat /\ q \in Nat
  BY RequestTypes DEF BaseInv
<1>2. q < r \/ r < q \/ q = r
  BY <1>1
<1> QED
  BY <1>2 DEF OneAtATime

\* A step of a handler that leaves the registry alone.
LEMMA PeerStep ==
  ASSUME BaseInv, PeerInv, NEW r \in Slots, state[r] # "none", NEW s \in States \ {"none"},
         state' = [state EXCEPT ![r] = s],
         UNCHANGED <<setup, wire, session, cancelers, newest, retained, holds>>,
         \/ state[r] = "routed" /\ s \in {"entered", "done"}
         \/ state[r] = "running" /\ s = "answered"
         \/ state[r] = "retaining" /\ s = "async"
         \/ state[r] = "async" /\ s = "releasing"
  PROVE  PeerInv'
<1> USE DEF BaseInv, PeerInv
<1>1. /\ Requests' = Requests /\ r \in Requests /\ state'[r] = s
      /\ \A q \in Requests : q # r => state'[q] = state[q]
      /\ \A q \in Requests : IdOf(q)' = IdOf(q)
  BY OneStep
<1>2. OneAtATime'
  BY <1>1 DEF OneAtATime, Finished
<1>3. /\ \A q \in Requests : Running(q)' => Running(q)
      /\ \A q \in Requests : state[q] \in Registered => state'[q] \in Registered
      /\ \A q \in Requests : state'[q] \in {"retaining", "async", "releasing"} <=>
                             state[q] \in {"retaining", "async", "releasing"}
  BY <1>1 DEF Running, Registered
<1>4. CancelerInv'
  BY <1>1, <1>3 DEF CancelerInv
<1>5. RetainInv'
  BY <1>1, <1>3 DEF RetainInv, CancelerInv
<1>6. NewestInv'
  BY <1>1, <1>3 DEF NewestInv
<1> QED
  BY <1>2, <1>4, <1>5, <1>6

\* A request registers its canceler.
LEMMA PeerRegister ==
  ASSUME BaseInv, PeerInv, NEW r \in Slots, cancelableRequestContext(r)
  PROVE  PeerInv'
<1> USE DEF BaseInv, PeerInv
<1> DEFINE id == IdOf(r)
<1>1. /\ Requests' = Requests /\ r \in Requests /\ state'[r] = "running"
      /\ \A q \in Requests : q # r => state'[q] = state[q]
      /\ \A q \in Requests : IdOf(q)' = IdOf(q)
      /\ state[r] = "entered"
  BY OneStep DEF cancelableRequestContext, States
<1>2. /\ UNCHANGED <<setup, wire, session, retained, holds>>
      /\ DOMAIN cancelers' = DOMAIN cancelers \cup {id} /\ cancelers'[id] = r
      /\ \A x \in DOMAIN cancelers : x # id => cancelers'[x] = cancelers[x]
      /\ DOMAIN newest' = DOMAIN newest \cup {id} /\ newest'[id] = r
      /\ \A x \in DOMAIN newest : x # id => newest'[x] = newest[x]
  BY DEF cancelableRequestContext, With
<1>3. \A q \in Requests : Running(q) /\ IdOf(q) = id => FALSE
  <2> SUFFICES ASSUME NEW q \in Requests, Running(q), IdOf(q) = id
               PROVE  FALSE
    OBVIOUS
  <2>1. ~Finished(q) /\ ~Finished(r)
    BY <1>1 DEF Finished, Running
  <2>2. q = r
    BY <1>1, <2>1, OnlyOne
  <2> QED
    BY <1>1, <2>2 DEF Running
<1> HIDE DEF id
<1>4. IdOf(r)' = id /\ IdOf(r) = id
  BY <1>1 DEF id
<1>5. OneAtATime'
  <2>1. \A q \in Requests : Finished(q) => Finished(q)'
    BY <1>1 DEF Finished
  <2>2. \A q \in Requests : state[q] = "done" => state'[q] = "done"
    BY <1>1
  <2> QED
    BY <1>1, <1>2, <2>1, <2>2 DEF OneAtATime
<1>6. CancelerInv'
  <2>1. ASSUME NEW x \in DOMAIN cancelers'
        PROVE  /\ cancelers'[x] \in Requests' /\ IdOf(cancelers[x])' = x
               /\ state'[cancelers'[x]] \in Registered
    <3>1. CASE x = id
      BY <1>1, <1>2, <1>4, <3>1 DEF IdOf, Registered
    <3>2. CASE x # id
      BY <1>1, <1>2, <3>2 DEF CancelerInv, IdOf, Registered
    <3> QED
      BY <3>1, <3>2
  <2>2. ASSUME NEW q \in Requests, Running(q)', IdOf(q) \in DOMAIN cancelers'
        PROVE  cancelers'[IdOf(q)] = q
    <3>1. CASE q = r
      BY <1>2, <1>4, <3>1
    <3>2. CASE q # r
      <4>1. Running(q)
        BY <1>1, <2>2, <3>2 DEF Running
      <4>2. IdOf(q) # id /\ IdOf(q) \in DOMAIN cancelers
        BY <1>2, <1>3, <2>2, <4>1
      <4> QED
        BY <1>2, <4>1, <4>2 DEF CancelerInv
    <3> QED
      BY <3>1, <3>2
  <2> QED
    BY <1>1, <2>1, <2>2 DEF CancelerInv
<1>7. RetainInv'
  <2>1. ASSUME NEW q \in DOMAIN holds
        PROVE  /\ q \in Requests' /\ holds[q] = <<IdOf(q)', q>>
               /\ state'[q] \in {"retaining", "async", "releasing"}
    BY <1>1 DEF RetainInv
  <2>2. ASSUME NEW x \in DOMAIN cancelers',
               state'[cancelers'[x]] \in {"retaining", "async", "releasing"}
        PROVE  <<x, cancelers'[x]>> \in DOMAIN retained
    BY <1>1, <1>2, <2>2 DEF RetainInv, CancelerInv
  <2> QED
    BY <1>2, <2>1, <2>2 DEF RetainInv
<1>8. NewestInv'
  <2>1. ASSUME NEW x \in DOMAIN newest'
        PROVE  /\ newest'[x] \in Requests' /\ IdOf(newest[x])' = x
               /\ Running(newest[x])' => x \in DOMAIN cancelers' /\ cancelers'[x] = newest'[x]
    <3>1. CASE x = id
      BY <1>1, <1>2, <1>4, <3>1 DEF IdOf
    <3>2. CASE x # id
      BY <1>1, <1>2, <1>4, <3>2 DEF NewestInv, IdOf, Running
    <3> QED
      BY <3>1, <3>2
  <2>2. ASSUME NEW q \in Requests, Running(q)', wire[q].session = session
        PROVE  IdOf(q) \in DOMAIN newest' /\ newest'[IdOf(q)] = q
    <3>1. CASE q = r
      BY <1>2, <1>4, <3>1
    <3>2. CASE q # r
      <4>1. Running(q)
        BY <1>1, <2>2, <3>2 DEF Running
      <4>2. IdOf(q) # id
        BY <1>3, <4>1
      <4> QED
        BY <1>2, <2>2, <4>1, <4>2 DEF NewestInv
    <3> QED
      BY <3>1, <3>2
  <2> QED
    BY <1>1, <1>2, <2>1, <2>2 DEF NewestInv
<1> QED
  BY <1>5, <1>6, <1>7, <1>8

\* An asynchronous handler retains its canceler.
LEMMA PeerRetain ==
  ASSUME BaseInv, PeerInv, NEW r \in Slots, Retain(r)
  PROVE  PeerInv'
<1> USE DEF BaseInv, PeerInv
<1> DEFINE id == IdOf(r)
           key == <<id, r>>
<1>1. /\ Requests' = Requests /\ r \in Requests /\ state'[r] = "retaining"
      /\ \A q \in Requests : q # r => state'[q] = state[q]
      /\ \A q \in Requests : IdOf(q)' = IdOf(q)
      /\ state[r] = "running"
  BY OneStep DEF Retain, States
<1>2. UNCHANGED <<setup, wire, session, cancelers, newest>>
  BY DEF Retain
<1>3. r \notin DOMAIN holds /\ key \notin DOMAIN retained
  BY <1>1 DEF RetainInv
<1>4. id \in DOMAIN cancelers =>
        /\ cancelers[id] = r
        /\ holds' = With(holds, r, key) /\ retained' = With(retained, key, 1)
  BY <1>1, <1>3 DEF CancelerInv, Running, Retain, CountOneMore
<1>5. id \notin DOMAIN cancelers => holds' = holds /\ retained' = retained
  BY DEF Retain
<1>6. /\ \A q \in Requests : Running(q)' <=> Running(q)
      /\ \A q \in Requests : state[q] \in Registered => state'[q] \in Registered
  BY <1>1 DEF Running, Registered
<1>7. /\ \A q \in DOMAIN holds' : \/ q = r /\ holds'[q] = key
                                  \/ q \in DOMAIN holds /\ q # r /\ holds'[q] = holds[q]
      /\ \A q \in DOMAIN holds : q \in DOMAIN holds' /\ holds'[q] = holds[q]
  BY <1>3, <1>4, <1>5 DEF With
<1>8. /\ \A k \in DOMAIN retained' :
           \/ k = key /\ retained'[k] = 1 /\ r \in DOMAIN holds' /\ holds'[r] = key
           \/ k \in DOMAIN retained /\ retained'[k] = retained[k]
      /\ \A k \in DOMAIN retained : k \in DOMAIN retained'
      /\ id \in DOMAIN cancelers => key \in DOMAIN retained'
  BY <1>3, <1>4, <1>5 DEF With
<1>9. OneAtATime'
  BY <1>1, <1>2 DEF OneAtATime, Finished
<1>10. CancelerInv'
  BY <1>1, <1>2, <1>6 DEF CancelerInv
<1>11. RetainInv'
  <2>1. ASSUME NEW q \in DOMAIN holds'
        PROVE  /\ q \in Requests' /\ holds'[q] = <<IdOf(q)', q>>
               /\ state'[q] \in {"retaining", "async", "releasing"}
    BY <1>1, <1>7 DEF RetainInv
  <2>2. ASSUME NEW k \in DOMAIN retained'
        PROVE  retained'[k] = 1 /\ k[2] \in DOMAIN holds' /\ holds'[k[2]] = k
    BY <1>7, <1>8 DEF RetainInv
  <2>3. ASSUME NEW x \in DOMAIN cancelers,
               state'[cancelers[x]] \in {"retaining", "async", "releasing"}
        PROVE  <<x, cancelers[x]>> \in DOMAIN retained'
    <3>1. CASE cancelers[x] = r
      BY <1>8, <3>1 DEF CancelerInv
    <3>2. CASE cancelers[x] # r
      BY <1>1, <1>8, <2>3, <3>2 DEF CancelerInv, RetainInv
    <3> QED
      BY <3>1, <3>2
  <2> QED
    BY <1>2, <2>1, <2>2, <2>3 DEF RetainInv
<1>12. NewestInv'
  BY <1>1, <1>2, <1>6 DEF NewestInv
<1> QED
  BY <1>9, <1>10, <1>11, <1>12

\* A request leaves its context for good.
LEMMA PeerLeave ==
  ASSUME BaseInv, PeerInv, NEW r \in Slots, LeaveContext(r) \/ Release(r)
  PROVE  PeerInv'
<1> USE DEF BaseInv, PeerInv
<1> DEFINE key == <<IdOf(r), r>>
<1>1. /\ Requests' = Requests /\ r \in Requests /\ state'[r] = "done"
      /\ \A q \in Requests : q # r => state'[q] = state[q]
      /\ \A q \in Requests : IdOf(q)' = IdOf(q)
      /\ state[r] \in {"answered", "releasing"}
  BY OneStep DEF LeaveContext, Release, States
<1>2. UNCHANGED <<setup, wire, session, newest>>
  BY DEF LeaveContext, Release
<1>3. /\ \A x : x \in DOMAIN cancelers' <=> x \in DOMAIN cancelers /\ cancelers[x] # r
      /\ \A x \in DOMAIN cancelers' : cancelers'[x] = cancelers[x]
      /\ \A q : q \in DOMAIN holds' <=> q \in DOMAIN holds /\ q # r
      /\ \A q \in DOMAIN holds' : holds'[q] = holds[q]
      /\ \A k : k \in DOMAIN retained' <=> k \in DOMAIN retained /\ k # key
      /\ \A k \in DOMAIN retained' : retained'[k] = retained[k]
  <2>1. \A x \in DOMAIN cancelers : cancelers[x] = r => x = IdOf(r)
    BY DEF CancelerInv
  <2>2. /\ \A x : x \in DOMAIN Unregistered(key) <=> x \in DOMAIN cancelers /\ cancelers[x] # r
        /\ \A x \in DOMAIN Unregistered(key) : Unregistered(key)[x] = cancelers[x]
    BY <2>1 DEF Unregistered, Without, Restrict
  <2>3. key \in DOMAIN retained => r \in DOMAIN holds /\ retained[key] = 1
    BY DEF RetainInv
  <2>4. CASE LeaveContext(r)
    <3>1. r \notin DOMAIN holds
      BY <2>4 DEF LeaveContext, RetainInv
    <3>2. cancelers' = Unregistered(key) /\ holds' = holds /\ retained' = retained
      BY <2>3, <2>4, <3>1 DEF LeaveContext
    <3> QED
      BY <2>2, <2>3, <3>1, <3>2
  <2>5. CASE Release(r) /\ r \notin DOMAIN holds
    <3>1. /\ cancelers' = cancelers /\ retained' = retained /\ holds' = Without(holds, r)
          /\ state[r] = "releasing"
      BY <2>5 DEF Release
    <3>2. \A x \in DOMAIN cancelers : cancelers[x] # r
      BY <2>1, <2>3, <2>5, <3>1 DEF RetainInv
    <3>3. /\ \A q : q \in DOMAIN holds' <=> q \in DOMAIN holds /\ q # r
          /\ \A q \in DOMAIN holds' : holds'[q] = holds[q]
      BY <3>1, WithoutEntry
    <3> QED
      BY <2>3, <2>5, <3>1, <3>2, <3>3
  <2>6. CASE Release(r) /\ r \in DOMAIN holds
    <3>1. holds[r] = key /\ ~(key \in DOMAIN retained /\ retained[key] > 1)
      BY <2>3, <2>6 DEF RetainInv
    <3>2. /\ cancelers' = Unregistered(key) /\ retained' = Without(retained, key)
          /\ holds' = Without(holds, r)
      BY <2>6, <3>1 DEF Release
    <3>3. /\ \A q : q \in DOMAIN holds' <=> q \in DOMAIN holds /\ q # r
          /\ \A q \in DOMAIN holds' : holds'[q] = holds[q]
      BY <3>2, WithoutEntry
    <3>4. /\ \A k : k \in DOMAIN retained' <=> k \in DOMAIN retained /\ k # key
          /\ \A k \in DOMAIN retained' : retained'[k] = retained[k]
      BY <3>2, WithoutEntry
    <3> QED
      BY <2>2, <3>2, <3>3, <3>4
  <2> QED
    BY <2>4, <2>5, <2>6
<1>4. OneAtATime'
  BY <1>1, <1>2 DEF OneAtATime, Finished
<1>5. CancelerInv'
  BY <1>1, <1>3 DEF CancelerInv, Running
<1>6. RetainInv'
  <2>1. ASSUME NEW q \in DOMAIN holds'
        PROVE  /\ q \in Requests' /\ holds'[q] = <<IdOf(q)', q>>
               /\ state'[q] \in {"retaining", "async", "releasing"}
    BY <1>1, <1>3 DEF RetainInv
  <2>2. ASSUME NEW k \in DOMAIN retained'
        PROVE  retained'[k] = 1 /\ k[2] \in DOMAIN holds' /\ holds'[k[2]] = k
    <3>1. k \in DOMAIN retained /\ k # key
      BY <1>3
    <3>2. retained[k] = 1 /\ k[2] \in DOMAIN holds /\ holds[k[2]] = k
      BY <3>1 DEF RetainInv
    <3>3. k[2] # r
      BY <3>1, <3>2 DEF RetainInv
    <3> QED
      BY <1>3, <3>2, <3>3
  <2>3. ASSUME NEW x \in DOMAIN cancelers',
               state'[cancelers'[x]] \in {"retaining", "async", "releasing"}
        PROVE  <<x, cancelers'[x]>> \in DOMAIN retained'
    BY <1>1, <1>3, <2>3 DEF CancelerInv, RetainInv
  <2> QED
    BY <2>1, <2>2, <2>3 DEF RetainInv
<1>7. NewestInv'
  BY <1>1, <1>2, <1>3 DEF NewestInv, Running
<1> QED
  BY <1>4, <1>5, <1>6, <1>7

LEMMA PeerNext ==
  ASSUME BaseInv, PeerWaits, PeerInv, [Next]_vars
  PROVE  PeerInv'
<1> USE DEF BaseInv, PeerInv
<1>1. ASSUME NEW id \in Ids, ReceiveRequest(id)
      PROVE  PeerInv'
  <2>0. Receive("request", id)
    BY <1>1 DEF ReceiveRequest
  <2>m. PICK m \in Slots : m = Len(wire) + 1
    BY <2>0, OneMessage
  <2>1. /\ m \in Slots /\ m \notin Requests
        /\ \A q \in Requests : IdOf(q)' = IdOf(q) /\ wire'[q] = wire[q] /\ q < m
    BY <2>0, <2>m, OneMessage DEF NumbersInv
  <2>2. wire'[m] = [kind |-> "request", id |-> id, session |-> session]
    BY <2>0, <2>m, OneMessage
  <2>3. IdOf(m)' = id
    BY <2>2 DEF IdOf
  <2>4. state' = [state EXCEPT ![m] = "routed"]
    BY <1>1, <2>m DEF ReceiveRequest
  <2>5. /\ Requests' = Requests \cup {m} /\ state'[m] = "routed"
        /\ \A q \in Requests : state'[q] = state[q]
    BY <2>1, <2>4 DEF TypeInv, Requests
  <2>6. UNCHANGED <<setup, session, cancelers, newest, retained, holds>>
    BY <1>1 DEF ReceiveRequest, tableVars
  <2>7. \A q \in Requests : IdOf(q) = id =>
          /\ Finished(q)
          /\ setup.reuseAfter = "done" => state[q] = "done"
    BY <1>1, SetupTypes DEF ReceiveRequest, Reusable, PeerWaits, Finished
  <2>8. OneAtATime'
    <3> SUFFICES ASSUME NEW r1 \in Requests', NEW r2 \in Requests', r1 < r2,
                        IdOf(r1)' = IdOf(r2)'
                 PROVE  Finished(r1)' /\ (setup'.reuseAfter = "done" => state'[r1] = "done")
      BY DEF OneAtATime
    <3>1. r1 \in Requests
      <4>1. r1 \in Nat /\ r2 \in Nat /\ m \in Nat
        BY <2>1, <2>5, RegistryAssumption DEF Requests, Slots
      <4>2. ~(m < r2)
        BY <2>1, <2>5, <4>1
      <4> QED
        BY <2>5, <4>2
    <3>2. CASE r2 = m
      BY <2>1, <2>3, <2>5, <2>6, <2>7, <3>1, <3>2 DEF Finished
    <3>3. CASE r2 \in Requests
      BY <2>1, <2>5, <2>6, <3>1, <3>3 DEF Finished, OneAtATime
    <3> QED
      BY <2>5, <3>2, <3>3
  <2>9. CancelerInv'
    BY <2>1, <2>5, <2>6 DEF CancelerInv, Running
  <2>10. RetainInv'
    BY <2>1, <2>5, <2>6 DEF RetainInv, CancelerInv
  <2>11. NewestInv'
    BY <2>1, <2>5, <2>6 DEF NewestInv, Running
  <2> QED
    BY <2>8, <2>9, <2>10, <2>11
<1>2. ASSUME NEW id \in Ids, onCancel(id)
      PROVE  PeerInv'
  <2>1. UNCHANGED <<setup, session, state, cancelers, newest, retained, holds>>
    BY <1>2 DEF onCancel
  <2>2. Requests' = Requests /\ \A q \in Requests : IdOf(q)' = IdOf(q) /\ wire'[q] = wire[q]
    <3>1. Receive("cancel", id) /\ Requests' = Requests
      BY <1>2 DEF onCancel, Requests
    <3> QED
      BY <3>1, OneMessage DEF NumbersInv
  <2> QED
    BY <2>1, <2>2 DEF OneAtATime, CancelerInv, RetainInv, NewestInv, Finished, Running
<1>3. ASSUME NEW r \in Slots, Handle(r)
      PROVE  PeerInv'
  <2>1. CASE Enter(r) \/ Dropped(r) \/ Answer(r) \/ AnswerAsync(r)
    BY <2>1, PeerStep DEF Enter, Dropped, Answer, AnswerAsync, States, tableVars
  <2>2. CASE LeaveAsyncContext(r)
    <3>1. state[r] = "retaining" /\ state[r] # "none"
      BY <2>2 DEF LeaveAsyncContext
    <3>2. /\ IdOf(r) \in DOMAIN cancelers /\ cancelers[IdOf(r)] = r =>
               <<IdOf(r), r>> \in DOMAIN retained
      BY <3>1 DEF RetainInv
    <3>3. cancelers' = cancelers
      BY <2>2, <3>2 DEF LeaveAsyncContext, Unregistered
    <3> QED
      BY <2>2, <3>1, <3>3, PeerStep DEF LeaveAsyncContext, States
  <2> QED
    BY <1>3, <2>1, <2>2, PeerRegister, PeerRetain, PeerLeave DEF Handle
<1>4. CASE Stop
  <2>1. /\ UNCHANGED <<setup, state, wire, holds>> /\ session' = session + 1
        /\ DOMAIN cancelers' = {} /\ DOMAIN newest' = {} /\ DOMAIN retained' = {}
        /\ Requests' = Requests
        /\ \A q \in Requests : IdOf(q)' = IdOf(q)
    BY <1>4 DEF Stop, EmptyTable, Requests, IdOf
  <2>2. \A q \in Requests : wire[q].session # session + 1
    <3>1. session \in Nat /\ \A q \in Requests : wire[q].session \in Nat
      BY RequestTypes DEF TypeInv, Message
    <3> QED
      BY <3>1 DEF NumbersInv
  <2> QED
    BY <2>1, <2>2 DEF OneAtATime, CancelerInv, RetainInv, NewestInv, Finished, Running
<1>5. CASE Start \/ StartPools
  <2>1. /\ UNCHANGED <<setup, wire, session, state, cancelers, newest, retained, holds>>
        /\ Requests' = Requests
        /\ \A q \in Requests : IdOf(q)' = IdOf(q)
    BY <1>5 DEF Start, StartPools, tableVars, Requests, IdOf
  <2> QED
    BY <2>1 DEF OneAtATime, CancelerInv, RetainInv, NewestInv, Finished, Running
<1>6. CASE UNCHANGED vars
  BY <1>6 DEF vars, tableVars, OneAtATime, CancelerInv, RetainInv, NewestInv, Finished, Running,
              Requests, IdOf
<1> QED
  BY <1>1, <1>2, <1>3, <1>4, <1>5, <1>6 DEF Next

\* The peer's habits do not change.
LEMMA SetupKept ==
  ASSUME [Next]_vars
  PROVE  setup' = setup
BY DEF Next, vars, ReceiveRequest, onCancel, Handle, Enter, Dropped, cancelableRequestContext,
       Answer, LeaveContext, Retain, LeaveAsyncContext, AnswerAsync, Release, Stop, Start,
       StartPools

-----------------------------------------------------------------------------
(***************************************************************************)
(* Any peer, with an endpoint none of whose handlers returns a future: no  *)
(* canceler is retained, and a request removes only its own.               *)
(***************************************************************************)
SyncInv ==
  /\ DOMAIN retained = {}
  /\ \A r \in Requests : state[r] \notin {"retaining", "async", "releasing"}
  /\ \A id \in DOMAIN newest :
       /\ newest[id] \in Requests /\ IdOf(newest[id]) = id
       /\ Running(newest[id]) => id \in DOMAIN cancelers /\ cancelers[id] = newest[id]

LEMMA SyncInit ==
  ASSUME Init
  PROVE  SyncInv
BY DEF Init, SyncInv, Requests, EmptyTable

\* A step of a handler that leaves the registry alone.
LEMMA SyncStep ==
  ASSUME BaseInv, SyncInv, NEW r \in Slots, state[r] # "none",
         NEW s \in {"entered", "answered", "done"},
         state' = [state EXCEPT ![r] = s],
         UNCHANGED <<wire, cancelers, newest, retained>>
  PROVE  SyncInv'
<1>1. /\ Requests' = Requests /\ state'[r] = s
      /\ \A q \in Requests : q # r => state'[q] = state[q]
      /\ \A q \in Requests : IdOf(q)' = IdOf(q)
  BY OneStep DEF BaseInv, States
<1>2. \A q \in Requests : Running(q)' => Running(q)
  BY <1>1 DEF Running
<1> QED
  BY <1>1, <1>2 DEF SyncInv

\* A request registers its canceler.
LEMMA SyncRegister ==
  ASSUME BaseInv, SyncInv, NEW r \in Slots, cancelableRequestContext(r)
  PROVE  SyncInv'
<1> DEFINE id == IdOf(r)
<1>1. /\ Requests' = Requests /\ r \in Requests /\ state'[r] = "running"
      /\ \A q \in Requests : q # r => state'[q] = state[q]
      /\ \A q \in Requests : IdOf(q)' = IdOf(q)
  BY OneStep DEF cancelableRequestContext, States, BaseInv
<1>2. /\ retained' = retained
      /\ DOMAIN cancelers' = DOMAIN cancelers \cup {id} /\ cancelers'[id] = r
      /\ \A x \in DOMAIN cancelers : x # id => cancelers'[x] = cancelers[x]
      /\ DOMAIN newest' = DOMAIN newest \cup {id} /\ newest'[id] = r
      /\ \A x \in DOMAIN newest : x # id => newest'[x] = newest[x]
  BY DEF cancelableRequestContext, With
<1>3. IdOf(r)' = id /\ IdOf(r) = id
  BY <1>1
<1> HIDE DEF id
<1>4. ASSUME NEW x \in DOMAIN newest'
      PROVE  /\ newest'[x] \in Requests' /\ IdOf(newest[x])' = x
             /\ Running(newest[x])' => x \in DOMAIN cancelers' /\ cancelers'[x] = newest'[x]
  <2>1. CASE x = id
    BY <1>1, <1>2, <1>3, <2>1 DEF IdOf
  <2>2. CASE x # id
    <3>1. newest'[x] = newest[x] /\ newest[x] \in Requests /\ IdOf(newest[x]) = x /\ newest[x] # r
      BY <1>2, <1>3, <2>2 DEF SyncInv
    <3> QED
      BY <1>1, <1>2, <2>2, <3>1 DEF SyncInv, IdOf, Running
  <2> QED
    BY <2>1, <2>2
<1> QED
  BY <1>1, <1>2, <1>4 DEF SyncInv

LEMMA SyncNext ==
  ASSUME BaseInv, ~setup.async, SyncInv, [Next]_vars
  PROVE  SyncInv'
<1>1. ASSUME NEW id \in Ids, ReceiveRequest(id)
      PROVE  SyncInv'
  <2>0. Receive("request", id)
    BY <1>1 DEF ReceiveRequest
  <2>m. PICK m \in Slots : m = Len(wire) + 1
    BY <2>0, OneMessage DEF BaseInv
  <2>1. m \notin Requests /\ \A q \in Requests : IdOf(q)' = IdOf(q)
    BY <2>0, <2>m, OneMessage DEF BaseInv
  <2>2. /\ state' = [state EXCEPT ![m] = "routed"]
        /\ UNCHANGED <<cancelers, newest, retained>>
    BY <1>1, <2>m DEF ReceiveRequest, tableVars
  <2>3. /\ Requests' = Requests \cup {m} /\ state'[m] = "routed"
        /\ \A q \in Requests : state'[q] = state[q]
    BY <2>1, <2>2 DEF BaseInv, TypeInv, Requests
  <2> QED
    BY <2>1, <2>2, <2>3 DEF SyncInv, Running
<1>2. ASSUME NEW id \in Ids, onCancel(id)
      PROVE  SyncInv'
  <2>1. UNCHANGED <<state, cancelers, newest, retained>> /\ Receive("cancel", id)
    BY <1>2 DEF onCancel
  <2>2. Requests' = Requests /\ \A q \in Requests : IdOf(q)' = IdOf(q)
    BY <2>1, OneMessage DEF Requests, BaseInv
  <2> QED
    BY <2>1, <2>2 DEF SyncInv, Running
<1>3. ASSUME NEW r \in Slots, Handle(r)
      PROVE  SyncInv'
  <2>1. CASE Enter(r) \/ Dropped(r) \/ Answer(r)
    BY <2>1, SyncStep DEF Enter, Dropped, Answer, tableVars
  <2>2. CASE LeaveContext(r)
    <3> DEFINE key == <<IdOf(r), r>>
    <3>1. cancelers' = Unregistered(key) /\ UNCHANGED <<wire, newest, retained>>
      BY <2>2 DEF LeaveContext, SyncInv
    <3>2. /\ Requests' = Requests /\ state'[r] = "done"
          /\ \A q \in Requests : q # r => state'[q] = state[q]
          /\ \A q \in Requests : IdOf(q)' = IdOf(q)
      BY <2>2, OneStep DEF LeaveContext, States, BaseInv
    <3>3. ASSUME NEW x \in DOMAIN cancelers, cancelers[x] # r
          PROVE  x \in DOMAIN cancelers' /\ cancelers'[x] = cancelers[x]
      BY <3>1, <3>3 DEF Unregistered, Without, Restrict
    <3> HIDE DEF key
    <3>4. ASSUME NEW x \in DOMAIN newest, Running(newest[x])'
          PROVE  x \in DOMAIN cancelers' /\ cancelers'[x] = newest[x]
      <4>1. newest[x] \in Requests /\ newest[x] # r
        BY <3>1, <3>2, <3>4 DEF SyncInv, Running
      <4>2. Running(newest[x])
        BY <3>1, <3>2, <3>4, <4>1 DEF Running
      <4> QED
        BY <3>3, <4>1, <4>2 DEF SyncInv
    <3> QED
      BY <3>1, <3>2, <3>4 DEF SyncInv
  <2>3. r \in Requests => ~LeaveAsyncContext(r) /\ ~AnswerAsync(r) /\ ~Release(r)
    BY DEF SyncInv, LeaveAsyncContext, AnswerAsync, Release
  <2>4. ~LeaveAsyncContext(r) /\ ~AnswerAsync(r) /\ ~Release(r)
    BY <2>3 DEF Requests, LeaveAsyncContext, AnswerAsync, Release
  <2>5. ~Retain(r)
    BY DEF Retain
  <2> QED
    BY <1>3, <2>1, <2>2, <2>4, <2>5, SyncRegister DEF Handle
<1>4. CASE Stop
  <2>1. /\ UNCHANGED state /\ Requests' = Requests
        /\ DOMAIN newest' = {} /\ DOMAIN retained' = {}
    BY <1>4 DEF Stop, EmptyTable, Requests
  <2> QED
    BY <2>1 DEF SyncInv
<1>5. CASE Start \/ StartPools \/ UNCHANGED vars
  BY <1>5 DEF Start, StartPools, vars, tableVars, SyncInv, Requests, IdOf, Running
<1> QED
  BY <1>1, <1>2, <1>3, <1>4, <1>5 DEF Next

\* "The last wins", for every peer that waits for an answer before it reuses
\* the id, and for every peer of an endpoint whose handlers return no future.
THEOREM LastRegisteredWins == Spec => []LastWinsUnlessRetained
<1> DEFINE Inv == BaseInv /\ (PeerWaits => PeerInv) /\ (~setup.async => SyncInv)
<1>1. Init => Inv
  BY BaseInit, PeerInit, SyncInit
<1>2. Inv /\ [Next]_vars => Inv'
  <2> SUFFICES ASSUME Inv, [Next]_vars
               PROVE  BaseInv' /\ (PeerWaits' => PeerInv') /\ (~setup'.async => SyncInv')
    OBVIOUS
  <2>1. BaseInv'
    BY BaseNext
  <2>2. (PeerWaits' => PeerWaits) /\ setup' = setup
    BY SetupKept DEF PeerWaits
  <2>3. PeerWaits' => PeerInv'
    BY <2>2, PeerNext
  <2>4. ~setup'.async => SyncInv'
    BY <2>2, SyncNext
  <2> QED
    BY <2>1, <2>3, <2>4
<1>3. Inv => LastWinsUnlessRetained
  BY DEF PeerInv, NewestInv, SyncInv, LastWins, LastWinsUnlessRetained
<1> QED
  BY <1>1, <1>2, <1>3, PTL DEF Spec

-----------------------------------------------------------------------------
(***************************************************************************)
(* No cancel is applied to a request it was not meant for.                 *)
(***************************************************************************)
StaleInv == SessionInv /\ CancelledInv /\ NoStaleCancel

LEMMA StaleInit ==
  ASSUME Init
  PROVE  StaleInv
<1>1. Requests = {} /\ cancelled = {} /\ stopped = FALSE
  BY DEF Init, Requests
<1> QED
  BY <1>1 DEF StaleInv, SessionInv, CancelledInv, NoStaleCancel

\* A step that receives nothing and cancels nothing.
LEMMA StaleKept ==
  ASSUME StaleInv, wire' = wire, Requests' = Requests, setup' = setup, cancelled' = cancelled
  PROVE  CancelledInv' /\ NoStaleCancel'
BY DEF StaleInv, CancelledInv, NoStaleCancel, IdOf, PeerWaits

LEMMA StaleNext ==
  ASSUME BaseInv, PeerInv, StaleInv, [Next]_vars
  PROVE  StaleInv'
<1> USE DEF BaseInv, StaleInv
<1>0. session \in Nat /\ \A q \in Requests : wire[q].session \in Nat
  BY RequestTypes DEF TypeInv, Message
<1>1. ASSUME NEW id \in Ids, ReceiveRequest(id)
      PROVE  StaleInv'
  <2>0. Receive("request", id) /\ ~stopped
    BY <1>1 DEF ReceiveRequest, Receive
  <2>m. PICK m \in Slots : m = Len(wire) + 1
    BY <2>0, OneMessage
  <2>1. /\ m \notin Requests
        /\ \A q \in Received : wire'[q] = wire[q]
        /\ \A q \in Requests : q < m /\ q \in Received
    BY <2>0, <2>m, OneMessage, RequestTypes
  <2>2. wire'[m] = [kind |-> "request", id |-> id, session |-> session]
    BY <2>0, <2>m, OneMessage
  <2>3. /\ UNCHANGED <<setup, session, stopped, seen, pending, cancelled>>
        /\ state' = [state EXCEPT ![m] = "routed"]
    BY <1>1, <2>m DEF ReceiveRequest, tableVars
  <2>4. /\ Requests' = Requests \cup {m} /\ state'[m] = "routed"
        /\ \A q \in Requests : state'[q] = state[q] /\ wire'[q] = wire[q]
    BY <2>1, <2>3 DEF TypeInv, Requests
  <2>5. SessionInv'
    BY <1>0, <2>0, <2>2, <2>3, <2>4 DEF SessionInv, IdOf
  <2>6. CancelledInv'
    BY <2>3, <2>4 DEF CancelledInv
  <2>7. NoStaleCancel'
    <3> SUFFICES ASSUME PeerWaits, setup.seenLimit = 0, NEW c \in cancelled, c[2] # ByStop, c[2] < c[1],
                        NEW q \in Requests', q < c[1], IdOf(q)' = IdOf(c[1])'
                 PROVE  wire'[q].session # wire'[c[1]].session
      BY <2>3 DEF NoStaleCancel, PeerWaits
    <3>1. c[1] \in Requests
      BY DEF CancelledInv
    <3>2. q \in Requests
      <4>1. c[1] \in Nat /\ m \in Nat /\ c[1] < m
        BY <2>1, <3>1, RegistryAssumption DEF Requests, Slots
      <4>2. q # m
        BY <4>1
      <4> QED
        BY <2>4, <4>2
    <3> QED
      BY <2>4, <3>1, <3>2 DEF NoStaleCancel, IdOf
  <2> QED
    BY <2>5, <2>6, <2>7
<1>2. ASSUME NEW id \in Ids, onCancel(id)
      PROVE  StaleInv'
  <2>0. Receive("cancel", id) /\ ~stopped
    BY <1>2 DEF onCancel, Receive
  <2>m. PICK m \in Slots : m = Len(wire) + 1
    BY <2>0, OneMessage
  <2>1. \A q \in Requests : q < m /\ wire'[q] = wire[q]
    BY <2>0, <2>m, OneMessage DEF NumbersInv
  <2>2. UNCHANGED <<setup, session, stopped, state, seen>> /\ Requests' = Requests
    BY <1>2 DEF onCancel, Requests
  <2>3. SessionInv'
    BY <2>0, <2>1, <2>2 DEF SessionInv, IdOf
  <2>4. ASSUME NEW c \in cancelled'
        PROVE  c \in cancelled \/ (c[1] \in Requests /\ c[2] = m)
    BY <1>2, <2>m DEF onCancel, PeerInv, CancelerInv
  <2>5. CancelledInv'
    BY <2>2, <2>4 DEF CancelledInv
  <2>6. NoStaleCancel'
    <3> SUFFICES ASSUME PeerWaits, setup.seenLimit = 0, NEW c \in cancelled', c[2] # ByStop,
                        c[2] < c[1],
                        NEW q \in Requests, q < c[1], IdOf(q)' = IdOf(c[1])'
                 PROVE  wire'[q].session # wire'[c[1]].session
      BY <2>2 DEF NoStaleCancel, PeerWaits
    <3>1. CASE c \in cancelled
      BY <2>1, <3>1 DEF NoStaleCancel, IdOf, CancelledInv
    <3>2. CASE c[1] \in Requests /\ c[2] = m
      <4>1. c[1] \in Nat /\ m \in Nat /\ c[1] < m
        BY <2>1, <3>2, RegistryAssumption DEF Requests, Slots
      <4> QED
        BY <3>2, <4>1
    <3> QED
      BY <2>4, <3>1, <3>2
  <2> QED
    BY <2>3, <2>5, <2>6
<1>3. ASSUME NEW r \in Slots, Handle(r), ~cancelableRequestContext(r)
      PROVE  StaleInv'
  <2>1. PICK s \in States \ {"none"} :
          /\ state' = [state EXCEPT ![r] = s]
          /\ state[r] \notin {"none", "done"}
          /\ s \notin {"routed", "entered"} => state[r] \notin {"routed", "entered"} \/ stopped
          /\ state[r] \in {"async", "releasing"} => s \in {"async", "releasing", "done"}
    BY <1>3 DEF Handle, Enter, Dropped, Answer, LeaveContext, Retain, LeaveAsyncContext,
                AnswerAsync, Release, States
  <2>2. UNCHANGED <<setup, wire, session, stopped, seen, pending, cancelled>>
    BY <1>3 DEF Handle, Enter, Dropped, Answer, LeaveContext, Retain, LeaveAsyncContext,
                AnswerAsync, Release, tableVars
  <2>3. /\ Requests' = Requests /\ state'[r] = s
        /\ \A q \in Requests : q # r => state'[q] = state[q]
    BY <2>1, <2>2, OneStep
  <2>4. SessionInv'
    BY <2>1, <2>2, <2>3 DEF SessionInv, IdOf
  <2> QED
    BY <2>2, <2>3, <2>4, StaleKept
<1>4. ASSUME NEW r \in Slots, cancelableRequestContext(r)
      PROVE  StaleInv'
  <2> DEFINE id == IdOf(r)
  <2>1. /\ Requests' = Requests /\ r \in Requests /\ state'[r] = "running"
        /\ \A q \in Requests : q # r => state'[q] = state[q]
        /\ state[r] = "entered"
    BY <1>4, OneStep DEF cancelableRequestContext, States
  <2>2. /\ UNCHANGED <<setup, wire, session, stopped>>
        /\ DOMAIN pending' = DOMAIN pending \ {id}
    BY <1>4, WithoutEntry DEF cancelableRequestContext
  <2>3. setup.seenLimit = 0 => DOMAIN seen' = DOMAIN seen \cup {id}
    <3>1. id \in Ids /\ r \in Nat /\ recordSeenRequest(id, r)
      BY <1>4, <2>1, RequestTypes DEF cancelableRequestContext
    <3> HIDE DEF id
    <3>2. Recorded(seen, seenOrder, id, r, setup.seenLimit, seen', seenOrder')
      BY <3>1, SeenRecorded
    <3> QED
      BY <3>2 DEF Recorded
  <2>4. SessionInv'
    BY <2>1, <2>2, <2>3 DEF SessionInv, IdOf
  <2>5. ASSUME NEW c \in cancelled'
        PROVE  \/ c \in cancelled
               \/ c[1] = r /\ CancelIsFor(id, r) /\ c[2] = pending[id]
    BY <1>4 DEF cancelableRequestContext
  <2>6. CancelledInv'
    BY <2>1, <2>5 DEF CancelledInv
  <2>7. NoStaleCancel'
    <3> SUFFICES ASSUME PeerWaits, setup.seenLimit = 0, NEW c \in cancelled', c[2] # ByStop,
                        c[2] < c[1], NEW q \in Requests, q < c[1], IdOf(q) = IdOf(c[1])
                 PROVE  wire[q].session # wire[c[1]].session
      BY <2>1, <2>2 DEF NoStaleCancel, IdOf, PeerWaits
    <3>1. CASE c \in cancelled
      BY <3>1 DEF NoStaleCancel
    <3>2. CASE c[1] = r /\ CancelIsFor(id, r) /\ c[2] = pending[id]
      <4>1. id \in DOMAIN pending /\ pending[id] < r /\ pending[id] \in Nat /\ r \in Nat
        BY <2>1, <3>2, RequestTypes DEF CancelIsFor, TypeInv
      <4>2. id \notin DOMAIN seen
        BY <3>2, <4>1 DEF CancelIsFor
      <4>3. wire[r].session = session
        BY <2>1, <4>1 DEF SessionInv
      <4>4. state[q] \notin {"routed", "entered"}
        BY <2>1, <3>2 DEF PeerInv, OneAtATime, Finished
      <4> QED
        BY <3>2, <4>2, <4>3, <4>4 DEF SessionInv
    <3> QED
      BY <2>5, <3>1, <3>2
  <2> QED
    BY <2>4, <2>6, <2>7
<1>5. CASE Stop
  <2>1. /\ setup' = setup /\ wire' = wire /\ stopped' = TRUE /\ session' = session + 1
        /\ DOMAIN pending' = {} /\ Requests' = Requests
    BY <1>5 DEF Stop, EmptyTable, Requests
  <2>2. \A q \in Requests : wire[q].session <= session /\ wire[q].session # session + 1
    BY <1>0 DEF NumbersInv
  <2>3. SessionInv'
    BY <1>0, <2>1, <2>2 DEF SessionInv
  <2>4. ASSUME NEW c \in cancelled'
        PROVE  c \in cancelled \/ (c[1] \in Requests /\ c[2] = ByStop)
    BY <1>5 DEF Stop, PeerInv, CancelerInv
  <2>5. CancelledInv'
    BY <2>1, <2>4 DEF CancelledInv
  <2>6. NoStaleCancel'
    BY <2>1, <2>4 DEF NoStaleCancel, IdOf, PeerWaits
  <2> QED
    BY <2>3, <2>5, <2>6
<1>6. CASE StartPools
  <2>1. /\ UNCHANGED <<setup, wire, session, state, pending, seen, cancelled>>
        /\ stopped' = FALSE /\ stopped /\ Requests' = Requests
        /\ \A q \in Requests : state[q] \in {"async", "releasing", "done"}
    BY <1>6 DEF StartPools, tableVars, Requests
  <2>2. SessionInv'
    BY <2>1 DEF SessionInv, IdOf
  <2> QED
    BY <2>1, <2>2, StaleKept
<1>7. CASE Start \/ UNCHANGED vars
  <2>1. /\ UNCHANGED <<setup, wire, session, stopped, state, pending, seen, cancelled>>
        /\ Requests' = Requests
    BY <1>7 DEF Start, vars, tableVars, Requests
  <2>2. SessionInv'
    BY <2>1 DEF SessionInv, IdOf
  <2> QED
    BY <2>1, <2>2, StaleKept
<1> QED
  BY <1>1, <1>2, <1>3, <1>4, <1>5, <1>6, <1>7 DEF Next

\* As long as no seen id is pruned, no cancel reaches back, for every peer
\* that waits for an answer before it reuses the id.
THEOREM NeverStale == Spec => []NoStaleCancel
<1> DEFINE Inv == BaseInv /\ (PeerWaits => PeerInv /\ StaleInv)
<1>1. Init => Inv
  BY BaseInit, PeerInit, StaleInit
<1>2. Inv /\ [Next]_vars => Inv'
  <2> SUFFICES ASSUME Inv, [Next]_vars
               PROVE  BaseInv' /\ (PeerWaits' => PeerInv' /\ StaleInv')
    OBVIOUS
  <2>1. BaseInv'
    BY BaseNext
  <2>2. PeerWaits' => PeerWaits
    BY SetupKept DEF PeerWaits
  <2> QED
    BY <2>1, <2>2, PeerNext, StaleNext
<1>3. Inv => NoStaleCancel
  BY DEF StaleInv, NoStaleCancel
<1> QED
  BY <1>1, <1>2, <1>3, PTL DEF Spec

-----------------------------------------------------------------------------
(***************************************************************************)
(* Every cancel reaches its request, for a peer that waits until the       *)
(* request has left its context.                                           *)
(***************************************************************************)
\* Without an open request before it, a cancel is recorded or finds the
\* canceler of the request it is for.
LEMMA WaitsNext ==
  ASSUME BaseInv, PeerInv, SessionInv, CancelWaits, [Next]_vars
  PROVE  CancelWaits'
<1> USE DEF BaseInv
<1> SUFFICES ASSUME setup.reuseAfter = "done", setup.pendingLimit = 0, ~stopped',
                    NEW q \in Requests', NEW n \in Received',
                    wire'[q].session = session', n > q, wire'[n].kind = "cancel", wire'[n].id = IdOf(q)'
             PROVE  /\ state'[q] \in {"routed", "entered"} =>
                         wire'[q].id \in DOMAIN pending' /\ pending'[wire'[q].id] > q
                    /\ Running(q)' => \E c \in cancelled' : c[1] = q
  <2>1. setup' = setup
    BY SetupKept
  <2> QED
    BY <2>1 DEF CancelWaits, IdOf
<1>0. \A p \in Requests : p \in Nat /\ p \in Received
  BY RequestTypes
<1>1. ASSUME NEW id \in Ids, ReceiveRequest(id)
      PROVE  /\ state'[q] \in {"routed", "entered"} =>
                  wire'[q].id \in DOMAIN pending' /\ pending'[wire'[q].id] > q
             /\ Running(q)' => \E c \in cancelled' : c[1] = q
  <2>0. Receive("request", id) /\ ~stopped
    BY <1>1 DEF ReceiveRequest, Receive
  <2>m. PICK m \in Slots : m = Len(wire) + 1
    BY <2>0, OneMessage
  <2>1. /\ Received' = Received \cup {m} /\ m \notin Requests
        /\ \A p \in Received : wire'[p] = wire[p]
        /\ Received = 1..Len(wire) /\ Len(wire) \in Nat
    BY <2>0, <2>m, OneMessage, RequestTypes
  <2>2. wire'[m] = [kind |-> "request", id |-> id, session |-> session]
    BY <2>0, <2>m, OneMessage
  <2>3. /\ UNCHANGED <<setup, session, stopped, pending, cancelled>>
        /\ state' = [state EXCEPT ![m] = "routed"]
    BY <1>1, <2>m DEF ReceiveRequest, tableVars
  <2>4. /\ Requests' = Requests \cup {m}
        /\ \A p \in Requests : state'[p] = state[p]
    BY <2>1, <2>3 DEF TypeInv, Requests
  <2>5. n \in Received
    BY <2>1, <2>2
  <2>6. q \in Requests
    <3>1. n < m /\ m \in Nat /\ n \in Nat
      BY <2>m, <2>1, <2>5
    <3> QED
      BY <2>4, <3>1
  <2> QED
    BY <1>0, <2>0, <2>1, <2>3, <2>4, <2>5, <2>6 DEF CancelWaits, IdOf, Running
<1>2. ASSUME NEW id \in Ids, onCancel(id)
      PROVE  /\ state'[q] \in {"routed", "entered"} =>
                  wire'[q].id \in DOMAIN pending' /\ pending'[wire'[q].id] > q
             /\ Running(q)' => \E c \in cancelled' : c[1] = q
  <2>0. Receive("cancel", id) /\ ~stopped
    BY <1>2 DEF onCancel, Receive
  <2>m. PICK m \in Slots : m = Len(wire) + 1
    BY <2>0, OneMessage
  <2>1. /\ Received' = Received \cup {m}
        /\ \A p \in Received : wire'[p] = wire[p]
        /\ \A p \in Requests : p < m
        /\ Received = 1..Len(wire) /\ Len(wire) \in Nat
    BY <2>0, <2>m, OneMessage, RequestTypes
  <2>2. wire'[m] = [kind |-> "cancel", id |-> id, session |-> session]
    BY <2>0, <2>m, OneMessage
  <2>3. /\ UNCHANGED <<setup, session, stopped, state, cancelers>>
        /\ Requests' = Requests
        /\ cancelled \subseteq cancelled'
        /\ id \in DOMAIN cancelers => <<cancelers[id], m>> \in cancelled'
    BY <1>2, <2>m DEF onCancel, Requests
  <2>4. q \in Requests /\ wire'[q] = wire[q] /\ q \in Received /\ q \in Nat
    BY <1>0, <2>1, <2>3
  <2>5. \/ UNCHANGED <<pending, pendingOrder>> /\ id \in DOMAIN cancelers
        \/ recordPendingCancel(id, m) /\ id \notin DOMAIN cancelers
    <3>1. Supersedes(id, m)
      BY <2>m, <2>1 DEF Supersedes, NumbersInv
    <3> QED
      BY <1>2, <2>m, <3>1 DEF onCancel
  <2>6. \/ UNCHANGED pending
        \/ /\ DOMAIN pending' = DOMAIN pending \cup {id}
           /\ \A x \in DOMAIN pending' : pending'[x] = IF x = id THEN m ELSE pending[x]
    <3>1. ASSUME recordPendingCancel(id, m)
          PROVE  Recorded(pending, pendingOrder, id, m, setup.pendingLimit, pending', pendingOrder')
      <4>1. m \in Nat
        BY <2>m, <2>1
      <4> QED
        BY <3>1, <4>1, PendingRecorded
    <3> QED
      BY <2>5, <3>1 DEF Recorded
  <2>7. CASE wire[q].id = id
    <3>1. ASSUME state[q] \in {"routed", "entered"}
          PROVE  id \in DOMAIN pending' /\ pending'[id] > q
      <4>1. id \notin DOMAIN cancelers
        <5> SUFFICES ASSUME id \in DOMAIN cancelers
                     PROVE  FALSE
          OBVIOUS
        <5>1. /\ cancelers[id] \in Requests /\ IdOf(cancelers[id]) = id
              /\ state[cancelers[id]] \in Registered
          BY DEF PeerInv, CancelerInv
        <5>2. cancelers[id] < q \/ q < cancelers[id] \/ q = cancelers[id]
          <6>1. cancelers[id] \in Nat /\ q \in Nat
            BY <1>0, <2>4, <5>1
          <6> QED
            BY <6>1
        <5>3. ~(cancelers[id] < q)
          <6>1. IdOf(q) = IdOf(cancelers[id])
            BY <2>7, <5>1 DEF IdOf
          <6>2. cancelers[id] < q => state[cancelers[id]] = "done"
            BY <2>4, <5>1, <6>1 DEF PeerInv, OneAtATime
          <6> QED
            BY <5>1, <6>2 DEF Registered
        <5>4. ~(q < cancelers[id])
          <6>1. IdOf(q) = IdOf(cancelers[id])
            BY <2>7, <5>1 DEF IdOf
          <6>2. q < cancelers[id] => Finished(q)
            BY <2>4, <5>1, <6>1 DEF PeerInv, OneAtATime
          <6> QED
            BY <3>1, <6>2 DEF Finished
        <5> QED
          BY <3>1, <5>1, <5>2, <5>3, <5>4 DEF Registered
      <4>2. recordPendingCancel(id, m)
        BY <2>5, <4>1
      <4>3. Recorded(pending, pendingOrder, id, m, setup.pendingLimit, pending', pendingOrder')
        <5>1. m \in Nat
          BY <2>m, <2>1
        <5> QED
          BY <4>2, <5>1, PendingRecorded
      <4>4. id \in DOMAIN pending' /\ pending'[id] = m
        BY <4>3 DEF Recorded
      <4>5. m > q
        BY <2>m, <2>1, <2>4
      <4> QED
        BY <4>4, <4>5
    <3>2. ASSUME Running(q)
          PROVE  \E c \in cancelled' : c[1] = q
      <4>1. id \in DOMAIN cancelers /\ cancelers[id] = q
        BY <2>3, <2>4, <2>7, <3>2 DEF PeerInv, NewestInv, IdOf
      <4>2. <<q, m>> \in cancelled'
        BY <2>3, <4>1
      <4> QED
        BY <4>2
    <3> QED
      BY <2>3, <2>4, <2>7, <3>1, <3>2 DEF Running
  <2>8. CASE wire[q].id # id
    <3>1. n \in Received
      BY <2>1, <2>2, <2>4, <2>8 DEF IdOf
    <3>2. /\ state[q] \in {"routed", "entered"} =>
               wire[q].id \in DOMAIN pending /\ pending[wire[q].id] > q
          /\ Running(q) => \E c \in cancelled : c[1] = q
      BY <2>0, <2>1, <2>3, <2>4, <3>1 DEF CancelWaits, IdOf
    <3> QED
      BY <2>3, <2>4, <2>6, <2>8, <3>2 DEF Running
  <2> QED
    BY <2>7, <2>8
<1>3. ASSUME NEW r \in Slots, Handle(r), ~cancelableRequestContext(r)
      PROVE  /\ state'[q] \in {"routed", "entered"} =>
                  wire'[q].id \in DOMAIN pending' /\ pending'[wire'[q].id] > q
             /\ Running(q)' => \E c \in cancelled' : c[1] = q
  <2>1. UNCHANGED <<wire, session, stopped, pending, cancelled>>
    BY <1>3 DEF Handle, Enter, Dropped, Answer, LeaveContext, Retain, LeaveAsyncContext,
                AnswerAsync, Release, tableVars
  <2>2. PICK s \in States \ {"none"} :
          /\ state' = [state EXCEPT ![r] = s]
          /\ state[r] # "none"
          /\ s \in {"routed", "entered"} => state[r] \in {"routed", "entered"}
          /\ s \in {"running", "retaining", "async"} => Running(r)
    BY <1>3 DEF Handle, Enter, Dropped, Answer, LeaveContext, Retain, LeaveAsyncContext,
                AnswerAsync, Release, States, Running
  <2>3. /\ Requests' = Requests /\ state'[r] = s
        /\ \A p \in Requests : p # r => state'[p] = state[p]
    BY <2>1, <2>2, OneStep
  <2>4. /\ state'[q] \in {"routed", "entered"} => state[q] \in {"routed", "entered"}
        /\ Running(q)' => Running(q)
    BY <2>2, <2>3 DEF Running
  <2>5. /\ state[q] \in {"routed", "entered"} =>
             wire[q].id \in DOMAIN pending /\ pending[wire[q].id] > q
        /\ Running(q) => \E c \in cancelled : c[1] = q
    BY <2>1, <2>3 DEF CancelWaits, IdOf, Received
  <2> QED
    BY <2>1, <2>4, <2>5
<1>4. ASSUME NEW r \in Slots, cancelableRequestContext(r)
      PROVE  /\ state'[q] \in {"routed", "entered"} =>
                  wire'[q].id \in DOMAIN pending' /\ pending'[wire'[q].id] > q
             /\ Running(q)' => \E c \in cancelled' : c[1] = q
  <2> DEFINE id == IdOf(r)
  <2>1. /\ Requests' = Requests /\ r \in Requests /\ state'[r] = "running"
        /\ \A p \in Requests : p # r => state'[p] = state[p]
        /\ state[r] = "entered"
    BY <1>4, OneStep DEF cancelableRequestContext, States
  <2>2. /\ UNCHANGED <<wire, session, stopped>> /\ Received' = Received
        /\ DOMAIN pending' = DOMAIN pending \ {id}
        /\ \A x \in DOMAIN pending' : pending'[x] = pending[x]
        /\ cancelled \subseteq cancelled'
    BY <1>4 DEF cancelableRequestContext, Received, Without, Restrict
  <2>3. q \in Requests /\ n \in Received /\ wire[n].kind = "cancel" /\ wire[n].id = IdOf(q)
    BY <2>1, <2>2 DEF IdOf
  <2>4. /\ state[q] \in {"routed", "entered"} =>
             IdOf(q) \in DOMAIN pending /\ pending[IdOf(q)] > q
        /\ Running(q) => \E c \in cancelled : c[1] = q
    BY <2>2, <2>3 DEF CancelWaits
  <2>5. CASE q = r
    <3>1. CancelIsFor(id, r)
      BY <2>1, <2>4, <2>5 DEF CancelIsFor
    <3>2. pending[id] \in Received
      BY <3>1 DEF CancelIsFor, NumbersInv
    <3>3. <<r, pending[id]>> \in cancelled'
      BY <1>4, <3>1, <3>2 DEF cancelableRequestContext
    <3> QED
      BY <2>1, <2>5, <3>3
  <2>6. CASE q # r
    <3>1. state[q] \in {"routed", "entered"} => IdOf(q) # id
      BY <2>1, <2>3, <2>6, OnlyOne DEF PeerInv, Finished
    <3>2. state'[q] = state[q]
      BY <2>1, <2>3, <2>6
    <3> QED
      BY <2>2, <2>4, <3>1, <3>2 DEF IdOf, Running
  <2> QED
    BY <2>5, <2>6
<1>5. CASE Stop
  BY <1>5 DEF Stop
<1>6. CASE StartPools
  <2>1. q \in Requests /\ UNCHANGED <<wire, session>> /\ stopped
    BY <1>6 DEF StartPools, Requests
  <2> QED
    BY <2>1 DEF SessionInv
<1>7. CASE Start \/ UNCHANGED vars
  <2>1. UNCHANGED <<wire, session, stopped, state, pending, cancelled>>
    BY <1>7 DEF Start, vars, tableVars
  <2> QED
    BY <2>1 DEF CancelWaits, Requests, Received, IdOf, Running
<1> QED
  BY <1>1, <1>2, <1>3, <1>4, <1>5, <1>6, <1>7 DEF Next

\* A cancel that follows its request reaches it, when the peer waits until
\* the request has left its context and no waiting cancel is pruned.
THEOREM CancelsReach == Spec => []CancelReachesLateReuse
<1> DEFINE Inv == BaseInv /\ (PeerWaits => PeerInv /\ StaleInv /\ CancelWaits)
<1>1. Init => Inv
  <2>1. Init => CancelWaits
    BY DEF Init, CancelWaits, Requests
  <2> QED
    BY <2>1, BaseInit, PeerInit, StaleInit
<1>2. Inv /\ [Next]_vars => Inv'
  <2> SUFFICES ASSUME Inv, [Next]_vars
               PROVE  BaseInv' /\ (PeerWaits' => PeerInv' /\ StaleInv' /\ CancelWaits')
    OBVIOUS
  <2>1. BaseInv'
    BY BaseNext
  <2>2. PeerWaits' => PeerWaits
    BY SetupKept DEF PeerWaits
  <2> QED
    BY <2>1, <2>2, PeerNext, StaleNext, WaitsNext DEF StaleInv
<1>3. Inv => CancelReachesLateReuse
  BY DEF PeerWaits, CancelWaits, CancelReachesLateReuse, CancelReachesRequest
<1> QED
  BY <1>1, <1>2, <1>3, PTL DEF Spec
=============================================================================
