-------------------------- MODULE ConnectionsProofs --------------------------
(***************************************************************************)
(* Proofs about Connections, for any number of clients, writers and        *)
(* message sizes: the endpoint serves the newest client, and a client      *)
(* receives the chunks of a message one after the other.                   *)
(***************************************************************************)
EXTENDS Connections, SequenceTheorems, TLAPS

Places == {"unconnected", "run", "closing", "stopping", "joining", "starting", "loop", "closed",
           "stopped"}

\* A thread that has begun to replace or to stop the session.
Busy(t) == pc[t] \in {"stopping", "joining", "starting"}

\* The types of the variables that say who is served.
ServerTypeInv ==
    /\ setup \in Setups
    /\ pc \in [Threads -> Places]
    /\ client \in 0 .. setup.conns
    /\ active \in Conns \cup {NoConn} /\ bound \in Conns \cup {NoConn}
    /\ working \in BOOLEAN /\ raced \in BOOLEAN

\* The threads of one kind of server are idle in the other.
KindInv ==
    /\ Tcp => pc[App] # "closing" /\ \A c \in Conns : pc[c] = "unconnected"
    /\ ~Tcp => pc[Io] = "run"
    /\ pc[Io] = "starting" => active = client
    /\ Busy(Io) => client # NoConn
    /\ \A c \in Conns : pc[c] \in {"stopping", "joining"} => connMutex = c
    /\ ~Tcp /\ pc[App] \in {"stopping", "joining", "stopped"} => \A c \in Conns : ~Busy(c)

\* Without a race one thread at a time replaces the session, ...
OneReplaces ==
    /\ Tcp /\ Busy(Io) => pc[App] = "run"
    /\ \A c, d \in Conns : Busy(c) /\ Busy(d) => c = d

\* ... the endpoint serves nobody between its stop and its start, ...
IdleBetween ==
    \A t \in {Io} \cup Conns : pc[t] = "starting" =>
        ~working /\ (t # Io => active = t)

\* ... and otherwise the newest client; a WebSocket server that stops has
\* forgotten who that was.
NewestInv ==
    /\ working => bound # NoConn
    /\ working /\ (Tcp \/ pc[App] \in {"run", "closing"}) => bound = active
    /\ pc[App] = "stopped" => ~working

ServesInv ==
    /\ ServerTypeInv
    /\ KindInv
    /\ ~raced => OneReplaces /\ IdleBetween /\ NewestInv

Chunk == Writers \X Nat

\* The types of the variables of the output.
OutputTypeInv ==
    /\ left \in [Writers -> Nat]
    /\ posted \in [Conns -> Seq(Chunk)]
    /\ writeQueue \in [Conns -> Seq(Chunk)]
    /\ writing \in [Conns -> Seq(Chunk)]
    /\ wire \in [Conns -> Seq(Chunk)]

\* Only the front of the write queue is being written.
FrontIsWritten ==
    \A c \in Conns : writing[c] # <<>> =>
        writeQueue[c] # <<>> /\ writing[c] = <<Head(writeQueue[c])>>

\* All that was ever sent to a client, in order.
AllSent(c) == (wire[c] \o writeQueue[c]) \o posted[c]

\* Every chunk but the first of a message follows the one before it.
Whole(s) ==
    \A i \in DOMAIN s : s[i][2] > 1 => i > 1 /\ s[i - 1] = <<s[i][1], s[i][2] - 1>>

\* A writer that has begun is the only one, and goes on where it stopped.
OneWrites ==
    /\ \A v, w \in Writers : left[v] > 0 /\ left[w] > 0 => v = w
    /\ \A w \in Writers : left[w] > 0 =>
        /\ working /\ bound # NoConn /\ left[w] <= setup.chunks
        /\ left[w] < setup.chunks =>
            /\ Len(AllSent(bound)) > 0
            /\ AllSent(bound)[Len(AllSent(bound))] = <<w, setup.chunks - left[w]>>

LiveType == live \in [Conns -> BOOLEAN]

\* The output is live only while the endpoint works and nobody joins it.
LiveInv ==
    /\ bound # NoConn /\ live[bound] => working
    /\ \A t \in Threads : pc[t] = "joining" =>
         lifecycle = t /\ bound # NoConn /\ ~live[bound]
    /\ working => bound # NoConn

OutputInv ==
    /\ OutputTypeInv
    /\ FrontIsWritten
    /\ \A c \in Conns : Whole(AllSent(c))
    /\ OneWrites

-----------------------------------------------------------------------------
(* Who is served.                                                           *)

LEMMA Names ==
  /\ Io \in Threads /\ App \in Threads /\ Conns \subseteq Threads
  /\ Io # App /\ Io \notin Conns /\ App \notin Conns
  /\ NoConn \notin Conns /\ Free \notin Conns /\ Free \notin Threads
BY ConnectionBounds DEF Io, App, Conns, Threads, NoConn, Free

serverView == <<setup, pc, client, active, connMutex, working, bound, raced>>

LEMMA ServesInit ==
  ASSUME Init
  PROVE  ServesInv
<1>1. pc \in [Threads -> Places] /\ pc[Io] = "run" /\ pc[App] = "run"
      /\ \A c \in Conns : pc[c] = "unconnected"
  BY Names DEF Init, Places
<1>2. ServerTypeInv
  <2>1. client \in 0 .. setup.conns
    BY ConnectionBounds DEF Init, NoConn
  <2> QED
    BY <1>1, <2>1 DEF Init, ServerTypeInv
<1>3. KindInv /\ OneReplaces /\ IdleBetween /\ NewestInv
  BY <1>1 DEF Init, KindInv, OneReplaces, IdleBetween, NewestInv, Busy
<1> QED
  BY <1>2, <1>3 DEF ServesInv

LEMMA ServesStutter ==
  ASSUME ServesInv, UNCHANGED serverView
  PROVE  ServesInv'
BY DEF ServesInv, serverView, ServerTypeInv, KindInv, OneReplaces, IdleBetween, NewestInv, Busy, Tcp

\* One thread moves on.
LEMMA Moved ==
  ASSUME ServesInv, NEW t \in Threads, NEW x \in Places, pc' = [pc EXCEPT ![t] = x]
  PROVE  /\ pc' \in [Threads -> Places]
         /\ pc'[t] = x
         /\ \A u \in Threads : u # t => pc'[u] = pc[u]
         /\ \A u \in Threads : u # t => (Busy(u)' <=> Busy(u))
         /\ Busy(t)' <=> x \in {"stopping", "joining", "starting"}
BY DEF ServesInv, ServerTypeInv, Busy

\* The steps of readers, writers and clients that do not change who is served.
LEMMA ServesQuiet ==
  ASSUME ServesInv,
         \/ ReaderSteps \/ OutputSteps
         \/ \E c \in Conns : Receive(c) \/ Disconnect(c) \/ WriteFails(c)
         \/ \E w \in Writers : WriteBegin(w)
  PROVE  ServesInv'
<1>1. CASE ReaderSteps
  BY <1>1, ServesStutter
  DEF ReaderSteps, ReaderLooks, TryDequeueSome, NothingToDequeue, WaitLooksAtQuit,
      WaitLooksAtQueue, WaitSleeps, TryDequeue, ReaderAt, serverView, serverVars, epVars
<1>2. CASE OutputSteps
  BY <1>2, ServesStutter
  DEF OutputSteps, WriteChunk, StrandPush, WriteDone, serverView, serverVars, epVars
<1>3. ASSUME NEW c \in Conns, Receive(c) \/ WriteFails(c)
      PROVE  ServesInv'
  BY <1>3, ServesStutter DEF Receive, EnqueueAll, WriteFails, serverView, serverVars, epVars
<1>4. ASSUME NEW w \in Writers, WriteBegin(w)
      PROVE  ServesInv'
  BY <1>4, ServesStutter DEF WriteBegin, serverView, serverVars, epVars
<1>5. ASSUME NEW c \in Conns, Disconnect(c)
      PROVE  ServesInv'
  <2>1. UNCHANGED <<setup, client, active, connMutex, working, bound, raced>>
    BY <1>5 DEF Disconnect, serverVars, epVars
  <2>2. CASE Tcp
    BY <1>5, <2>1, <2>2, ServesStutter DEF Disconnect, serverView
  <2>3. CASE ~Tcp
    <3>1. pc[c] = "loop" /\ pc' = [pc EXCEPT ![c] = "closed"] /\ "closed" \in Places
      BY <1>5, <2>3 DEF Disconnect, Places
    <3>2. /\ pc' \in [Threads -> Places] /\ pc'[c] = "closed"
          /\ \A u \in Threads : u # c => pc'[u] = pc[u]
          /\ \A u \in Threads : Busy(u)' <=> Busy(u)
          /\ pc'[Io] = pc[Io] /\ pc'[App] = pc[App]
      BY <3>1, Moved, Names DEF Busy
    <3>3. ServerTypeInv'
      BY <2>1, <3>2 DEF ServesInv, ServerTypeInv
    <3>4. KindInv'
      BY <2>1, <2>3, <3>1, <3>2, Names DEF ServesInv, KindInv, Tcp
    <3>5. ~raced => OneReplaces' /\ IdleBetween' /\ NewestInv'
      BY <2>1, <2>3, <3>1, <3>2, Names
      DEF ServesInv, OneReplaces, IdleBetween, NewestInv, Tcp
    <3> QED
      BY <2>1, <3>3, <3>4, <3>5 DEF ServesInv
  <2> QED
    BY <2>2, <2>3
<1> QED
  BY <1>1, <1>2, <1>3, <1>4, <1>5

\* A thread that stops the endpoint has begun.
LEMMA ServesStopBegin ==
  ASSUME ServesInv, NEW t \in Threads, StopBegin(t)
  PROVE  ServesInv'
<1>1. /\ pc[t] = "stopping" /\ pc' = [pc EXCEPT ![t] = "joining"] /\ "joining" \in Places
      /\ UNCHANGED <<setup, client, active, connMutex, working, bound, raced>>
  BY DEF StopBegin, serverVars, Places
<1>2. /\ pc' \in [Threads -> Places] /\ pc'[t] = "joining"
      /\ \A u \in Threads : u # t => pc'[u] = pc[u]
      /\ \A u \in Threads : Busy(u)' <=> Busy(u)
  BY <1>1, Moved DEF Busy
<1>3. ServerTypeInv'
  BY <1>1, <1>2 DEF ServesInv, ServerTypeInv
<1>4. KindInv'
  BY <1>1, <1>2, Names DEF ServesInv, KindInv, Tcp
<1>5. ~raced => OneReplaces' /\ IdleBetween' /\ NewestInv'
  <2>1. \A u \in Threads : pc'[u] = "starting" => pc[u] = "starting"
    BY <1>2
  <2>2. /\ pc'[App] \in {"run", "closing"} => pc[App] \in {"run", "closing"}
        /\ pc'[App] = "run" <=> pc[App] = "run"
        /\ pc'[App] # "stopped" \/ pc[App] = "stopped"
    BY <1>1, <1>2, Names
  <2> QED
    BY <1>1, <1>2, <2>1, <2>2, Names DEF ServesInv, OneReplaces, IdleBetween, NewestInv, Tcp
<1> QED
  BY <1>1, <1>3, <1>4, <1>5 DEF ServesInv

\* TcpServer.
LEMMA ServesTcp ==
  ASSUME ServesInv, Accept \/ AcceptStopped \/ AcceptStarts \/ TcpStop
  PROVE  ServesInv'
<1> USE DEF ServesInv
<1>0. /\ setup.conns \in 0 .. MaxConns /\ MaxConns \in Nat /\ client \in 0 .. setup.conns
      /\ \A n \in 1 .. setup.conns : n \in Conns
  BY ConnectionBounds DEF ServerTypeInv, Conns
<1>1. CASE Accept
  <2>1. /\ Tcp /\ pc[Io] = "run" /\ pc[App] = "run" /\ client < setup.conns
        /\ client' = client + 1
        /\ UNCHANGED <<setup, connMutex, working, bound, raced>>
    BY <1>1 DEF Accept, epVars
  <2>2. client' \in 1 .. setup.conns /\ client' \in Conns /\ client' # NoConn
    BY <1>0, <2>1, Names
  <2>3. PICK x \in {"stopping", "starting"} :
          /\ pc' = [pc EXCEPT ![Io] = x]
          /\ x = "stopping" => active' = active
          /\ x = "starting" => active = NoConn /\ active' = client'
    BY <1>1 DEF Accept
  <2>4. /\ pc' \in [Threads -> Places] /\ pc'[Io] = x
        /\ \A u \in Threads : u # Io => pc'[u] = pc[u]
        /\ \A u \in Threads : u # Io => (Busy(u)' <=> Busy(u))
    BY <2>3, Moved, Names DEF Places
  <2>5. ServerTypeInv'
    BY <2>1, <2>2, <2>3, <2>4, <1>0 DEF ServerTypeInv
  <2>6. KindInv'
    BY <2>1, <2>2, <2>3, <2>4, Names DEF KindInv, Tcp, Busy
  <2>7. ASSUME ~raced
        PROVE  OneReplaces' /\ IdleBetween' /\ NewestInv'
    <3>1. x = "starting" => ~working
      BY <2>1, <2>3, <2>7 DEF NewestInv
    <3>2. OneReplaces'
      BY <2>1, <2>4, <2>7, Names DEF OneReplaces, Tcp
    <3>3. IdleBetween'
      BY <2>1, <2>3, <2>4, <2>7, <3>1, Names DEF IdleBetween, KindInv
    <3>4. NewestInv'
      BY <2>1, <2>3, <2>4, <2>7, <3>1, Names DEF NewestInv, Tcp
    <3> QED
      BY <3>2, <3>3, <3>4
  <2> QED
    BY <2>1, <2>5, <2>6, <2>7
<1>2. CASE AcceptStopped
  <2>1. /\ pc[Io] \in {"stopping", "joining"} /\ pc' = [pc EXCEPT ![Io] = "starting"]
        /\ active' = client /\ ~working'
        /\ UNCHANGED <<setup, client, connMutex, bound, raced>>
        /\ working' = FALSE
    BY <1>2 DEF AcceptStopped, StopIdle, StopJoin, epVars, ServerTypeInv
  <2>2. Tcp /\ client # NoConn /\ client \in Conns
    <3>1. Tcp /\ client # NoConn
      BY <2>1 DEF KindInv, Busy
    <3> QED
      BY <1>0, <3>1 DEF NoConn
  <2>4. /\ pc' \in [Threads -> Places] /\ pc'[Io] = "starting"
        /\ \A u \in Threads : u # Io => pc'[u] = pc[u]
        /\ \A u \in Threads : Busy(u)' <=> Busy(u)
    BY <2>1, Moved, Names DEF Places, Busy
  <2>5. ServerTypeInv'
    BY <2>1, <2>2, <2>4 DEF ServerTypeInv
  <2>6. KindInv'
    BY <2>1, <2>2, <2>4, Names DEF KindInv, Tcp
  <2>7. ASSUME ~raced
        PROVE  OneReplaces' /\ IdleBetween' /\ NewestInv'
    BY <2>1, <2>2, <2>4, <2>7, Names DEF OneReplaces, IdleBetween, NewestInv, Tcp, KindInv
  <2> QED
    BY <2>1, <2>5, <2>6, <2>7
<1>3. CASE AcceptStarts
  <2>1. /\ Tcp /\ pc[Io] = "starting" /\ pc' = [pc EXCEPT ![Io] = "run"]
        /\ working' = TRUE
        /\ bound' = IF working THEN bound ELSE client
        /\ UNCHANGED <<setup, client, active, connMutex, raced>>
    BY <1>3 DEF AcceptStarts, StartProcessing, serverVars, ServerTypeInv
  <2>2. client # NoConn /\ client \in Conns /\ active = client
    <3>1. client # NoConn /\ active = client
      BY <2>1 DEF KindInv, Busy
    <3> QED
      BY <1>0, <3>1 DEF NoConn
  <2>4. /\ pc' \in [Threads -> Places] /\ pc'[Io] = "run"
        /\ \A u \in Threads : u # Io => pc'[u] = pc[u]
        /\ \A u \in Threads : u # Io => (Busy(u)' <=> Busy(u))
        /\ ~Busy(Io)'
    BY <2>1, Moved, Names DEF Places
  <2>5. ServerTypeInv'
    BY <2>1, <2>2, <2>4 DEF ServerTypeInv
  <2>6. KindInv'
    BY <2>1, <2>2, <2>4, Names DEF KindInv, Tcp
  <2>7. ASSUME ~raced
        PROVE  OneReplaces' /\ IdleBetween' /\ NewestInv'
    <3>1. ~working /\ pc[App] = "run"
      BY <2>1, <2>7 DEF IdleBetween, OneReplaces, Busy
    <3> QED
      BY <2>1, <2>2, <2>4, <2>7, <3>1, Names DEF OneReplaces, IdleBetween, NewestInv, Tcp, KindInv
  <2> QED
    BY <2>1, <2>5, <2>6, <2>7
<1>4. CASE TcpStop
  <2>1. /\ Tcp /\ pc[App] = "run" /\ pc' = [pc EXCEPT ![App] = "stopping"]
        /\ raced' = (raced \/ pc[Io] # "run")
        /\ UNCHANGED <<setup, client, active, connMutex, working, bound>>
    BY <1>4 DEF TcpStop, epVars
  <2>4. /\ pc' \in [Threads -> Places] /\ pc'[App] = "stopping"
        /\ \A u \in Threads : u # App => pc'[u] = pc[u]
        /\ \A u \in Threads : u # App => (Busy(u)' <=> Busy(u))
    BY <2>1, Moved, Names DEF Places
  <2>5. ServerTypeInv'
    <3>1. raced' \in BOOLEAN
      BY <2>1
    <3> QED
      BY <2>1, <2>4, <3>1 DEF ServerTypeInv
  <2>6. KindInv'
    BY <2>1, <2>4, Names DEF KindInv, Tcp
  <2>7. ASSUME ~raced'
        PROVE  OneReplaces' /\ IdleBetween' /\ NewestInv'
    <3>1. ~raced /\ ~Busy(Io)
      BY <2>1, <2>7 DEF Busy
    <3> QED
      BY <2>1, <2>4, <3>1, Names DEF OneReplaces, IdleBetween, NewestInv, Tcp
  <2> QED
    BY <2>5, <2>6, <2>7
<1> QED
  BY <1>1, <1>2, <1>3, <1>4

\* WebSocketServer, and the end of either stop().
LEMMA ServesWebSocket ==
  ASSUME ServesInv,
         \/ \E c \in Conns : Connect(c) \/ ConnectStopped(c) \/ ConnectStarts(c)
         \/ WebSocketStop \/ WebSocketClosed \/ ServerStopped
  PROVE  ServesInv'
<1> USE DEF ServesInv
<1>1. ASSUME NEW c \in Conns, Connect(c)
      PROVE  ServesInv'
  <2>1. /\ ~Tcp /\ pc[c] = "unconnected" /\ pc[App] = "run" /\ connMutex = Free
        /\ raced' = (raced \/ \E d \in Conns : pc[d] = "starting")
        /\ UNCHANGED <<setup, client, working, bound>>
    BY <1>1 DEF Connect, epVars
  <2>2. PICK x \in {"stopping", "starting"} :
          /\ pc' = [pc EXCEPT ![c] = x]
          /\ x = "stopping" => active' = active /\ connMutex' = c
          /\ x = "starting" => active = NoConn /\ active' = c /\ connMutex' = connMutex
    BY <1>1 DEF Connect
  <2>3. c \in Threads /\ c # Io /\ c # App
    BY Names
  <2>4. /\ pc' \in [Threads -> Places] /\ pc'[c] = x
        /\ \A u \in Threads : u # c => pc'[u] = pc[u]
        /\ \A u \in Threads : u # c => (Busy(u)' <=> Busy(u))
        /\ pc'[Io] = pc[Io] /\ pc'[App] = pc[App]
    BY <2>2, <2>3, Moved, Names DEF Places
  <2>5. \A d \in Conns : pc[d] \notin {"stopping", "joining"}
    BY <2>1, Names DEF KindInv
  <2>6. ServerTypeInv'
    <3>1. raced' \in BOOLEAN
      BY <2>1
    <3> QED
      BY <2>1, <2>2, <2>4, <3>1 DEF ServerTypeInv
  <2>7. KindInv'
    BY <2>1, <2>2, <2>4, <2>5, Names DEF KindInv, Tcp, Busy
  <2>8. ASSUME ~raced'
        PROVE  OneReplaces' /\ IdleBetween' /\ NewestInv'
    <3>1. ~raced /\ \A d \in Conns : pc[d] # "starting"
      BY <2>1, <2>8
    <3>2. \A d \in Conns : ~Busy(d)
      BY <2>5, <3>1 DEF Busy
    <3>3. x = "starting" => ~working
      BY <2>1, <2>2, <3>1 DEF NewestInv
    <3>4. OneReplaces'
      BY <2>1, <2>3, <2>4, <3>2, Names DEF OneReplaces, Tcp
    <3>5. IdleBetween'
      BY <2>1, <2>2, <2>3, <2>4, <3>1, <3>3, Names DEF IdleBetween, KindInv
    <3>6. NewestInv'
      BY <2>1, <2>2, <2>3, <2>4, <3>1, <3>3 DEF NewestInv, Tcp
    <3> QED
      BY <3>4, <3>5, <3>6
  <2> QED
    BY <2>6, <2>7, <2>8
<1>2. ASSUME NEW c \in Conns, ConnectStopped(c)
      PROVE  ServesInv'
  <2>1. /\ pc[c] \in {"stopping", "joining"} /\ pc' = [pc EXCEPT ![c] = "starting"]
        /\ active' = c /\ working' = FALSE /\ connMutex' = Free
        /\ UNCHANGED <<setup, client, bound, raced>>
    BY <1>2 DEF ConnectStopped, StopIdle, StopJoin, epVars, ServerTypeInv
  <2>2. ~Tcp /\ connMutex = c /\ c \in Threads /\ c # Io /\ c # App
    BY <2>1, Names DEF KindInv
  <2>4. /\ pc' \in [Threads -> Places] /\ pc'[c] = "starting"
        /\ \A u \in Threads : u # c => pc'[u] = pc[u]
        /\ \A u \in Threads : Busy(u)' <=> Busy(u)
        /\ pc'[Io] = pc[Io] /\ pc'[App] = pc[App] /\ Busy(c)
    BY <2>1, <2>2, Moved, Names DEF Places, Busy
  <2>5. ServerTypeInv'
    BY <2>1, <2>4 DEF ServerTypeInv
  <2>6. KindInv'
    BY <2>1, <2>2, <2>4, Names DEF KindInv, Tcp
  <2>7. ASSUME ~raced
        PROVE  OneReplaces' /\ IdleBetween' /\ NewestInv'
    <3>1. \A d \in Conns : pc'[d] = "starting" => d = c
      BY <2>4, <2>7, Names DEF OneReplaces, Busy
    <3> QED
      BY <2>1, <2>2, <2>4, <2>7, <3>1, Names DEF OneReplaces, IdleBetween, NewestInv, Tcp, KindInv
  <2> QED
    BY <2>1, <2>5, <2>6, <2>7
<1>3. ASSUME NEW c \in Conns, ConnectStarts(c)
      PROVE  ServesInv'
  <2>1. /\ ~Tcp /\ pc[c] = "starting" /\ pc' = [pc EXCEPT ![c] = "loop"]
        /\ working' = TRUE
        /\ bound' = IF working THEN bound ELSE c
        /\ UNCHANGED <<setup, client, active, connMutex, raced>>
    BY <1>3 DEF ConnectStarts, StartProcessing, serverVars, ServerTypeInv
  <2>2. c \in Threads /\ c # Io /\ c # App /\ c # NoConn /\ Busy(c)
    BY <2>1, Names DEF Busy
  <2>4. /\ pc' \in [Threads -> Places] /\ pc'[c] = "loop"
        /\ \A u \in Threads : u # c => pc'[u] = pc[u]
        /\ \A u \in Threads : u # c => (Busy(u)' <=> Busy(u))
        /\ pc'[Io] = pc[Io] /\ pc'[App] = pc[App] /\ ~Busy(c)'
    BY <2>1, <2>2, Moved, Names DEF Places
  <2>5. ServerTypeInv'
    BY <2>1, <2>4 DEF ServerTypeInv
  <2>6. KindInv' /\ pc[App] # "stopped"
    BY <2>1, <2>2, <2>4, Names DEF KindInv, Tcp
  <2>7. ASSUME ~raced
        PROVE  OneReplaces' /\ IdleBetween' /\ NewestInv'
    <3>1. ~working /\ active = c /\ \A d \in Conns : pc[d] = "starting" => d = c
      BY <2>1, <2>2, <2>7 DEF IdleBetween, OneReplaces, Busy
    <3> QED
      BY <2>1, <2>2, <2>4, <2>6, <2>7, <3>1, Names
      DEF OneReplaces, IdleBetween, NewestInv, Tcp, KindInv
  <2> QED
    BY <2>1, <2>5, <2>6, <2>7
<1>4. CASE WebSocketStop
  <2>1. /\ ~Tcp /\ pc[App] = "run" /\ pc' = [pc EXCEPT ![App] = "closing"]
        /\ UNCHANGED <<setup, client, active, connMutex, working, bound, raced>>
    BY <1>4 DEF WebSocketStop, serverVars, epVars
  <2>4. /\ pc' \in [Threads -> Places] /\ pc'[App] = "closing"
        /\ \A u \in Threads : u # App => pc'[u] = pc[u]
        /\ \A u \in Threads : u # App => (Busy(u)' <=> Busy(u))
    BY <2>1, Moved, Names DEF Places
  <2>5. ServerTypeInv'
    BY <2>1, <2>4 DEF ServerTypeInv
  <2>6. KindInv'
    BY <2>1, <2>4, Names DEF KindInv, Tcp
  <2>7. ASSUME ~raced
        PROVE  OneReplaces' /\ IdleBetween' /\ NewestInv'
    BY <2>1, <2>4, <2>7, Names DEF OneReplaces, IdleBetween, NewestInv, Tcp
  <2> QED
    BY <2>1, <2>5, <2>6, <2>7
<1>5. CASE WebSocketClosed
  <2>1. /\ pc[App] = "closing" /\ active' = NoConn
        /\ \A c \in Conns : pc[c] \in {"unconnected", "loop", "closed"}
        /\ pc' = [t \in Threads |-> IF t = App THEN "stopping"
                                    ELSE IF pc[t] = "loop" THEN "closed" ELSE pc[t]]
        /\ UNCHANGED <<setup, client, connMutex, working, bound, raced>>
    BY <1>5 DEF WebSocketClosed, epVars
  <2>2. ~Tcp /\ pc[Io] = "run"
    BY <2>1 DEF KindInv
  <2>3. pc' \in [Threads -> Places]
    BY <2>1 DEF ServerTypeInv, Places
  <2>4. /\ pc'[App] = "stopping" /\ pc'[Io] = "run"
        /\ \A c \in Conns : pc'[c] \in {"unconnected", "closed"}
        /\ \A c \in Conns : ~Busy(c)'
    BY <2>1, <2>2, Names DEF Busy
  <2>5. ServerTypeInv'
    BY <2>1, <2>3 DEF ServerTypeInv
  <2>6. KindInv'
    BY <2>1, <2>2, <2>4 DEF KindInv, Tcp, Busy
  <2>7. ASSUME ~raced
        PROVE  OneReplaces' /\ IdleBetween' /\ NewestInv'
    BY <2>1, <2>2, <2>4, <2>7 DEF OneReplaces, IdleBetween, NewestInv, Tcp
  <2> QED
    BY <2>1, <2>5, <2>6, <2>7
<1>6. CASE ServerStopped
  <2>1. /\ pc[App] \in {"stopping", "joining"} /\ pc' = [pc EXCEPT ![App] = "stopped"]
        /\ working' = FALSE
        /\ UNCHANGED <<setup, client, active, connMutex, bound, raced>>
    BY <1>6 DEF ServerStopped, StopIdle, StopJoin, epVars, serverVars, ServerTypeInv
  <2>4. /\ pc' \in [Threads -> Places] /\ pc'[App] = "stopped"
        /\ \A u \in Threads : u # App => pc'[u] = pc[u]
        /\ \A u \in Threads : u # App => (Busy(u)' <=> Busy(u))
    BY <2>1, Moved, Names DEF Places
  <2>5. ServerTypeInv'
    BY <2>1, <2>4 DEF ServerTypeInv
  <2>6. KindInv'
    BY <2>1, <2>4, Names DEF KindInv, Tcp
  <2>7. ASSUME ~raced
        PROVE  OneReplaces' /\ IdleBetween' /\ NewestInv'
    BY <2>1, <2>4, <2>7, Names DEF OneReplaces, IdleBetween, NewestInv, Tcp
  <2> QED
    BY <2>1, <2>5, <2>6, <2>7
<1> QED
  BY <1>1, <1>2, <1>3, <1>4, <1>5, <1>6

LEMMA ServesNext ==
  ASSUME ServesInv, [Next]_vars
  PROVE  ServesInv'
<1>1. CASE ReaderSteps \/ OutputSteps
  BY <1>1, ServesQuiet
<1>2. CASE ServerSteps
  BY <1>2, ServesStopBegin, ServesTcp, ServesWebSocket, Names DEF ServerSteps
<1>3. CASE StopSteps
  BY <1>3, ServesStopBegin, ServesWebSocket, Names DEF StopSteps
<1>4. CASE Environment
  BY <1>4, ServesTcp, ServesWebSocket, ServesQuiet DEF Environment
<1>5. CASE UNCHANGED vars
  BY <1>5, ServesStutter DEF vars, serverView
<1> QED
  BY <1>1, <1>2, <1>3, <1>4, <1>5 DEF Next

\* Whatever number of clients connect and however their callbacks fall, the
\* endpoint serves the newest of them, and nobody once the server is stopped.
THEOREM NewestIsServed == Spec => []ServesNewest
<1>1. ServesInv => ServesNewest
  BY DEF ServesInv, NewestInv, ServesNewest, AtRest
<1> QED
  BY <1>1, ServesInit, ServesNext, PTL DEF Spec

-----------------------------------------------------------------------------
(* What is sent.                                                            *)

\* Taking the head of one sequence to the end of the one before it changes
\* nothing of their concatenation.
LEMMA MoveHead ==
  ASSUME NEW S, NEW a \in Seq(S), NEW b \in Seq(S), b # <<>>
  PROVE  /\ Head(b) \in S /\ Tail(b) \in Seq(S)
         /\ Append(a, Head(b)) \in Seq(S)
         /\ Append(a, Head(b)) \o Tail(b) = a \o b
<1>1. Head(b) \in S /\ Tail(b) \in Seq(S) /\ Len(b) > 0 /\ Len(Tail(b)) = Len(b) - 1
  BY EmptySeq, HeadTailProperties, LenProperties
<1>2. Append(a, Head(b)) \in Seq(S) /\ Len(Append(a, Head(b))) = Len(a) + 1
  BY <1>1, AppendProperties
<1>3. Len(Append(a, Head(b)) \o Tail(b)) = Len(a \o b)
  BY <1>1, <1>2, ConcatProperties, LenProperties
<1>4. ASSUME NEW i \in 1 .. Len(a \o b)
      PROVE  (Append(a, Head(b)) \o Tail(b))[i] = (a \o b)[i]
  BY <1>1, <1>2, HeadTailProperties, AppendProperties, ConcatProperties, LenProperties
<1> QED
  BY <1>1, <1>2, <1>3, <1>4, SeqEqual, ConcatProperties

LEMMA MoveMiddle ==
  \A a, b, c \in Seq(Chunk) : c # <<>> =>
    (a \o Append(b, Head(c))) \o Tail(c) = (a \o b) \o c
<1>0. \A x, y, z \in Seq(Chunk) : (x \o y) \o z = x \o (y \o z)
  BY ConcatAssociative
<1> SUFFICES ASSUME NEW a \in Seq(Chunk), NEW b \in Seq(Chunk), NEW c \in Seq(Chunk), c # <<>>
             PROVE  (a \o Append(b, Head(c))) \o Tail(c) = (a \o b) \o c
  BY Zenon
<1>1. Tail(c) \in Seq(Chunk) /\ Append(b, Head(c)) \in Seq(Chunk)
  BY MoveHead
<1>2. Append(b, Head(c)) \o Tail(c) = b \o c
  BY MoveHead
<1>3. (a \o Append(b, Head(c))) \o Tail(c) = a \o (Append(b, Head(c)) \o Tail(c))
  BY <1>0, <1>1, Zenon
<1>4. (a \o b) \o c = a \o (b \o c)
  BY <1>0, Zenon
<1> QED
  BY <1>2, <1>3, <1>4, Zenon

LEMMA AppendLast ==
  \A a, c \in Seq(Chunk), x \in Chunk : a \o Append(c, x) = Append(a \o c, x)
<1> SUFFICES ASSUME NEW a \in Seq(Chunk), NEW c \in Seq(Chunk), NEW x \in Chunk
             PROVE  a \o Append(c, x) = Append(a \o c, x)
  BY Zenon
<1>1. /\ Append(c, x) \in Seq(Chunk) /\ Len(Append(c, x)) = Len(c) + 1
      /\ a \o c \in Seq(Chunk) /\ Len(a \o c) = Len(a) + Len(c)
  BY AppendProperties, ConcatProperties
<1>2. /\ a \o Append(c, x) \in Seq(Chunk) /\ Append(a \o c, x) \in Seq(Chunk)
      /\ Len(a \o Append(c, x)) = Len(a) + Len(c) + 1
      /\ Len(Append(a \o c, x)) = Len(a) + Len(c) + 1
  BY <1>1, AppendProperties, ConcatProperties, LenProperties
<1>3. ASSUME NEW i \in 1 .. Len(a) + Len(c) + 1
      PROVE  (a \o Append(c, x))[i] = Append(a \o c, x)[i]
  <2>0. i \in 1 .. Len(a) + Len(Append(c, x))
    BY <1>1, LenProperties
  <2>1. (a \o Append(c, x))[i] = IF i <= Len(a) THEN a[i] ELSE Append(c, x)[i - Len(a)]
    BY <1>1, <2>0, ConcatProperties
  <2>2. Len(a) \in Nat /\ Len(c) \in Nat
    BY LenProperties
  <2>3. CASE i <= Len(a) + Len(c)
    <3>1. Append(a \o c, x)[i] = (a \o c)[i]
      BY <1>1, <2>2, <2>3, AppendProperties
    <3>2. (a \o c)[i] = IF i <= Len(a) THEN a[i] ELSE c[i - Len(a)]
      BY <2>2, <2>3, ConcatProperties
    <3>3. ~(i <= Len(a)) => i - Len(a) \in 1 .. Len(c)
      BY <2>2, <2>3
    <3>4. ~(i <= Len(a)) => Append(c, x)[i - Len(a)] = c[i - Len(a)]
      BY <3>3, AppendProperties
    <3> QED
      BY <2>1, <3>1, <3>2, <3>4
  <2>4. CASE i = Len(a) + Len(c) + 1
    <3>1. Append(a \o c, x)[i] = x
      BY <1>1, <2>4, AppendProperties
    <3>2. ~(i <= Len(a)) /\ i - Len(a) = Len(c) + 1
      BY <2>2, <2>4
    <3>3. Append(c, x)[Len(c) + 1] = x
      BY AppendProperties
    <3> QED
      BY <2>1, <3>1, <3>2, <3>3
  <2> QED
    BY <2>2, <2>3, <2>4
<1> QED
  BY <1>2, <1>3, SeqEqual

\* What is at the front once the front is gone, and that an appended
\* element does not change it.
LEMMA Fronts ==
  ASSUME NEW S, NEW q \in Seq(S), q # <<>>
  PROVE  /\ \A x \in S : Append(q, x) # <<>> /\ Head(Append(q, x)) = Head(q)
         /\ Len(q) > 1 =>
              /\ q[2] \in S /\ SubSeq(q, 2, 2) = <<q[2]>>
              /\ Tail(q) # <<>> /\ Head(Tail(q)) = q[2]
<1>1. Len(q) \in Nat \ {0} /\ DOMAIN q = 1 .. Len(q) /\ Head(q) = q[1]
  BY EmptySeq, LenProperties
<1>2. ASSUME NEW x \in S
      PROVE  Append(q, x) # <<>> /\ Head(Append(q, x)) = Head(q)
  <2>1. Append(q, x) \in Seq(S) /\ Len(Append(q, x)) = Len(q) + 1 /\ Append(q, x)[1] = q[1]
    BY <1>1, AppendProperties
  <2>2. Append(q, x) # <<>>
    BY <1>1, <2>1, EmptySeq
  <2> QED
    BY <1>1, <2>1, <2>2
<1>3. ASSUME Len(q) > 1
      PROVE  /\ q[2] \in S /\ SubSeq(q, 2, 2) = <<q[2]>>
             /\ Tail(q) # <<>> /\ Head(Tail(q)) = q[2]
  <2>1. 2 \in 1 .. Len(q) /\ q[2] \in S
    BY <1>1, <1>3, ElementOfSeq
  <2>2. SubSeq(q, 2, 2) = <<q[2]>> \o SubSeq(q, 3, 2)
    BY <1>1, <1>3, <2>1, SubSeqRecursiveFirst
  <2>3. SubSeq(q, 3, 2) = <<>>
    BY SubSeqEmpty
  <2>4. <<q[2]>> \in Seq(S)
    BY <2>1
  <2>5. SubSeq(q, 2, 2) = <<q[2]>>
    BY <2>2, <2>3, <2>4, ConcatEmptySeq
  <2>6. /\ Tail(q) \in Seq(S) /\ Len(Tail(q)) = Len(q) - 1
        /\ \A i \in 1 .. Len(Tail(q)) : Tail(q)[i] = q[i + 1]
    BY HeadTailProperties
  <2>7. Len(Tail(q)) # 0 /\ Tail(q)[1] = q[2]
    BY <1>1, <1>3, <2>6
  <2>8. Tail(q) # <<>>
    <3>1. Len(<<>>) = 0
      BY EmptySeq
    <3> QED
      BY <2>7, <3>1, Zenon
  <2> QED
    BY <2>1, <2>5, <2>6, <2>7, <2>8
<1> QED
  BY <1>2, <1>3

\* The beginning of a whole sequence is whole.
LEMMA WholePrefix ==
  ASSUME NEW a \in Seq(Chunk), NEW b \in Seq(Chunk), Whole(a \o b)
  PROVE  Whole(a)
<1>1. a \o b \in Seq(Chunk) /\ Len(a \o b) = Len(a) + Len(b)
      /\ \A i \in 1 .. Len(a) : (a \o b)[i] = a[i]
  BY ConcatProperties, LenProperties
<1>2. DOMAIN a = 1 .. Len(a) /\ DOMAIN (a \o b) = 1 .. Len(a) + Len(b)
      /\ Len(a) \in Nat /\ Len(b) \in Nat
  BY <1>1, LenProperties
<1>3. ASSUME NEW i \in 1 .. Len(a), a[i][2] > 1
      PROVE  i > 1 /\ a[i - 1] = <<a[i][1], a[i][2] - 1>>
  <2>1. i \in DOMAIN (a \o b) /\ (a \o b)[i] = a[i]
    BY <1>1, <1>2
  <2>2. i > 1 /\ (a \o b)[i - 1] = <<a[i][1], a[i][2] - 1>>
    BY <1>3, <2>1 DEF Whole
  <2>3. i - 1 \in 1 .. Len(a)
    BY <1>2, <2>2
  <2> QED
    BY <1>1, <2>2, <2>3
<1> QED
  BY <1>2, <1>3 DEF Whole

\* The next chunk of the message that was sent last, or the first of another.
LEMMA WholeAppend ==
  ASSUME NEW s \in Seq(Chunk), Whole(s), NEW w \in Writers, NEW k \in Nat,
         k > 1 => Len(s) > 0 /\ s[Len(s)] = <<w, k - 1>>
  PROVE  /\ Whole(Append(s, <<w, k>>))
         /\ Append(s, <<w, k>>) \in Seq(Chunk)
         /\ Len(Append(s, <<w, k>>)) = Len(s) + 1
         /\ Append(s, <<w, k>>)[Len(s) + 1] = <<w, k>>
<1> DEFINE r == Append(s, <<w, k>>)
<1>1. <<w, k>> \in Chunk
  BY DEF Chunk
<1>2. /\ r \in Seq(Chunk) /\ Len(r) = Len(s) + 1 /\ Len(s) \in Nat
      /\ r[Len(s) + 1] = <<w, k>>
      /\ \A i \in 1 .. Len(s) : r[i] = s[i]
      /\ DOMAIN r = 1 .. Len(s) + 1 /\ DOMAIN s = 1 .. Len(s)
  BY <1>1, AppendProperties, LenProperties
<1> HIDE DEF r
<1>3. ASSUME NEW i \in 1 .. Len(s) + 1, r[i][2] > 1
      PROVE  i > 1 /\ r[i - 1] = <<r[i][1], r[i][2] - 1>>
  <2>1. CASE i = Len(s) + 1
    <3>1. r[i][1] = w /\ r[i][2] = k
      BY <1>2, <2>1
    <3>2. Len(s) > 0 /\ s[Len(s)] = <<w, k - 1>>
      BY <1>3, <3>1
    <3>3. i > 1 /\ i - 1 = Len(s) /\ Len(s) \in 1 .. Len(s)
      BY <1>2, <2>1, <3>2
    <3> QED
      BY <1>2, <3>1, <3>2, <3>3
  <2>2. CASE i # Len(s) + 1
    <3>1. i \in 1 .. Len(s) /\ r[i] = s[i]
      BY <1>2, <2>2
    <3>2. i > 1 /\ s[i - 1] = <<s[i][1], s[i][2] - 1>>
      BY <1>2, <1>3, <3>1 DEF Whole
    <3>3. i - 1 \in 1 .. Len(s)
      BY <1>2, <3>1, <3>2
    <3> QED
      BY <1>2, <3>1, <3>2, <3>3
  <2> QED
    BY <2>1, <2>2
<1> QED
  BY <1>2, <1>3 DEF Whole, r

\* A step that begins no join and leaves the endpoint alone.
LEMMA LiveKept ==
  ASSUME LiveType, LiveInv, UNCHANGED <<live, lifecycle, bound, working>>,
         \A t \in Threads : pc'[t] = "joining" => pc[t] = "joining"
  PROVE  LiveType' /\ LiveInv'
BY DEF LiveType, LiveInv

LEMMA LiveStopBegin ==
  ASSUME ServesInv, LiveType, LiveInv, NEW t \in Threads, StopBegin(t)
  PROVE  LiveType' /\ LiveInv'
<1>1. /\ lifecycle = Free /\ working /\ lifecycle' = t
      /\ live' = [live EXCEPT ![bound] = FALSE]
      /\ pc' = [pc EXCEPT ![t] = "joining"]
      /\ UNCHANGED <<working, bound>>
  BY DEF StopBegin
<1>2. bound # NoConn /\ bound \in Conns
  BY <1>1 DEF LiveInv, ServesInv, ServerTypeInv
<1>3. LiveType' /\ live'[bound] = FALSE
  BY <1>1, <1>2 DEF LiveType
<1>4. \A u \in Threads : pc'[u] = "joining" => u = t
  BY <1>1, Names DEF LiveInv, ServesInv, ServerTypeInv
<1> QED
  BY <1>1, <1>2, <1>3, <1>4 DEF LiveInv

LEMMA LiveStopped ==
  ASSUME ServesInv, LiveType, LiveInv, NEW t \in Threads, NEW next \in Places \ {"joining"},
         StopIdle(t, next) \/ StopJoin(t, next)
  PROVE  LiveType' /\ LiveInv'
<1>1. pc' = [pc EXCEPT ![t] = next]
  BY DEF StopIdle, StopJoin
<1>2. \A u \in Threads : pc'[u] = "joining" => pc[u] = "joining" /\ u # t
  BY <1>1 DEF ServesInv, ServerTypeInv
<1>3. CASE StopIdle(t, next)
  BY <1>2, <1>3, LiveKept DEF StopIdle, epVars
<1>4. CASE StopJoin(t, next)
  <2>1. /\ pc[t] = "joining" /\ ~working' /\ UNCHANGED <<bound, live>>
    BY <1>4 DEF StopJoin
  <2>2. lifecycle = t /\ ~live[bound]
    BY <2>1 DEF LiveInv
  <2>3. \A u \in Threads : pc'[u] # "joining"
    BY <1>2, <2>2 DEF LiveInv
  <2> QED
    BY <2>1, <2>2, <2>3 DEF LiveType, LiveInv
<1> QED
  BY <1>3, <1>4

LEMMA LiveStart ==
  ASSUME ServesInv, LiveType, LiveInv, NEW t \in Threads, NEW c \in Conns,
         NEW next \in Places \ {"joining"}, StartProcessing(t, c, next)
  PROVE  LiveType' /\ LiveInv'
<1>1. lifecycle = Free /\ lifecycle' = lifecycle /\ pc' = [pc EXCEPT ![t] = next]
  BY DEF StartProcessing
<1>2. \A u \in Threads : pc[u] # "joining"
  BY <1>1, Names DEF LiveInv
<1>3. \A u \in Threads : pc'[u] # "joining"
  BY <1>1, <1>2 DEF ServesInv, ServerTypeInv
<1>4. CASE working
  BY <1>1, <1>3, <1>4, LiveKept DEF StartProcessing
<1>5. CASE ~working
  <2>1. working' = TRUE /\ bound' = c /\ live' = [live EXCEPT ![c] = TRUE] /\ c # NoConn
    BY <1>5, Names DEF StartProcessing
  <2> QED
    BY <1>3, <2>1 DEF LiveType, LiveInv
<1> QED
  BY <1>4, <1>5

\* The accept handler starts the endpoint for a client.
LEMMA ClientKnown ==
  ASSUME ServesInv, pc[Io] = "starting"
  PROVE  client \in Conns
<1>1. client # NoConn /\ client \in 0 .. setup.conns /\ setup.conns \in 0 .. MaxConns
      /\ MaxConns \in Nat
  BY ConnectionBounds DEF ServesInv, ServerTypeInv, KindInv, Busy
<1> QED
  BY <1>1 DEF Conns, NoConn

\* The steps that neither stop nor start the endpoint.
QuietSteps ==
    \/ ReaderSteps \/ OutputSteps
    \/ Accept \/ TcpStop \/ WebSocketStop \/ WebSocketClosed
    \/ \E c \in Conns : Connect(c) \/ Receive(c) \/ Disconnect(c) \/ WriteFails(c)
    \/ \E w \in Writers : WriteBegin(w)

LEMMA QuietKeeps ==
  ASSUME ServesInv, QuietSteps
  PROVE  /\ UNCHANGED <<live, lifecycle, bound, working, setup>>
         /\ \A t \in Threads : pc'[t] = "joining" => pc[t] = "joining"
<1>0. pc \in [Threads -> Places]
  BY DEF ServesInv, ServerTypeInv
<1>1. CASE ReaderSteps
  BY <1>1
  DEF ReaderSteps, ReaderLooks, TryDequeueSome, NothingToDequeue, WaitLooksAtQuit,
      WaitLooksAtQueue, WaitSleeps, TryDequeue, ReaderAt, serverVars, epVars
<1>2. CASE OutputSteps
  BY <1>2 DEF OutputSteps, WriteChunk, StrandPush, WriteDone, serverVars, epVars
<1>3. CASE Accept \/ TcpStop \/ WebSocketStop
  BY <1>0, <1>3, Names DEF Accept, TcpStop, WebSocketStop, serverVars, epVars
<1>4. CASE WebSocketClosed
  BY <1>0, <1>4 DEF WebSocketClosed, epVars
<1>5. ASSUME NEW c \in Conns, Connect(c) \/ Receive(c) \/ Disconnect(c) \/ WriteFails(c)
      PROVE  /\ UNCHANGED <<live, lifecycle, bound, working, setup>>
             /\ \A t \in Threads : pc'[t] = "joining" => pc[t] = "joining"
  BY <1>0, <1>5, Names
  DEF Connect, Receive, EnqueueAll, Disconnect, WriteFails, serverVars, epVars
<1>6. ASSUME NEW w \in Writers, WriteBegin(w)
      PROVE  /\ UNCHANGED <<live, lifecycle, bound, working, setup>>
             /\ \A t \in Threads : pc'[t] = "joining" => pc[t] = "joining"
  BY <1>6 DEF WriteBegin, serverVars, epVars
<1> QED
  BY <1>1, <1>2, <1>3, <1>4, <1>5, <1>6 DEF QuietSteps

\* The steps that do.
LoudSteps ==
    \/ \E t \in Threads : StopBegin(t)
    \/ AcceptStopped \/ AcceptStarts \/ ServerStopped
    \/ \E c \in Conns : ConnectStopped(c) \/ ConnectStarts(c)

LEMMA QuietOrLoud ==
  ASSUME Next
  PROVE  QuietSteps \/ LoudSteps
<1>1. CASE ReaderSteps \/ OutputSteps
  BY <1>1 DEF QuietSteps
<1>2. CASE ServerSteps
  BY <1>2, Names DEF ServerSteps, LoudSteps
<1>3. CASE StopSteps
  BY <1>3, Names DEF StopSteps, LoudSteps, QuietSteps
<1>4. CASE Environment
  BY <1>4 DEF Environment, QuietSteps
<1> QED
  BY <1>1, <1>2, <1>3, <1>4 DEF Next

LEMMA LiveNext ==
  ASSUME ServesInv, LiveType, LiveInv, [Next]_vars
  PROVE  LiveType' /\ LiveInv'
<1>0. {"starting", "stopped", "run", "loop"} \subseteq Places \ {"joining"}
  BY DEF Places
<1>1. CASE QuietSteps
  BY <1>1, QuietKeeps, LiveKept
<1>2. ASSUME NEW t \in Threads, StopBegin(t)
      PROVE  LiveType' /\ LiveInv'
  BY <1>2, LiveStopBegin
<1>3. CASE AcceptStopped \/ ServerStopped
  BY <1>0, <1>3, LiveStopped, Names DEF AcceptStopped, ServerStopped
<1>4. ASSUME NEW c \in Conns, ConnectStopped(c) \/ ConnectStarts(c)
      PROVE  LiveType' /\ LiveInv'
  BY <1>0, <1>4, LiveStopped, LiveStart, Names DEF ConnectStopped, ConnectStarts
<1>5. CASE AcceptStarts
  <2>1. pc[Io] = "starting" /\ StartProcessing(Io, client, "run")
    BY <1>5 DEF AcceptStarts, StartProcessing
  <2> QED
    BY <1>0, <2>1, ClientKnown, LiveStart, Names
<1>6. CASE UNCHANGED vars
  BY <1>6, LiveKept DEF vars
<1> QED
  BY <1>1, <1>2, <1>3, <1>4, <1>5, <1>6, QuietOrLoud DEF LoudSteps

\* A step that sends nothing and leaves a writer its session.
LEMMA OutputKept ==
  ASSUME OutputInv, UNCHANGED <<outVars, setup>>,
         (bound' = bound /\ (working => working')) \/ \A w \in Writers : left[w] = 0
  PROVE  OutputInv'
<1>1. \A c : AllSent(c)' = AllSent(c)
  BY DEF AllSent, outVars
<1>2. OutputTypeInv' /\ FrontIsWritten'
  BY DEF OutputInv, OutputTypeInv, FrontIsWritten, outVars
<1>3. \A c \in Conns : Whole(AllSent(c))'
  BY <1>1 DEF OutputInv, Whole
<1>4. OneWrites'
  <2>1. \A w \in Writers : left'[w] = left[w]
    BY DEF outVars
  <2>2. CASE \A w \in Writers : left[w] = 0
    BY <2>1, <2>2 DEF OneWrites
  <2>3. CASE bound' = bound /\ (working => working')
    <3>1. AllSent(bound)' = AllSent(bound)
      BY <2>3 DEF AllSent, outVars
    <3> QED
      BY <2>1, <2>3, <3>1 DEF OutputInv, OneWrites
  <2> QED
    BY <2>2, <2>3
<1> QED
  BY <1>2, <1>3, <1>4 DEF OutputInv

\* A step that hands chunks on but sends none.
LEMMA OutputMoves ==
  ASSUME OutputInv, OutputTypeInv', FrontIsWritten', UNCHANGED <<left, setup, bound, working>>,
         \A c \in Conns : AllSent(c)' = AllSent(c), bound \in Conns \cup {NoConn}
  PROVE  OutputInv'
<1>1. \A c \in Conns : Whole(AllSent(c))'
  BY DEF OutputInv, Whole
<1>2. bound # NoConn => AllSent(bound)' = AllSent(bound)
  OBVIOUS
<1>3. OneWrites'
  BY <1>2 DEF OutputInv, OneWrites
<1> QED
  BY <1>1, <1>3 DEF OutputInv

LEMMA OutputStrandPush ==
  ASSUME ServesInv, OutputInv, NEW c \in Conns, StrandPush(c)
  PROVE  OutputInv'
<1> USE DEF OutputInv, OutputTypeInv
<1>1. /\ posted[c] # <<>> /\ posted[c] \in Seq(Chunk) /\ writeQueue[c] \in Seq(Chunk)
      /\ posted' = [posted EXCEPT ![c] = Tail(@)]
      /\ writeQueue' = [writeQueue EXCEPT ![c] = Append(@, Head(posted[c]))]
      /\ UNCHANGED <<left, wire, setup, bound, working>>
      /\ bound \in Conns \cup {NoConn}
  BY DEF StrandPush, serverVars, epVars, ServesInv, ServerTypeInv
<1>2. /\ Head(posted[c]) \in Chunk /\ Tail(posted[c]) \in Seq(Chunk)
      /\ Append(writeQueue[c], Head(posted[c])) \in Seq(Chunk)
  BY <1>1, MoveHead
<1>3. writing' \in [Conns -> Seq(Chunk)] /\ FrontIsWritten'
  <2>1. CASE writeQueue[c] = <<>>
    <3>1. writing[c] = <<>>
      BY <2>1 DEF FrontIsWritten
    <3>2. writing' = [writing EXCEPT ![c] = Append(<<>>, Head(posted[c]))]
      BY <2>1, <3>1 DEF StrandPush
    <3>3. writeQueue'[c] = <<Head(posted[c])>> /\ writing'[c] = <<Head(posted[c])>>
      BY <1>1, <2>1, <3>2
    <3>4. <<Head(posted[c])>> \in Seq(Chunk) /\ writing' \in [Conns -> Seq(Chunk)]
      BY <1>2, <3>2
    <3>5. \A d \in Conns : d # c => writing'[d] = writing[d] /\ writeQueue'[d] = writeQueue[d]
      BY <1>1, <3>2
    <3>6. writing'[c] = <<Head(writeQueue'[c])>> /\ writeQueue'[c] # <<>>
      BY <3>3
    <3> QED
      BY <3>4, <3>5, <3>6 DEF FrontIsWritten
  <2>2. CASE writeQueue[c] # <<>>
    <3>1. writing' = writing
      BY <2>2 DEF StrandPush
    <3>2. writeQueue'[c] = Append(writeQueue[c], Head(posted[c]))
      BY <1>1
    <3>3. Head(writeQueue'[c]) = Head(writeQueue[c]) /\ writeQueue'[c] # <<>>
      BY <1>1, <1>2, <2>2, <3>2, Fronts
    <3>4. \A d \in Conns : d # c => writeQueue'[d] = writeQueue[d]
      BY <1>1
    <3> QED
      BY <3>1, <3>3, <3>4, <2>2 DEF FrontIsWritten
  <2> QED
    BY <2>1, <2>2
<1>4. OutputTypeInv'
  BY <1>1, <1>2, <1>3
<1>5. ASSUME NEW d \in Conns
      PROVE  AllSent(d)' = AllSent(d)
  <2>1. CASE d = c
    <3>1. /\ wire[c] \in Seq(Chunk) /\ wire'[c] = wire[c]
          /\ writeQueue'[c] = Append(writeQueue[c], Head(posted[c]))
          /\ posted'[c] = Tail(posted[c])
      BY <1>1
    <3>2. (wire[c] \o Append(writeQueue[c], Head(posted[c]))) \o Tail(posted[c])
            = (wire[c] \o writeQueue[c]) \o posted[c]
      BY <1>1, <3>1, MoveMiddle, Zenon
    <3> QED
      BY <2>1, <3>1, <3>2 DEF AllSent
  <2>2. CASE d # c
    BY <1>1, <2>2 DEF AllSent
  <2> QED
    BY <2>1, <2>2
<1> HIDE DEF OutputInv, OutputTypeInv
<1> QED
  BY <1>1, <1>3, <1>4, <1>5, OutputMoves

LEMMA OutputWriteDone ==
  ASSUME ServesInv, OutputInv, NEW c \in Conns, WriteDone(c)
  PROVE  OutputInv'
<1> USE DEF OutputInv, OutputTypeInv
<1>1. /\ writing[c] # <<>> /\ wire[c] \in Seq(Chunk) /\ writeQueue[c] \in Seq(Chunk)
      /\ posted[c] \in Seq(Chunk)
      /\ wire' = [wire EXCEPT ![c] = Append(@, Head(writing[c]))]
      /\ writeQueue' = [writeQueue EXCEPT ![c] = Tail(@)]
      /\ UNCHANGED <<left, posted, setup, bound, working>>
      /\ bound \in Conns \cup {NoConn}
  BY DEF WriteDone, serverVars, epVars, ServesInv, ServerTypeInv
<1>2. writeQueue[c] # <<>> /\ Head(writing[c]) = Head(writeQueue[c]) /\ Tail(writing[c]) = <<>>
  <2>1. writeQueue[c] # <<>> /\ writing[c] = <<Head(writeQueue[c])>>
    BY <1>1 DEF FrontIsWritten
  <2> QED
    BY <2>1
<1>3. /\ Tail(writeQueue[c]) \in Seq(Chunk)
      /\ Append(wire[c], Head(writeQueue[c])) \in Seq(Chunk)
      /\ Append(wire[c], Head(writeQueue[c])) \o Tail(writeQueue[c]) = wire[c] \o writeQueue[c]
  BY <1>1, <1>2, MoveHead
<1>4. \/ writing'[c] = <<>>
      \/ /\ Tail(writeQueue[c]) # <<>> /\ Head(Tail(writeQueue[c])) \in Chunk
         /\ writing'[c] = <<Head(Tail(writeQueue[c]))>>
  <2> DEFINE q == writeQueue[c]
  <2>1. q \in Seq(Chunk) /\ Len(q) \in Nat \ {0}
    BY <1>1, <1>2, EmptySeq
  <2>2. writing'[c] = <<>> \o SubSeq(q, 2, IF Len(q) > 1 THEN 2 ELSE 1)
    BY <1>2 DEF WriteDone
  <2>3. CASE Len(q) > 1
    <3>1. /\ q[2] \in Chunk /\ SubSeq(q, 2, 2) = <<q[2]>>
          /\ Tail(q) # <<>> /\ Head(Tail(q)) = q[2]
      BY <1>2, <2>1, <2>3, Fronts
    <3>2. writing'[c] = <<q[2]>>
      BY <2>2, <2>3, <3>1
    <3> QED
      BY <3>1, <3>2
  <2>4. CASE ~(Len(q) > 1)
    <3>1. SubSeq(q, 2, 1) = <<>>
      BY SubSeqEmpty
    <3> QED
      BY <2>2, <2>4, <3>1
  <2> QED
    BY <2>3, <2>4
<1>5. \A d \in Conns : d # c => writing'[d] = writing[d] /\ writeQueue'[d] = writeQueue[d]
  BY <1>1 DEF WriteDone
<1>6. writeQueue'[c] = Tail(writeQueue[c])
  BY <1>1
<1>7. FrontIsWritten'
  BY <1>4, <1>5, <1>6 DEF FrontIsWritten
<1>8. OutputTypeInv'
  <2>1. writing'[c] \in Seq(Chunk)
    <3>1. CASE writing'[c] = <<>>
      BY <3>1, EmptySeq
    <3>2. CASE writing'[c] # <<>>
      <4>1. PICK x \in Chunk : writing'[c] = <<x>>
        BY <1>4, <3>2
      <4> QED
        BY <4>1
    <3> QED
      BY <3>1, <3>2
  <2>2. writing' \in [Conns -> Seq(Chunk)]
    BY <2>1 DEF WriteDone
  <2> QED
    BY <1>1, <1>2, <1>3, <2>2
<1>9. ASSUME NEW d \in Conns
      PROVE  AllSent(d)' = AllSent(d)
  <2>1. CASE d = c
    <3>1. wire'[c] = Append(wire[c], Head(writeQueue[c]))
      BY <1>1, <1>2
    <3> QED
      BY <1>1, <1>3, <1>6, <2>1, <3>1 DEF AllSent
  <2>2. CASE d # c
    BY <1>1, <2>2 DEF AllSent
  <2> QED
    BY <2>1, <2>2
<1> HIDE DEF OutputInv, OutputTypeInv
<1> QED
  BY <1>1, <1>7, <1>8, <1>9, OutputMoves

LEMMA OutputWriteFails ==
  ASSUME ServesInv, OutputInv, NEW c \in Conns, WriteFails(c)
  PROVE  OutputInv'
<1> USE DEF OutputInv, OutputTypeInv
<1>1. /\ writing[c] # <<>> /\ writing' = [writing EXCEPT ![c] = Tail(@)]
      /\ UNCHANGED <<left, posted, writeQueue, wire, setup, bound, working>>
      /\ bound \in Conns \cup {NoConn}
  BY DEF WriteFails, serverVars, epVars, ServesInv, ServerTypeInv
<1>2. Tail(writing[c]) = <<>>
  <2>1. writing[c] = <<Head(writeQueue[c])>>
    BY <1>1 DEF FrontIsWritten
  <2> QED
    BY <2>1
<1>3. writing'[c] = <<>> /\ \A d \in Conns : d # c => writing'[d] = writing[d]
  BY <1>1, <1>2
<1>4. FrontIsWritten'
  BY <1>1, <1>3 DEF FrontIsWritten
<1>5. OutputTypeInv'
  BY <1>1, <1>2, EmptySeq
<1>6. \A d \in Conns : AllSent(d)' = AllSent(d)
  BY <1>1 DEF AllSent
<1> HIDE DEF OutputInv, OutputTypeInv
<1> QED
  BY <1>1, <1>4, <1>5, <1>6, OutputMoves

\* send_mutex: nobody is in the middle of a message.
LEMMA OutputWriteBegin ==
  ASSUME ServesInv, LiveInv, OutputInv, NEW w \in Writers, WriteBegin(w)
  PROVE  OutputInv'
<1>1. /\ bound # NoConn /\ live[bound] /\ \A v \in Writers : left[v] = 0
      /\ left' = [left EXCEPT ![w] = setup.chunks]
      /\ UNCHANGED <<posted, writeQueue, writing, wire, setup, bound, working>>
  BY DEF WriteBegin, serverVars, epVars
<1>2. working /\ setup.chunks \in Nat
  BY <1>1, ConnectionBounds DEF LiveInv, ServesInv, ServerTypeInv
<1>3. OutputTypeInv' /\ FrontIsWritten'
  BY <1>1, <1>2 DEF OutputInv, OutputTypeInv, FrontIsWritten
<1>4. \A c \in Conns : Whole(AllSent(c))'
  BY <1>1 DEF OutputInv, Whole, AllSent
<1>5. /\ left'[w] = setup.chunks
      /\ \A v \in Writers : v # w => left'[v] = 0
  BY <1>1 DEF OutputInv, OutputTypeInv
<1>6. OneWrites'
  <2>1. \A u, v \in Writers : left'[u] > 0 /\ left'[v] > 0 => u = v
    BY <1>5
  <2>2. ASSUME NEW v \in Writers, left'[v] > 0
        PROVE  v = w /\ left'[v] = setup.chunks
    BY <1>5, <2>2
  <2> QED
    BY <1>1, <1>2, <2>1, <2>2 DEF OneWrites
<1> QED
  BY <1>3, <1>4, <1>6 DEF OutputInv

\* The next chunk of the only message under way goes to the end of what was sent.
LEMMA OutputWriteChunk ==
  ASSUME ServesInv, OutputInv, NEW w \in Writers, WriteChunk(w)
  PROVE  OutputInv'
<1> DEFINE k == setup.chunks - left[w] + 1
           b == bound
           all == AllSent(bound)
<1>1. /\ left[w] > 0 /\ left' = [left EXCEPT ![w] = @ - 1]
      /\ posted' = [posted EXCEPT ![b] = Append(@, <<w, k>>)]
      /\ UNCHANGED <<writeQueue, writing, wire, setup, bound, working>>
  BY DEF WriteChunk, serverVars, epVars
<1>2. /\ left[w] \in Nat /\ setup.chunks \in Nat /\ left[w] <= setup.chunks
      /\ working /\ b # NoConn /\ b \in Conns
      /\ left[w] < setup.chunks => Len(all) > 0 /\ all[Len(all)] = <<w, setup.chunks - left[w]>>
  BY <1>1, ConnectionBounds
  DEF OutputInv, OutputTypeInv, OneWrites, ServesInv, ServerTypeInv
<1>3. /\ k \in Nat /\ k >= 1 /\ <<w, k>> \in Chunk
      /\ k > 1 => left[w] < setup.chunks /\ setup.chunks - left[w] = k - 1
  BY <1>1, <1>2 DEF Chunk
<1>4. /\ wire[b] \in Seq(Chunk) /\ writeQueue[b] \in Seq(Chunk) /\ posted[b] \in Seq(Chunk)
      /\ wire[b] \o writeQueue[b] \in Seq(Chunk) /\ all \in Seq(Chunk)
      /\ Whole(all)
  BY <1>2, ConcatProperties DEF OutputInv, OutputTypeInv, AllSent
<1>5. AllSent(bound)' = Append(all, <<w, k>>)
  <2>1. posted'[b] = Append(posted[b], <<w, k>>)
    BY <1>1, <1>2 DEF OutputInv, OutputTypeInv
  <2>2. (wire[b] \o writeQueue[b]) \o Append(posted[b], <<w, k>>)
          = Append((wire[b] \o writeQueue[b]) \o posted[b], <<w, k>>)
    BY <1>3, <1>4, AppendLast, Zenon
  <2> QED
    BY <1>1, <2>1, <2>2 DEF AllSent
<1>6. k > 1 => Len(all) > 0 /\ all[Len(all)] = <<w, k - 1>>
  BY <1>2, <1>3
<1> HIDE DEF all, k
<1>7. /\ Whole(Append(all, <<w, k>>)) /\ Append(all, <<w, k>>) \in Seq(Chunk)
      /\ Len(Append(all, <<w, k>>)) = Len(all) + 1
      /\ Append(all, <<w, k>>)[Len(all) + 1] = <<w, k>>
      /\ Len(all) \in Nat
  BY <1>3, <1>4, <1>6, WholeAppend, LenProperties
<1>8. OutputTypeInv' /\ FrontIsWritten'
  <2>1. Append(posted[b], <<w, k>>) \in Seq(Chunk)
    BY <1>3, <1>4, AppendProperties
  <2>2. left[w] - 1 \in Nat
    BY <1>1, <1>2
  <2> QED
    BY <1>1, <2>1, <2>2 DEF OutputInv, OutputTypeInv, FrontIsWritten
<1>9. ASSUME NEW c \in Conns
      PROVE  Whole(AllSent(c))'
  <2>1. CASE c = b
    BY <1>1, <1>5, <1>7, <2>1 DEF Whole, AllSent
  <2>2. CASE c # b
    <3>1. AllSent(c)' = AllSent(c)
      BY <1>1, <2>2 DEF AllSent, OutputInv, OutputTypeInv
    <3> QED
      BY <3>1 DEF OutputInv, Whole
  <2> QED
    BY <2>1, <2>2
<1>10. OneWrites'
  <2>1. \A v \in Writers : left[v] > 0 => v = w
    BY <1>1 DEF OutputInv, OneWrites
  <2>2. left'[w] = left[w] - 1 /\ \A v \in Writers : v # w => left'[v] = left[v]
    BY <1>1 DEF OutputInv, OutputTypeInv
  <2>3. ASSUME NEW v \in Writers, left'[v] > 0
        PROVE  v = w
    BY <2>1, <2>2, <2>3
  <2>4. left'[w] <= setup.chunks /\ k = setup.chunks - left'[w]
    BY <1>2, <2>2 DEF k
  <2>5. Len(AllSent(bound)') > 0 /\ AllSent(bound)'[Len(AllSent(bound)')] = <<w, k>>
    BY <1>5, <1>7
  <2> QED
    BY <1>1, <1>2, <2>3, <2>4, <2>5 DEF OneWrites
<1> QED
  BY <1>8, <1>9, <1>10 DEF OutputInv

LEMMA OutputNext ==
  ASSUME ServesInv, LiveInv, OutputInv, [Next]_vars
  PROVE  OutputInv'
<1>1. CASE QuietSteps
  <2>0. UNCHANGED <<setup, bound, working>>
    BY <1>1, QuietKeeps
  <2>1. CASE ReaderSteps
    <3>1. UNCHANGED outVars
      BY <2>1
      DEF ReaderSteps, ReaderLooks, TryDequeueSome, NothingToDequeue, WaitLooksAtQuit,
          WaitLooksAtQueue, WaitSleeps, TryDequeue, ReaderAt
    <3> QED
      BY <2>0, <3>1, OutputKept
  <2>2. CASE OutputSteps
    BY <2>2, OutputWriteChunk, OutputStrandPush, OutputWriteDone DEF OutputSteps
  <2>3. CASE Accept \/ TcpStop \/ WebSocketStop \/ WebSocketClosed
    <3>1. UNCHANGED outVars
      BY <2>3 DEF Accept, TcpStop, WebSocketStop, WebSocketClosed
    <3> QED
      BY <2>0, <3>1, OutputKept
  <2>4. ASSUME NEW c \in Conns, Connect(c) \/ Receive(c) \/ Disconnect(c)
        PROVE  OutputInv'
    <3>1. UNCHANGED outVars
      BY <2>4 DEF Connect, Receive, EnqueueAll, Disconnect
    <3> QED
      BY <2>0, <3>1, OutputKept
  <2> QED
    BY <1>1, <2>1, <2>2, <2>3, <2>4, OutputWriteFails, OutputWriteBegin DEF QuietSteps
<1>2. CASE LoudSteps
  <2>1. ASSUME NEW t \in Threads, StopBegin(t)
        PROVE  OutputInv'
    BY <2>1, OutputKept DEF StopBegin, serverVars
  <2>2. ASSUME NEW t \in Threads, NEW next, UNCHANGED setup,
               StopIdle(t, next) \/ StopJoin(t, next)
        PROVE  OutputInv'
    BY <2>2, OutputKept DEF StopIdle, StopJoin, epVars
  <2>3. ASSUME NEW t \in Threads, NEW c, NEW next, StartProcessing(t, c, next)
        PROVE  OutputInv'
    <3>1. UNCHANGED <<outVars, setup>>
      BY <2>3 DEF StartProcessing, serverVars
    <3>2. CASE working
      BY <2>3, <3>1, <3>2, OutputKept DEF StartProcessing
    <3>3. CASE ~working
      <4>1. \A w \in Writers : left[w] \in Nat /\ ~(left[w] > 0)
        BY <3>3 DEF OutputInv, OutputTypeInv, OneWrites
      <4>2. \A w \in Writers : left[w] = 0
        BY <4>1
      <4> QED
        BY <3>1, <4>2, OutputKept
    <3> QED
      BY <3>2, <3>3
  <2> QED
    BY <1>2, <2>1, <2>2, <2>3, Names
    DEF LoudSteps, AcceptStopped, AcceptStarts, ServerStopped, ConnectStopped, ConnectStarts,
        serverVars
<1>3. CASE UNCHANGED vars
  BY <1>3, OutputKept DEF vars, outVars
<1> QED
  BY <1>1, <1>2, <1>3, QuietOrLoud

LEMMA OutputInit ==
  ASSUME Init
  PROVE  LiveType /\ LiveInv /\ OutputInv
<1>1. LiveType /\ LiveInv
  BY Names DEF Init, LiveType, LiveInv
<1>2. OutputTypeInv /\ FrontIsWritten /\ OneWrites
  BY EmptySeq DEF Init, OutputTypeInv, FrontIsWritten, OneWrites
<1>3. ASSUME NEW c \in Conns
      PROVE  Whole(AllSent(c))
  <2>1. AllSent(c) = <<>>
    BY DEF Init, AllSent
  <2> QED
    BY <2>1 DEF Whole
<1> QED
  BY <1>1, <1>2, <1>3 DEF OutputInv

\* Whatever number of writers send messages of whatever size, a TCP client
\* receives the chunks of a message one after the other.
THEOREM MessagesArriveWhole == Spec => []OutputWhole
<1>1. ASSUME OutputInv
      PROVE  OutputWhole
  <2>1. ASSUME NEW c \in Conns
        PROVE  Whole(wire[c])
    <3>1. /\ wire[c] \in Seq(Chunk) /\ writeQueue[c] \o posted[c] \in Seq(Chunk)
          /\ writeQueue[c] \in Seq(Chunk) /\ posted[c] \in Seq(Chunk)
      BY <1>1, ConcatProperties DEF OutputInv, OutputTypeInv
    <3>2. wire[c] \o writeQueue[c] \in Seq(Chunk)
      BY <3>1, ConcatProperties
    <3>3. Whole((wire[c] \o writeQueue[c]) \o posted[c])
      BY <1>1 DEF OutputInv, AllSent
    <3> QED
      BY <3>1, <3>2, <3>3, WholePrefix
  <2> QED
    BY <2>1 DEF OutputWhole, Whole
<1>2. Init => ServesInv /\ LiveType /\ LiveInv /\ OutputInv
  BY ServesInit, OutputInit
<1>3. ServesInv /\ LiveType /\ LiveInv /\ OutputInv /\ [Next]_vars
        => ServesInv' /\ LiveType' /\ LiveInv' /\ OutputInv'
  BY ServesNext, LiveNext, OutputNext
<1> QED
  BY <1>1, <1>2, <1>3, PTL DEF Spec
=============================================================================
