---------------------------- MODULE Connections ----------------------------
(***************************************************************************)
(* TcpServer and WebSocketServer: one RemoteEndPoint that serves the       *)
(* newest client.  A connection hands the bytes it receives to the         *)
(* endpoint's reader through a ThreadedQueue and a MultiQueueWaiter        *)
(* (threaded_queue.h); a new client or stop() interrupts that stream,      *)
(* stops the endpoint, which joins the reader, and starts it again.        *)
(*                                                                         *)
(* TCP callbacks all run on the thread in TcpServer::run (Io); a           *)
(* WebSocket connection has a thread of its own, named by its number.      *)
(* The application's thread is App.  Bytes are only counted: a deque       *)
(* that is pushed at one end and popped at the other keeps their order.    *)
(***************************************************************************)
EXTENDS Integers, Sequences, FiniteSets

CONSTANTS
    MaxConns,    \* clients that ever connect
    Writers,     \* endpoint threads that send messages
    Setups       \* [kind, conns, bytes, chunks]: see ConnectionBounds

Conns == 1 .. MaxConns
NoConn == 0
Free == -3       \* nobody holds the mutex
Io == -2
App == -1
Threads == {Io, App} \cup Conns

ASSUME ConnectionBounds ==
    /\ MaxConns \in Nat
    /\ \A s \in Setups :
        /\ s.kind \in {"tcp", "websocket"}
        /\ s.conns \in 0 .. MaxConns
        /\ s.bytes \in Nat      \* bytes a client sends
        /\ s.chunks \in Nat     \* chunks of 1024 bytes in an outgoing message; 0: none is sent

VARIABLES
    setup,       \* the server and its clients
    pc,          \* pc[t]: where thread t is
    client,      \* the connection the TCP accept handler is busy with
    active,      \* _connect_session, active_stream
    connMutex,   \* connection_mutex of the WebSocket server
    open,        \* open[c]: the socket of c is open
    quit,        \* quit[c]: the stream of c was interrupted
    arrived,     \* arrived[c]: bytes put into on_request
    taken,       \* taken[c]: bytes the reader took from it
    reading,     \* reading[c]: no read of c has failed yet
    lifecycle,   \* who holds the endpoint's lifecycle_mutex
    working,     \* the endpoint's working
    bound,       \* the connection whose streams the endpoint was started with
    keepRunning, \* the producer's keepRunning
    reader,      \* where the endpoint's reader thread is
    live,        \* live[c]: the session output of c is active
    left,        \* left[w]: chunks writer w still has to post, 0 when it holds no mutex
    posted,      \* posted[c]: chunks posted to the strand of c
    writeQueue,  \* write_queue_ of c
    writing,     \* writing[c]: chunks given to async_write
    wire,        \* wire[c]: chunks the client received
    raced        \* history: a callback or stop() ran beside another callback's start

queueVars == <<arrived, taken, reading>>
outVars == <<left, posted, writeQueue, writing, wire>>
epVars == <<lifecycle, working, bound, keepRunning>>
serverVars == <<setup, client, active, connMutex, open, raced>>
vars == <<setup, pc, client, active, connMutex, open, quit, queueVars, lifecycle, working,
          bound, keepRunning, reader, live, left, posted, writeQueue, writing, wire, raced>>

Tcp == setup.kind = "tcp"

Init ==
    /\ setup \in Setups
    /\ pc = [t \in Threads |-> IF t \in Conns THEN "unconnected" ELSE "run"]
    /\ client = NoConn /\ active = NoConn /\ connMutex = Free
    /\ open = [c \in Conns |-> TRUE]
    /\ quit = [c \in Conns |-> FALSE]
    /\ arrived = [c \in Conns |-> 0] /\ taken = [c \in Conns |-> 0]
    /\ reading = [c \in Conns |-> TRUE]
    /\ lifecycle = Free /\ working = FALSE /\ bound = NoConn /\ keepRunning = FALSE
    /\ reader = "gone"
    /\ live = [c \in Conns |-> FALSE]
    /\ left = [w \in Writers |-> 0]
    /\ posted = [c \in Conns |-> <<>>]
    /\ writeQueue = [c \in Conns |-> <<>>]
    /\ writing = [c \in Conns |-> <<>>]
    /\ wire = [c \in Conns |-> <<>>]
    /\ raced = FALSE

-----------------------------------------------------------------------------
(* The stream between a connection and the reader.                          *)

\* bad(): both wrappers; only the TCP one looks at the socket.
Bad(c) == quit[c] \/ (Tcp /\ ~open[c])

IsEmpty(c) == arrived[c] = taken[c]

\* interrupt(): quit is set and the waiter notified without the queue's mutex, so that
\* a reader that has looked at quit and not yet gone to sleep hears nothing.
Interrupted(c) ==
    /\ quit' = [quit EXCEPT ![c] = TRUE]
    /\ reader' = IF bound = c /\ reader = "asleep" THEN "get" ELSE reader

\* Fault: An EnqueueAll that does not lock the mutex.
NoQueueMutex(c) == TRUE

\* The reader holds the queue's mutex between its look at quit and its sleep.
QueueMutexFree(c) == ~(bound = c /\ reader \in {"checked", "drowsy"})

\* EnqueueAll: under the mutex, then notify_all.
EnqueueAll(c) ==
    /\ QueueMutexFree(c)
    /\ arrived[c] < setup.bytes
    /\ arrived' = [arrived EXCEPT ![c] = @ + 1]
    /\ reader' = IF bound = c /\ reader = "asleep" THEN "get" ELSE reader
    /\ UNCHANGED <<taken, reading, quit, pc, live>>
    /\ UNCHANGED <<serverVars, epVars, outVars>>

\* The data branch of do_read's handler and of the WebSocket message callback.
Receive(c) ==
    /\ IF Tcp THEN pc[Io] = "run" /\ c = active /\ open[c] /\ reading[c] ELSE pc[c] = "loop"
    /\ EnqueueAll(c)

\* Their error and close branches.  A read fails when the client is gone, and also when
\* this side has closed the socket; its handler then interrupts the stream once more.
Disconnect(c) ==
    /\ IF Tcp THEN pc[Io] = "run" /\ c <= client /\ reading[c] ELSE pc[c] = "loop"
    /\ reading' = [reading EXCEPT ![c] = FALSE]
    /\ Interrupted(c)
    /\ pc' = IF Tcp THEN pc ELSE [pc EXCEPT ![c] = "closed"]
    /\ UNCHANGED <<arrived, taken, serverVars, epVars, outVars, live>>

\* The handler of a read that closing the socket has aborted.
ReadAborted == \E c \in Conns : ~open[c] /\ Disconnect(c)

-----------------------------------------------------------------------------
(* The reader: LSPStreamMessageProducer::listen over the wrapper's          *)
(* read_some, read and get.                                                 *)

ReaderAt(from, to) ==
    /\ reader = from
    /\ reader' = to
    /\ UNCHANGED <<pc, quit, serverVars, epVars, outVars, live>>

\* The top of the loop, and the checks after a read.
ReaderLooks ==
    /\ reader = "state"
    /\ ReaderAt("state", IF keepRunning /\ ~Bad(bound) THEN "read" ELSE "gone")
    /\ UNCHANGED queueVars

\* TryDequeueSome takes what is there, whatever quit says; read() goes on to get() for
\* the bytes it still misses.
TryDequeueSome ==
    /\ reader = "read" /\ ~IsEmpty(bound)
    /\ \E n \in 1 .. arrived[bound] - taken[bound], next \in {"state", "get"} :
        /\ taken' = [taken EXCEPT ![bound] = @ + n]
        /\ ReaderAt("read", next)
    /\ UNCHANGED <<arrived, reading>>

NothingToDequeue ==
    /\ reader = "read" /\ IsEmpty(bound)
    /\ ReaderAt("read", "get")
    /\ UNCHANGED queueVars

\* MultiQueueWaiter::Wait, first half: the look at quit.  Leaving it with quit set makes
\* get() return EOF, which ends the loop.
WaitLooksAtQuit ==
    /\ ReaderAt("get", IF quit[bound] THEN "gone" ELSE "checked")
    /\ UNCHANGED queueVars

\* HasState, still under the mutex.
WaitLooksAtQueue ==
    /\ ReaderAt("checked", IF IsEmpty(bound) THEN "drowsy" ELSE "take")
    /\ UNCHANGED queueVars

\* cv.wait gives the mutex back.
WaitSleeps ==
    /\ ReaderAt("drowsy", "asleep")
    /\ UNCHANGED queueVars

\* TryDequeue, and read_some's TryDequeueSome after it.
TryDequeue ==
    /\ reader = "take"
    /\ \E n \in 1 .. arrived[bound] - taken[bound], next \in {"state", "get"} :
        /\ taken' = [taken EXCEPT ![bound] = @ + n]
        /\ ReaderAt("take", next)
    /\ UNCHANGED <<arrived, reading>>

ReaderSteps ==
    \/ ReaderLooks \/ TryDequeueSome \/ NothingToDequeue
    \/ WaitLooksAtQuit \/ WaitLooksAtQueue \/ WaitSleeps \/ TryDequeue

-----------------------------------------------------------------------------
(* RemoteEndPoint::stop and startProcessingMessages, called by thread t.    *)

\* stop() with nothing to stop.
StopIdle(t, next) ==
    /\ pc[t] = "stopping"
    /\ lifecycle = Free /\ ~working
    /\ pc' = [pc EXCEPT ![t] = next]
    /\ UNCHANGED <<quit, queueVars, epVars, outVars, reader, live>>

\* Fault: clear() without input->interrupt().
StopBeginSilently(t) ==
    /\ pc[t] = "stopping"
    /\ lifecycle = Free /\ working
    /\ lifecycle' = t
    /\ keepRunning' = FALSE
    /\ live' = [live EXCEPT ![bound] = FALSE]
    /\ pc' = [pc EXCEPT ![t] = "joining"]
    /\ UNCHANGED <<working, bound, quit, reader, queueVars, outVars, serverVars>>

\* clear(): keepRunning, the interruption of the input, the end of the session's output.
StopBegin(t) ==
    /\ pc[t] = "stopping"
    /\ lifecycle = Free /\ working
    /\ lifecycle' = t
    /\ keepRunning' = FALSE
    /\ Interrupted(bound)
    /\ live' = [live EXCEPT ![bound] = FALSE]
    /\ pc' = [pc EXCEPT ![t] = "joining"]
    /\ UNCHANGED <<working, bound, queueVars, outVars, serverVars>>

\* The lock of send_mutex in clear() waits for a writer; then the reader is joined.
StopJoin(t, next) ==
    /\ pc[t] = "joining"
    /\ \A w \in Writers : left[w] = 0
    /\ reader = "gone"
    /\ lifecycle' = Free /\ working' = FALSE
    /\ pc' = [pc EXCEPT ![t] = next]
    /\ UNCHANGED <<bound, keepRunning, quit, queueVars, outVars, reader, live>>

\* An endpoint that is already working only logs a warning.
StartProcessing(t, c, next) ==
    /\ pc[t] = "starting"
    /\ lifecycle = Free
    /\ IF working
       THEN UNCHANGED <<working, bound, keepRunning, reader, live>>
       ELSE /\ working' = TRUE
            /\ bound' = c
            /\ keepRunning' = TRUE
            /\ reader' = "state"
            /\ live' = [live EXCEPT ![c] = TRUE]
    /\ pc' = [pc EXCEPT ![t] = next]
    /\ UNCHANGED <<lifecycle, quit, queueVars, outVars, serverVars>>

-----------------------------------------------------------------------------
(* TcpServer.                                                               *)

\* The accept handler up to point.stop(); a closed acceptor makes it return.
Accept ==
    /\ Tcp /\ pc[Io] = "run" /\ pc[App] = "run"
    /\ client < setup.conns
    /\ client' = client + 1
    /\ IF active # NoConn /\ open[active]
       THEN Interrupted(active) /\ open' = [open EXCEPT ![active] = FALSE]
       ELSE UNCHANGED <<quit, reader, open>>
    /\ IF active # NoConn
       THEN pc' = [pc EXCEPT ![Io] = "stopping"] /\ UNCHANGED active
       ELSE pc' = [pc EXCEPT ![Io] = "starting"] /\ active' = client'
    /\ UNCHANGED <<setup, connMutex, raced, queueVars, epVars, outVars, live>>

\* Fault: startProcessingMessages takes over a working endpoint's streams without stopping it.
AcceptWithoutStop ==
    /\ StopIdle(Io, "starting") \/ (pc[Io] = "stopping" /\ working
         /\ pc' = [pc EXCEPT ![Io] = "starting"]
         /\ UNCHANGED <<quit, queueVars, epVars, outVars, reader, live>>)
    /\ active' = client
    /\ UNCHANGED <<setup, client, connMutex, open, raced>>

\* point.stop() inside it has returned: the new session replaces the old one.
AcceptStopped ==
    /\ StopIdle(Io, "starting") \/ StopJoin(Io, "starting")
    /\ active' = client
    /\ UNCHANGED <<setup, client, connMutex, open, raced>>

AcceptStarts == Tcp /\ StartProcessing(Io, client, "run")

\* TcpServer::stop up to point.stop(), on the application's thread.
TcpStop ==
    /\ Tcp /\ pc[App] = "run"
    /\ pc' = [pc EXCEPT ![App] = "stopping"]
    /\ IF active # NoConn
       THEN Interrupted(active) /\ open' = [open EXCEPT ![active] = FALSE]
       ELSE UNCHANGED <<quit, reader, open>>
    /\ raced' = (raced \/ pc[Io] # "run")
    /\ UNCHANGED <<setup, client, active, connMutex, queueVars, epVars, outVars, live>>

-----------------------------------------------------------------------------
(* WebSocketServer.                                                         *)

\* The connection callback up to point.stop(); it holds connection_mutex.
Connect(c) ==
    /\ ~Tcp /\ c <= setup.conns
    /\ pc[c] = "unconnected" /\ pc[App] = "run"
    /\ connMutex = Free
    /\ raced' = (raced \/ \E d \in Conns : pc[d] = "starting")
    /\ IF active # NoConn
       THEN /\ Interrupted(active)
            /\ connMutex' = c
            /\ pc' = [pc EXCEPT ![c] = "stopping"]
            /\ UNCHANGED active
       ELSE /\ active' = c
            /\ pc' = [pc EXCEPT ![c] = "starting"]
            /\ UNCHANGED <<connMutex, quit, reader>>
    /\ UNCHANGED <<setup, client, open, queueVars, epVars, outVars, live>>

ConnectStopped(c) ==
    /\ StopIdle(c, "starting") \/ StopJoin(c, "starting")
    /\ active' = c
    /\ connMutex' = Free
    /\ UNCHANGED <<setup, client, open, raced>>

\* startProcessingMessages is called after connection_mutex was released.
ConnectStarts(c) == ~Tcp /\ StartProcessing(c, c, "loop")

\* server.stop() refuses new clients, closes the connections and joins their threads.
WebSocketStop ==
    /\ ~Tcp /\ pc[App] = "run"
    /\ pc' = [pc EXCEPT ![App] = "closing"]
    /\ UNCHANGED <<quit, reader, queueVars, serverVars, epVars, outVars, live>>

WebSocketClosed ==
    /\ pc[App] = "closing"
    /\ \A c \in Conns : pc[c] \in {"unconnected", "loop", "closed"}
    /\ connMutex = Free
    /\ pc' = [t \in Threads |-> IF t = App THEN "stopping"
                                ELSE IF pc[t] = "loop" THEN "closed" ELSE pc[t]]
    /\ IF active # NoConn THEN Interrupted(active) ELSE UNCHANGED <<quit, reader>>
    /\ active' = NoConn
    /\ UNCHANGED <<setup, client, connMutex, open, raced, queueVars, epVars, outVars, live>>

\* point.stop() at the end of either stop(); the server is not run again.
ServerStopped ==
    /\ StopIdle(App, "stopped") \/ StopJoin(App, "stopped")
    /\ UNCHANGED serverVars

-----------------------------------------------------------------------------
(* Output of a TCP session: sendSessionMessage, write, do_write.            *)

SentOn(c) == {posted[c][i] : i \in DOMAIN posted[c]} \cup {writeQueue[c][i] : i \in DOMAIN writeQueue[c]}
             \cup {wire[c][i] : i \in DOMAIN wire[c]}

\* Fault: writers do not share send_mutex.
WriteBeginUnlocked(w) ==
    /\ Tcp /\ setup.chunks > 0 /\ bound # NoConn /\ live[bound] /\ ~Bad(bound)
    /\ left[w] = 0 /\ <<w, 1>> \notin SentOn(bound)
    /\ left' = [left EXCEPT ![w] = setup.chunks]
    /\ UNCHANGED <<posted, writeQueue, writing, wire, pc, quit, reader, live>>
    /\ UNCHANGED <<queueVars, serverVars, epVars>>

\* A writer takes send_mutex, looks at the session and the stream, and posts the message
\* to the strand, 1024 bytes at a time.  Bound: each writer sends one message per client.
WriteBegin(w) ==
    /\ Tcp /\ setup.chunks > 0 /\ bound # NoConn /\ live[bound] /\ ~Bad(bound)
    /\ \A v \in Writers : left[v] = 0
    /\ <<w, 1>> \notin SentOn(bound)
    /\ left' = [left EXCEPT ![w] = setup.chunks]
    /\ UNCHANGED <<posted, writeQueue, writing, wire, pc, quit, reader, live>>
    /\ UNCHANGED <<queueVars, serverVars, epVars>>

WriteChunk(w) ==
    /\ left[w] > 0
    /\ posted' = [posted EXCEPT ![bound] = Append(@, <<w, setup.chunks - left[w] + 1>>)]
    /\ left' = [left EXCEPT ![w] = @ - 1]
    /\ UNCHANGED <<writeQueue, writing, wire, pc, quit, reader, live>>
    /\ UNCHANGED <<queueVars, serverVars, epVars>>

\* do_write's handler on the strand: only an empty queue starts a write.
StrandPush(c) ==
    /\ pc[Io] = "run" /\ posted[c] # <<>>
    /\ posted' = [posted EXCEPT ![c] = Tail(@)]
    /\ writeQueue' = [writeQueue EXCEPT ![c] = Append(@, Head(posted[c]))]
    /\ writing' = IF writeQueue[c] = <<>>
                  THEN [writing EXCEPT ![c] = Append(@, Head(posted[c]))]
                  ELSE writing
    /\ UNCHANGED <<left, wire, pc, quit, reader, live>>
    /\ UNCHANGED <<queueVars, serverVars, epVars>>

\* async_write has written the front; its handler starts the next one.
WriteDone(c) ==
    /\ pc[Io] = "run" /\ writing[c] # <<>> /\ open[c]
    /\ wire' = [wire EXCEPT ![c] = Append(@, Head(writing[c]))]
    /\ writeQueue' = [writeQueue EXCEPT ![c] = Tail(@)]
    /\ writing' = [writing EXCEPT ![c] =
                     Tail(@) \o SubSeq(writeQueue[c], 2, IF Len(writeQueue[c]) > 1 THEN 2 ELSE 1)]
    /\ UNCHANGED <<left, posted, pc, quit, reader, live>>
    /\ UNCHANGED <<queueVars, serverVars, epVars>>

\* A failed write keeps its entry, so that nothing is written after it.
WriteFails(c) ==
    /\ pc[Io] = "run" /\ writing[c] # <<>>
    /\ writing' = [writing EXCEPT ![c] = Tail(@)]
    /\ Interrupted(c)
    /\ UNCHANGED <<left, posted, writeQueue, wire, pc, live>>
    /\ UNCHANGED <<queueVars, serverVars, epVars>>

OutputSteps ==
    \/ \E w \in Writers : WriteChunk(w)
    \/ \E c \in Conns : StrandPush(c) \/ WriteDone(c)

-----------------------------------------------------------------------------
ServerSteps ==
    \/ StopBegin(Io) \/ AcceptStopped \/ AcceptStarts
    \/ \E c \in Conns : StopBegin(c) \/ ConnectStopped(c) \/ ConnectStarts(c)

StopSteps == WebSocketClosed \/ StopBegin(App) \/ ServerStopped

Environment ==
    \/ Accept \/ TcpStop \/ WebSocketStop
    \/ \E c \in Conns : Connect(c) \/ Receive(c) \/ Disconnect(c) \/ WriteFails(c)
    \/ \E w \in Writers : WriteBegin(w)

Next == ReaderSteps \/ ServerSteps \/ StopSteps \/ OutputSteps \/ Environment

\* Threads that can run do, and an aborted read calls its handler; clients, writers'
\* decisions to send and calls of stop() are the environment's.
Fairness ==
    /\ WF_vars(ReaderSteps)
    /\ WF_vars(ServerSteps)
    /\ WF_vars(StopSteps)
    /\ WF_vars(OutputSteps)
    /\ WF_vars(ReadAborted)

Spec == Init /\ [][Next]_vars /\ Fairness

-----------------------------------------------------------------------------
(* Properties.                                                              *)

\* No callback and no stop() is under way.
AtRest ==
    /\ pc[Io] = "run"
    /\ pc[App] \in {"run", "stopped"}
    /\ \A c \in Conns : pc[c] \in {"unconnected", "loop", "closed"}

\* The endpoint serves the newest client and, after stop(), nobody, once the callbacks of
\* do_accept (TcpServer.cpp:335), of the connection (WebSocketServer.cpp:45) and stop()
\* have returned - unless one of them ran between another's replacement of the session and
\* its startProcessingMessages.
ServesNewest ==
    AtRest /\ ~raced =>
        /\ pc[App] = "stopped" => ~working
        /\ working => bound = active

\* The reader sleeps through its interruption.
SleepsThroughInterrupt == reader = "asleep" /\ quit[bound]

\* stop() of either server returns, and so does every callback that stops the endpoint,
\* unless interrupt() fell between the reader's look at quit and its cv.wait
\* (threaded_queue.h:84-90).
StopReturns ==
    \A t \in Threads :
        pc[t] \in {"closing", "stopping", "joining"}
            ~> (pc[t] \notin {"closing", "stopping", "joining"} \/ SleepsThroughInterrupt)

\* Bytes in the queue of a served connection are read: EnqueueAll's notification is not
\* lost (threaded_queue.h:157), as long as the stream is not interrupted.
BytesReachReader ==
    \A c \in Conns :
        (bound = c /\ reader # "gone" /\ ~IsEmpty(c))
            ~> (IsEmpty(c) \/ Bad(c) \/ bound # c)

\* A client receives messages whole: the chunks tcp_stream_wrapper::write splits a
\* message into (TcpServer.cpp:209) follow one another, none is repeated.
OutputWhole ==
    \A c \in Conns : \A i \in DOMAIN wire[c] :
        wire[c][i][2] > 1 =>
            i > 1 /\ wire[c][i - 1] = <<wire[c][i][1], wire[c][i][2] - 1>>

\* What TestTcpStopWithActiveConnectionReturns expects: stop() returns.
StopAlwaysReturns == pc[App] \in {"closing", "stopping", "joining"} ~> pc[App] = "stopped"
=============================================================================
