# A TLA+ model of LspCpp

LspCpp is a C++ library for language servers and clients: a JSON-RPC endpoint
over streams, the LSP types, and helpers for documents, paths and processes. The
part that is hard to get right is `RemoteEndPoint`
(`src/src/jsonrpc/RemoteEndPoint.cpp`, `include/LibLsp/JsonRpc/RemoteEndPoint.h`):
it reads frames on one thread, parses them on a pool, restores their order, runs
handlers on further threads, matches responses and cancels to requests, and can
be stopped and started again from almost any of those threads. This directory
models it together with what stands below it (framing, TCP and WebSocket servers,
child processes) and above it (method tables, JSON, documents, paths), checks the
models with TLC and proves the central facts with TLAPS.

All paths below are relative to the repository; line numbers without a file are
those of `src/jsonrpc/RemoteEndPoint.cpp`.

## Inventory

### How a message travels

```
 input --> reader thread --> parse pool --> reorder buffer --> router
           (numbers frames)  (parses,       (by number)        (whoever closes a gap,
                              captures                          under route_dispatch_mutex)
                              pending entry)                      |
        +-------------------+--------------------+----------------+-------------+
        |                   |                    |                |             |
  notification queue   request: parked      $/cancelRequest   response     concurrent
  -> one thread        until the gate       -> registry       -> pending   notification
                       opens, then pool                          table     -> pool
```

| Part | State | Operations | Talks to |
| --- | --- | --- | --- |
| Inbound routing (216-239, 426-550, 1092-1131, 1512-1553) | `next_message_sequence`, `next_route_sequence`, `reorder_buffer`, `parse_queue_size`, `parse_pool`, `route_dispatch_mutex` | `postParseTask`, `acquireParseQueueSlot`, `submitParsedMessage`, `routeParsedIncoming` | reader above, the four parts below |
| Lifecycle (1038-1085, 1750-1816) | `working`, `quit`, `lifecycle_mutex`, `message_producer_thread_` | `startProcessingMessages`, `stop`, `clear` | locks and joins every other part |
| Ordered dispatcher (568-598, 643-852) | `notification_queue`, `parked_requests`, `last_ordered_notification_seq`, `completed_notification_seq`, `notification_stop`, the notification thread | `enqueueNotification`, `enqueueRequest`, `notificationLoop`, `postToWorker` | handler pool, handlers |
| Cancellation registry (102-163, 241-359) | `requestCancelers`, `pendingCancelRequests`, `seenRequestIds`, `retainedRequestCancelers`, two order deques | `onCancel`, `cancelableRequestContext`, `retainRequestCancellation`, pruning | handlers, async completions |
| Outgoing requests (52-91, 600-641, 854-941, 1579-1673) | `_client_request_futures`, `m_id`, `m_sendMutex`, session output | `send`, `waitResponse`, `completePendingResponse`, `failPendingRequests` | router, application threads |
| Async completions (942-1037) | `async_completions`, stop flag, one thread | post, poll, stop | handlers' futures, registry |
| Framing (`StreamMessageProducer.cpp`) | `keepRunning`, stream position | `listen` | stream, routing |
| Transports (`TcpServer.cpp`, `WebSocketServer.cpp`, `stream.h`) | sockets, proxied byte queues | accept, read, write, `interrupt` | framing |
| Queues and futures (`threaded_queue.h`, `Condition.h`, `future.h`) | deques, condition variables | enqueue, dequeue, wait | everyone |
| Documents (`working_files.cpp`, `textDocument.cpp`, `utils.cpp`) | open buffers with versions | open, change, close, apply edits | handlers |
| Caches, paths, processes (`lru_cache.h`, `uri.cpp`, `path_mapping.cpp`, `Process.cpp`, `ParentProcessWatcher.cpp`) | small tables, child processes | lookups, conversions, spawn, watch | applications |
| Types, serialization, markup (`lsp.cpp`, `ProtocolJsonHandler.cpp`, `serializer.cpp`, `Markup.cpp`) | method tables | conversions, registration of parsers | everyone |

### What is hard about it

* Six kinds of thread (application, reader, parse workers, notification thread,
  handler workers, completion thread), most of which may call `stop()`.
* Order is lost by the parse pool and must be restored, also when frames are
  dropped and when the session is restarted with numbers that keep counting.
* `stop()` holds `lifecycle_mutex` while it locks `route_dispatch_mutex` and joins
  threads that may themselves want one of the two.
* Ids are reused: by the peer for its requests, and by the application for its own,
  while the cleanup of the earlier use may still be to come.
* Every queue has an optional limit, and what happens at the limit is either the
  loss of one message or a `stop()` from the middle of the pipeline.

`PROJECT.json` lists the hazards one by one, each at its line.

### What makes each part correct

* routing: frames reach the router once, in wire order and without gaps; limits
  hold; nothing of a stopped session survives; frames pass; start and stop return.
* dispatcher: a request runs after the notifications before it; notifications run
  one at a time; parked requests are released.
* registry: a cancel hits the request it was sent for and no other; the tables
  stay within their limits.
* outgoing requests: every call gets exactly one outcome, from its own response
  or from `stop()`.
* exchange: a request is answered once, and to the session that asked; nothing
  that another handler does keeps it from being answered.
* framing: the bodies the peer wrote come out whole, wherever the stream is cut.
* transports: the newest client is served, `stop()` returns, bytes wake the reader,
  messages are not mixed on the socket.
* processes: nothing opened or forked is left behind; operations return.
* documents, paths, values: the server's copy is the editor's text; a path survives
  the URI; a member arrives with the value it was given.

## Modules

Each component module has a frozen variable `setup`, chosen in `Init` from the
constant `Setups`. It holds what an endpoint is built with (its
`RemoteEndPointLimits`) and what its environment will do. One run therefore covers
several configurations, and a theorem covers all of them. `MC*` modules define the
sets of setups TLC uses.

### MessageRouting

One action per critical section of the pipeline. The reader (`Listen` to
`PostParseTask`) follows `LSPStreamMessageProducer::listen` with its two looks at
`keepRunning`; a frame gets its number when its body is complete. `TakeTask`
to `ReleaseSlot` are a parse worker. `Submit` is `submitParsedMessage` up to the
routing loop: it stores the message, finds the first missing number and moves the
frames below it from `buffer` to `ready`; the thread then owns
`route_dispatch_mutex` (`dispatch`) until `RouteDone`. Parsing itself has no effect
here and is part of `TakeTask`. `StartBegin .. StartReader` and `StopBegin ..
StopJoin` are `startProcessingMessages()` and `stop()`, split where another thread
can observe the difference: each lock that is taken, each join. A thread whose
overload handler calls `stop()` is at `"overload"` or `"oversize"` until it returns.

Histories: `routed` (what `routeParsedIncoming` passed on, with the reading session
and the session whose output it was given) and `fresh`, which tells the frames
routed before `resetMessageRouting` from those after it.

### OrderedDispatcher

Starts where MessageRouting ends: messages come one at a time, numbered in wire
order, as ordinary notifications, requests or concurrent notifications. The
notification thread of session *s* is called *s*, so that a detached one and its
successor are both there. `Complete` is the critical section at the end of
`notificationLoop` (overwriting `completed_notification_seq` and releasing parked
requests), `Post` the posting outside it, one request at a time. `parked` is a set:
`parked_requests` is always in the order of the sequence numbers it holds. Handlers may call `stop()`, and a
notification handler that has done so may start the endpoint again.

### CancellationRegistry

Requests and cancels in the order in which they are routed; a message is named
by its number, and the cookie of a registration is the number of the request. A
handler is `Enter` (the look at `quit`), `cancelableRequestContext`, and then either
`Answer`, `LeaveContext` or `Retain`, `LeaveAsyncContext`, `AnswerAsync`, `Release`
for an asynchronous one. Pruning is given by the number of entries its loop takes
from the front of the order. How soon the peer reuses an id, and whether there are
handlers that return a future, is part of the setup.

`stop()` leaves the old pool's tasks to `Dropped` or, once `Start` has cleared `quit`
(1763), to a worker that looks at it only then and still enters its handler.
`StartPools` is the join of the old pools (1773-1774): of the old requests only those
whose future is with the completion loop are left, and then messages come in again.

### PendingRequests

One session of outgoing requests. `SendBegin`, `PendingRequest` and `WriteRequest` are the
send path under `m_sendMutex`. The peer answers any number of times up to a bound.
`ParseReply` captures the entry pending under the id, `RouteReply` checks that
it is still the one, `Deliver` completes it or posts its callback. The steps of
`clear()` that matter here are separate actions, because `send()` runs between them.

### WireQueue

The promise of the inbound pipeline without its threads: a queue that hands on the
frames of the wire in the order they were read, skips none while it is open (unless
the policy is to drop), hands on nothing when closed, and forgets what was read
before it is opened again. `MessageRouting` instantiates it as `Queue`: `passed`
is the first frame that is ready but not routed, or `nextRoute`; the phase is read
off `quit` and `fresh`. A frame counts as handed on when `routeParsedIncoming` has
it, not when it leaves the buffer. `ImplementsWireQueue` is the refinement.

### MessageExchange, with ProtocolMethods

From a parsed frame to its answer. `parseAndClassify` decides by the members of the
JSON and by the method tables of `ProtocolJsonHandler` (the sets of
`ProtocolMethods`, method by method, for each option) whether a frame is a request, a
response, a notification, an error to be answered at once, or nothing.
`routeParsedIncoming` hands it on with the output state of that moment; `mainLoop`
and the registered handlers run it; an asynchronous handler's future goes to the
completion loop (`LoopTakes`, `LoopCompletes`, `LoopRequeues`, `LoopExits`). The steps
of start and stop are split where an old worker, handler or the loop can come in
between. Calls of this endpoint are there for the parser of their reply:
`ensureResponseJsonHandler` registers one only before the start.

Submission in wire order and the gates before a request are taken from
MessageRouting and OrderedDispatcher and not repeated.

### Framing

`LSPStreamMessageProducer::listen` over bytes that arrive in arbitrary chunks and end
anywhere: `readMore`, `InputEnds` and `TakeFrame` (header block, both delimiters,
missing or unreadable lengths, oversized frames under either answer of the overload
handler). A peer writes blocks, each a head and a body: `WellFormed` says that the first
delimiter in a head is its end and that its last readable length is the size of the body
(or that there is no length and no body, for a block that is not a message). A body may
hold anything, what looks like a header included.

`DelimitedStreamMessageProducer::listen` is the function `getMessages` of its bytes:
`TakeBytes` gives what the producer holds after each byte. A script is a sequence of
messages, each given by its lines: `WellLaid` says that the text of the lines without the
comments is the message and that the last line, and no other, is the delimiter. White
space and carriage returns around the text of a line, comments and empty lines are free.
`FramingAssumption` requires this of the constants `Wires` and `Scripts`.

### Connections

Both servers with one endpoint, its reader, the queue of proxied bytes and the
chunked output. `MultiQueueWaiter::Wait` is three actions (look at `quit`, look at
the queue, sleep); adding to the queue and looking at it exclude each other through
the queue's mutex, `interrupt()` takes no mutex. `lifecycle_mutex` and the join of
the reader are `StopBegin`, `StopJoin`. A TCP callback runs on the io thread, a
WebSocket callback on its connection's thread, `stop()` on the application's.
`reading` says that a TCP connection has an outstanding read: `do_stop` closes the
socket, and the handler of the aborted read interrupts the stream once more
(`ReadAborted`).
The history `raced` marks that a callback or `stop()` ran between another callback's
replacement of the session and its `startProcessingMessages`.

### Processes

`lsp::Process` on both platforms. Descriptors are triples of holder, process and
end; a child inherits what this program holds at its fork. The POSIX constructor is
one action per system call that can fail (`OpenPipe`, `Fork`, `Exec`, `Confirm`), since
another thread's constructor runs in between; `CreateProcess` is the other platform.
`wait`, `terminate`, the destructor and the move assignment block until the child
is gone. The input stream polls, is interrupted and may be closed under the reader;
a write may block.

### ParentWatcher

The detached check, the handling of its result on the io service, the timer, the
callback three seconds later, and destruction at any moment.

### WorkingFiles

An editor that changes its text and sends ranges in UTF-16 units, and the server's
copies. It may send `didOpen` for a document that is open. One action per operation of `WorkingFiles`; all of them hold the one mutex.
A change carries one or several ranges, applied in turn, with the line table rebuilt
after each. Characters are one, two or four bytes wide, and the conversions work on
bytes. A loop of the code (`GetOffsetForPosition`, `GetPositionForOffset`,
`BuildLineOffsets`, the ranges of a change) is a function from the number of its rounds to
the values of its variables: `Rounds`, `LineRounds`, `Positions`, `LineStarts`,
`Changes`. `Cursor` is where the editor sees its cursor, counted in characters and UTF-16
units without looking at bytes.

### Uris

The conversions between paths, file URIs, test URIs, URI components and mapped paths
as operators over sequences of characters, for POSIX. The file system's answers
(`stat`, symbolic links) are left out. The loops are again functions of the number of
rounds or characters: `Encodings`, `Decodings`, `Scans`.

`UriAssumption` states what the round trip needs of paths and mapping, none of which the
code checks. A backslash in a path is taken for a separator. Mapped directories are
absolute, neither the root nor a share. Where the client's directory ends in a slash, so
does the server's: with client `/c/` and server `/s`, `/c/x` becomes `/sx`, which
belongs to no entry. And no server directory lies in another, as the first entry that
changes a path is taken and the way back would find the wrong one.

### Codec, with ProtocolTypes

`ProtocolTypes` lists the members and their types of every structure a reflection
macro covers, header by header, and separately the members the macro forgets
(`Unreflected`). `Codec` is what a Writer makes of a value and a Reader of the JSON:
scalars with their widths (scaled to a few bits), optionals, vectors, maps,
structures, and the unions whose reader looks for the mark of one alternative.

### Where the modules meet

MessageRouting provides the order that OrderedDispatcher, CancellationRegistry and
MessageExchange assume of their input; `dispatchLimited` of MessageRouting stands
for the full queues of OrderedDispatcher; each models `stop()` with the locks that
concern it. Framing delivers the frames that MessageRouting numbers; Connections and
Processes are the streams under it, and start and stop the endpoint. `MCTransports`
and `MCProtocol` bring the parts below and above the endpoint together in one run each,
the latter with the outgoing calls; a behaviour exercises one of them, the `subject`,
since they share no state.

## What TLC checks

Five passing runs and seven runs that show a disagreement between the code and what
the repository says of it.

| Run | Setups and bounds | Shows |
| --- | --- | --- |
| `MCMessageRouting` | 2 workers; two sessions with 3 frames and no limits; one session with 4 frames, parse queue 3, reorder buffer 1 and oversized frames, under each policy | wire order, no gaps, bounds, quiet after `clear()`, slots cover the backlog, frames pass, start and stop return, refinement of WireQueue |
| `MCOrderedDispatcher` | 2 workers, 4 messages; two sessions with queues of 2 and 1 that drop; one session in which handlers and full queues stop the endpoint | the gate, serial notifications, monotone completion, parked requests released, start and stop return |
| `MCCancellationRegistry` | 2 ids, 4 messages, one stop; peers that reuse ids on the answer (without limits and with limits 1) or late; one that reuses them at once, with limits 1 and no asynchronous handlers | no stale cancel, the last registration wins unless an earlier request retained its canceler, a cancel reaches its request, tables bounded and never out of step with their order |
| `MCTransports` | TCP with 2 clients of 2 bytes and with 3 clients; WebSocket with 2 clients; 2 writers of messages of 2 chunks; 2 processes on POSIX and Windows, one with an endpoint on its streams, or two started concurrently; one watcher | newest client served, `stop()` returns, bytes reach the reader, output whole, descriptors and children released, operations return, streams let go, end of the parent reported once |
| `MCProtocol` | exchange: 2 frames over 2 sessions, 2 odd ones with an output that breaks, 2 calls; outgoing calls: 2 calls, ids 0..1, 2 responses, with chosen ids and callbacks, chosen ids and time-outs, assigned ids and a limit of 1; framing: all pairs of 6 blocks, every cut and limit; documents: texts up to 4 characters, 2 edits; paths up to 5 characters; values: 2 members of each structure set to each sample | answered once, in the session that asked, eventually; replies understood; no call lost, `stop()` completes every future, a captured response completes its call; frames as written; documents and positions; paths come back; members arrive |

Why the bounds are enough to be interesting: two workers and three frames are the
least for a frame to arrive after its successor and for the second worker to close
the gap while the first routes; the fourth frame meets a parse queue of three and
a reorder buffer of one at once. Two sessions give a restart with tasks, readers
or loops of the old one around. Four messages hold a request, a reuse of its
id and a cancel of each. Two calls and two ids are enough for an id to be reused
while a response to its first use is under way. Three clients give a replacement
while another one is under way. Two asynchronous requests put one that is never
ready before or behind one that is. A pair of blocks has a frame whose beginning is
already buffered when its predecessor is taken. Two edits of a text with a line
feed and a character of four bytes meet a stale line table and a wrong count of
units. Five characters hold an escape behind a slash with something after it.

Deadlock is not checked: a stopped endpoint that is not started again, with all
bounds used up, has nothing to do. That threads do not block for ever is what the
liveness properties say.

**Fairness.** Weak fairness of each thread's own steps: the operating system runs
threads that can run, and the mutexes here are held for finitely many steps.
Handlers are assumed to return (their steps are in `LoopSteps` and `WorkerSteps`);
frames, end of input, application calls and overload behind the router are the
environment's and get none. An interrupted stream may still hand out what it has
buffered but runs dry: strong fairness of `ReadInterrupted`, since the reader
comes back to the read each time. In Connections, readers, callbacks that have
begun, `stop()`, the socket's writes and the handlers of aborted reads are fair, clients are not. In Processes a child whose
input ends exits and a killed one dies; other exits are not assumed. In
ParentWatcher a check that is tried again and again succeeds at some time (strong
fairness of `CheckSucceeds`). In MessageExchange parsing, handlers, the loop, a begun
start and stop, and futures other than those of `"never"` handlers are fair. `StopTerminates` speaks of setups in which only
the application calls `stop()`; in the others it fails, see below.

### Disagreements found

* `RoutingOverloadStop`: under `StopProcessing`, a full notification or parked
  queue makes the routing thread call `stop()` while it holds
  `route_dispatch_mutex`; `clearMessageRouting` locks it again (436) and the session
  never stops, against architecture.md:243.
* `DispatcherGateBroken`: when a notification handler stops and restarts the
  endpoint, its own detached thread returns to the queue, next to the new one. The
  later notification may complete first, and a request runs before an earlier
  notification has completed, against architecture.md:238.
* `CancelLost`: a peer that reuses an id on receiving the answer can have its
  cancel consumed by the finished request, whose canceler is removed only after
  the answer is written.
* `CancelerTaken`: "If a client reuses an ID, the last wins and the first cannot be
  canceled" (264). With a first request whose handler returns a future after the second
  has registered, it is the first that retains the second's canceler (327-333) and
  removes it on its own release (342-356), and the second can no longer be cancelled.
  `LastWinsUnlessRetained` is the statement without this case: the peer waits for the
  answer, or no handler returns a future.
* `PendingIdClash`: an assigned id is not compared with the pending ids; it can
  overwrite the entry of a request whose id the application chose.
* `ConnectionStopHangs`: `interrupt()` of a proxied stream stores `quit` and notifies
  without the queue's mutex; between the reader's look at `quit` and its wait the
  notification is lost and `stop()` joins a reader that never wakes. The interrupt of an
  aborted read may come too late to help, or fall into the same gap.
  `StopReturns` is the statement without this gap.
* `AnswerToOtherSession`: an error made up while parsing is written to whatever
  output is current; a parse worker of the old session that routes between 1763 and
  1773 sends it to the new client. `AnswersStayInSession` shows that answers of
  handlers do not have the problem.

Further traces, which contradict no sentence of the documentation and are
recorded with the hazards only: two concurrent `stop()` calls where one joins the
thread that makes the other; a reader that stopped the endpoint itself and reads on
after a restart; slots of abandoned parse tasks that are never given back; a
handler that registers its canceler just after `stop()` has cancelled everyone; a
callback that is neither run nor failed when `stop()` comes between the removal of
its entry and its posting; a WebSocket client that connects between another's
replacement and its start (`raced`); a `wait()` that does not return because a child
started at the same moment has inherited the input of this one.

Modelling also turned up facts that no run states as a property of its own: with the
default options `client/registerCapability`, `client/unregisterCapability`,
`workspace/configuration` and `workspace/workspaceFolders` have a request parser and no
response parser, so `send()` refuses them after the start; the members in
`Unreflected` are declared and never sent (`lsDiagnostic.relatedInformation`,
`lsp_diagnostic.h:143`, among them); the direction `"Children"` is read as `Both`
(`textDocument.cpp:387`); a list of `LocationLink`s without `originSelectionRange` is
read as `Location`s (`lsp.cpp:176`); `GetResourceOperation` looks at the end iterator when
`kind` is missing (`lsp.cpp:243`); a delimited message over the limit loses what it
had so far and goes on in its middle under the dropping policy
(`StreamMessageProducer.cpp:526`); the first `OnOpen` of a document does not store its version.

## What is proved

`MessageRoutingProofs` proves, for every set of workers and every number of
sessions, frames and setups:

| Theorem | Says |
| --- | --- |
| `WireOrder` | `Spec => []RoutedInWireOrder` |
| `FramesContiguous` | `Spec => []NoFrameSkipped` |
| `BufferBounded` | `Spec => []ReorderBufferBounded` |
| `StopQuiets` | `Spec => []QuietAfterClear` |
| `BacklogCovered` | `Spec => []SlotsCoverBacklog` |
| `TypeCorrect` | `Spec => []TypeOK` |
| `Refinement` | `Spec => ImplementsWireQueue` |

They rest on `ThreadAssumption` (thread names are distinct, the pool is finite) and
`BoundAssumption`, both evaluated by TLC in `MCMessageRouting`.

The argument:

* `TypeInv` is `TypeOK` with the type of `slots` weakened to the integers. It is
  inductive by itself; that the counter is no negative number is not, and follows
  from the backlog.
* `RouteOrder`: what is `ready` lies between what has been routed and `nextRoute`,
  only the owner of `route_dispatch_mutex` has anything ready, and
  `nextRoute <= nextSeq`. Without the first part the order of `routed` is not
  inductive, since `ready` is emptied one frame at a time. A restart sets `nextRoute`
  to `nextSeq`, so old frames that are submitted late are too small to be routed
  again.
* `SkipInv` adds what makes the routed frames contiguous: `ready` reaches up to
  `nextRoute` without a gap, and within a period (no restart, no reset of the routing
  state) it begins right after the last routed frame. It needs that no
  placeholder exists under `StopProcessing`, where a reader never submits, and that
  a new period begins with a number no routed frame has (`PeriodsPast`).
* `QuietAfterClear` is inductive together with `RouteOrder`: a submission checks
  `quit` under the mutex that `clearMessageRouting` takes.
* the backlog: a worker that is not idle and a task that waits each own a slot; the
  proof counts with the cardinality theorems of `FiniteSetTheorems`.
* the buffer: a worker adds a message only below the limit or when it closes the gap,
  in which case the message leaves at once.
* the refinement: `LifeInv` ties `quit`, `working` and `fresh` to the stages of start
  and stop, so that the mapped queue opens and closes with them, and `ReadyInv` is the
  part of `SkipInv` that holds across periods. A step of the routing loop then is
  a step of the queue, or passes over a placeholder, which WireQueue allows only under
  `DropNewest`; every other step of the pipeline leaves the queue as it is or is its
  read, start or stop.

`OrderedDispatcherProofs` proves, again for every value of the constants:

| Theorem | Says |
| --- | --- |
| `GateHolds` | `Spec => [](DetachedIsCurrent => GateOrder)` |
| `SerialHolds` | `Spec => [](DetachedIsCurrent => NotificationsSerial)` |
| `CompletedNeverBack` | `Spec /\ []DetachedIsCurrent => CompletedMonotone` |
| `TypeCorrect` | `Spec => []TypeOK` |

`DetachedIsCurrent` says that no session was started after an earlier one's
notification thread had been detached, that is, after a notification handler had
called `stop()` itself. The run `DispatcherGateBroken` shows that the condition is
needed. The assumptions are `DispatcherThreads` (thread names are distinct) and
`DispatcherBounds`, evaluated by TLC in `MCOrderedDispatcher`. The argument:

* `Lifeline` ties the stage of start and stop to the flags: a session that is not
  working has no thread and no running pool, and `notification_stop` without `quit`
  is seen only during a start, when nothing is posted.
* `OneLoop`: under the condition, at most one notification thread is alive, that
  of the current session. `StopJoin` waits for it or detaches it, and a restart
  after a detachment leaves the condition.
* `QueueOrder`: the queue is increasing and lies, after the notification in hand,
  between `completed` and `last`. This is what makes one comparison of
  `completed` with the gate say that every earlier notification is done.
* `GateInv`: requests that have passed (posted, released or running) are older than
  every notification that is still coming, and a parked request's gate covers the
  coming notifications that are older than it. The second part is needed for
  the step that completes a notification and releases requests.

`CompletedNeverBack` follows from `QueueOrder`, as the notification in hand comes after
what is completed. It is a property of steps, so the condition is required throughout
the behaviour.

`CancellationRegistryProofs`, from `RegistryAssumption`, for any ids, limits and number
of messages and stops:

| Theorem | Says |
| --- | --- |
| `OrderCovers` | `Spec => []OrderCoversTable` |
| `Bounded` | `Spec => []TablesBounded` |
| `NewestKept` | `Spec => NewestCancelKept` |
| `LastRegisteredWins` | `Spec => []LastWinsUnlessRetained` |
| `NeverStale` | `Spec => []NoStaleCancel` |
| `CancelsReach` | `Spec => []CancelReachesLateReuse` |

`PeerWaits` says that the peer does not use an id again before it has the answer to
the earlier request, as a peer must that tells its answers apart by their ids. It is a
condition inside `NoStaleCancel`; `LastWinsUnlessRetained` asks for it only where a handler
may return a future, and the run `CancelerTaken` shows that it does so rightly.
`CancelReachesLateReuse` has its own, stronger condition, which the run `CancelLost`
shows to be needed. The argument:

* `BaseInv` (types, numbers of the received messages, the tables and their orders) is
  inductive for every peer. Pruning leaves a suffix of the order, and only entries that
  the suffix still names stay in the table.
* `OneAtATime`: of the requests with one id only the last may lack its answer. This is where
  `PeerWaits` enters; the next three parts follow from it.
* `CancelerInv` and `RetainInv`: a canceler belongs to a request that has not left its
  context, and a request that went on asynchronously holds exactly one reference to its
  own canceler. Without the second part the release of an earlier use could take away
  the canceler of a later one.
* `NewestInv` is `LastWins` with its converse, that a running request of the session is
  the newest.
* `SyncInv` takes the place of these where no handler returns a future: nothing is
  retained, so a request removes no canceler but its own, whatever the peer does.
* `SessionInv`: every request of the session whose canceler was registered is in `seen`;
  so a cancel that waits can only be meant for a first use. Of the requests of an earlier
  session only futures are open once the next one runs.
* `CancelWaits`: a cancel that came after a request either still waits for it, with a
  number above the request's, or has been applied. A request that runs has taken it.

`PendingRequestsProofs`, from `PendingAssumption`, for any number of calls, ids and
responses and any limit:

| Theorem | Says |
| --- | --- |
| `CallsKept` | `PendingSpec => [](OneKindOfIds => NoCallLost)` |
| `FuturesFail` | `PendingSpec => [](OneKindOfIds => StopFailsFutures)` |

`OneKindOfIds`: the application leaves every id to the endpoint, or none. The run
`PendingIdClash` shows what happens otherwise: an entry of the table is overwritten. The
argument:

* `StopInv` and `MutexInv`: once `stop()` has held `m_sendMutex` no send is in
  progress and none begins, so failing the table fails every call.
* `IdsInv`: ids given by the endpoint lie below `nextId`, and where waits time out two
  calls in use have different ids. Otherwise the entry removed after a time-out could be
  that of another call.
* `Covered`: a call that is being written or was sent, and has no outcome, is in the
  table, in the router's hands, or with the callback that was posted for it. It begins
  before the write, as the response may come before `send()` has returned.

`MessageExchangeProofs`, from `ExchangeAssumption`, for any tables of handlers, plans
and messages:

| Theorem | Says |
| --- | --- |
| `AnsweredAtMostOnce` | `ExchangeSpec => []AnsweredOnce` |
| `HandlersAnswerAsker` | `ExchangeSpec => []AnswersStayInSession` |
| `RepliesFindParser` | `ExchangeSpec => []RepliesUnderstood` |

* `TasksGood` says of each frame what its stage allows: it has no answer as long as
  anything is still to be done with it, so the step that answers is its last; and the
  output a handler runs with is that of the session the frame came in.
* `DeferredOnce`: a deferred answer is queued once or held by the completion thread,
  never both. `stop()` that fails the queue and the loop that takes from it could
  otherwise answer twice.
* `PoolOfSession`: while there is a handler pool it is that of the current session, and
  so are the frames still to be routed. A task posted to it therefore captured the
  output of its own session, and a task of an earlier pool is not run by this one.
* `CallsReadable`: a call is registered only after its response parser.

`ConnectionsProofs`, from `ConnectionBounds`, for any number of clients, writers and
chunks, for both servers:

| Theorem | Says |
| --- | --- |
| `NewestIsServed` | `Spec => []ServesNewest` |
| `MessagesArriveWhole` | `Spec => []OutputWhole` |

* `ServesInv`: without a race one thread at a time replaces the session
  (`OneReplaces`), nobody is served between its stop and its start (`IdleBetween`), and
  otherwise the bound connection is the active one. `raced` is the condition in the
  property itself: the accept handler of the TCP server and the handlers of the
  WebSocket server hold no lock across both.
* `OutputInv`: what a connection was given, `wire \o writeQueue \o posted`, is whole.
  Handing chunks on from one to the next leaves it as it is, so only the append matters;
  there `send_mutex` makes one writer at a time, and the last chunk is the one before
  (`OneWrites`). The client's `wire` is a prefix of it. `FrontIsWritten` is what keeps
  the completion of a write from removing another chunk.
* `LiveInv`: an output is live only while the endpoint works and nobody joins it, so no
  message is under way when the session is replaced.

`ProcessesProofs`, from `ProcBounds`, for any number of processes on both platforms:

| Theorem | Says |
| --- | --- |
| `NothingLeftBehind` | `ProcSpec => []Released` |

* `CleanInv` says for each process exactly which ends of its pipes this program holds
  (`Ours`), by how far the constructor has come and which streams are open, and what
  the object knows of its child (`Knows`). Each operation touches no other object
  (`Frame`), although a fork copies the descriptors of all of them.
* A forked child holds the write end of the error pipe until it executes or fails; that
  is why the end of file in the constructor says that the child runs.

`ProtocolProofs`, from `FramingAssumption`, `DocumentAssumption` and `UriAssumption`, for
sequences of any length:

| Theorem | Says |
| --- | --- |
| `FramesArrive` | `FramingSpec => []FramesAsWritten` |
| `DocumentsMirror` | `DocSpec => []DocumentMirrors` |
| `PositionsAreInverse` | `DocSpec => []PositionsConvert` |
| `PathsReturn` | `UriSpec => []PathsComeBack` |

These are facts about loops over bytes and need an induction. The induction theorems of
the library take an operator as a parameter, which the provers cannot instantiate; but
that the natural numbers are well-founded (`WFMin`, `NatLessThanWellFounded`) is stated of
sets. `LeastNat` and `Induct` restate it for a set of numbers, and each induction is an
application of `Induct` to the set of the rounds at which a fact holds. The lemmas named
`...Def` show in this way that each recursive function of the model is what its
definition says at every argument.

* Documents. `Offset` is the bridge between the two sides: the number of bytes before a
  character. `GetOffsetForPosition` of the editor's cursor is that offset, for
  characters of every width, because the rounds of the second loop step over exactly the
  characters of the line; the table of lines lists the offsets after the line feeds, so the
  cached look-up and the scan begin at the same byte; and to cut the bytes at these offsets
  is to cut the text at the characters. So one range keeps content and text together, an
  induction over the ranges of a notification does so for all, and `DocInv` does so across
  operations. `DocInv` adds to `DocumentMirrors` what makes it inductive: the server has
  no copy of a document the editor has not open, and the table of lines of each copy is
  that of its content. Without the latter the next range would be looked up in a table
  nothing is known of.
* Frames. `FrameInv` says where `listen()` stands between two rounds: there is a `k` such
  that the first `k` blocks are dealt with, `delivered` holds the bodies that are to be
  delivered of these, and `buffer` is what the stream has given since the end of block `k`.
  `delivered` alone does not say how much of the wire it accounts for, and a body may look
  like a header, so `k` is needed. A header is found in the buffer exactly when all of
  it has arrived (`NotYet`, `FoundThere`), whatever the chunks; then the round ends at the
  end of block `k + 1`, or, at the end of the input or at an oversized frame that stops the
  producer, no later body is to be delivered.
* Scripts. `Taking` is what the producer holds after some bytes, and taking two pieces is
  taking one after the other (`TakingJoined`). From there: white space leaves only spaces on
  the line (`TakingBlanks`), which `trimWhitespace` removes (`TrimmedText`); a line adds its
  text, nothing, or hands the message on (`LineTaken`); the lines make up a message
  (`MessageReads`) and the messages a script (`ScriptReads`).
* Paths. The property is about what the operators compute, so `UriInv` is small: the path
  is absolute and made of `UriChars`. Encoding: the decoder begins each of its rounds where
  the code of a character begins, and the round gives back that character
  (`DecodeCode`, `DecodeEncode`); a `%` of a name is itself encoded, so no name can look
  like an escape. A file URI adds that no code but that of a slash holds a slash, and none a
  `?` or `#`, so nothing is stripped and the authority of a share ends where its name does
  (`RawPathPlain`, `RawPathShare`). Normalisation: `CleanPath`, no empty component and
  neither `.` nor `..`, is kept by every round of the scan, also by the `..` that strips
  a component (`ResolveClean`), and a scan over a clean path only copies it
  (`NormalizedAgain`), hence idempotence. Mapping: a path under a client directory is
  moved under the server's, no other entry changes it there (`OneServer`), and that entry
  takes it back (`RemapBack`, `MappingBack`).

All the assumptions named here are evaluated by TLC in the run of the `MC` module that
extends the component.

Only model-checked:

* every liveness property, and the runs of disagreements: the prover has neither
  fairness nor ENABLED;
* `MembersArrive`: Codec is written with recursive operators, as a value of a JSON type
  nests, and tlapm has no SMT backend in a module that reaches one. The structures are a
  fixed table, and the run goes through all of it; only the widths are scaled.

## Not modelled

* `Markup.cpp` and `string_ref.h`: rendering of documentation text, layout only.
* `lru_cache.h`: nothing in the library creates one.
* `Condition.h`, `future.h`, `Context.cpp`: only their effect (one outcome per call,
  the first counts; the lifetime of a canceler) is in PendingRequests and
  CancellationRegistry.
* `GCThreadContext.cpp`: registers threads with an external collector.
* `stream.h`: wrappers that forward to a standard stream.
* `utils.cpp` beyond positions and paths: file and directory helpers of the operating
  system, and word heuristics.
* queue operations no transport calls (several queues, priority).
* `third_party/`.

Relaxed atomics are modelled as sequentially consistent: `quit`, `working` and
`keepRunning` are flags whose readers either hold a mutex or look again. Reads of a
`WorkingFile` through a `shared_ptr` that a handler keeps are outside the mutex and race
with a change; the model has only what happens under the mutex. A range whose end
lies before its start is undefined behaviour in `OnChange` and not among the edits. An
output stream that throws after it has written would make the handler's `catch` answer a
second time (`RemoteEndPoint.h:700-719`); the repository's streams do not throw, and
MessageExchange has no such stream.

## Plan

1. *Proofs.* Codec with the nesting of types bounded, so that reading and writing are
   functions of the depth and `MembersArrive` can be proved.
2. *Composition.* MessageExchange behind the gates of OrderedDispatcher instead of
   its own posting, if the state space allows it.
