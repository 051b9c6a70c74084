--------------------------- MODULE MessageExchange ---------------------------
(***************************************************************************)
(* What becomes of a message between the parse pool and the answer:        *)
(* parseAndClassify chooses what it is, routeParsedIncoming hands it on    *)
(* with the session's output, mainLoop and the registered handlers run it, *)
(* asynchronous handlers are finished by the completion loop, and every    *)
(* answer leaves through the SessionOutputState of its session.            *)
(*                                                                         *)
(* The reorder buffer and its limits are MessageRouting's: here workers    *)
(* submit in wire order.  The gates before a request are                   *)
(* OrderedDispatcher's: here a routed request is posted at once.  A frame  *)
(* is known by its number on the wire; a call of this endpoint by its      *)
(* method, and is made once.                                               *)
(***************************************************************************)
EXTENDS ProtocolMethods, Integers, Sequences, FiniteSets

CONSTANTS
    Options,      \* the ProtocolJsonHandlerOptions that are switched on
    Handlers,     \* methods with a registered handler |-> "sync", "async",
                  \* or "never", an asynchronous one whose future stays open
    CallMethods,  \* the methods this endpoint calls
    Plans,        \* what a behaviour is bounded to: [inbox, frames, sessions,
                  \* calls, breaks], the messages a peer may send of its own
                  \* accord, how many frames arrive, how many sessions are
                  \* started, the calls made, whether the output may break
    MaxFrames     \* the largest number of frames of a plan

ASSUME ExchangeAssumption ==
    /\ Options \subseteq OptionGroups
    /\ \A p \in Plans : p.frames \in 0..MaxFrames /\ p.calls \subseteq CallMethods

VARIABLES
    plan,
    lifecycle,        \* where start and stop are
    quit,
    session,          \* session_output_state, by its generation
    active,           \* sessions whose output state is active
    broken,           \* sessions whose output is bad()
    frames,           \* the wire: [msg, session] in order of arrival
    task,             \* of each frame: its stage and class, the output state
                      \* and the handler pool it was routed with, and the
                      \* answers written to it, [on, early]
    nextRoute,        \* next_route_sequence
    handlerPool,      \* session that created the handler pool; 0 if stopped
    completions,      \* async_completions, a deque of frames
    completionStop,   \* async_completion_stop
    loop,             \* the completion thread: Off, Idle or the frame it holds
    ready,            \* frames whose future is ready
    responseParsers,  \* method2response
    calls             \* how far each call of this endpoint has come

lifecycleVars == <<lifecycle, quit, session, active, handlerPool>>
asyncVars == <<completions, completionStop, loop>>
callVars == <<responseParsers, calls>>
exchangeVars ==
    <<plan, lifecycleVars, asyncVars, callVars, broken, frames, task, nextRoute, ready>>

Off == 0
Idle == -1

Reply(m) == [json |-> TRUE, version |-> TRUE, method |-> "none", id |-> m,
             result |-> TRUE, valid |-> TRUE]

-----------------------------------------------------------------------------
(* parseAndClassify *)

isRequestMessage(msg) == msg.method # "none" /\ msg.id # "none"
isResponseMessage(msg) == msg.id # "none" /\ msg.result
isNotificationMessage(msg) == msg.method # "none" /\ msg.id = "none"

\* Registering a handler installs the parser of its request if it is missing.
KnowsRequest(method) == method \in RequestParsers(Options) \cup DOMAIN Handlers

getRequestInfo(id) == id \in CallMethods /\ calls[id] = "pending"

\* "error" is an answer made up while parsing: MethodNotFound or InvalidParams.
ClassifyRequest(msg) ==
    IF KnowsRequest(msg.method) /\ msg.valid THEN "request"
    ELSE IF msg.id # "null" THEN "error" ELSE "ignored"

\* A reply completes its call with its response type, or with InternalError
\* because it has no parser ("untyped") or the parser throws ("unreadable").
ClassifyResponse(msg) ==
    IF ~getRequestInfo(msg.id) THEN "ignored"
    ELSE IF msg.id \notin responseParsers THEN "untyped"
    ELSE IF msg.valid THEN "typed" ELSE "unreadable"

ClassifyNotification(msg) ==
    IF msg.method \in NotificationParsers(Options) /\ msg.valid
    THEN "notification" ELSE "ignored"

parseAndClassify(msg) ==
    IF ~msg.json \/ ~msg.version THEN "ignored"
    ELSE IF isRequestMessage(msg) THEN ClassifyRequest(msg)
    ELSE IF isResponseMessage(msg) THEN ClassifyResponse(msg)
    ELSE IF isNotificationMessage(msg) THEN ClassifyNotification(msg)
    ELSE "ignored"

-----------------------------------------------------------------------------
(* The way of a frame *)

ExchangeInit ==
    /\ plan \in Plans
    /\ lifecycle = "idle" /\ quit = FALSE /\ session = 0 /\ active = {}
    /\ broken = {}
    /\ frames = <<>> /\ task = <<>> /\ nextRoute = 1
    /\ handlerPool = 0
    /\ completions = <<>> /\ completionStop = FALSE /\ loop = Off
    /\ ready = {}
    /\ responseParsers = ResponseParsers(Options)
    /\ calls = [m \in CallMethods |-> "none"]

\* The reader hands a frame to the parse pool.
Arrive(msg) ==
    /\ lifecycle = "running"
    /\ Len(frames) < plan.frames
    /\ frames' = Append(frames, [msg |-> msg, session |-> session])
    /\ task' = Append(task, [stage |-> "received", class |-> "none", out |-> 0,
                             pool |-> 0, sent |-> <<>>])
    /\ UNCHANGED <<lifecycleVars, asyncVars, callVars, broken, nextRoute, ready>>

Pending == {m \in CallMethods : calls[m] = "pending"}

ParseFrame(n) ==
    /\ task[n].stage = "received"
    /\ task' = [task EXCEPT ![n].stage = "parsed",
                            ![n].class = parseAndClassify(frames[n].msg)]
    /\ UNCHANGED <<lifecycleVars, asyncVars, callVars, broken, frames, nextRoute, ready>>

\* submitParsedMessage drops a message after quit.
SubmitDropped(n) ==
    /\ task[n].stage = "parsed" /\ quit
    /\ task' = [task EXCEPT ![n].stage = "gone"]
    /\ UNCHANGED <<lifecycleVars, asyncVars, callVars, broken, frames, nextRoute, ready>>

\* sendSessionMessage: the answers to n after one more on the output `on`;
\* an answer of a session that is over, or whose output is bad, is dropped.
Sent(n, on, early) ==
    IF on \in active \ broken
    THEN Append(task[n].sent, [on |-> on, early |-> early]) ELSE task[n].sent

\* completePendingResponse.
Completed(id, class) ==
    IF class \in {"typed", "untyped", "unreadable"} /\ getRequestInfo(id)
    THEN [calls EXCEPT ![id] = class] ELSE calls

\* routeParsedIncoming, with the output state that is current now.
routeParsedIncoming(n) ==
    /\ task[n].stage = "parsed" /\ ~quit
    /\ n = nextRoute
    /\ nextRoute' = n + 1
    /\ task' = [task EXCEPT
                    ![n].stage = IF task[n].class = "request"
                                 THEN "posted" ELSE "gone",
                    ![n].out = session,
                    ![n].pool = handlerPool,
                    ![n].sent = IF task[n].class = "error"
                                THEN Sent(n, session, TRUE) ELSE @]
    /\ calls' = Completed(frames[n].msg.id, task[n].class)
    /\ UNCHANGED <<lifecycleVars, asyncVars, responseParsers, broken, frames, ready>>

\* A handler thread takes the task from its pool.
TakeRequest(n) ==
    /\ task[n].stage = "posted"
    /\ handlerPool # 0 /\ task[n].pool = handlerPool
    /\ task' = [task EXCEPT ![n].stage = "taken"]
    /\ UNCHANGED <<lifecycleVars, asyncVars, callVars, broken, frames, nextRoute, ready>>

\* Fault: the endpoint's output state is read again when the answer is ready.
CurrentOutputState(n) == session

\* getSessionOutputState: the state in the handler's context, which mainLoop
\* has taken from the task.
getSessionOutputState(n) == task[n].out

HandlerOf(n) == frames[n].msg.method

\* mainLoop looks at quit and calls onRequest, which finds no handler.
mainLoop(n) ==
    /\ task[n].stage = "taken"
    /\ task' = [task EXCEPT
                    ![n].stage = IF quit \/ HandlerOf(n) \notin DOMAIN Handlers
                                 THEN "gone" ELSE "running",
                    ![n].sent = IF quit \/ HandlerOf(n) \in DOMAIN Handlers
                                THEN @ ELSE Sent(n, getSessionOutputState(n), FALSE)]
    /\ UNCHANGED <<lifecycleVars, asyncVars, callVars, broken, frames, nextRoute, ready>>

\* A handler returns its result or throws; either way sendHandlerResult,
\* sendRspError or sendInternalError answers.  The send stands inside the
\* handler's try, but the streams of the repository do not throw: a stream that
\* throws after it has written, and so gets an error answer too, is left out.
HandlerAnswers(n) ==
    /\ task[n].stage = "running"
    /\ task' = [task EXCEPT ![n].stage = "gone",
                            ![n].sent = Sent(n, getSessionOutputState(n), FALSE)]
    /\ UNCHANGED <<lifecycleVars, asyncVars, callVars, broken, frames, nextRoute, ready>>

\* completeAsyncHandler and postAsyncCompletion: the handler has returned a
\* future, and the completion is queued unless the endpoint is stopping.
completeAsyncHandler(n) ==
    /\ task[n].stage = "running"
    /\ Handlers[HandlerOf(n)] # "sync"
    /\ task' = [task EXCEPT ![n].stage = "deferred"]
    /\ completions' = IF completionStop \/ quit THEN completions
                      ELSE Append(completions, n)
    /\ UNCHANGED <<lifecycleVars, completionStop, loop, callVars, broken, frames,
                   nextRoute, ready>>

FutureReady(n) ==
    /\ task[n].stage = "deferred" /\ n \notin ready
    /\ Handlers[HandlerOf(n)] = "async"
    /\ ready' = ready \cup {n}
    /\ UNCHANGED <<lifecycleVars, asyncVars, callVars, broken, frames, task, nextRoute>>

-----------------------------------------------------------------------------
(* asyncCompletionLoop.  Its back-off of 10 ms after a round without progress
   only costs time. *)

LoopTakes ==
    /\ loop = Idle /\ ~completionStop /\ completions # <<>>
    /\ loop' = Head(completions)
    /\ completions' = Tail(completions)
    /\ UNCHANGED <<lifecycleVars, completionStop, callVars, broken, frames, task,
                   nextRoute, ready>>

\* Fault: a completion that has answered is taken for one still pending.
LoopCompletesAgain ==
    /\ loop > 0 /\ loop \in ready
    /\ task' = [task EXCEPT ![loop].sent = Sent(loop, getSessionOutputState(loop), FALSE)]
    /\ completions' = Append(completions, loop)
    /\ loop' = Idle
    /\ UNCHANGED <<lifecycleVars, completionStop, callVars, broken,
                   frames, nextRoute, ready>>

\* The completion answers with the future's value or error.
LoopCompletes ==
    /\ loop > 0 /\ loop \in ready
    /\ task' = [task EXCEPT ![loop].stage = "gone",
                            ![loop].sent = Sent(loop, getSessionOutputState(loop), FALSE)]
    /\ loop' = Idle
    /\ UNCHANGED <<lifecycleVars, completions, completionStop, callVars, broken,
                   frames, nextRoute, ready>>

\* Fault: a completion whose future is not ready is not put back.
LoopForgets ==
    /\ loop > 0 /\ loop \notin ready
    /\ loop' = IF completionStop THEN Off ELSE Idle
    /\ UNCHANGED <<lifecycleVars, completions, completionStop, callVars, broken, frames,
                   task, nextRoute, ready>>

LoopRequeues ==
    /\ loop > 0 /\ loop \notin ready
    /\ completions' = IF completionStop THEN completions ELSE Append(completions, loop)
    /\ loop' = IF completionStop THEN Off ELSE Idle
    /\ UNCHANGED <<lifecycleVars, completionStop, callVars, broken, frames, task,
                   nextRoute, ready>>

LoopExits ==
    /\ loop = Idle /\ completionStop
    /\ loop' = Off
    /\ UNCHANGED <<lifecycleVars, completions, completionStop, callVars, broken,
                   frames, task, nextRoute, ready>>

-----------------------------------------------------------------------------
(* startProcessingMessages() and stop(), by the application *)

StartBegin ==
    /\ lifecycle = "idle" /\ session < plan.sessions
    /\ lifecycle' = "starting"
    /\ quit' = FALSE
    /\ UNCHANGED <<session, active, handlerPool, asyncVars, callVars, broken, frames,
                   task, nextRoute, ready>>

\* The new output state, and the completion loop.
StartSession ==
    /\ lifecycle = "starting"
    /\ lifecycle' = "pools"
    /\ session' = session + 1
    /\ active' = active \cup {session + 1}
    /\ completionStop' = FALSE
    /\ loop' = Idle
    /\ UNCHANGED <<quit, handlerPool, completions, callVars, broken, frames, task,
                   nextRoute, ready>>

\* Replacing parse_pool joins the workers of the old one: each has routed what
\* it held, or has left it in the reorder buffer behind a gap.
ParsePoolJoined == \A n \in DOMAIN task : task[n].stage = "parsed" => n # nextRoute

\* The assignment of handler_pool joins the old handlers.
HandlersJoined == \A n \in DOMAIN task : task[n].stage \notin {"taken", "running"}

\* Both pools, resetMessageRouting, the reader.
StartPools ==
    /\ lifecycle = "pools"
    /\ ParsePoolJoined /\ HandlersJoined
    /\ lifecycle' = "running"
    /\ handlerPool' = session
    /\ nextRoute' = Len(frames) + 1
    /\ task' = [n \in DOMAIN task |->
                  IF task[n].stage \in {"parsed", "posted"}
                  THEN [task[n] EXCEPT !.stage = "gone"] ELSE task[n]]
    /\ UNCHANGED <<quit, session, active, asyncVars, callVars, broken, frames, ready>>

\* clear(): quit and clearMessageRouting ...
StopBegin ==
    /\ lifecycle = "running"
    /\ lifecycle' = "quitting"
    /\ quit' = TRUE
    /\ UNCHANGED <<session, active, handlerPool, asyncVars, callVars, broken, frames,
                   task, nextRoute, ready>>

\* ... active = false, and output.reset() under the send mutex ...
StopOutput ==
    /\ lifecycle = "quitting"
    /\ lifecycle' = "failing"
    /\ active' = active \ {session}
    /\ UNCHANGED <<quit, session, handlerPool, asyncVars, callVars, broken, frames,
                   task, nextRoute, ready>>

\* ... failPendingRequests ...
StopCalls ==
    /\ lifecycle = "failing"
    /\ lifecycle' = "completions"
    /\ calls' = [m \in CallMethods |-> IF calls[m] = "pending" THEN "failed" ELSE calls[m]]
    /\ UNCHANGED <<quit, session, active, handlerPool, asyncVars, responseParsers,
                   broken, frames, task, nextRoute, ready>>

\* ... stopAsyncCompletionLoop ...
StopCompletions ==
    /\ lifecycle = "completions"
    /\ lifecycle' = "joining"
    /\ completionStop' = TRUE
    /\ completions' = <<>>
    /\ UNCHANGED <<quit, session, active, handlerPool, loop, callVars, broken, frames,
                   task, nextRoute, ready>>

\* ... its join, and stopWorkerPools, which abandons what is queued.
StopPools ==
    /\ lifecycle = "joining" /\ loop = Off
    /\ lifecycle' = "idle"
    /\ handlerPool' = 0
    /\ task' = [n \in DOMAIN task |->
                  IF task[n].stage \in {"received", "posted"}
                  THEN [task[n] EXCEPT !.stage = "gone"] ELSE task[n]]
    /\ UNCHANGED <<quit, session, active, asyncVars, callVars, broken, frames,
                   nextRoute, ready>>

\* The peer is gone and the output has turned bad().
OutputBreaks ==
    /\ plan.breaks /\ session \in active \ broken
    /\ broken' = broken \cup {session}
    /\ UNCHANGED <<lifecycleVars, asyncVars, callVars, frames, task, nextRoute, ready>>

-----------------------------------------------------------------------------
(* Calls of this endpoint *)

\* Fault: a request goes out whether or not its response can be parsed.
ensureNothing(m) ==
    /\ calls[m] = "none"
    /\ calls' = [calls EXCEPT ![m] = "ensured"]
    /\ UNCHANGED <<responseParsers, lifecycleVars, asyncVars, broken, frames, task,
                   nextRoute, ready>>

\* ensureResponseJsonHandler: a missing parser is registered before the start
\* and refused after it; canRegisterBeforeStart waits for lifecycle_mutex.
ensureResponseJsonHandler(m) ==
    /\ calls[m] = "none"
    /\ m \notin responseParsers => lifecycle \in {"idle", "running"}
    /\ IF m \in responseParsers \/ lifecycle = "idle"
       THEN /\ calls' = [calls EXCEPT ![m] = "ensured"]
            /\ responseParsers' = responseParsers \cup {m}
       ELSE /\ calls' = [calls EXCEPT ![m] = "refused"]
            /\ UNCHANGED responseParsers
    /\ UNCHANGED <<lifecycleVars, asyncVars, broken, frames, task, nextRoute, ready>>

internalSendRequest(m) ==
    /\ calls[m] = "ensured"
    /\ calls' = [calls EXCEPT ![m] = IF session \in active \ broken
                                     THEN "pending" ELSE "refused"]
    /\ UNCHANGED <<lifecycleVars, asyncVars, responseParsers, broken, frames, task,
                   nextRoute, ready>>

-----------------------------------------------------------------------------
FrameStep(n) ==
    \/ ParseFrame(n) \/ SubmitDropped(n) \/ routeParsedIncoming(n)
    \/ TakeRequest(n) \/ mainLoop(n) \/ HandlerAnswers(n)
    \/ completeAsyncHandler(n) \/ FutureReady(n)

LifecycleStep ==
    \/ StartSession \/ StartPools
    \/ StopOutput \/ StopCalls \/ StopCompletions \/ StopPools

LoopStep == LoopTakes \/ LoopCompletes \/ LoopRequeues \/ LoopExits

ExchangeNext ==
    /\ UNCHANGED plan
    /\ \/ \E msg \in plan.inbox : Arrive(msg)
       \/ \E m \in Pending : Arrive(Reply(m))
       \/ \E n \in DOMAIN task : FrameStep(n)
       \/ LoopStep
       \/ StartBegin \/ StopBegin \/ LifecycleStep
       \/ OutputBreaks
       \/ \E m \in plan.calls : ensureResponseJsonHandler(m) \/ internalSendRequest(m)

\* Threads of the pools, the completion thread and a start or stop that has
\* begun go on, and handlers return.  Nothing makes a peer send, the application
\* stop, or the future of a "never" handler ready.
ExchangeFairness ==
    /\ \A n \in 1..MaxFrames : WF_exchangeVars(n \in DOMAIN task /\ FrameStep(n) /\ UNCHANGED plan)
    /\ WF_exchangeVars(LoopStep /\ UNCHANGED plan)
    /\ WF_exchangeVars(LifecycleStep /\ UNCHANGED plan)

ExchangeSpec == ExchangeInit /\ [][ExchangeNext]_exchangeVars /\ ExchangeFairness

-----------------------------------------------------------------------------
(* Properties *)

\* However a handler ends, by a result, a thrown error or a future, and
\* however stops and restarts fall in between, no request is answered twice.
AnsweredOnce == \A n \in DOMAIN task : Len(task[n].sent) <= 1

\* What handlers, synchronous or late, answer is written to the output of the
\* session the request came from, never to a later one.
AnswersStayInSession ==
    \A n \in DOMAIN task : \A i \in DOMAIN task[n].sent :
        ~task[n].sent[i].early => task[n].sent[i].on = frames[n].session

\* The same for every answer, with those made up while parsing.
AnswersToAsker ==
    \A n \in DOMAIN task : \A i \in DOMAIN task[n].sent :
        task[n].sent[i].on = frames[n].session

Expected(n) ==
    /\ n \in DOMAIN frames
    /\ LET msg == frames[n].msg IN
         /\ msg.json /\ msg.version /\ isRequestMessage(msg) /\ msg.id # "null"
         /\ msg.method \in DOMAIN Handlers => Handlers[msg.method] # "never"

SessionOver(n) == frames[n].session \notin active \ broken \/ quit

Settled(n) == n \in DOMAIN frames /\ (SessionOver(n) \/ task[n].sent # <<>>)

\* A request with an id, whether its method is known or not and its parameters
\* can be read or not, is answered unless its session ends: also while another
\* handler's future stays open for ever.
RequestsAnswered ==
    \A n \in 1..MaxFrames : Expected(n) ~> Settled(n)

\* A call that was sent can be answered: when its reply arrives there is a
\* parser for it.
RepliesUnderstood == \A m \in CallMethods : calls[m] # "untyped"
=============================================================================
