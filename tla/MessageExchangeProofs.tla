------------------------ MODULE MessageExchangeProofs ------------------------
(***************************************************************************)
(* Proofs about MessageExchange, for any handlers, messages and plans: no  *)
(* request is answered twice, what a handler answers stays in the session  *)
(* the request came from, and the reply to a call of this endpoint always  *)
(* finds its parser.                                                       *)
(***************************************************************************)
EXTENDS MessageExchange, SequenceTheorems, TLAPS

Lifecycles ==
  {"idle", "starting", "pools", "running", "quitting", "failing", "completions", "joining"}
Stages == {"received", "parsed", "posted", "taken", "running", "deferred", "gone"}
Classes == {"none", "request", "error", "ignored", "notification", "typed", "untyped",
            "unreadable"}
CallStates == {"none", "ensured", "refused", "pending", "failed", "typed", "untyped",
               "unreadable"}

Answer == [on : Nat, early : BOOLEAN]
Task == [stage : Stages, class : Classes, out : Nat, pool : Nat, sent : Seq(Answer)]

\* What any peer may send.
Replies == {Reply(m) : m \in CallMethods}
Inbox == (UNION {p.inbox : p \in Plans}) \cup Replies
Frame == [msg : Inbox, session : Nat]

\* The types of the variables.
ExchangeTypeInv ==
  /\ plan \in Plans
  /\ lifecycle \in Lifecycles /\ quit \in BOOLEAN
  /\ session \in Nat /\ handlerPool \in Nat
  /\ frames \in Seq(Frame) /\ task \in Seq(Task) /\ Len(task) = Len(frames)
  /\ nextRoute \in Nat \ {0}
  /\ completions \in Seq(Nat) /\ completionStop \in BOOLEAN
  /\ loop \in Int
  /\ calls \in [CallMethods -> CallStates]

\* Every deferred answer is in the hands of one party: it is queued once, or
\* held by the completion thread.
DeferredOnce ==
  /\ \A i \in DOMAIN completions :
       /\ completions[i] \in DOMAIN task /\ task[completions[i]].stage = "deferred"
       /\ completions[i] # loop
  /\ \A i, j \in DOMAIN completions : completions[i] = completions[j] => i = j
  /\ loop > 0 => loop \in DOMAIN task /\ task[loop].stage = "deferred"

\* While there is a handler pool it is that of the current session, and the
\* frames still to be routed are of this session.
PoolOfSession ==
  /\ handlerPool # 0 => handlerPool = session
  /\ handlerPool # 0 <=> lifecycle \in {"running", "quitting", "failing", "completions", "joining"}
  /\ lifecycle \in {"pools", "running"} => session # 0
  /\ handlerPool # 0 =>
       \A n \in DOMAIN frames : n >= nextRoute => frames[n].session = session

\* What holds of every frame t that came in session s, when the handler pool
\* is that of session pool (0 for none): it has no answer as long as something
\* is still to be done with it; a handler runs, and answers, with the output
\* of session s; and what it replies to can be read.
Good(t, s, pool) ==
  /\ t.stage # "gone" => t.sent = <<>>
  /\ Len(t.sent) <= 1
  /\ t.stage \in {"taken", "running", "deferred"} => t.out = s
  /\ t.stage = "posted" /\ pool # 0 /\ t.pool = pool => t.out = s
  /\ \A i \in DOMAIN t.sent : ~t.sent[i].early => t.sent[i].on = s
  /\ t.class # "untyped"

TasksGood == \A n \in DOMAIN task : Good(task[n], frames[n].session, handlerPool)

\* A call is made only when its reply can be read.
CallsReadable ==
  /\ \A m \in CallMethods : calls[m] \in {"ensured", "pending"} => m \in responseParsers
  /\ \A m \in CallMethods : calls[m] # "untyped"

ExchangeInv ==
  ExchangeTypeInv /\ TasksGood /\ DeferredOnce /\ PoolOfSession /\ CallsReadable

-----------------------------------------------------------------------------
\* One frame moves on.
LEMMA Updated ==
  ASSUME NEW S, NEW f \in Seq(S), NEW n \in DOMAIN f, NEW t \in S
  PROVE  LET g == [f EXCEPT ![n] = t]
         IN  /\ g \in Seq(S) /\ Len(g) = Len(f) /\ DOMAIN g = DOMAIN f
             /\ g[n] = t
             /\ \A k \in DOMAIN f : k # n => g[k] = f[k]
OBVIOUS

LEMMA TaskUpdated ==
  ASSUME ExchangeInv, NEW n \in DOMAIN task, NEW t \in Task,
         Good(t, frames[n].session, handlerPool),
         task' = [task EXCEPT ![n] = t], UNCHANGED <<frames, handlerPool>>
  PROVE  /\ task' \in Seq(Task) /\ Len(task') = Len(task) /\ DOMAIN task' = DOMAIN task
         /\ task'[n] = t
         /\ \A k \in DOMAIN task : k # n => task'[k] = task[k]
         /\ TasksGood'
<1>1. task \in Seq(Task)
  BY DEF ExchangeInv, ExchangeTypeInv
<1>2. /\ task' \in Seq(Task) /\ Len(task') = Len(task) /\ DOMAIN task' = DOMAIN task
      /\ task'[n] = t
      /\ \A k \in DOMAIN task : k # n => task'[k] = task[k]
  BY <1>1, Updated
<1>3. TasksGood'
  BY <1>2 DEF TasksGood, ExchangeInv
<1> QED
  BY <1>2, <1>3

LEMMA FrameStepKeeps ==
  ASSUME ExchangeInv, NEW n \in DOMAIN task, NEW t \in Task,
         Good(t, frames[n].session, handlerPool),
         task' = [task EXCEPT ![n] = t], task[n].stage # "deferred",
         UNCHANGED <<plan, lifecycleVars, asyncVars, callVars, frames, nextRoute>>
  PROVE  ExchangeInv'
<1> USE DEF ExchangeInv, lifecycleVars, asyncVars, callVars
<1>1. /\ task' \in Seq(Task) /\ Len(task') = Len(task) /\ DOMAIN task' = DOMAIN task
      /\ \A k \in DOMAIN task : k # n => task'[k] = task[k]
      /\ TasksGood'
  BY TaskUpdated
<1>2. ExchangeTypeInv'
  BY <1>1 DEF ExchangeTypeInv
<1>3. DeferredOnce'
  BY <1>1 DEF DeferredOnce
<1>4. PoolOfSession' /\ CallsReadable'
  BY DEF PoolOfSession, CallsReadable
<1> QED
  BY <1>1, <1>2, <1>3, <1>4

\* What is written is written once and to the given output.
LEMMA SentOnce ==
  ASSUME ExchangeInv, NEW n \in DOMAIN task, task[n].stage # "gone", NEW on \in Nat,
         NEW early \in BOOLEAN
  PROVE  /\ Sent(n, on, early) \in Seq(Answer)
         /\ Len(Sent(n, on, early)) <= 1
         /\ \A i \in DOMAIN Sent(n, on, early) :
              Sent(n, on, early)[i] = [on |-> on, early |-> early]
<1>1. task[n].sent = <<>>
  BY DEF ExchangeInv, TasksGood, Good
<1>2. [on |-> on, early |-> early] \in Answer
  BY DEF Answer
<1>3. Append(<<>>, [on |-> on, early |-> early]) = <<[on |-> on, early |-> early]>>
  OBVIOUS
<1>4. CASE on \in active \ broken
  <2>1. Sent(n, on, early) = <<[on |-> on, early |-> early]>>
    BY <1>1, <1>3, <1>4 DEF Sent
  <2> QED
    BY <1>2, <2>1
<1>5. CASE on \notin active \ broken
  <2>1. Sent(n, on, early) = <<>>
    BY <1>1, <1>5 DEF Sent
  <2> QED
    BY <2>1
<1> QED
  BY <1>4, <1>5

LEMMA ClassifyTypes ==
  ASSUME ExchangeInv, NEW msg
  PROVE  parseAndClassify(msg) \in Classes \ {"untyped"}
<1>1. ClassifyRequest(msg) \in {"request", "error", "ignored"}
  BY DEF ClassifyRequest
<1>2. ClassifyResponse(msg) \in {"ignored", "typed", "unreadable"}
  BY DEF ClassifyResponse, getRequestInfo, ExchangeInv, CallsReadable
<1>3. ClassifyNotification(msg) \in {"notification", "ignored"}
  BY DEF ClassifyNotification
<1> QED
  BY <1>1, <1>2, <1>3 DEF parseAndClassify, Classes

LEMMA TaskFields ==
  ASSUME ExchangeInv, NEW n \in DOMAIN task
  PROVE  /\ task[n] \in Task
         /\ task[n].stage \in Stages /\ task[n].class \in Classes
         /\ task[n].out \in Nat /\ task[n].pool \in Nat /\ task[n].sent \in Seq(Answer)
         /\ n \in DOMAIN frames /\ frames[n] \in Frame /\ frames[n].session \in Nat
         /\ n \in Nat \ {0}
         /\ Good(task[n], frames[n].session, handlerPool)
<1>1. task[n] \in Task /\ n \in DOMAIN frames /\ frames[n] \in Frame /\ n \in Nat \ {0}
  BY DEF ExchangeInv, ExchangeTypeInv
<1>2. /\ task[n].stage \in Stages /\ task[n].class \in Classes
      /\ task[n].out \in Nat /\ task[n].pool \in Nat /\ task[n].sent \in Seq(Answer)
  BY <1>1 DEF Task
<1>3. frames[n].session \in Nat
  BY <1>1 DEF Frame
<1> QED
  BY <1>1, <1>2, <1>3 DEF ExchangeInv, TasksGood

LEMMA FrameStepNext ==
  ASSUME ExchangeInv, plan' = plan, NEW n \in DOMAIN task, FrameStep(n)
  PROVE  ExchangeInv'
<1> DEFINE s == frames[n].session
<1>0. /\ task[n] \in Task /\ Good(task[n], s, handlerPool)
      /\ task[n].stage \in Stages /\ task[n].class \in Classes
      /\ task[n].out \in Nat /\ task[n].pool \in Nat /\ task[n].sent \in Seq(Answer)
  BY TaskFields
<1> HIDE DEF s
<1>1. CASE ParseFrame(n)
  <2> DEFINE class == parseAndClassify(frames[n].msg)
             t == [task[n] EXCEPT !.stage = "parsed", !.class = class]
  <2>1. class \in Classes \ {"untyped"}
    BY ClassifyTypes
  <2> HIDE DEF class
  <2>2. t \in Task
    BY <1>0, <2>1 DEF Task, Stages
  <2>3. task[n].stage = "received" /\ task' = [task EXCEPT ![n] = t]
    BY <1>1 DEF ParseFrame, class
  <2>4. Good(t, s, handlerPool)
    BY <1>0, <2>1, <2>3 DEF Good, Task
  <2> QED
    BY <1>1, <2>2, <2>3, <2>4, FrameStepKeeps DEF ParseFrame, s
<1>2. CASE SubmitDropped(n) \/ TakeRequest(n)
  <2> DEFINE t == [task[n] EXCEPT !.stage = IF task[n].stage = "parsed" THEN "gone" ELSE "taken"]
  <2>1. t \in Task
    BY <1>0 DEF Task, Stages
  <2>2. task[n].stage # "deferred" /\ task' = [task EXCEPT ![n] = t]
    BY <1>2 DEF SubmitDropped, TakeRequest
  <2>3. Good(t, s, handlerPool)
    BY <1>0, <1>2 DEF Good, Task, SubmitDropped, TakeRequest
  <2> QED
    BY <1>2, <2>1, <2>2, <2>3, FrameStepKeeps DEF SubmitDropped, TakeRequest, s
<1>3. CASE mainLoop(n) \/ HandlerAnswers(n)
  <2> DEFINE answer == Sent(n, task[n].out, FALSE)
  <2>1. /\ answer \in Seq(Answer) /\ Len(answer) <= 1
        /\ \A i \in DOMAIN answer : answer[i] = [on |-> task[n].out, early |-> FALSE]
        /\ task[n].stage \in {"taken", "running"} /\ task[n].out = s /\ task[n].sent = <<>>
    BY <1>0, <1>3, SentOnce DEF mainLoop, HandlerAnswers, Good
  <2> HIDE DEF answer
  <2>2. PICK stage \in {"running", "gone"}, sent \in {answer, <<>>} :
          /\ task' = [task EXCEPT ![n] = [task[n] EXCEPT !.stage = stage, !.sent = sent]]
          /\ stage = "gone" \/ sent = <<>>
    <3>1. CASE mainLoop(n)
      <4> DEFINE stage == IF quit \/ HandlerOf(n) \notin DOMAIN Handlers
                          THEN "gone" ELSE "running"
                 sent == IF quit \/ HandlerOf(n) \in DOMAIN Handlers THEN <<>> ELSE answer
      <4>1. task' = [task EXCEPT ![n] = [task[n] EXCEPT !.stage = stage, !.sent = sent]]
        BY <2>1, <3>1 DEF mainLoop, getSessionOutputState, answer
      <4>2. stage \in {"running", "gone"} /\ sent \in {answer, <<>>}
            /\ (stage = "gone" \/ sent = <<>>)
        OBVIOUS
      <4> QED
        BY <4>1, <4>2
    <3>2. CASE HandlerAnswers(n)
      BY <3>2 DEF HandlerAnswers, getSessionOutputState, answer
    <3> QED
      BY <1>3, <3>1, <3>2
  <2> DEFINE t == [task[n] EXCEPT !.stage = stage, !.sent = sent]
  <2>3. sent \in Seq(Answer) /\ Len(sent) <= 1 /\ \A i \in DOMAIN sent : sent[i].on = s
    <3>1. CASE sent = answer
      <4>1. \A i \in DOMAIN answer : answer[i].on = s
        BY <2>1
      <4> QED
        BY <2>1, <3>1, <4>1
    <3>2. CASE sent = <<>>
      BY <3>2
    <3> QED
      BY <3>1, <3>2
  <2>4. t \in Task
    BY <1>0, <2>3 DEF Task, Stages
  <2>5. /\ t.stage = stage /\ t.sent = sent /\ t.out = task[n].out /\ t.class = task[n].class
    BY <1>0 DEF Task
  <2>6. Good(t, s, handlerPool)
    BY <1>0, <2>1, <2>2, <2>3, <2>5 DEF Good
  <2> QED
    BY <1>3, <2>1, <2>2, <2>4, <2>6, FrameStepKeeps DEF mainLoop, HandlerAnswers, s
<1>4. CASE routeParsedIncoming(n)
  <2> DEFINE answer == Sent(n, session, TRUE)
             stage == IF task[n].class = "request" THEN "posted" ELSE "gone"
             sent == IF task[n].class = "error" THEN answer ELSE task[n].sent
             t == [task[n] EXCEPT !.stage = stage, !.out = session, !.pool = handlerPool,
                                  !.sent = sent]
  <2>0. session \in Nat /\ handlerPool \in Nat /\ n \in DOMAIN frames /\ n \in Nat \ {0}
    BY TaskFields DEF ExchangeInv, ExchangeTypeInv
  <2>1. /\ answer \in Seq(Answer) /\ Len(answer) <= 1
        /\ \A i \in DOMAIN answer : answer[i] = [on |-> session, early |-> TRUE]
        /\ task[n].stage = "parsed" /\ task[n].sent = <<>>
    BY <1>0, <1>4, <2>0, SentOnce DEF routeParsedIncoming, Good
  <2>2. task' = [task EXCEPT ![n] = t]
    BY <1>4 DEF routeParsedIncoming
  <2> HIDE DEF answer
  <2>3. /\ sent \in Seq(Answer) /\ Len(sent) <= 1 /\ \A i \in DOMAIN sent : sent[i].early
        /\ stage \in {"posted", "gone"} /\ (stage = "gone" \/ sent = <<>>)
    BY <2>1
  <2> HIDE DEF sent, stage
  <2>4. t \in Task
    BY <1>0, <2>0, <2>3 DEF Task, Stages
  <2>5. /\ t.stage = stage /\ t.sent = sent /\ t.out = session /\ t.pool = handlerPool
        /\ t.class = task[n].class
    BY <1>0 DEF Task
  <2> HIDE DEF t
  <2>6. handlerPool # 0 => session = s
    BY <1>4, <2>0 DEF routeParsedIncoming, ExchangeInv, PoolOfSession, s
  <2>7. Good(t, s, handlerPool)
    BY <1>0, <2>3, <2>5, <2>6 DEF Good
  <2>8. /\ nextRoute' = n + 1 /\ n = nextRoute
        /\ calls' = Completed(frames[n].msg.id, task[n].class)
        /\ UNCHANGED <<lifecycleVars, asyncVars, responseParsers, frames>>
    BY <1>4 DEF routeParsedIncoming
  <2>9. /\ task' \in Seq(Task) /\ Len(task') = Len(task) /\ DOMAIN task' = DOMAIN task
        /\ \A k \in DOMAIN task : k # n => task'[k] = task[k]
        /\ TasksGood'
    BY <2>2, <2>4, <2>7, <2>8, TaskUpdated DEF s, lifecycleVars
  <2>10. /\ calls' \in [CallMethods -> CallStates]
         /\ \A m \in CallMethods : calls'[m] = calls[m] \/ calls'[m] \in {"typed", "unreadable"}
    <3>1. task[n].class # "untyped" /\ calls \in [CallMethods -> CallStates]
      BY <1>0 DEF Good, ExchangeInv, ExchangeTypeInv
    <3> QED
      BY <2>8, <3>1 DEF Completed, getRequestInfo, CallStates
  <2>11. ExchangeTypeInv'
    BY <2>0, <2>8, <2>9, <2>10 DEF ExchangeInv, ExchangeTypeInv, lifecycleVars, asyncVars
  <2>12. DeferredOnce'
    BY <2>1, <2>8, <2>9 DEF ExchangeInv, DeferredOnce, asyncVars
  <2>13. PoolOfSession'
    <3>1. ASSUME NEW k \in DOMAIN frames, k >= n + 1
          PROVE  k >= n
      BY <2>0, <3>1 DEF ExchangeInv, ExchangeTypeInv
    <3> QED
      BY <2>8, <3>1 DEF ExchangeInv, PoolOfSession, lifecycleVars
  <2>14. CallsReadable'
    BY <2>8, <2>10 DEF ExchangeInv, CallsReadable
  <2> QED
    BY <2>9, <2>11, <2>12, <2>13, <2>14 DEF ExchangeInv
<1>5. CASE completeAsyncHandler(n)
  <2> DEFINE t == [task[n] EXCEPT !.stage = "deferred"]
  <2>1. t \in Task
    BY <1>0 DEF Task, Stages
  <2>2. task[n].stage = "running" /\ task' = [task EXCEPT ![n] = t]
    BY <1>5 DEF completeAsyncHandler
  <2>3. Good(t, s, handlerPool)
    BY <1>0, <2>2 DEF Good, Task
  <2>4. t.stage = "deferred"
    BY <1>0 DEF Task
  <2> HIDE DEF t
  <2>5. /\ UNCHANGED <<lifecycleVars, completionStop, loop, callVars, frames, nextRoute>>
        /\ completions' = completions \/ completions' = Append(completions, n)
    BY <1>5 DEF completeAsyncHandler
  <2>6. /\ task' \in Seq(Task) /\ Len(task') = Len(task) /\ DOMAIN task' = DOMAIN task
        /\ \A k \in DOMAIN task : k # n => task'[k] = task[k]
        /\ task'[n] = t
        /\ TasksGood'
    BY <2>1, <2>2, <2>3, <2>5, TaskUpdated DEF s, lifecycleVars
  <2>7. completions \in Seq(Nat) /\ n \in Nat /\ loop \in Int
    BY TaskFields DEF ExchangeInv, ExchangeTypeInv
  <2>8. /\ \A i \in DOMAIN completions :
             /\ completions[i] \in DOMAIN task /\ completions[i] # n
             /\ task'[completions[i]].stage = "deferred" /\ completions[i] # loop
        /\ loop # n
        /\ loop > 0 => loop \in DOMAIN task /\ task'[loop].stage = "deferred"
    <3>1. n > 0
      BY TaskFields
    <3> QED
      BY <2>2, <2>6, <3>1 DEF ExchangeInv, DeferredOnce
  <2>9. DeferredOnce'
    <3>1. CASE completions' = completions
      BY <2>4, <2>5, <2>6, <2>8, <3>1 DEF ExchangeInv, DeferredOnce
    <3>2. CASE completions' = Append(completions, n)
      <4>1. /\ DOMAIN completions' = 1..(Len(completions) + 1)
            /\ DOMAIN completions = 1..Len(completions) /\ Len(completions) \in Nat
            /\ \A i \in 1..Len(completions) : completions'[i] = completions[i]
            /\ completions'[Len(completions) + 1] = n
        BY <2>7, <3>2
      <4>2. \A i \in DOMAIN completions' :
              i \in DOMAIN completions \/ i = Len(completions) + 1
        BY <4>1
      <4>3. \A i \in DOMAIN completions' :
              /\ completions'[i] \in DOMAIN task' /\ task'[completions'[i]].stage = "deferred"
              /\ completions'[i] # loop
        BY <2>4, <2>6, <2>8, <4>1, <4>2
      <4>4. \A i, j \in DOMAIN completions' : completions'[i] = completions'[j] => i = j
        BY <2>8, <4>1, <4>2 DEF ExchangeInv, DeferredOnce
      <4> QED
        BY <2>5, <2>6, <2>8, <4>3, <4>4 DEF DeferredOnce
    <3> QED
      BY <2>5, <3>1, <3>2
  <2>10. ExchangeTypeInv'
    <3>1. completions' \in Seq(Nat)
      BY <2>5, <2>7
    <3> QED
      BY <2>5, <2>6, <3>1 DEF ExchangeInv, ExchangeTypeInv, lifecycleVars, callVars
  <2>11. PoolOfSession' /\ CallsReadable'
    BY <2>5 DEF ExchangeInv, PoolOfSession, CallsReadable, lifecycleVars, callVars
  <2> QED
    BY <2>6, <2>9, <2>10, <2>11 DEF ExchangeInv
<1>6. CASE FutureReady(n)
  BY <1>6 DEF FutureReady, ExchangeInv, ExchangeTypeInv, TasksGood, DeferredOnce, PoolOfSession,
              CallsReadable, lifecycleVars, asyncVars, callVars
<1> QED
  BY <1>1, <1>2, <1>3, <1>4, <1>5, <1>6 DEF FrameStep

LEMMA ExchangeInitial ==
  ASSUME ExchangeInit
  PROVE  ExchangeInv
<1>1. ExchangeTypeInv
  <2>1. calls \in [CallMethods -> CallStates]
    BY DEF ExchangeInit, CallStates
  <2>2. frames \in Seq(Frame) /\ task \in Seq(Task) /\ Len(task) = Len(frames)
        /\ completions \in Seq(Nat)
    BY DEF ExchangeInit
  <2>3. plan \in Plans /\ lifecycle \in Lifecycles
    BY DEF ExchangeInit, Lifecycles
  <2>4. quit \in BOOLEAN /\ completionStop \in BOOLEAN
    BY DEF ExchangeInit
  <2>5. /\ session = 0 /\ handlerPool = 0 /\ nextRoute = 1 /\ loop = 0
    BY DEF ExchangeInit, Off
  <2> QED
    BY <2>1, <2>2, <2>3, <2>4, <2>5 DEF ExchangeTypeInv
<1>2. TasksGood /\ DeferredOnce
  BY DEF ExchangeInit, TasksGood, DeferredOnce, Off
<1>3. PoolOfSession
  BY DEF ExchangeInit, PoolOfSession
<1>4. CallsReadable
  BY DEF ExchangeInit, CallsReadable
<1> QED
  BY <1>1, <1>2, <1>3, <1>4 DEF ExchangeInv

LEMMA ArriveNext ==
  ASSUME ExchangeInv, plan' = plan, NEW msg \in Inbox, Arrive(msg)
  PROVE  ExchangeInv'
<1> DEFINE t == [stage |-> "received", class |-> "none", out |-> 0, pool |-> 0, sent |-> <<>>]
           f == [msg |-> msg, session |-> session]
<1>0. /\ frames \in Seq(Frame) /\ task \in Seq(Task) /\ Len(task) = Len(frames)
      /\ session \in Nat /\ handlerPool \in Nat
  BY DEF ExchangeInv, ExchangeTypeInv
<1>1. t \in Task /\ f \in Frame /\ f.session = session
  <2> DEFINE none == <<>>
  <2>1. none \in Seq(Answer)
    OBVIOUS
  <2>2. f \in Frame /\ f.session = session
    BY <1>0 DEF Frame
  <2> HIDE DEF none
  <2>3. [stage |-> "received", class |-> "none", out |-> 0, pool |-> 0, sent |-> none] \in Task
    BY <2>1 DEF Task, Stages, Classes
  <2> QED
    BY <2>2, <2>3 DEF none
<1>2. ASSUME NEW p
      PROVE  Good(t, f.session, p)
  BY DEF Good
<1>3. t.stage = "received"
  OBVIOUS
<1>4. /\ frames' = Append(frames, f) /\ task' = Append(task, t)
      /\ UNCHANGED <<lifecycleVars, asyncVars, callVars, nextRoute>>
  BY DEF Arrive
<1> HIDE DEF t, f
<1>5. PICK m \in Nat : m = Len(task)
  BY <1>0
<1>6. /\ frames' \in Seq(Frame) /\ task' \in Seq(Task) /\ Len(task') = Len(frames')
      /\ DOMAIN task' = 1..(m + 1) /\ DOMAIN frames' = 1..(m + 1)
      /\ DOMAIN task = 1..m /\ DOMAIN frames = 1..m
      /\ \A k \in 1..m : task'[k] = task[k] /\ frames'[k] = frames[k]
      /\ task'[m + 1] = t /\ frames'[m + 1] = f
  BY <1>0, <1>1, <1>4, <1>5
<1>7. \A k \in 1..(m + 1) : k \in 1..m \/ k = m + 1
  BY <1>5
<1>8. \A k \in 1..m : k \in 1..(m + 1)
  BY <1>5
<1>9. TasksGood'
  <2> SUFFICES ASSUME NEW k \in 1..(m + 1)
               PROVE  Good(task'[k], frames'[k].session, handlerPool)
    BY <1>4, <1>6 DEF TasksGood, lifecycleVars
  <2>1. CASE k \in 1..m
    BY <1>6, <2>1 DEF ExchangeInv, TasksGood
  <2>2. CASE k = m + 1
    BY <1>2, <1>6, <2>2
  <2> QED
    BY <1>7, <2>1, <2>2
<1>10. DeferredOnce'
  BY <1>4, <1>6, <1>8 DEF ExchangeInv, DeferredOnce, asyncVars
<1>11. PoolOfSession'
  <2>1. \A k \in DOMAIN frames' : k \in DOMAIN frames \/ frames'[k].session = session
    BY <1>1, <1>6, <1>7
  <2> QED
    BY <1>4, <1>6, <2>1 DEF ExchangeInv, PoolOfSession, lifecycleVars
<1>12. ExchangeTypeInv'
  BY <1>4, <1>6 DEF ExchangeInv, ExchangeTypeInv, lifecycleVars, asyncVars, callVars
<1>13. CallsReadable'
  BY <1>4 DEF ExchangeInv, CallsReadable, callVars
<1> QED
  BY <1>9, <1>10, <1>11, <1>12, <1>13 DEF ExchangeInv

\* The pools are replaced or joined: some frames are abandoned.
LEMMA Abandoned ==
  ASSUME ExchangeInv, NEW some \in SUBSET (Stages \ {"taken", "running", "deferred"}),
         NEW pool, pool = 0 \/ "posted" \in some,
         handlerPool' = pool,
         task' = [n \in DOMAIN task |-> IF task[n].stage \in some
                                        THEN [task[n] EXCEPT !.stage = "gone"] ELSE task[n]],
         UNCHANGED <<frames, completions, loop>>
  PROVE  /\ task' \in Seq(Task) /\ Len(task') = Len(frames)
         /\ TasksGood' /\ DeferredOnce'
<1>1. ASSUME NEW n \in DOMAIN task
      PROVE  /\ task'[n] \in Task
             /\ Good(task'[n], frames[n].session, pool)
             /\ task[n].stage = "deferred" => task'[n].stage = "deferred"
  <2>0. /\ task[n] \in Task /\ task[n].stage \in Stages
        /\ Good(task[n], frames[n].session, handlerPool)
    BY TaskFields
  <2>1. CASE task[n].stage \in some
    <3>1. task'[n] = [task[n] EXCEPT !.stage = "gone"]
      BY <2>1
    <3>2. /\ task'[n] \in Task /\ task'[n].stage = "gone" /\ task'[n].sent = task[n].sent
          /\ task'[n].class = task[n].class
      BY <2>0, <3>1 DEF Task, Stages
    <3> QED
      BY <2>0, <2>1, <3>2 DEF Good
  <2>2. CASE task[n].stage \notin some
    <3>1. task'[n] = task[n]
      BY <2>2
    <3> QED
      BY <2>0, <2>2, <3>1 DEF Good
  <2> QED
    BY <2>1, <2>2
<1>2. task \in Seq(Task) /\ Len(task) = Len(frames) /\ Len(frames) \in Nat
  BY DEF ExchangeInv, ExchangeTypeInv
<1>3. DOMAIN task' = DOMAIN task /\ DOMAIN task = 1..Len(frames)
  BY <1>2
<1>4. task' \in [1..Len(frames) -> Task]
  BY <1>1, <1>3
<1>5. task' \in Seq(Task) /\ Len(task') = Len(frames)
  BY <1>2, <1>3, <1>4
<1>6. TasksGood'
  BY <1>1, <1>3 DEF TasksGood
<1>7. DeferredOnce'
  BY <1>1, <1>3 DEF ExchangeInv, DeferredOnce
<1> QED
  BY <1>5, <1>6, <1>7

LEMMA LoopNext ==
  ASSUME ExchangeInv, plan' = plan, LoopStep
  PROVE  ExchangeInv'
<1>0. completions \in Seq(Nat) /\ loop \in Int
  BY DEF ExchangeInv, ExchangeTypeInv
<1>1. CASE LoopTakes
  <2>1. /\ UNCHANGED <<lifecycleVars, completionStop, callVars, frames, task, nextRoute>>
        /\ loop = Idle /\ completions # <<>>
        /\ loop' = Head(completions) /\ completions' = Tail(completions)
    BY <1>1 DEF LoopTakes
  <2>2. PICK m \in Nat : m = Len(completions) - 1
    BY <1>0, <2>1
  <2>3. /\ DOMAIN completions = 1..(m + 1) /\ DOMAIN completions' = 1..m
        /\ completions' \in Seq(Nat) /\ loop' = completions[1]
        /\ \A i \in 1..m : completions'[i] = completions[i + 1]
    BY <1>0, <2>1, <2>2
  <2>4. 1 \in 1..(m + 1) /\ \A i \in 1..m : i + 1 \in 1..(m + 1) /\ i + 1 # 1
    BY <2>2
  <2>d. /\ \A i \in 1..(m + 1) :
             completions[i] \in DOMAIN task /\ task[completions[i]].stage = "deferred"
        /\ \A i, j \in 1..(m + 1) : completions[i] = completions[j] => i = j
    BY <2>3 DEF ExchangeInv, DeferredOnce
  <2>5. /\ loop' \in DOMAIN task /\ task[loop'].stage = "deferred"
        /\ \A i \in DOMAIN completions' :
             /\ completions'[i] \in DOMAIN task /\ task[completions'[i]].stage = "deferred"
             /\ completions'[i] # loop'
    BY <2>3, <2>4, <2>d
  <2>6. \A i, j \in DOMAIN completions' : completions'[i] = completions'[j] => i = j
    <3> SUFFICES ASSUME NEW i \in 1..m, NEW j \in 1..m, completions'[i] = completions'[j]
                 PROVE  i = j
      BY <2>3
    <3>1. i + 1 = j + 1
      BY <2>3, <2>4, <2>d
    <3> QED
      BY <2>2, <3>1
  <2>7. DeferredOnce'
    BY <2>1, <2>5, <2>6 DEF DeferredOnce
  <2>8. ExchangeTypeInv'
    <3>1. loop' \in Int
      BY <2>5 DEF ExchangeInv, ExchangeTypeInv
    <3> QED
      BY <2>1, <2>3, <3>1 DEF ExchangeInv, ExchangeTypeInv, lifecycleVars, callVars
  <2> QED
    BY <2>1, <2>7, <2>8 DEF ExchangeInv, TasksGood, PoolOfSession, CallsReadable, lifecycleVars,
                            callVars
<1>2. CASE LoopCompletes
  <2>0. PICK n \in DOMAIN task : n = loop /\ n > 0
    BY <1>2 DEF LoopCompletes, ExchangeInv, DeferredOnce
  <2> DEFINE answer == Sent(n, task[n].out, FALSE)
             t == [task[n] EXCEPT !.stage = "gone", !.sent = answer]
  <2>1. /\ task[n] \in Task /\ Good(task[n], frames[n].session, handlerPool)
        /\ task[n].out \in Nat /\ task[n].stage = "deferred"
    BY <2>0, TaskFields DEF ExchangeInv, DeferredOnce
  <2>2. /\ answer \in Seq(Answer) /\ Len(answer) <= 1
        /\ \A i \in DOMAIN answer : answer[i] = [on |-> task[n].out, early |-> FALSE]
    BY <2>1, SentOnce
  <2>3. /\ task' = [task EXCEPT ![n] = t] /\ loop' = Idle
        /\ UNCHANGED <<lifecycleVars, completions, completionStop, callVars, frames, nextRoute>>
    BY <1>2, <2>0 DEF LoopCompletes, getSessionOutputState
  <2> HIDE DEF answer
  <2>4. t \in Task
    BY <2>1, <2>2 DEF Task, Stages
  <2>5. t.stage = "gone" /\ t.sent = answer /\ t.class = task[n].class /\ t.out = task[n].out
    BY <2>1 DEF Task
  <2> HIDE DEF t
  <2>6. Good(t, frames[n].session, handlerPool)
    <3>1. \A i \in DOMAIN answer : answer[i].on = frames[n].session
      BY <2>1, <2>2 DEF Good
    <3> QED
      BY <2>1, <2>2, <2>5, <3>1 DEF Good
  <2>7. /\ task' \in Seq(Task) /\ Len(task') = Len(task) /\ DOMAIN task' = DOMAIN task
        /\ \A k \in DOMAIN task : k # n => task'[k] = task[k]
        /\ TasksGood'
    BY <2>3, <2>4, <2>6, TaskUpdated DEF lifecycleVars
  <2>8. DeferredOnce'
    <3>1. \A i \in DOMAIN completions :
            /\ completions[i] \in DOMAIN task' /\ task'[completions[i]].stage = "deferred"
            /\ completions[i] \in Nat
      BY <1>0, <2>0, <2>7 DEF ExchangeInv, DeferredOnce
    <3>2. \A i \in DOMAIN completions : completions[i] # Idle
      BY <3>1 DEF Idle
    <3>3. ~(Idle > 0)
      BY DEF Idle
    <3> QED
      BY <2>3, <3>1, <3>2, <3>3 DEF ExchangeInv, DeferredOnce
  <2>9. ExchangeTypeInv'
    BY <2>3, <2>7 DEF ExchangeInv, ExchangeTypeInv, lifecycleVars, callVars, Idle
  <2> QED
    BY <2>3, <2>7, <2>8, <2>9 DEF ExchangeInv, PoolOfSession, CallsReadable, lifecycleVars,
                                  callVars
<1>3. CASE LoopRequeues \/ LoopExits
  <2>1. /\ UNCHANGED <<lifecycleVars, completionStop, callVars, frames, task, nextRoute>>
        /\ loop' \in {Off, Idle}
        /\ \/ completions' = completions
           \/ loop > 0 /\ completions' = Append(completions, loop)
    BY <1>3 DEF LoopRequeues, LoopExits
  <2>2. loop' \in Int /\ ~(loop' > 0)
    BY <2>1 DEF Off, Idle
  <2>3. \A k \in DOMAIN task : k # loop'
    BY <2>1, TaskFields DEF Off, Idle
  <2>4. DeferredOnce' /\ completions' \in Seq(Nat)
    <3>1. CASE completions' = completions
      BY <1>0, <2>1, <2>2, <2>3, <3>1 DEF ExchangeInv, DeferredOnce
    <3>2. CASE loop > 0 /\ completions' = Append(completions, loop)
      <4>0. loop \in Nat
        BY <1>0, <3>2
      <4>1. /\ DOMAIN completions' = 1..(Len(completions) + 1)
            /\ DOMAIN completions = 1..Len(completions) /\ Len(completions) \in Nat
            /\ \A i \in 1..Len(completions) : completions'[i] = completions[i]
            /\ completions'[Len(completions) + 1] = loop
            /\ completions' \in Seq(Nat)
        BY <1>0, <3>2, <4>0
      <4>2. \A i \in DOMAIN completions' :
              i \in DOMAIN completions \/ i = Len(completions) + 1
        BY <4>1
      <4>3. \A i \in DOMAIN completions' :
              /\ completions'[i] \in DOMAIN task /\ task[completions'[i]].stage = "deferred"
        BY <3>2, <4>1, <4>2 DEF ExchangeInv, DeferredOnce
      <4>4. \A i, j \in DOMAIN completions' : completions'[i] = completions'[j] => i = j
        BY <4>1, <4>2 DEF ExchangeInv, DeferredOnce
      <4> QED
        BY <2>1, <2>2, <2>3, <4>1, <4>3, <4>4 DEF DeferredOnce
    <3> QED
      BY <2>1, <3>1, <3>2
  <2>5. ExchangeTypeInv'
    BY <2>1, <2>2, <2>4 DEF ExchangeInv, ExchangeTypeInv, lifecycleVars, callVars
  <2> QED
    BY <2>1, <2>4, <2>5 DEF ExchangeInv, TasksGood, PoolOfSession, CallsReadable, lifecycleVars,
                            callVars
<1> QED
  BY <1>1, <1>2, <1>3 DEF LoopStep

\* The steps of a start or a stop that leave the frames alone.
LEMMA LifecycleKeeps ==
  ASSUME ExchangeInv, plan' = plan,
         StartBegin \/ StartSession \/ StopBegin \/ StopOutput \/ StopCalls \/ StopCompletions
  PROVE  ExchangeInv'
<1>0. session \in Nat /\ completions \in Seq(Nat)
  BY DEF ExchangeInv, ExchangeTypeInv
<1>1. /\ UNCHANGED <<handlerPool, frames, task, nextRoute, responseParsers>>
      /\ completions' \in {completions, <<>>}
      /\ loop' \in {loop, Idle}
  BY DEF StartBegin, StartSession, StopBegin, StopOutput, StopCalls, StopCompletions, asyncVars,
         callVars
<1>2. TasksGood'
  BY <1>1 DEF ExchangeInv, TasksGood
<1>3. DeferredOnce'
  <2>1. ~(Idle > 0) /\ \A k \in DOMAIN task : k # Idle
    BY TaskFields DEF Idle
  <2>2. CASE completions' = completions
    BY <1>1, <2>1, <2>2 DEF ExchangeInv, DeferredOnce
  <2>3. CASE completions' = <<>>
    <3>1. DOMAIN completions' = {}
      BY <2>3
    <3> QED
      BY <1>1, <2>1, <3>1 DEF ExchangeInv, DeferredOnce
  <2> QED
    BY <1>1, <2>2, <2>3
<1>4. /\ calls' \in [CallMethods -> CallStates]
      /\ \A m \in CallMethods : calls'[m] = calls[m] \/ calls'[m] = "failed"
  <2>1. \/ calls' = calls
        \/ calls' = [m \in CallMethods |-> IF calls[m] = "pending" THEN "failed" ELSE calls[m]]
    BY DEF StartBegin, StartSession, StopBegin, StopOutput, StopCalls, StopCompletions, callVars
  <2>2. calls \in [CallMethods -> CallStates]
    BY DEF ExchangeInv, ExchangeTypeInv
  <2> QED
    BY <2>1, <2>2 DEF CallStates
<1>5. CallsReadable'
  BY <1>1, <1>4 DEF ExchangeInv, CallsReadable
<1>6. ExchangeTypeInv'
  <2>1. lifecycle' \in Lifecycles
    BY DEF StartBegin, StartSession, StopBegin, StopOutput, StopCalls, StopCompletions, Lifecycles
  <2>2. quit' \in BOOLEAN
    BY DEF StartBegin, StartSession, StopBegin, StopOutput, StopCalls, StopCompletions,
           ExchangeInv, ExchangeTypeInv
  <2>3. completionStop' \in BOOLEAN
    BY DEF StartBegin, StartSession, StopBegin, StopOutput, StopCalls, StopCompletions, asyncVars,
           ExchangeInv, ExchangeTypeInv
  <2>4. session' = session \/ session' = session + 1
    BY DEF StartBegin, StartSession, StopBegin, StopOutput, StopCalls, StopCompletions
  <2>5. session' \in Nat
    BY <1>0, <2>4
  <2>6. completions' \in Seq(Nat)
    <3>1. CASE completions' = <<>>
      BY <3>1
    <3> QED
      BY <1>0, <1>1, <3>1
  <2>7. loop' \in Int
    BY <1>1 DEF Idle, ExchangeInv, ExchangeTypeInv
  <2> QED
    BY <1>1, <1>4, <2>1, <2>2, <2>3, <2>5, <2>6, <2>7 DEF ExchangeInv, ExchangeTypeInv
<1>7. PoolOfSession'
  <2>1. CASE StartSession
    <3>1. session + 1 # 0
      BY <1>0
    <3> QED
      BY <1>1, <2>1, <3>1 DEF StartSession, ExchangeInv, PoolOfSession
  <2>2. CASE ~StartSession
    <3>1. session' = session
      BY <2>2 DEF StartBegin, StopBegin, StopOutput, StopCalls, StopCompletions
    <3> QED
      BY <1>1, <2>2, <3>1 DEF StartBegin, StopBegin, StopOutput, StopCalls, StopCompletions,
                              ExchangeInv, PoolOfSession
  <2> QED
    BY <2>1, <2>2
<1> QED
  BY <1>2, <1>3, <1>5, <1>6, <1>7 DEF ExchangeInv

\* The pools are created, or joined and dropped.
LEMMA PoolsNext ==
  ASSUME ExchangeInv, plan' = plan, StartPools \/ StopPools
  PROVE  ExchangeInv'
<1>0. session \in Nat /\ frames \in Seq(Frame) /\ Len(frames) \in Nat /\ DOMAIN frames = 1..Len(frames)
  BY DEF ExchangeInv, ExchangeTypeInv
<1>1. CASE StartPools
  <2>1. /\ lifecycle = "pools" /\ lifecycle' = "running" /\ handlerPool' = session
        /\ nextRoute' = Len(frames) + 1
        /\ UNCHANGED <<quit, session, asyncVars, callVars, frames>>
    BY <1>1 DEF StartPools
  <2> DEFINE some == {"parsed", "posted"}
  <2>2. /\ some \in SUBSET (Stages \ {"taken", "running", "deferred"}) /\ "posted" \in some
        /\ task' = [n \in DOMAIN task |-> IF task[n].stage \in some
                                          THEN [task[n] EXCEPT !.stage = "gone"] ELSE task[n]]
    BY <1>1 DEF StartPools, Stages
  <2> HIDE DEF some
  <2>3. task' \in Seq(Task) /\ Len(task') = Len(frames) /\ TasksGood' /\ DeferredOnce'
    BY <2>1, <2>2, Abandoned DEF asyncVars
  <2>4. ExchangeTypeInv'
    <3>1. nextRoute' \in Nat \ {0} /\ lifecycle' \in Lifecycles
      BY <1>0, <2>1 DEF Lifecycles
    <3> QED
      BY <1>0, <2>1, <2>3, <3>1 DEF ExchangeInv, ExchangeTypeInv, asyncVars, callVars
  <2>5. PoolOfSession'
    <3>1. session # 0
      BY <2>1 DEF ExchangeInv, PoolOfSession
    <3>2. \A n \in DOMAIN frames' : ~(n >= nextRoute')
      BY <1>0, <2>1
    <3> QED
      BY <2>1, <3>1, <3>2 DEF PoolOfSession
  <2> QED
    BY <2>1, <2>3, <2>4, <2>5 DEF ExchangeInv, CallsReadable, callVars
<1>2. CASE StopPools
  <2>1. /\ lifecycle' = "idle" /\ handlerPool' = 0
        /\ UNCHANGED <<quit, session, asyncVars, callVars, frames, nextRoute>>
    BY <1>2 DEF StopPools
  <2> DEFINE some == {"received", "posted"}
  <2>2. /\ some \in SUBSET (Stages \ {"taken", "running", "deferred"})
        /\ task' = [n \in DOMAIN task |-> IF task[n].stage \in some
                                          THEN [task[n] EXCEPT !.stage = "gone"] ELSE task[n]]
    BY <1>2 DEF StopPools, Stages
  <2> HIDE DEF some
  <2>3. task' \in Seq(Task) /\ Len(task') = Len(frames) /\ TasksGood' /\ DeferredOnce'
    BY <2>1, <2>2, Abandoned DEF asyncVars
  <2>4. ExchangeTypeInv'
    <3>1. lifecycle' \in Lifecycles
      BY <2>1 DEF Lifecycles
    <3> QED
      BY <2>1, <2>3, <3>1 DEF ExchangeInv, ExchangeTypeInv, asyncVars, callVars
  <2>5. PoolOfSession'
    BY <2>1 DEF PoolOfSession
  <2> QED
    BY <2>1, <2>3, <2>4, <2>5 DEF ExchangeInv, CallsReadable, callVars
<1> QED
  BY <1>1, <1>2

LEMMA CallNext ==
  ASSUME ExchangeInv, plan' = plan, NEW m \in CallMethods,
         ensureResponseJsonHandler(m) \/ internalSendRequest(m)
  PROVE  ExchangeInv'
<1>1. /\ UNCHANGED <<lifecycleVars, asyncVars, frames, task, nextRoute>>
      /\ calls \in [CallMethods -> CallStates]
  BY DEF ensureResponseJsonHandler, internalSendRequest, ExchangeInv, ExchangeTypeInv
<1>2. PICK c \in {"ensured", "refused", "pending"} :
        /\ calls' = [calls EXCEPT ![m] = c]
        /\ c = "ensured" => m \in responseParsers'
        /\ c = "pending" => calls[m] = "ensured"
        /\ responseParsers \subseteq responseParsers'
  BY DEF ensureResponseJsonHandler, internalSendRequest
<1>3. /\ calls' \in [CallMethods -> CallStates] /\ calls'[m] = c
      /\ \A k \in CallMethods : k # m => calls'[k] = calls[k]
  BY <1>1, <1>2 DEF CallStates
<1>4. CallsReadable'
  BY <1>2, <1>3 DEF ExchangeInv, CallsReadable
<1>5. ExchangeTypeInv'
  BY <1>1, <1>3 DEF ExchangeInv, ExchangeTypeInv, lifecycleVars, asyncVars
<1> QED
  BY <1>1, <1>4, <1>5 DEF ExchangeInv, TasksGood, DeferredOnce, PoolOfSession, lifecycleVars,
                          asyncVars

LEMMA ExchangeStep ==
  ASSUME ExchangeInv, [ExchangeNext]_exchangeVars
  PROVE  ExchangeInv'
<1>0. plan' = plan
  BY DEF ExchangeNext, exchangeVars
<1>1. plan \in Plans
  BY DEF ExchangeInv, ExchangeTypeInv
<1>2. ASSUME NEW msg \in plan.inbox, Arrive(msg)
      PROVE  ExchangeInv'
  <2>1. msg \in Inbox
    BY <1>1 DEF Inbox
  <2> QED
    BY <1>0, <1>2, <2>1, ArriveNext
<1>3. ASSUME NEW m \in Pending, Arrive(Reply(m))
      PROVE  ExchangeInv'
  <2>1. m \in CallMethods
    BY DEF Pending
  <2>2. Reply(m) \in Replies
    BY <2>1 DEF Replies
  <2>3. Reply(m) \in Inbox
    BY <2>2 DEF Inbox
  <2> QED
    BY <1>0, <1>3, <2>3, ArriveNext
<1>4. ASSUME NEW m \in plan.calls, ensureResponseJsonHandler(m) \/ internalSendRequest(m)
      PROVE  ExchangeInv'
  <2>1. plan.calls \subseteq CallMethods
    BY <1>1, ExchangeAssumption, Zenon
  <2> QED
    BY <1>0, <1>4, <2>1, CallNext
<1>5. CASE LifecycleStep \/ StartBegin \/ StopBegin
  BY <1>0, <1>5, LifecycleKeeps, PoolsNext DEF LifecycleStep
<1>6. CASE OutputBreaks \/ UNCHANGED exchangeVars
  BY <1>0, <1>6 DEF OutputBreaks, exchangeVars, ExchangeInv, ExchangeTypeInv, TasksGood,
                    DeferredOnce, PoolOfSession, CallsReadable, lifecycleVars, asyncVars, callVars
<1> QED
  BY <1>0, <1>2, <1>3, <1>4, <1>5, <1>6, FrameStepNext, LoopNext DEF ExchangeNext

\* Whatever the handlers do and however often the endpoint is stopped and
\* started, no request is answered twice.
THEOREM AnsweredAtMostOnce == ExchangeSpec => []AnsweredOnce
<1>1. ExchangeInv => AnsweredOnce
  BY DEF ExchangeInv, TasksGood, Good, AnsweredOnce
<1> QED
  BY <1>1, ExchangeInitial, ExchangeStep, PTL DEF ExchangeSpec

\* A handler's answer never leaves the session its request came from.
THEOREM HandlersAnswerAsker == ExchangeSpec => []AnswersStayInSession
<1>1. ExchangeInv => AnswersStayInSession
  BY DEF ExchangeInv, TasksGood, Good, AnswersStayInSession
<1> QED
  BY <1>1, ExchangeInitial, ExchangeStep, PTL DEF ExchangeSpec

\* The reply to a call that was sent finds a parser.
THEOREM RepliesFindParser == ExchangeSpec => []RepliesUnderstood
<1>1. ExchangeInv => RepliesUnderstood
  BY DEF ExchangeInv, CallsReadable, RepliesUnderstood
<1> QED
  BY <1>1, ExchangeInitial, ExchangeStep, PTL DEF ExchangeSpec
=============================================================================
