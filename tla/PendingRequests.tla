--------------------------- MODULE PendingRequests ---------------------------
(***************************************************************************)
(* Requests the endpoint sends: the table of pending requests, the capture *)
(* of the pending entry while a response is parsed, the two ways of        *)
(* completing a request (at once in the routing path, or by a callback on  *)
(* the handler pool), time-outs of blocking waits, and stop().             *)
(*                                                                         *)
(* A call is one use of send() or waitResponse().  Ids assigned by the     *)
(* endpoint and ids chosen by the application share the numbers 0..MaxId.  *)
(***************************************************************************)
EXTENDS Integers, FiniteSets, Sequences, Functions

CONSTANTS
  Calls,           \* uses of send() and waitResponse()
  Nobody,          \* owner of a mutex that is free
  MaxId,           \* bound: request ids are 0..MaxId
  MaxReplies,      \* bound: responses the peer sends
  Setups           \* the endpoints and applications to consider

RequestIds == 0..MaxId

(***************************************************************************)
(* A setup: the limit max_pending_outgoing_requests of the endpoint (0     *)
(* means no limit), and how the application sends: whether requests leave  *)
(* the id to the endpoint, come with an id, use the callback API, or are   *)
(* blocking waits with a time-out.                                         *)
(***************************************************************************)
Setup ==
  [maxPending : Nat, autoIds : BOOLEAN, chosenIds : BOOLEAN,
   callbacks : BOOLEAN, timeouts : BOOLEAN]

ASSUME PendingAssumption ==
  /\ Nobody \notin Calls
  /\ MaxId \in Nat
  /\ MaxReplies \in Nat
  /\ Setups \subseteq Setup

VARIABLES
  setup,        \* d_ptr->limits, and the application
  quitting,     \* d_ptr->quit
  outputActive, \* session_output_state->active
  output,       \* session_output_state->output is set
  sendMutex,    \* owner of m_sendMutex
  stage,        \* how far stop() has come
  nextId,       \* m_id
  table,        \* _client_request_futures: id to call
  call,         \* each call: where it stands, its id, and how it completes
  replies,      \* responses the peer has sent and the endpoint not parsed
  repliesSent,  \* history: number of responses the peer has sent
  captured,     \* parsed responses: an id and the pending entry found for it
  removed,      \* calls the router has taken out of table, not completed yet
  posted,       \* calls whose callback waits in the handler pool
  outcome       \* how each call was completed: "none", "response", "stopped"

stopVars == <<quitting, outputActive, output, stage>>
replyVars == <<replies, repliesSent, captured>>
pendingVars == <<setup, stopVars, sendMutex, nextId, table, call, replyVars, removed,
                 posted, outcome>>

\* The id of a request that leaves it to the endpoint.
Unassigned == -1

NewCall == [at |-> "new", id |-> Unassigned, deferred |-> FALSE]

PendingInit ==
  /\ setup \in Setups
  /\ quitting = FALSE
  /\ outputActive = TRUE
  /\ output = TRUE
  /\ sendMutex = Nobody
  /\ stage = "working"
  /\ nextId = 0
  /\ table = [i \in {} |-> Nobody]
  /\ call = [c \in Calls |-> NewCall]
  /\ replies = {}
  /\ repliesSent = 0
  /\ captured = {}
  /\ removed = {}
  /\ posted = {}
  /\ outcome = [c \in Calls |-> "none"]

Erased(f, x) == Restrict(f, DOMAIN f \ {x})
Inserted(f, x, v) == [y \in DOMAIN f \cup {x} |-> IF y = x THEN v ELSE f[y]]

MoveTo(c, where) == call' = [call EXCEPT ![c].at = where]

\* PendingRequestInfo::complete: the first outcome counts.
CompletedAs(cs, how) ==
  [c \in Calls |-> IF c \in cs /\ outcome[c] = "none" THEN how ELSE outcome[c]]

-----------------------------------------------------------------------------
(***************************************************************************)
(* internalSendRequestWithPolicy, under m_sendMutex.  An application that  *)
(* waits with a time-out does not use the id of a wait again before that   *)
(* wait has returned.                                                      *)
(***************************************************************************)
StillWaits(id) ==
  /\ setup.timeouts
  /\ \E c \in Calls : /\ call[c].id = id
                     /\ \/ call[c].at = "expiring"
                        \/ call[c].at = "sent" /\ outcome[c] = "none"

SendBegin(c, id, deferred) ==
  /\ call[c].at = "new"
  /\ sendMutex = Nobody
  /\ IF id = Unassigned THEN setup.autoIds ELSE setup.chosenIds /\ ~StillWaits(id)
  /\ deferred => setup.callbacks
  /\ IF outputActive /\ output
     THEN /\ sendMutex' = c
          /\ call' = [call EXCEPT ![c] = [at |-> "checked", id |-> id,
                                          deferred |-> deferred]]
     ELSE /\ MoveTo(c, "refused")
          /\ UNCHANGED sendMutex
  /\ UNCHANGED <<setup, stopVars, nextId, table, replyVars, removed, posted, outcome>>

Duplicate(id) == id # Unassigned /\ id \in DOMAIN table

TableFull == setup.maxPending # 0 /\ Cardinality(DOMAIN table) >= setup.maxPending

\* pendingRequest: an id is assigned if the request has none.
PendingRequest(c) ==
  /\ call[c].at = "checked"
  /\ nextId <= MaxId
  /\ IF TableFull \/ Duplicate(call[c].id)
     THEN /\ MoveTo(c, "refused")
          /\ sendMutex' = Nobody
          /\ UNCHANGED <<nextId, table>>
     ELSE LET id == IF call[c].id = Unassigned THEN nextId ELSE call[c].id
          IN  /\ nextId' = IF call[c].id = Unassigned THEN nextId + 1 ELSE nextId
              /\ table' = Inserted(table, id, c)
              /\ call' = [call EXCEPT ![c].at = "pending", ![c].id = id]
              /\ UNCHANGED sendMutex
  /\ UNCHANGED <<setup, stopVars, replyVars, removed, posted, outcome>>

WriteRequest(c) ==
  /\ call[c].at = "pending"
  /\ sendMutex' = Nobody
  /\ MoveTo(c, "sent")
  /\ UNCHANGED <<setup, stopVars, nextId, table, replyVars, removed, posted, outcome>>

\* removeRequestInfo(id, expected)
IsPending(id, c) == id \in DOMAIN table /\ table[id] = c

\* WriterMsg throws: the entry is taken back and send() throws.
WriteFails(c) ==
  /\ call[c].at = "pending"
  /\ sendMutex' = Nobody
  /\ table' = IF IsPending(call[c].id, c) THEN Erased(table, call[c].id) ELSE table
  /\ MoveTo(c, "refused")
  /\ UNCHANGED <<setup, stopVars, nextId, replyVars, removed, posted, outcome>>

-----------------------------------------------------------------------------
(***************************************************************************)
(* The peer answers a request it has received, perhaps twice, and the      *)
(* parse pool captures the entry that is pending under the id.             *)
(***************************************************************************)
PeerReplies(c) ==
  /\ call[c].at \in {"pending", "sent", "expiring", "expired"}
  /\ repliesSent < MaxReplies
  /\ repliesSent' = repliesSent + 1
  /\ replies' = replies \cup {<<repliesSent + 1, call[c].id>>}
  /\ UNCHANGED <<setup, stopVars, sendMutex, nextId, table, call, captured, removed,
                 posted, outcome>>

ParseReply(reply) ==
  /\ reply \in replies
  /\ replies' = replies \ {reply}
  /\ captured' = IF reply[2] \in DOMAIN table
                 THEN captured \cup {<<reply[1], reply[2], table[reply[2]]>>}
                 ELSE captured
  /\ UNCHANGED <<setup, stopVars, sendMutex, nextId, table, call, repliesSent, removed,
                 posted, outcome>>

(***************************************************************************)
(* routeParsedIncoming and completePendingResponse: the entry must still   *)
(* be the one that was captured.                                           *)
(***************************************************************************)
RouteDropped(m) ==
  /\ m \in captured
  /\ removed = {}
  /\ quitting \/ ~IsPending(m[2], m[3])
  /\ captured' = captured \ {m}
  /\ UNCHANGED <<setup, stopVars, sendMutex, nextId, table, call, replies, repliesSent,
                 removed, posted, outcome>>

\* Slip: whatever is pending under the id is removed.
RouteReplyById(m) ==
  /\ m \in captured
  /\ removed = {}
  /\ ~quitting
  /\ captured' = captured \ {m}
  /\ table' = Erased(table, m[2])
  /\ removed' = {m[3]}
  /\ UNCHANGED <<setup, stopVars, sendMutex, nextId, call, replies, repliesSent, posted,
                 outcome>>

RouteReply(m) ==
  /\ m \in captured
  /\ removed = {}
  /\ ~quitting
  /\ IsPending(m[2], m[3])
  /\ captured' = captured \ {m}
  /\ table' = Erased(table, m[2])
  /\ removed' = {m[3]}
  /\ UNCHANGED <<setup, stopVars, sendMutex, nextId, call, replies, repliesSent, posted,
                 outcome>>

\* Slip: only callbacks are completed.
DeliverDeferred(c) ==
  /\ c \in removed
  /\ removed' = {}
  /\ posted' = IF call[c].deferred /\ ~quitting THEN posted \cup {c} ELSE posted
  /\ UNCHANGED <<setup, stopVars, sendMutex, nextId, table, call, replyVars, outcome>>

\* A future or a blocking wait is completed at once; a callback goes to the
\* handler pool, unless the endpoint is stopping by now.
Deliver(c) ==
  /\ c \in removed
  /\ removed' = {}
  /\ IF call[c].deferred
     THEN /\ posted' = IF quitting THEN posted ELSE posted \cup {c}
          /\ UNCHANGED outcome
     ELSE /\ outcome' = CompletedAs({c}, "response")
          /\ UNCHANGED posted
  /\ UNCHANGED <<setup, stopVars, sendMutex, nextId, table, call, replyVars>>

RunCallback(c) ==
  /\ c \in posted
  /\ posted' = posted \ {c}
  /\ outcome' = CompletedAs({c}, "response")
  /\ UNCHANGED <<setup, stopVars, sendMutex, nextId, table, call, replyVars, removed>>

-----------------------------------------------------------------------------
(***************************************************************************)
(* A blocking wait gives up and removes the entry by its id.               *)
(***************************************************************************)
WaitTimesOut(c) ==
  /\ setup.timeouts
  /\ call[c].at = "sent" /\ ~call[c].deferred
  /\ outcome[c] = "none"
  /\ MoveTo(c, "expiring")
  /\ UNCHANGED <<setup, stopVars, sendMutex, nextId, table, replyVars, removed,
                 posted, outcome>>

RemoveExpired(c) ==
  /\ call[c].at = "expiring"
  /\ table' = Erased(table, call[c].id)
  /\ MoveTo(c, "expired")
  /\ UNCHANGED <<setup, stopVars, sendMutex, nextId, replyVars, removed, posted,
                 outcome>>

-----------------------------------------------------------------------------
(***************************************************************************)
(* clear(), as far as outgoing requests are concerned.                     *)
(***************************************************************************)
StopQuit ==
  /\ stage = "working"
  /\ quitting' = TRUE
  /\ stage' = "routing"
  /\ UNCHANGED <<setup, outputActive, output, sendMutex, nextId, table, call, replyVars,
                 removed, posted, outcome>>

\* clearMessageRouting waits for the router; then active is cleared.
StopActive ==
  /\ stage = "routing"
  /\ removed = {}
  /\ outputActive' = FALSE
  /\ stage' = "output"
  /\ UNCHANGED <<setup, quitting, output, sendMutex, nextId, table, call, replyVars,
                 removed, posted, outcome>>

\* Slip: the output is dropped without waiting for a send in progress.
StopSendsUnlocked ==
  /\ stage = "output"
  /\ output' = FALSE
  /\ stage' = "pending"
  /\ UNCHANGED <<setup, quitting, outputActive, sendMutex, nextId, table, call, replyVars,
                 removed, posted, outcome>>

\* output.reset() under send_mutex: the sends in progress are over.
StopSends ==
  /\ stage = "output"
  /\ sendMutex = Nobody
  /\ output' = FALSE
  /\ stage' = "pending"
  /\ UNCHANGED <<setup, quitting, outputActive, sendMutex, nextId, table, call, replyVars,
                 removed, posted, outcome>>

failPendingRequests ==
  /\ stage = "pending"
  /\ outcome' = CompletedAs(Range(table), "stopped")
  /\ table' = [i \in {} |-> Nobody]
  /\ stage' = "pools"
  /\ UNCHANGED <<setup, quitting, outputActive, output, sendMutex, nextId, call, replyVars,
                 removed, posted>>

\* The handler pool is stopped; its tasks are abandoned.
StopWorkerPools ==
  /\ stage = "pools"
  /\ posted' = {}
  /\ stage' = "stopped"
  /\ UNCHANGED <<setup, quitting, outputActive, output, sendMutex, nextId, table, call,
                 replyVars, removed, outcome>>

-----------------------------------------------------------------------------
Send(c) ==
  \E id \in RequestIds \cup {Unassigned}, deferred \in BOOLEAN : SendBegin(c, id, deferred)

SendSteps(c) == PendingRequest(c) \/ WriteRequest(c)

ReplySteps ==
  \/ \E n \in 1..MaxReplies, id \in RequestIds : ParseReply(<<n, id>>)
  \/ \E n \in 1..MaxReplies, id \in RequestIds, c \in Calls :
       RouteDropped(<<n, id, c>>) \/ RouteReply(<<n, id, c>>)
  \/ \E c \in Calls : Deliver(c)
  \/ \E c \in Calls : RunCallback(c)

StopSteps == StopActive \/ StopSends \/ failPendingRequests \/ StopWorkerPools

PendingNext ==
  \/ \E c \in Calls :
       \/ Send(c)
       \/ SendSteps(c)
       \/ WriteFails(c)
       \/ PeerReplies(c)
       \/ WaitTimesOut(c)
       \/ RemoveExpired(c)
  \/ ReplySteps
  \/ StopQuit
  \/ StopSteps

PendingSpec == PendingInit /\ [][PendingNext]_pendingVars

\* Threads run; the application and the peer do what they like.
PendingFairness ==
  /\ WF_pendingVars(ReplySteps)
  /\ WF_pendingVars(StopSteps)
  /\ \A c \in Calls : WF_pendingVars(SendSteps(c)) /\ WF_pendingVars(RemoveExpired(c))

-----------------------------------------------------------------------------
(***************************************************************************)
(* Properties.                                                             *)
(***************************************************************************)
\* A call whose outcome is still to come.
Open(c) == call[c].at = "sent" /\ outcome[c] = "none"

\* As long as the endpoint works, no call is forgotten: the entry of an open
\* call is in the table, or a response is on its way to it.
NoCallLost ==
  ~quitting => \A c \in Calls :
    Open(c) => IsPending(call[c].id, c) \/ c \in removed \/ c \in posted

\* When stop() returns, every future and every blocking wait has its outcome,
\* also those of a send() that raced with it.
StopFailsFutures ==
  stage = "stopped" => \A c \in Calls : ~call[c].deferred => ~Open(c)

\* A response that found a call pending when it was parsed gets that call
\* completed, unless the endpoint stops, the wait has timed out, or send()
\* itself failed after the peer had seen the request.
CapturedCompletes ==
  \A c \in Calls :
    (\E m \in captured : m[3] = c) ~>
      \/ outcome[c] # "none"
      \/ quitting
      \/ call[c].at \in {"expiring", "expired", "refused"}
=============================================================================
