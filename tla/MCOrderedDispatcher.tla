------------------------ MODULE MCOrderedDispatcher ------------------------
(***************************************************************************)
(* The setups for which TLC checks OrderedDispatcher.                      *)
(***************************************************************************)
EXTENDS OrderedDispatcher

\* The application stops and restarts; full queues drop messages.
Restarts ==
  [sessions |-> 2, maxNotificationQueueSize |-> 2, maxParkedRequests |-> 1,
   overloadPolicy |-> "DropNewest", handlersStop |-> FALSE]

\* One session that handlers and full queues stop.
HandlersStopOnce ==
  [sessions |-> 1, maxNotificationQueueSize |-> 1, maxParkedRequests |-> 1,
   overloadPolicy |-> "StopProcessing", handlersStop |-> TRUE]

AllSetups == {Restarts, HandlersStopOnce}

\* A notification handler stops and restarts the endpoint.
HandlerRestarts ==
  {[Restarts EXCEPT !.handlersStop = TRUE, !.maxNotificationQueueSize = 0]}
=============================================================================
