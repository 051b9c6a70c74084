-------------------------- MODULE MCMessageRouting --------------------------
(***************************************************************************)
(* The setups for which TLC checks MessageRouting.                         *)
(***************************************************************************)
EXTENDS MessageRouting

Unlimited ==
  [sessions |-> 2, frames |-> 3, maxParseQueueSize |-> 0,
   maxReorderBufferSize |-> 0, frameSizeLimited |-> FALSE,
   dispatchLimited |-> FALSE, overloadPolicy |-> "StopProcessing"]

\* One session with every limit in reach: a second frame waits in the reorder
\* buffer, a fourth in the parse queue.
Limited(policy) ==
  [sessions |-> 1, frames |-> 4, maxParseQueueSize |-> 3,
   maxReorderBufferSize |-> 1, frameSizeLimited |-> TRUE,
   dispatchLimited |-> TRUE, overloadPolicy |-> policy]

AllSetups == {Unlimited, Limited("StopProcessing"), Limited("DropNewest")}

\* Only a queue behind the router can overflow.
DispatchSetups ==
  {[Unlimited EXCEPT !.sessions = 1, !.dispatchLimited = TRUE]}
=============================================================================
