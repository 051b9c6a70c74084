----------------------- MODULE MCCancellationRegistry -----------------------
(***************************************************************************)
(* The setups for which TLC checks CancellationRegistry.                   *)
(***************************************************************************)
EXTENDS CancellationRegistry

Peer(when, limit, async) ==
  [pendingLimit |-> limit, seenLimit |-> limit, async |-> async, reuseAfter |-> when]

\* A peer that follows the protocol, without and with limits, one that waits
\* longer than it has to, and one that waits for nothing.
AllSetups ==
  {Peer("answered", 0, TRUE), Peer("answered", 1, TRUE), Peer("done", 0, TRUE),
   Peer("received", 1, FALSE)}

WaitingPeer == {Peer("answered", 0, FALSE)}

EagerPeer == {Peer("received", 0, TRUE)}
=============================================================================
