------------------------------ MODULE WireQueue ------------------------------
(***************************************************************************)
(* What the inbound pipeline promises to whatever stands behind            *)
(* routeParsedIncoming, with the threads, the pool and the reorder buffer  *)
(* left out: a queue that hands on the frames of the wire one by one in    *)
(* the order they were read.  While the endpoint is open nothing is        *)
(* skipped, unless it is one that drops what exceeds a limit; a closed     *)
(* endpoint hands on nothing, and opening it again forgets what was read   *)
(* before.                                                                 *)
(***************************************************************************)
EXTENDS Integers, Sequences

VARIABLES
  lossy,    \* the overload policy is DropNewest
  phase,    \* "opening", "open" or "closed"
  read,     \* frames read from the wire
  passed,   \* frames that were handed on or given up
  out       \* the numbers of the frames handed on

queueVars == <<lossy, phase, read, passed, out>>

QueueInit ==
  /\ lossy \in BOOLEAN
  /\ phase = "opening"
  /\ read = 0 /\ passed = 0
  /\ out = <<>>

Read == read' = read + 1 /\ UNCHANGED <<lossy, phase, passed, out>>

HandOn ==
  /\ phase # "closed" /\ passed < read
  /\ out' = Append(out, passed)
  /\ passed' = passed + 1
  /\ UNCHANGED <<lossy, phase, read>>

GiveUp ==
  /\ lossy \/ phase = "closed"
  /\ passed < read
  /\ passed' = passed + 1
  /\ UNCHANGED <<lossy, phase, read, out>>

Close ==
  /\ phase' = "closed"
  /\ UNCHANGED <<lossy, read, passed, out>>

Reopen ==
  /\ phase = "closed" /\ phase' = "opening"
  /\ UNCHANGED <<lossy, read, passed, out>>

Open ==
  /\ phase = "opening" /\ phase' = "open"
  /\ passed' = read
  /\ UNCHANGED <<lossy, read, out>>

QueueNext == Read \/ HandOn \/ GiveUp \/ Close \/ Reopen \/ Open

QueueSpec == QueueInit /\ [][QueueNext]_queueVars
=============================================================================
