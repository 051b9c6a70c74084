-------------------------- MODULE ProcessesProofs --------------------------
(***************************************************************************)
(* Proofs about Processes, for any number of processes that are started,   *)
(* waited for, terminated and destroyed beside one another: none leaves a  *)
(* descriptor or a child behind.                                           *)
(***************************************************************************)
EXTENDS Processes, TLAPS

ProcTypeInv ==
    /\ host \in ProcSetups
    /\ op \in [Procs -> {"idle", "in", "out", "err", "spawn", "confirm", "wait", "terminate"}]
    /\ object \in [Procs -> {"none", "failed", "live", "destroyed"}]
    /\ child \in [Procs -> {"none", "forked", "running", "exited", "reaped"}]
    /\ known \in [Procs -> BOOLEAN]
    /\ fds \subseteq (Procs \cup {Us}) \X Procs \X Ends
    /\ execFailed \in [Procs -> BOOLEAN]
    /\ inputOpen \in [Procs -> BOOLEAN]
    /\ outputOpen \in [Procs -> BOOLEAN]
    /\ inReader \in [Procs -> {"off", "entry", "poll", "ended"}]

Piped == {"in", "out", "err", "spawn"}

\* Whether this program holds end e of a pipe of p: how far the constructor
\* has come says which pipes are open, afterwards the streams do.
Ours(p, e) ==
    \/ op[p] \in {"out", "err", "spawn"} /\ e \in {"inR", "inW"}
    \/ op[p] \in {"err", "spawn"} /\ e \in {"outR", "outW"}
    \/ op[p] = "spawn" /\ Posix /\ e \in {"errR", "errW"}
    \/ op[p] = "confirm" /\ e \in {"inW", "outR", "errR"}
    \/ inputOpen[p] /\ e = "outR"
    \/ outputOpen[p] /\ e = "inW"

\* What the object knows of its child.
Knows(p) ==
    /\ op[p] = "idle" /\ ~known[p] => child[p] \in {"none", "reaped"}
    /\ op[p] \in Piped => child[p] = "none" /\ ~known[p] /\ object[p] = "none"
    /\ op[p] = "confirm" =>
        child[p] \in {"forked", "running", "exited"} /\ ~known[p] /\ object[p] = "none"
    /\ op[p] \in {"wait", "terminate"} => known[p] /\ ~inputOpen[p] /\ ~outputOpen[p]
    /\ known[p] => child[p] \in {"running", "exited"} /\ object[p] \in {"live", "destroyed"}
    /\ ~known[p] => ~inputOpen[p] /\ ~outputOpen[p]
    /\ object[p] = "none" /\ op[p] = "idle" => child[p] = "none"
    /\ object[p] \in {"none", "failed"} => inReader[p] = "off"
    /\ op[p] = "err" => Posix
    \* The read of the error pipe ends only when the child has let go of it.
    /\ child[p] = "forked" => op[p] = "confirm" /\ Holds(p, p, "errW")

Clean(p) == Knows(p) /\ \A e \in Ends : Holds(Us, p, e) <=> Ours(p, e)

CleanInv == ProcTypeInv /\ \A p \in Procs : Clean(p)

-----------------------------------------------------------------------------
\* An operation on p does nothing to the other objects, and takes nothing
\* from their children.
Frame(p) ==
    /\ host' = host
    /\ \A q \in Procs : q # p =>
        /\ op'[q] = op[q] /\ object'[q] = object[q] /\ child'[q] = child[q]
        /\ known'[q] = known[q] /\ inputOpen'[q] = inputOpen[q]
        /\ outputOpen'[q] = outputOpen[q] /\ inReader'[q] = inReader[q]
        /\ \A e \in Ends : <<Us, q, e>> \in fds' <=> <<Us, q, e>> \in fds
        /\ <<q, q, "errW">> \in fds => <<q, q, "errW">> \in fds'

LEMMA UsIsNoChild == Us \notin Procs
BY ProcBounds DEF Us, Procs

LEMMA CleanStep ==
  ASSUME CleanInv, NEW p \in Procs, ProcTypeInv', Frame(p), Clean(p)'
  PROVE  CleanInv'
<1>1. ASSUME NEW q \in Procs, q # p
      PROVE  Clean(q)'
  <2>0. /\ op'[q] = op[q] /\ object'[q] = object[q] /\ child'[q] = child[q]
        /\ known'[q] = known[q] /\ inputOpen'[q] = inputOpen[q]
        /\ outputOpen'[q] = outputOpen[q] /\ inReader'[q] = inReader[q]
        /\ Posix' = Posix /\ (Holds(q, q, "errW") => Holds(q, q, "errW")')
    BY <1>1 DEF Frame, Holds, Posix
  <2>1. Knows(q)'
    <3>1. Knows(q)
      BY DEF CleanInv, Clean
    <3> QED
      BY <2>0, <3>1 DEF Knows
  <2>2. ASSUME NEW e \in Ends
        PROVE  Holds(Us, q, e)' <=> Ours(q, e)'
    <3>1. Holds(Us, q, e)' <=> Holds(Us, q, e)
      BY <1>1 DEF Frame, Holds
    <3>2. Holds(Us, q, e) <=> Ours(q, e)
      BY DEF CleanInv, Clean
    <3>3. Ours(q, e)' <=> Ours(q, e)
      BY <2>0 DEF Ours
    <3> QED
      BY <3>1, <3>2, <3>3
  <2> QED
    BY <2>1, <2>2 DEF Clean
<1> QED
  BY <1>1 DEF CleanInv

\* What is left once this program has closed some ends of p.
LEMMA WithoutHolds ==
  ASSUME NEW set, NEW p, NEW ends
  PROVE  /\ Without(set, p, ends) \subseteq set
         /\ \A h, q, e : <<h, q, e>> \in Without(set, p, ends) <=>
              <<h, q, e>> \in set /\ ~(h = Us /\ q = p /\ e \in ends)
BY DEF Without

LEMMA CleanInit ==
  ASSUME ProcInit
  PROVE  CleanInv
BY DEF ProcInit, CleanInv, ProcTypeInv, Clean, Knows, Ours, Holds, Piped

\* The constructor, up to the fork.
LEMMA CleanPipes ==
  ASSUME CleanInv, NEW p \in Procs, StartCall(p) \/ OpenPipe(p) \/ StartFails(p)
  PROVE  CleanInv'
<1> USE DEF CleanInv
<1>1. CASE StartCall(p)
  <2>1. /\ op[p] = "idle" /\ object[p] = "none"
        /\ op' = [op EXCEPT ![p] = "in"]
        /\ UNCHANGED <<host, object, child, known, fds, execFailed, inputOpen, outputOpen, inReader>>
    BY <1>1 DEF StartCall, CanCall, streamVars
  <2>2. ProcTypeInv'
    BY <2>1 DEF ProcTypeInv
  <2>3. Frame(p)
    BY <2>1 DEF Frame, ProcTypeInv
  <2>4. op'[p] = "in"
    BY <2>1 DEF ProcTypeInv
  <2>5. Clean(p)'
    BY <2>1, <2>4 DEF Clean, Knows, Ours, Holds, Piped, ProcTypeInv, Posix
  <2> QED
    BY <2>2, <2>3, <2>5, CleanStep
<1>2. CASE OpenPipe(p)
  <2>1. PICK ends \in SUBSET Ends, next \in {"out", "err", "spawn"} :
          /\ fds' = fds \cup {<<Us, p, e>> : e \in ends}
          /\ op' = [op EXCEPT ![p] = next]
          /\ \/ op[p] = "in" /\ ends = {"inR", "inW"} /\ next = "out"
             \/ op[p] = "out" /\ ends = {"outR", "outW"} /\ next = IF Posix THEN "err" ELSE "spawn"
             \/ op[p] = "err" /\ ends = {"errR", "errW"} /\ next = "spawn"
    <3>1. CASE op[p] = "in"
      BY <1>2, <3>1 DEF OpenPipe, ProcTypeInv, Ends
    <3>2. CASE op[p] = "out"
      BY <1>2, <3>2 DEF OpenPipe, ProcTypeInv, Ends
    <3>3. CASE op[p] = "err"
      BY <1>2, <3>3 DEF OpenPipe, ProcTypeInv, Ends
    <3> QED
      BY <1>2, <3>1, <3>2, <3>3 DEF OpenPipe
  <2>2. UNCHANGED <<host, object, child, known, execFailed, inputOpen, outputOpen, inReader>>
    BY <1>2 DEF OpenPipe, streamVars
  <2>3. \A h, q, e : <<h, q, e>> \in fds' <=>
          <<h, q, e>> \in fds \/ (h = Us /\ q = p /\ e \in ends)
    BY <2>1
  <2>4. ProcTypeInv'
    <3>1. {<<Us, p, e>> : e \in ends} \subseteq (Procs \cup {Us}) \X Procs \X Ends
      BY <2>1
    <3> QED
      BY <2>1, <2>2, <3>1 DEF ProcTypeInv
  <2>5. Frame(p)
    BY <2>1, <2>2, <2>3 DEF Frame, ProcTypeInv
  <2>6. op'[p] = next
    BY <2>1 DEF ProcTypeInv
  <2>7. Knows(p)'
    BY <2>1, <2>2, <2>3, <2>6 DEF Clean, Knows, Holds, Piped, Posix
  <2>8. ASSUME NEW e \in Ends
        PROVE  Holds(Us, p, e)' <=> Ours(p, e)'
    BY <2>1, <2>2, <2>3, <2>6 DEF Clean, Ours, Holds, Posix, Ends, Knows, Piped
  <2> QED
    BY <2>4, <2>5, <2>7, <2>8, CleanStep DEF Clean
<1>3. CASE StartFails(p)
  <2>1. /\ op[p] \in Piped /\ op' = [op EXCEPT ![p] = "idle"]
        /\ fds' = Without(fds, p, Ends)
        /\ object' = [object EXCEPT ![p] = "failed"]
        /\ UNCHANGED <<host, child, known, execFailed, inputOpen, outputOpen, inReader>>
    BY <1>3 DEF StartFails, Piped, streamVars
  <2>2. /\ fds' \subseteq fds
        /\ \A h, q, e : <<h, q, e>> \in fds' <=>
             <<h, q, e>> \in fds /\ ~(h = Us /\ q = p /\ e \in Ends)
    BY <2>1, WithoutHolds
  <2>3. ProcTypeInv'
    BY <2>1, <2>2 DEF ProcTypeInv
  <2>4. Frame(p)
    BY <2>1, <2>2, UsIsNoChild DEF Frame, ProcTypeInv
  <2>5. op'[p] = "idle" /\ object'[p] = "failed"
    BY <2>1 DEF ProcTypeInv
  <2>6. Knows(p)'
    BY <2>1, <2>5 DEF Clean, Knows, Piped
  <2>7. ASSUME NEW e \in Ends
        PROVE  Holds(Us, p, e)' <=> Ours(p, e)'
    BY <2>1, <2>2, <2>5 DEF Clean, Knows, Ours, Holds
  <2> QED
    BY <2>3, <2>4, <2>6, <2>7, CleanStep DEF Clean
<1> QED
  BY <1>1, <1>2, <1>3

\* The fork, the exec and their answer; CreateProcess.
LEMMA CleanSpawn ==
  ASSUME CleanInv, NEW p \in Procs,
         Fork(p) \/ Exec(p) \/ ExecFails(p) \/ Confirm(p) \/ StartRefused(p) \/ CreateProcess(p)
  PROVE  CleanInv'
<1> USE DEF CleanInv
<1>0. Us # p /\ p \in Procs \cup {Us}
  BY UsIsNoChild
<1>1. CASE Fork(p)
  <2>1. /\ Posix /\ op[p] = "spawn" /\ op' = [op EXCEPT ![p] = "confirm"]
        /\ child' = [child EXCEPT ![p] = "forked"]
        /\ UNCHANGED <<host, object, known, execFailed, inputOpen, outputOpen, inReader>>
    BY <1>1 DEF Fork, streamVars
  <2> DEFINE copies == {<<p, f[2], f[3]>> : f \in {g \in fds : g[1] = Us}}
             kept == Without(fds, p, {"inR", "outW", "errW"})
  <2>2. fds' = kept \cup copies
    BY <1>1 DEF Fork
  <2>3. copies \subseteq (Procs \cup {Us}) \X Procs \X Ends
    BY <1>0 DEF ProcTypeInv
  <2>4. ASSUME NEW h, NEW q, NEW e, h # p
        PROVE  <<h, q, e>> \in fds' <=>
                 <<h, q, e>> \in fds /\ ~(h = Us /\ q = p /\ e \in {"inR", "outW", "errW"})
    <3>1. <<h, q, e>> \notin copies
      BY <2>4
    <3>2. <<h, q, e>> \in kept <=>
                 <<h, q, e>> \in fds /\ ~(h = Us /\ q = p /\ e \in {"inR", "outW", "errW"})
      BY WithoutHolds
    <3> HIDE DEF copies, kept
    <3> QED
      BY <2>2, <3>1, <3>2
  <2>5. <<p, p, "errW">> \in fds'
    <3>1. Holds(Us, p, "errW")
      BY <2>1 DEF Clean, Ours, Ends
    <3>2. <<p, p, "errW">> \in copies
      BY <3>1 DEF Holds
    <3> QED
      BY <2>2, <3>2
  <2>6. kept \subseteq fds
    BY WithoutHolds
  <2> HIDE DEF copies, kept
  <2>7. ProcTypeInv'
    BY <2>1, <2>2, <2>3, <2>6 DEF ProcTypeInv
  <2>8. Frame(p)
    BY <1>0, <2>1, <2>4 DEF Frame, ProcTypeInv
  <2>9. op'[p] = "confirm" /\ child'[p] = "forked"
    BY <2>1 DEF ProcTypeInv
  <2>10. Knows(p)'
    BY <2>1, <2>5, <2>9 DEF Clean, Knows, Piped, Holds
  <2>11. ASSUME NEW e \in Ends
         PROVE  Holds(Us, p, e)' <=> Ours(p, e)'
    <3>1. Holds(Us, p, e)' <=> Holds(Us, p, e) /\ e \notin {"inR", "outW", "errW"}
      BY <1>0, <2>4 DEF Holds
    <3>2. ~inputOpen[p] /\ ~outputOpen[p]
      BY <2>1 DEF Clean, Knows, Piped
    <3> QED
      BY <2>1, <2>9, <3>1, <3>2 DEF Clean, Ours, Ends
  <2> QED
    BY <2>7, <2>8, <2>10, <2>11, CleanStep DEF Clean
<1>2. CASE Exec(p) \/ ExecFails(p)
  <2>1. PICK next \in {"running", "exited"} :
          /\ child' = [child EXCEPT ![p] = next]
          /\ child[p] = "forked" /\ fds' \subseteq fds
          /\ \A h, q, e : h # p => (<<h, q, e>> \in fds' <=> <<h, q, e>> \in fds)
    BY <1>2 DEF Exec, ExecFails
  <2>2. /\ UNCHANGED <<host, op, object, known, inputOpen, outputOpen, inReader>>
        /\ execFailed' \in [Procs -> BOOLEAN]
    BY <1>2 DEF Exec, ExecFails, streamVars, ProcTypeInv
  <2>3. ProcTypeInv'
    BY <2>1, <2>2 DEF ProcTypeInv
  <2>4. Frame(p)
    BY <1>0, <2>1, <2>2 DEF Frame, ProcTypeInv
  <2>5. op[p] = "confirm" /\ child'[p] = next
    BY <2>1 DEF Clean, Knows, ProcTypeInv
  <2>6. Knows(p)'
    BY <2>1, <2>2, <2>5 DEF Clean, Knows, Piped, Posix
  <2>7. ASSUME NEW e \in Ends
        PROVE  Holds(Us, p, e)' <=> Ours(p, e)'
    BY <1>0, <2>1, <2>2 DEF Clean, Ours, Holds, Posix
  <2> QED
    BY <2>3, <2>4, <2>6, <2>7, CleanStep DEF Clean
<1>3. CASE Confirm(p)
  <2>1. /\ op[p] = "confirm" /\ ~Held(p, "errW")
        /\ fds' = Without(fds, p, {"errR"})
        /\ UNCHANGED <<host, child, execFailed, inReader>>
    BY <1>3 DEF Confirm, streamVars
  <2>2. /\ object' = [object EXCEPT ![p] = "live"] /\ known' = [known EXCEPT ![p] = TRUE]
        /\ inputOpen' = [inputOpen EXCEPT ![p] = TRUE]
        /\ outputOpen' = [outputOpen EXCEPT ![p] = TRUE]
        /\ op' = [op EXCEPT ![p] = "idle"]
    BY <1>3 DEF Confirm, Started
  <2>3. /\ fds' \subseteq fds
        /\ \A h, q, e : <<h, q, e>> \in fds' <=>
             <<h, q, e>> \in fds /\ ~(h = Us /\ q = p /\ e \in {"errR"})
    BY <2>1, WithoutHolds
  <2>4. ProcTypeInv'
    BY <2>1, <2>2, <2>3 DEF ProcTypeInv
  <2>5. Frame(p)
    BY <2>1, <2>2, <2>3, UsIsNoChild DEF Frame, ProcTypeInv
  <2>6. child[p] \in {"running", "exited"}
    BY <2>1, UsIsNoChild DEF Clean, Knows, Held
  <2>7. op'[p] = "idle" /\ object'[p] = "live" /\ known'[p] /\ inputOpen'[p] /\ outputOpen'[p]
    BY <2>2 DEF ProcTypeInv
  <2>8. Knows(p)'
    BY <2>1, <2>6, <2>7 DEF Clean, Knows, Piped
  <2>9. ASSUME NEW e \in Ends
        PROVE  Holds(Us, p, e)' <=> Ours(p, e)'
    <3>1. Holds(Us, p, e)' <=> Holds(Us, p, e) /\ e # "errR"
      BY <2>3 DEF Holds
    <3>2. ~inputOpen[p] /\ ~outputOpen[p]
      BY <2>1 DEF Clean, Knows
    <3> QED
      BY <2>1, <2>7, <3>1, <3>2 DEF Clean, Ours, Ends
  <2> QED
    BY <2>4, <2>5, <2>8, <2>9, CleanStep DEF Clean
<1>4. CASE StartRefused(p)
  <2>1. /\ op[p] = "confirm" /\ op' = [op EXCEPT ![p] = "idle"]
        /\ fds' = Without(fds, p, Ends)
        /\ child' = [child EXCEPT ![p] = "reaped"]
        /\ object' = [object EXCEPT ![p] = "failed"]
        /\ UNCHANGED <<host, known, execFailed, inputOpen, outputOpen, inReader>>
    BY <1>4 DEF StartRefused, streamVars
  <2>2. /\ fds' \subseteq fds
        /\ \A h, q, e : <<h, q, e>> \in fds' <=>
             <<h, q, e>> \in fds /\ ~(h = Us /\ q = p /\ e \in Ends)
    BY <2>1, WithoutHolds
  <2>3. ProcTypeInv'
    BY <2>1, <2>2 DEF ProcTypeInv
  <2>4. Frame(p)
    BY <2>1, <2>2, UsIsNoChild DEF Frame, ProcTypeInv
  <2>5. op'[p] = "idle" /\ object'[p] = "failed" /\ child'[p] = "reaped"
    BY <2>1 DEF ProcTypeInv
  <2>6. Knows(p)'
    BY <2>1, <2>5 DEF Clean, Knows, Piped
  <2>7. ASSUME NEW e \in Ends
        PROVE  Holds(Us, p, e)' <=> Ours(p, e)'
    BY <2>1, <2>2, <2>5 DEF Clean, Knows, Ours, Holds
  <2> QED
    BY <2>3, <2>4, <2>6, <2>7, CleanStep DEF Clean
<1>5. CASE CreateProcess(p)
  <2>1. /\ ~Posix /\ op[p] = "spawn" /\ child' = [child EXCEPT ![p] = "running"]
        /\ UNCHANGED <<host, execFailed, inReader>>
    BY <1>5 DEF CreateProcess, streamVars
  <2>2. /\ object' = [object EXCEPT ![p] = "live"] /\ known' = [known EXCEPT ![p] = TRUE]
        /\ inputOpen' = [inputOpen EXCEPT ![p] = TRUE]
        /\ outputOpen' = [outputOpen EXCEPT ![p] = TRUE]
        /\ op' = [op EXCEPT ![p] = "idle"]
    BY <1>5 DEF CreateProcess, Started
  <2> DEFINE copies == {<<p, f[2], f[3]>> : f \in {g \in fds : g[1] = Us /\ g[3] \in {"inR", "outW"}}}
             kept == Without(fds, p, {"inR", "outW"})
  <2>3. fds' = kept \cup copies
    BY <1>5 DEF CreateProcess
  <2>4. copies \subseteq (Procs \cup {Us}) \X Procs \X Ends
    BY <1>0 DEF ProcTypeInv
  <2>5. ASSUME NEW h, NEW q, NEW e, h # p
        PROVE  <<h, q, e>> \in fds' <=>
                 <<h, q, e>> \in fds /\ ~(h = Us /\ q = p /\ e \in {"inR", "outW"})
    <3>1. <<h, q, e>> \notin copies
      BY <2>5
    <3>2. <<h, q, e>> \in kept <=>
                 <<h, q, e>> \in fds /\ ~(h = Us /\ q = p /\ e \in {"inR", "outW"})
      BY WithoutHolds
    <3> HIDE DEF copies, kept
    <3> QED
      BY <2>3, <3>1, <3>2
  <2>6. kept \subseteq fds
    BY WithoutHolds
  <2> HIDE DEF copies, kept
  <2>7. ProcTypeInv'
    BY <2>1, <2>2, <2>3, <2>4, <2>6 DEF ProcTypeInv
  <2>8. Frame(p)
    BY <1>0, <2>1, <2>2, <2>5 DEF Frame, ProcTypeInv
  <2>9. /\ op'[p] = "idle" /\ object'[p] = "live" /\ known'[p] /\ inputOpen'[p] /\ outputOpen'[p]
        /\ child'[p] = "running"
    BY <2>1, <2>2 DEF ProcTypeInv
  <2>10. Knows(p)'
    BY <2>1, <2>9 DEF Clean, Knows, Piped
  <2>11. ASSUME NEW e \in Ends
         PROVE  Holds(Us, p, e)' <=> Ours(p, e)'
    <3>1. Holds(Us, p, e)' <=> Holds(Us, p, e) /\ e \notin {"inR", "outW"}
      BY <1>0, <2>5 DEF Holds
    <3>2. ~inputOpen[p] /\ ~outputOpen[p]
      BY <2>1 DEF Clean, Knows, Piped
    <3> QED
      BY <2>1, <2>9, <3>1, <3>2 DEF Clean, Ours, Ends
  <2> QED
    BY <2>7, <2>8, <2>10, <2>11, CleanStep DEF Clean
<1> QED
  BY <1>1, <1>2, <1>3, <1>4, <1>5

\* The end of a child, and the wait for it.
LEMMA CleanExit ==
  ASSUME CleanInv, NEW p \in Procs, Exits(p) \/ Waited(p)
  PROVE  CleanInv'
<1> USE DEF CleanInv
<1>0. Us # p
  BY UsIsNoChild
<1>1. CASE Exits(p)
  <2>1. /\ child[p] = "running" /\ child' = [child EXCEPT ![p] = "exited"]
        /\ fds' \subseteq fds
        /\ \A h, q, e : h # p => (<<h, q, e>> \in fds' <=> <<h, q, e>> \in fds)
        /\ UNCHANGED <<host, op, object, known, execFailed, inputOpen, outputOpen, inReader>>
    BY <1>1 DEF Exits, streamVars
  <2>2. ProcTypeInv'
    BY <2>1 DEF ProcTypeInv
  <2>3. Frame(p)
    BY <1>0, <2>1 DEF Frame, ProcTypeInv
  <2>4. child'[p] = "exited"
    BY <2>1 DEF ProcTypeInv
  <2>5. Knows(p)'
    BY <2>1, <2>4 DEF Clean, Knows, Piped, Posix
  <2>6. ASSUME NEW e \in Ends
        PROVE  Holds(Us, p, e)' <=> Ours(p, e)'
    BY <1>0, <2>1 DEF Clean, Ours, Holds, Posix
  <2> QED
    BY <2>2, <2>3, <2>5, <2>6, CleanStep DEF Clean
<1>2. CASE Waited(p)
  <2>1. /\ op[p] \in {"wait", "terminate"} /\ op' = [op EXCEPT ![p] = "idle"]
        /\ child' = [child EXCEPT ![p] = "reaped"] /\ known' = [known EXCEPT ![p] = FALSE]
        /\ UNCHANGED <<host, object, fds, execFailed, inputOpen, outputOpen, inReader>>
    BY <1>2 DEF Waited, streamVars
  <2>2. ProcTypeInv'
    BY <2>1 DEF ProcTypeInv
  <2>3. Frame(p)
    BY <2>1 DEF Frame, ProcTypeInv
  <2>4. op'[p] = "idle" /\ child'[p] = "reaped" /\ ~known'[p]
    BY <2>1 DEF ProcTypeInv
  <2>5. ~inputOpen[p] /\ ~outputOpen[p] /\ object[p] \in {"live", "destroyed"}
    BY <2>1 DEF Clean, Knows
  <2>6. Knows(p)'
    BY <2>1, <2>4, <2>5 DEF Knows, Piped
  <2>7. ASSUME NEW e \in Ends
        PROVE  Holds(Us, p, e)' <=> Ours(p, e)'
    BY <2>1, <2>4, <2>5 DEF Clean, Ours, Holds
  <2> QED
    BY <2>2, <2>3, <2>6, <2>7, CleanStep DEF Clean
<1> QED
  BY <1>1, <1>2

\* Closing the streams leaves this program no end of an object at rest.
LEMMA CloseReleases ==
  ASSUME CleanInv, NEW p \in Procs, op[p] = "idle", CloseStreams(p)
  PROVE  /\ fds' \subseteq fds
         /\ inputOpen' \in [Procs -> BOOLEAN] /\ outputOpen' \in [Procs -> BOOLEAN]
         /\ ~inputOpen'[p] /\ ~outputOpen'[p]
         /\ \A e \in Ends : <<Us, p, e>> \notin fds'
         /\ \A q \in Procs : q # p =>
              /\ inputOpen'[q] = inputOpen[q] /\ outputOpen'[q] = outputOpen[q]
              /\ \A e \in Ends : <<Us, q, e>> \in fds' <=> <<Us, q, e>> \in fds
              /\ <<q, q, "errW">> \in fds => <<q, q, "errW">> \in fds'
<1>1. /\ fds' \subseteq fds
      /\ \A h, q, e : <<h, q, e>> \in fds' <=>
           <<h, q, e>> \in fds /\ ~(h = Us /\ q = p /\ e \in {"outR", "inW"})
  BY WithoutHolds DEF CloseStreams
<1>2. \A e \in Ends : Holds(Us, p, e) => e \in {"outR", "inW"}
  BY DEF CleanInv, Clean, Ours
<1> QED
  BY <1>1, <1>2, UsIsNoChild DEF CloseStreams, CleanInv, ProcTypeInv, Holds

\* isRunning, wait, terminate, the destructor and the move assignment.
LEMMA CleanOperations ==
  ASSUME CleanInv, NEW p \in Procs,
         \/ NoticeExit(p) \/ Destroy(p)
         \/ Wait(p) \/ Terminate(p) \/ DestroyRunning(p)
  PROVE  CleanInv'
<1> USE DEF CleanInv
<1>0. op[p] = "idle" /\ object[p] = "live"
  BY DEF NoticeExit, Destroy, Wait, Terminate, DestroyRunning, StopBlocking, CanCall
<1>1. CASE known[p] /\ (NoticeExit(p) \/ Destroy(p))
  <2>1. /\ child' = [child EXCEPT ![p] = "reaped"] /\ known' = [known EXCEPT ![p] = FALSE]
        /\ CloseStreams(p)
        /\ UNCHANGED <<host, op, execFailed, inReader>>
    BY <1>1 DEF NoticeExit, Destroy, checkRunning, streamVars
  <2>2. PICK x \in {"live", "destroyed"} : object' = [object EXCEPT ![p] = x]
    BY <1>0, <1>1 DEF NoticeExit, Destroy, ProcTypeInv
  <2>3. ProcTypeInv'
    BY <1>0, <2>1, <2>2, CloseReleases DEF ProcTypeInv
  <2>4. Frame(p)
    BY <1>0, <2>1, <2>2, CloseReleases DEF Frame, ProcTypeInv
  <2>5. op'[p] = "idle" /\ object'[p] = x /\ child'[p] = "reaped" /\ ~known'[p]
    BY <1>0, <2>1, <2>2 DEF ProcTypeInv
  <2>6. ~inputOpen'[p] /\ ~outputOpen'[p] /\ \A e \in Ends : <<Us, p, e>> \notin fds'
    BY <1>0, <2>1, CloseReleases
  <2>7. Knows(p)'
    BY <2>2, <2>5, <2>6 DEF Knows, Piped
  <2>8. ASSUME NEW e \in Ends
        PROVE  Holds(Us, p, e)' <=> Ours(p, e)'
    BY <2>5, <2>6 DEF Ours, Holds
  <2> QED
    BY <2>3, <2>4, <2>7, <2>8, CleanStep DEF Clean
<1>2. CASE ~known[p] /\ (NoticeExit(p) \/ Destroy(p))
  <2>1. /\ object' = [object EXCEPT ![p] = "destroyed"]
        /\ UNCHANGED <<host, op, child, known, fds, execFailed, inputOpen, outputOpen, inReader>>
    BY <1>2 DEF NoticeExit, Destroy, checkRunning, streamVars
  <2>2. ProcTypeInv'
    BY <2>1 DEF ProcTypeInv
  <2>3. Frame(p)
    BY <2>1 DEF Frame, ProcTypeInv
  <2>4. object'[p] = "destroyed"
    BY <2>1 DEF ProcTypeInv
  <2>5. Knows(p)'
    BY <1>0, <1>2, <2>1, <2>4 DEF Clean, Knows, Piped
  <2>6. ASSUME NEW e \in Ends
        PROVE  Holds(Us, p, e)' <=> Ours(p, e)'
    BY <2>1 DEF Clean, Ours, Holds, Posix
  <2> QED
    BY <2>2, <2>3, <2>5, <2>6, CleanStep DEF Clean
<1>3. CASE Wait(p) \/ Terminate(p) \/ DestroyRunning(p)
  <2>1. PICK how \in {"wait", "terminate"}, x \in {"live", "destroyed"} : StopBlocking(p, how, x)
    BY <1>3 DEF Wait, Terminate, DestroyRunning
  <2>2. /\ known[p] /\ child[p] = "running" /\ CloseStreams(p)
        /\ op' = [op EXCEPT ![p] = how] /\ object' = [object EXCEPT ![p] = x]
        /\ UNCHANGED <<host, child, known, execFailed, inReader>>
    BY <2>1 DEF StopBlocking, streamVars
  <2>3. ProcTypeInv'
    BY <1>0, <2>1, <2>2, CloseReleases DEF ProcTypeInv
  <2>4. Frame(p)
    BY <1>0, <2>2, CloseReleases DEF Frame, ProcTypeInv
  <2>5. op'[p] = how /\ object'[p] = x
    BY <2>2 DEF ProcTypeInv
  <2>6. ~inputOpen'[p] /\ ~outputOpen'[p] /\ \A e \in Ends : <<Us, p, e>> \notin fds'
    BY <1>0, <2>2, CloseReleases
  <2>7. Knows(p)'
    BY <2>1, <2>2, <2>5, <2>6 DEF Knows, Piped
  <2>8. ASSUME NEW e \in Ends
        PROVE  Holds(Us, p, e)' <=> Ours(p, e)'
    BY <2>1, <2>5, <2>6 DEF Ours, Holds
  <2> QED
    BY <2>3, <2>4, <2>7, <2>8, CleanStep DEF Clean
<1> QED
  BY <1>1, <1>2, <1>3

\* The endpoint's threads: on Windows an interruption closes the stream.
LEMMA CleanStreams ==
  ASSUME CleanInv, NEW p \in Procs,
         \/ ChildWrites(p) \/ WriteBlocks(p) \/ WriteEnds(p)
         \/ Attach(p) \/ ReadEnters(p) \/ PollEnds(p) \/ InterruptInput(p)
  PROVE  CleanInv'
<1> USE DEF CleanInv
<1>0. UNCHANGED <<host, op, object, child, known, execFailed, outputOpen>>
  BY DEF ChildWrites, WriteBlocks, WriteEnds, Attach, ReadEnters, PollEnds, InterruptInput,
         OwnUnchanged
<1>1. CASE ~InterruptInput(p)
  <2>1. UNCHANGED <<fds, inputOpen>>
    BY <1>1 DEF ChildWrites, WriteBlocks, WriteEnds, Attach, ReadEnters, PollEnds
  <2>2. \/ inReader' = inReader
        \/ /\ inReader[p] # "off" \/ object[p] = "live"
           /\ \E x \in {"entry", "poll", "ended"} : inReader' = [inReader EXCEPT ![p] = x]
    <3>1. CASE ChildWrites(p) \/ WriteBlocks(p) \/ WriteEnds(p)
      BY <3>1 DEF ChildWrites, WriteBlocks, WriteEnds
    <3>2. CASE Attach(p)
      BY <3>2 DEF Attach
    <3>3. CASE ReadEnters(p)
      BY <3>3 DEF ReadEnters
    <3>4. CASE PollEnds(p)
      BY <3>4 DEF PollEnds
    <3> QED
      BY <1>1, <3>1, <3>2, <3>3, <3>4
  <2>3. ProcTypeInv'
    BY <1>0, <2>1, <2>2 DEF ProcTypeInv
  <2>4. Frame(p)
    BY <1>0, <2>1, <2>2 DEF Frame, ProcTypeInv
  <2>5. object[p] \in {"none", "failed"} => inReader'[p] = "off"
    BY <2>2 DEF Clean, Knows
  <2>6. Knows(p)'
    BY <1>0, <2>1, <2>5 DEF Clean, Knows, Piped, Posix, Holds
  <2>7. ASSUME NEW e \in Ends
        PROVE  Holds(Us, p, e)' <=> Ours(p, e)'
    BY <1>0, <2>1 DEF Clean, Ours, Holds, Posix
  <2> QED
    BY <2>3, <2>4, <2>6, <2>7, CleanStep DEF Clean
<1>2. CASE InterruptInput(p) /\ Posix
  <2>1. UNCHANGED <<fds, inputOpen, inReader>>
    BY <1>2 DEF InterruptInput
  <2>2. ProcTypeInv' /\ Frame(p)
    BY <1>0, <2>1 DEF ProcTypeInv, Frame
  <2>3. Clean(p)'
    BY <1>0, <2>1 DEF Clean, Knows, Ours, Piped, Posix, Holds
  <2> QED
    BY <2>2, <2>3, CleanStep
<1>3. CASE InterruptInput(p) /\ ~Posix
  <2>1. /\ fds' = Without(fds, p, {"outR"}) /\ inputOpen' = [inputOpen EXCEPT ![p] = FALSE]
        /\ inReader[p] # "off" /\ UNCHANGED inReader
    BY <1>3 DEF InterruptInput
  <2>2. /\ fds' \subseteq fds
        /\ \A h, q, e : <<h, q, e>> \in fds' <=>
             <<h, q, e>> \in fds /\ ~(h = Us /\ q = p /\ e \in {"outR"})
    BY <2>1, WithoutHolds
  <2>3. ProcTypeInv'
    BY <1>0, <2>1, <2>2 DEF ProcTypeInv
  <2>4. Frame(p)
    BY <1>0, <2>1, <2>2, UsIsNoChild DEF Frame, ProcTypeInv
  <2>5. ~inputOpen'[p]
    BY <2>1 DEF ProcTypeInv
  <2>6. op[p] \in {"idle", "wait", "terminate"}
    BY <2>1 DEF ProcTypeInv, Clean, Knows, Piped
  <2>7. Knows(p)'
    BY <1>0, <2>1, <2>2, <2>5, <2>6 DEF Clean, Knows, Piped, Posix, Holds
  <2>8. ASSUME NEW e \in Ends
        PROVE  Holds(Us, p, e)' <=> Ours(p, e)'
    <3>1. Holds(Us, p, e)' <=> Holds(Us, p, e) /\ e # "outR"
      BY <2>2 DEF Holds
    <3> QED
      BY <1>0, <2>5, <2>6, <3>1 DEF Clean, Ours
  <2> QED
    BY <2>3, <2>4, <2>7, <2>8, CleanStep DEF Clean
<1> QED
  BY <1>1, <1>2, <1>3

LEMMA CleanNext ==
  ASSUME CleanInv, [ProcNext]_procVars
  PROVE  CleanInv'
<1>1. CASE UNCHANGED procVars
  BY <1>1
  DEF procVars, streamVars, CleanInv, ProcTypeInv, Clean, Knows, Ours, Holds, Posix
<1>2. ASSUME NEW p \in Procs, OperationSteps(p)
      PROVE  CleanInv'
  BY <1>2, CleanPipes, CleanSpawn, CleanExit DEF OperationSteps, ChildKilled
<1>3. ASSUME NEW p \in Procs, StreamSteps(p) \/ ChildSeesEof(p)
      PROVE  CleanInv'
  BY <1>3, CleanStreams, CleanExit DEF StreamSteps, ChildSeesEof
<1>4. ASSUME NEW p \in Procs, ProcEnvironment(p)
      PROVE  CleanInv'
  BY <1>4, CleanPipes, CleanSpawn, CleanExit, CleanOperations, CleanStreams DEF ProcEnvironment
<1> QED
  BY <1>1, <1>2, <1>3, <1>4 DEF ProcNext

\* Whatever number of objects are used beside one another, and whichever step
\* of a constructor fails, an object at rest holds the ends of its open
\* streams and nothing else, and leaves no child to be reaped behind.
THEOREM NothingLeftBehind == ProcSpec => []Released
<1>1. ASSUME CleanInv
      PROVE  Released
  <2>1. ASSUME NEW p \in Procs, op[p] = "idle"
        PROVE  /\ \A e \in Ends : Holds(Us, p, e) <=>
                    (inputOpen[p] /\ e = "outR") \/ (outputOpen[p] /\ e = "inW")
               /\ ~known[p] => child[p] \in {"none", "reaped"} /\ ~inputOpen[p] /\ ~outputOpen[p]
    BY <1>1, <2>1 DEF CleanInv, Clean, Knows, Ours
  <2>2. ASSUME NEW p \in Procs, op[p] = "idle"
        PROVE  {e \in Ends : Holds(Us, p, e)} = (IF inputOpen[p] THEN {"outR"} ELSE {})
                                                \cup (IF outputOpen[p] THEN {"inW"} ELSE {})
    BY <2>1, <2>2 DEF Ends
  <2> QED
    BY <2>1, <2>2 DEF Released
<1> QED
  BY <1>1, CleanInit, CleanNext, PTL DEF ProcSpec
=============================================================================
