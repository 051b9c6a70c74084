----------------------------- MODULE Processes -----------------------------
(***************************************************************************)
(* lsp::Process (Process.cpp): a child process and the pipes to its stdin  *)
(* and from its stdout, with the endpoint's threads that read and write    *)
(* them.  Process p is the object p of this program and its child; holder  *)
(* Us is this program, holder p the child of p.  An element <<h, p, e>> of *)
(* fds says that h holds end e of a pipe made for p.                       *)
(***************************************************************************)
EXTENDS Integers, FiniteSets

CONSTANTS
    MaxProcs,     \* Process objects that are ever made
    ProcSetups    \* [platform, concurrent, attached]: see ProcBounds

Procs == 1 .. MaxProcs
Us == 0
Ends == {"inR", "inW", "outR", "outW", "errR", "errW"}

ASSUME ProcBounds ==
    /\ MaxProcs \in Nat
    /\ \A s \in ProcSetups :
        /\ s.platform \in {"posix", "win32"}
        /\ s.concurrent \in BOOLEAN    \* objects are used by threads of their own
        /\ s.attached \subseteq Procs   \* objects whose streams an endpoint uses

VARIABLES
    host,         \* the setup
    op,           \* op[p]: how far the operation on p has come
    object,       \* object[p]: the Process object
    child,        \* child[p]: its child
    known,        \* known[p]: pid, hProcess names the child
    fds,          \* who holds which end
    execFailed,   \* execFailed[p]: an errno was written to the error pipe
    inputOpen,    \* inputOpen[p]: fd_ of input_stream is valid
    outputOpen,   \* outputOpen[p]: fd_ of output_stream is valid
    output,       \* output[p]: the child's stdout has bytes to read
    inReader,     \* inReader[p]: the endpoint's reader of input_stream
    cut,          \* cut[p]: interrupted_ of input_stream
    outWriter     \* outWriter[p]: an endpoint thread in output_stream's write

streamVars == <<output, inReader, cut, outWriter>>
procVars == <<host, op, object, child, known, fds, execFailed, inputOpen, outputOpen, streamVars>>

Posix == host.platform = "posix"

ProcInit ==
    /\ host \in ProcSetups
    /\ op = [p \in Procs |-> "idle"]
    /\ object = [p \in Procs |-> "none"]
    /\ child = [p \in Procs |-> "none"]
    /\ known = [p \in Procs |-> FALSE]
    /\ fds = {}
    /\ execFailed = [p \in Procs |-> FALSE]
    /\ inputOpen = [p \in Procs |-> FALSE]
    /\ outputOpen = [p \in Procs |-> FALSE]
    /\ output = [p \in Procs |-> FALSE]
    /\ inReader = [p \in Procs |-> "off"]
    /\ cut = [p \in Procs |-> FALSE]
    /\ outWriter = [p \in Procs |-> "off"]

Holds(h, p, e) == <<h, p, e>> \in fds
Held(p, e) == \E h \in Procs \cup {Us} : Holds(h, p, e)
Without(set, p, ends) == {f \in set : ~(f[1] = Us /\ f[2] = p /\ f[3] \in ends)}

\* A caller may begin an operation.
CanCall(p) == op[p] = "idle" /\ (host.concurrent \/ \A q \in Procs : op[q] = "idle")

-----------------------------------------------------------------------------
(* The constructor.                                                         *)

StartCall(p) ==
    /\ CanCall(p) /\ object[p] = "none"
    /\ op' = [op EXCEPT ![p] = "in"]
    /\ UNCHANGED <<host, object, child, known, fds, execFailed, inputOpen, outputOpen, streamVars>>

\* pipe(), CreatePipe and the flag that keeps our end from being inherited.
OpenPipe(p) ==
    /\ op[p] \in {"in", "out", "err"}
    /\ fds' = fds \cup {<<Us, p, e>> : e \in CASE op[p] = "in"  -> {"inR", "inW"}
                                              [] op[p] = "out" -> {"outR", "outW"}
                                              [] op[p] = "err" -> {"errR", "errW"}}
    /\ op' = [op EXCEPT ![p] = CASE @ = "in" -> "out"
                                 [] @ = "out" -> IF Posix THEN "err" ELSE "spawn"
                                 [] @ = "err" -> "spawn"]
    /\ UNCHANGED <<host, object, child, known, execFailed, inputOpen, outputOpen, streamVars>>

\* Fault: a failure forgets the error pipe.
StartFailsLeaking(p) ==
    /\ op[p] \in {"in", "out", "err", "spawn"}
    /\ fds' = Without(fds, p, {"inR", "inW", "outR", "outW"})
    /\ object' = [object EXCEPT ![p] = "failed"]
    /\ op' = [op EXCEPT ![p] = "idle"]
    /\ UNCHANGED <<host, child, known, execFailed, inputOpen, outputOpen, streamVars>>

\* A pipe, fork or CreateProcess fails: what was opened is closed, ProcessError is thrown.
StartFails(p) ==
    /\ op[p] \in {"in", "out", "err", "spawn"}
    /\ fds' = Without(fds, p, Ends)
    /\ object' = [object EXCEPT ![p] = "failed"]
    /\ op' = [op EXCEPT ![p] = "idle"]
    /\ UNCHANGED <<host, child, known, execFailed, inputOpen, outputOpen, streamVars>>

\* The child gets a copy of everything we hold; we close its ends.
Fork(p) ==
    /\ Posix /\ op[p] = "spawn"
    /\ fds' = Without(fds, p, {"inR", "outW", "errW"})
              \cup {<<p, f[2], f[3]>> : f \in {g \in fds : g[1] = Us}}
    /\ child' = [child EXCEPT ![p] = "forked"]
    /\ op' = [op EXCEPT ![p] = "confirm"]
    /\ UNCHANGED <<host, object, known, execFailed, inputOpen, outputOpen, streamVars>>

\* dup2, close and FD_CLOEXEC in the child: of its own pipes it keeps stdin and stdout, of
\* the pipes of other objects every end that was open.
Exec(p) ==
    /\ child[p] = "forked"
    /\ fds' = fds \ {<<p, p, e>> : e \in Ends \ {"inR", "outW"}}
    /\ child' = [child EXCEPT ![p] = "running"]
    /\ UNCHANGED <<host, op, object, known, execFailed, inputOpen, outputOpen, streamVars>>

ExecFails(p) ==
    /\ child[p] = "forked"
    /\ execFailed' = [execFailed EXCEPT ![p] = TRUE]
    /\ fds' = {f \in fds : f[1] # p}
    /\ child' = [child EXCEPT ![p] = "exited"]
    /\ UNCHANGED <<host, op, object, known, inputOpen, outputOpen, streamVars>>

\* The object owns the streams.
Started(p) ==
    /\ object' = [object EXCEPT ![p] = "live"]
    /\ known' = [known EXCEPT ![p] = TRUE]
    /\ inputOpen' = [inputOpen EXCEPT ![p] = TRUE]
    /\ outputOpen' = [outputOpen EXCEPT ![p] = TRUE]
    /\ op' = [op EXCEPT ![p] = "idle"]

\* The read of the error pipe: an errno, or the end of the file at exec.
Confirm(p) ==
    /\ op[p] = "confirm" /\ ~execFailed[p] /\ ~Held(p, "errW")
    /\ fds' = Without(fds, p, {"errR"})
    /\ Started(p)
    /\ UNCHANGED <<host, child, execFailed, streamVars>>

StartRefused(p) ==
    /\ op[p] = "confirm" /\ execFailed[p]
    /\ fds' = Without(fds, p, Ends)
    /\ child' = [child EXCEPT ![p] = "reaped"]
    /\ object' = [object EXCEPT ![p] = "failed"]
    /\ op' = [op EXCEPT ![p] = "idle"]
    /\ UNCHANGED <<host, known, execFailed, inputOpen, outputOpen, streamVars>>

\* CreateProcessW: the child inherits the ends that are marked inheritable.
CreateProcess(p) ==
    /\ ~Posix /\ op[p] = "spawn"
    /\ fds' = Without(fds, p, {"inR", "outW"})
              \cup {<<p, f[2], f[3]>> : f \in {g \in fds : g[1] = Us /\ g[3] \in {"inR", "outW"}}}
    /\ child' = [child EXCEPT ![p] = "running"]
    /\ Started(p)
    /\ UNCHANGED <<host, execFailed, streamVars>>

-----------------------------------------------------------------------------
(* The child.                                                               *)

Exits(p) ==
    /\ child[p] = "running"
    /\ child' = [child EXCEPT ![p] = "exited"]
    /\ fds' = {f \in fds : f[1] # p}
    /\ UNCHANGED <<host, op, object, known, execFailed, inputOpen, outputOpen, streamVars>>

\* A language server ends when its input does.  A write that is under way keeps the pipe.
ChildSeesEof(p) == ~Held(p, "inW") /\ outWriter[p] # "blocked" /\ Exits(p)

ChildKilled(p) == op[p] = "terminate" /\ Exits(p)

ChildWrites(p) ==
    /\ p \in host.attached /\ child[p] = "running"
    /\ output' = [output EXCEPT ![p] = TRUE]
    /\ UNCHANGED <<host, op, object, child, known, fds, execFailed, inputOpen, outputOpen>>
    /\ UNCHANGED <<inReader, cut, outWriter>>

-----------------------------------------------------------------------------
(* isRunning, wait, terminate, the destructor and the move assignment.      *)

CloseStreams(p) ==
    /\ fds' = Without(fds, p, {"outR", "inW"})
    /\ inputOpen' = [inputOpen EXCEPT ![p] = FALSE]
    /\ outputOpen' = [outputOpen EXCEPT ![p] = FALSE]

\* checkRunning finds that the child has exited.
checkRunning(p) ==
    /\ known[p] /\ child[p] = "exited"
    /\ child' = [child EXCEPT ![p] = "reaped"]
    /\ known' = [known EXCEPT ![p] = FALSE]
    /\ CloseStreams(p)

\* isRunning, and the first thing every other operation does.
NoticeExit(p) ==
    /\ CanCall(p) /\ object[p] = "live"
    /\ checkRunning(p)
    /\ UNCHANGED <<host, op, object, execFailed, streamVars>>

\* wait and terminate of a running child, up to waitpid; "destroyed" for a terminate from
\* the destructor or the move assignment.
StopBlocking(p, how, becomes) ==
    /\ CanCall(p) /\ object[p] = "live" /\ known[p]
    /\ child[p] = "running"
    /\ CloseStreams(p)
    /\ op' = [op EXCEPT ![p] = how]
    /\ object' = [object EXCEPT ![p] = becomes]
    /\ UNCHANGED <<host, child, known, execFailed, streamVars>>

\* Fault: the streams stay open while the child is waited for.
WaitWithStreamsOpen(p) ==
    /\ CanCall(p) /\ object[p] = "live" /\ known[p]
    /\ child[p] = "running"
    /\ op' = [op EXCEPT ![p] = "wait"]
    /\ UNCHANGED <<host, object, child, known, fds, execFailed, inputOpen, outputOpen, streamVars>>

Wait(p) == StopBlocking(p, "wait", "live")
Terminate(p) == StopBlocking(p, "terminate", "live")
DestroyRunning(p) == StopBlocking(p, "terminate", "destroyed")

Destroy(p) ==
    /\ CanCall(p) /\ object[p] = "live"
    /\ object' = [object EXCEPT ![p] = "destroyed"]
    /\ IF known[p] THEN checkRunning(p) ELSE UNCHANGED <<child, known, fds, inputOpen, outputOpen>>
    /\ UNCHANGED <<host, op, execFailed, streamVars>>

\* waitpid, WaitForSingleObject.
Waited(p) ==
    /\ op[p] \in {"wait", "terminate"} /\ child[p] = "exited"
    /\ child' = [child EXCEPT ![p] = "reaped"]
    /\ known' = [known EXCEPT ![p] = FALSE]
    /\ op' = [op EXCEPT ![p] = "idle"]
    /\ UNCHANGED <<host, object, fds, execFailed, inputOpen, outputOpen, streamVars>>

-----------------------------------------------------------------------------
(* pipe_istream and pipe_ostream, in the endpoint's threads.                *)

OwnUnchanged == UNCHANGED <<host, op, object, child, known, execFailed>>

\* startProcessingMessages with the streams of the process; the endpoint keeps them.
Attach(p) ==
    /\ p \in host.attached /\ object[p] = "live" /\ inReader[p] = "off"
    /\ inReader' = [inReader EXCEPT ![p] = "entry"]
    /\ UNCHANGED <<output, cut, outWriter, fds, inputOpen, outputOpen>>
    /\ OwnUnchanged

\* read_some: the tests before the loop.
ReadEnters(p) ==
    /\ inReader[p] = "entry"
    /\ inReader' = [inReader EXCEPT ![p] = IF cut[p] \/ ~inputOpen[p] THEN "ended" ELSE "poll"]
    /\ UNCHANGED <<output, cut, outWriter, fds, inputOpen, outputOpen>>
    /\ OwnUnchanged

\* Fault: a poll that waits for the pipe alone.
PollEndsDeaf(p) ==
    /\ inReader[p] = "poll"
    /\ inputOpen[p] /\ (output[p] \/ ~Held(p, "outW"))
    /\ inReader' = [inReader EXCEPT ![p] = IF output[p] /\ ~cut[p] THEN "entry" ELSE "ended"]
    /\ output' = [output EXCEPT ![p] = @ /\ cut[p]]
    /\ UNCHANGED <<cut, outWriter, fds, inputOpen, outputOpen>>
    /\ OwnUnchanged

\* The loop ends on an interruption, which the time-out of poll (POSIX) or CancelIoEx
\* brings about, on bytes, and at the end of the file; a stream that was closed meanwhile
\* is polled as descriptor -1, which only times out.
PollEnds(p) ==
    /\ inReader[p] = "poll"
    /\ cut[p] \/ (inputOpen[p] /\ (output[p] \/ ~Held(p, "outW")))
    /\ inReader' = [inReader EXCEPT ![p] = IF output[p] /\ ~cut[p] THEN "entry" ELSE "ended"]
    /\ output' = [output EXCEPT ![p] = @ /\ cut[p]]
    /\ UNCHANGED <<cut, outWriter, fds, inputOpen, outputOpen>>
    /\ OwnUnchanged

\* On Windows interrupt() closes the handle as well.
InterruptInput(p) ==
    /\ inReader[p] # "off" /\ ~cut[p]
    /\ cut' = [cut EXCEPT ![p] = TRUE]
    /\ IF Posix THEN UNCHANGED <<fds, inputOpen>>
       ELSE fds' = Without(fds, p, {"outR"}) /\ inputOpen' = [inputOpen EXCEPT ![p] = FALSE]
    /\ UNCHANGED <<output, inReader, outWriter, outputOpen>>
    /\ OwnUnchanged

\* A write blocks while the pipe is full.
WriteBlocks(p) ==
    /\ inReader[p] # "off" /\ outputOpen[p] /\ outWriter[p] = "off" /\ child[p] = "running"
    /\ outWriter' = [outWriter EXCEPT ![p] = "blocked"]
    /\ UNCHANGED <<output, inReader, cut, fds, inputOpen, outputOpen>>
    /\ OwnUnchanged

\* The child reads, or nobody does any more and the write fails: SIGPIPE is ignored.
WriteEnds(p) ==
    /\ outWriter[p] = "blocked"
    /\ outWriter' = [outWriter EXCEPT ![p] = IF Held(p, "inR") THEN "off" ELSE "failed"]
    /\ UNCHANGED <<output, inReader, cut, fds, inputOpen, outputOpen>>
    /\ OwnUnchanged

-----------------------------------------------------------------------------
OperationSteps(p) ==
    \/ OpenPipe(p) \/ Fork(p) \/ Exec(p) \/ Confirm(p) \/ StartRefused(p) \/ CreateProcess(p)
    \/ ChildKilled(p) \/ Waited(p)

StreamSteps(p) == ReadEnters(p) \/ PollEnds(p)

\* A pipe nobody reads fails its writer.
WriteReleased(p) == ~Held(p, "inR") /\ WriteEnds(p)

ProcEnvironment(p) ==
    \/ StartCall(p) \/ StartFails(p) \/ ExecFails(p) \/ Exits(p) \/ ChildWrites(p)
    \/ NoticeExit(p) \/ Wait(p) \/ Terminate(p) \/ DestroyRunning(p) \/ Destroy(p)
    \/ Attach(p) \/ InterruptInput(p) \/ WriteBlocks(p) \/ WriteEnds(p)

ProcNext == \E p \in Procs :
    OperationSteps(p) \/ StreamSteps(p) \/ ChildSeesEof(p) \/ ProcEnvironment(p)

\* Threads run, signals are delivered, and children that read the end of their input
\* exit; a child that is busy forever is not assumed to read.
ProcFairness == \A p \in Procs :
    /\ WF_procVars(OperationSteps(p))
    /\ WF_procVars(StreamSteps(p))
    /\ WF_procVars(ChildSeesEof(p))
    /\ WF_procVars(WriteReleased(p))

ProcSpec == ProcInit /\ [][ProcNext]_procVars /\ ProcFairness

-----------------------------------------------------------------------------
(* Properties.                                                              *)

\* A Process that failed to start, whose child's exit was noticed, or that was waited
\* for, terminated or destroyed leaves neither a descriptor of this program nor a child to
\* be reaped behind, whichever step of the constructor failed (Process.cpp:608-692,
\* 694-751); a running one holds exactly the two ends of its open streams.
Released ==
    \A p \in Procs : op[p] = "idle" =>
        /\ {e \in Ends : Holds(Us, p, e)} = (IF inputOpen[p] THEN {"outR"} ELSE {})
                                             \cup (IF outputOpen[p] THEN {"inW"} ELSE {})
        /\ ~known[p] => child[p] \in {"none", "reaped"} /\ ~inputOpen[p] /\ ~outputOpen[p]

\* Another child holds an end of a pipe of p, since only the error pipe is closed on exec
\* and the ends of other objects are not.
HeldElsewhere(p, e) == \E q \in Procs \ {p} : Holds(q, p, e)

\* start, wait, terminate and the destructor return, wait because it closes the child's
\* input first (Process.cpp:716) - unless a child that was started later holds that input,
\* or a write to a child that has stopped reading is still under way.
OperationsReturn ==
    \A p \in Procs :
        op[p] # "idle" ~> \/ op[p] = "idle"
                          \/ HeldElsewhere(p, "inW") \/ HeldElsewhere(p, "errW")
                          \/ (outWriter[p] = "blocked" /\ child[p] = "running")

\* An interrupted read returns, with nothing to read and with the descriptor closed under
\* it (Process.cpp:130), and a blocked write returns once the child is gone, although the
\* descriptor it was given is closed - unless a child of a concurrent start holds its
\* other end.
StreamsLetGo ==
    \A p \in Procs :
        /\ (cut[p] /\ inReader[p] = "poll") ~> inReader[p] # "poll"
        /\ (outWriter[p] = "blocked" /\ child[p] = "reaped") ~>
                (outWriter[p] # "blocked" \/ HeldElsewhere(p, "inR"))
=============================================================================
