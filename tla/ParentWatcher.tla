--------------------------- MODULE ParentWatcher ---------------------------
(***************************************************************************)
(* ParentProcessWatcher: a language server asks the system every few       *)
(* seconds whether the process that started it still exists.  A check runs *)
(* in a thread of its own, its outcome is handled on the io thread, which  *)
(* arms a SimpleTimer for the next check or, three seconds later, calls    *)
(* on_exit.                                                                *)
(***************************************************************************)
EXTENDS Naturals

VARIABLES
    parentAlive,  \* the process that is watched exists
    check,        \* "none", "running", or the exit code the io thread has to handle
    pollTimer,    \* the timer is armed
    delaying,     \* the thread that waits before on_exit
    exits,        \* calls of on_exit
    watcher       \* "none", "live", or "gone" after the destructor

watchVars == <<parentAlive, check, pollTimer, delaying, exits, watcher>>

WatchInit ==
    /\ parentAlive = TRUE
    /\ check = "none"
    /\ pollTimer = FALSE /\ delaying = FALSE
    /\ exits = 0
    /\ watcher = "none"

\* The constructor calls run().
MakeWatcher ==
    /\ watcher = "none"
    /\ watcher' = "live"
    /\ check' = "running"
    /\ UNCHANGED <<parentAlive, pollTimer, delaying, exits>>

ParentDies ==
    /\ parentAlive
    /\ parentAlive' = FALSE
    /\ UNCHANGED <<check, pollTimer, delaying, exits, watcher>>

\* ps, tasklist: 0 when the process is listed, 1 when it is not.
CheckSucceeds ==
    /\ check = "running"
    /\ check' = IF parentAlive THEN "found" ELSE "missing"
    /\ UNCHANGED <<parentAlive, pollTimer, delaying, exits, watcher>>

\* system() fails, or the command returns something else.
CheckFails ==
    /\ check = "running"
    /\ check' = "error"
    /\ UNCHANGED <<parentAlive, pollTimer, delaying, exits, watcher>>

\* Fault: only a process that was found is looked for again.
HandleCheckOnce ==
    /\ check \in {"found", "missing", "error"}
    /\ check' = "none"
    /\ delaying' = (check = "missing")
    /\ pollTimer' = (check = "found")
    /\ UNCHANGED <<parentAlive, exits, watcher>>

\* The handler run() posts; the new timer replaces one that has fired.
HandleCheck ==
    /\ check \in {"found", "missing", "error"}
    /\ check' = "none"
    /\ delaying' = (check = "missing")
    /\ pollTimer' = (check # "missing")
    /\ UNCHANGED <<parentAlive, exits, watcher>>

TimerFires ==
    /\ pollTimer
    /\ pollTimer' = FALSE
    /\ check' = "running"
    /\ UNCHANGED <<parentAlive, delaying, exits, watcher>>

OnExit ==
    /\ delaying
    /\ delaying' = FALSE
    /\ exits' = exits + 1
    /\ UNCHANGED <<parentAlive, check, pollTimer, watcher>>

\* The destructor stops a timer that is armed; a check or a delay under way goes on.
DestroyWatcher ==
    /\ watcher = "live"
    /\ watcher' = "gone"
    /\ pollTimer' = FALSE
    /\ UNCHANGED <<parentAlive, check, delaying, exits>>

WatchNext ==
    \/ MakeWatcher \/ ParentDies \/ CheckSucceeds \/ CheckFails \/ HandleCheck
    \/ TimerFires \/ OnExit \/ DestroyWatcher

\* Threads and timers run, and the system does not refuse the check for ever.
WatchFairness ==
    /\ SF_watchVars(CheckSucceeds)
    /\ WF_watchVars(CheckFails)
    /\ WF_watchVars(HandleCheck)
    /\ WF_watchVars(TimerFires)
    /\ WF_watchVars(OnExit)

\* The end of the parent is reported, exactly once and after checks that failed
\* (ParentProcessWatcher.cpp:42-97), unless the watcher is destroyed.
ParentExitReported ==
    /\ [](exits <= 1 /\ (exits = 1 => ~parentAlive))
    /\ (~parentAlive /\ watcher = "live") ~> (exits = 1 \/ watcher = "gone")
=============================================================================
