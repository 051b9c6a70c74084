---------------------------- MODULE MCTransports ----------------------------
(***************************************************************************)
(* What carries an endpoint's bytes: TcpServer and WebSocketServer, child  *)
(* processes and the watcher of the parent process.  The three share       *)
(* nothing; a behaviour exercises one of them, and the others stay in      *)
(* their initial states.                                                   *)
(***************************************************************************)
EXTENDS Connections, Processes, ParentWatcher

VARIABLE subject

ServerSetups ==
    {[kind |-> "tcp", conns |-> 2, bytes |-> 2, chunks |-> 0],
     [kind |-> "tcp", conns |-> 3, bytes |-> 0, chunks |-> 0],
     [kind |-> "websocket", conns |-> 2, bytes |-> 1, chunks |-> 0],
     [kind |-> "tcp", conns |-> 1, bytes |-> 0, chunks |-> 2]}

\* A client is connected when the server is stopped.
OneClient == {[kind |-> "tcp", conns |-> 1, bytes |-> 1, chunks |-> 0]}

Host(platform, concurrent, attached) ==
    [platform |-> platform, concurrent |-> concurrent, attached |-> attached]
Hosts == {Host("posix", FALSE, {1}), Host("win32", FALSE, {1}), Host("posix", TRUE, {})}

TransportInit ==
    /\ subject \in {"server", "process", "watcher"}
    /\ Init /\ ProcInit /\ WatchInit
    /\ subject # "server" => setup = CHOOSE s \in Setups : TRUE
    /\ subject # "process" => host = CHOOSE h \in ProcSetups : TRUE

TransportNext ==
    /\ UNCHANGED subject
    /\ \/ subject = "server" /\ Next /\ UNCHANGED <<procVars, watchVars>>
       \/ subject = "process" /\ ProcNext /\ UNCHANGED <<vars, watchVars>>
       \/ subject = "watcher" /\ WatchNext /\ UNCHANGED <<vars, procVars>>

TransportSpec ==
    TransportInit 
        /\ [][TransportNext]_<<subject, vars, procVars, watchVars>>
        /\ Fairness /\ ProcFairness /\ WatchFairness
=============================================================================
