---------------------------- MODULE RuntimeDaemon ----------------------------
(***************************************************************************)
(* The daemon of the command line: tierkit runtime start, stop and status  *)
(* find each other through daemon.pid and daemon.port in the data          *)
(* directory.  Commands are processes that interleave at their file        *)
(* accesses; daemons crash, and the system gives a pid out again.          *)
(***************************************************************************)
EXTENDS Naturals

CONSTANTS
  MaxStarts,   \* bound: start commands
  MaxStops,    \* bound: stop commands
  Ports,       \* the ports a daemon is told to bind
  None         \* no pid, port or process

VARIABLES
  start,     \* the start commands, numbered as they begin: the daemons
  stop,      \* the stop commands
  pidFile,   \* daemon.pid: whether it is there and whole, whose it is, the pid
  portFile,  \* daemon.port
  stranger,  \* the pid that another program has been given
  mixed      \* history: two commands ran at the same time

vars == <<start, stop, pidFile, portFile, stranger, mixed>>

Starts == 1 .. MaxStarts
Stops  == 1 .. MaxStops

\* A process has the number of its start for a pid.
NoStart == [st |-> "unborn", port |-> None]
NoStop  == [st |-> "unborn", pid |-> None]
NoFile  == [st |-> "missing", by |-> None]

Alive(p)   == start[p].st \notin {"unborn", "exited"}
Bound(p)   == start[p].st \in {"bound", "opened", "filled", "serving"}
Binds(p)   == Bound(p) \/ start[p].st = "closing"
Starting(p) == Alive(p) /\ start[p].st \notin {"serving", "closing"}
Stopping(q) == stop[q].st \notin {"unborn", "done"}
Busy       == (\E p \in Starts : Starting(p)) \/ (\E q \in Stops : Stopping(q))

Init ==
  /\ start = [p \in Starts |-> NoStart]
  /\ stop = [q \in Stops |-> NoStop]
  /\ pidFile = NoFile
  /\ portFile = None
  /\ stranger = None
  /\ mixed = FALSE

-----------------------------------------------------------------------------
Go(p, st) == start' = [start EXCEPT ![p].st = st]

\* kill(pid, 0): there is a process of this number, a daemon or
\* not. A stop may signal one that is not.
isPidAlive(pid) == pid # None /\ (Alive(pid) \/ pid = stranger)

\* ---- tierkit runtime start
startRuntime(p, port) ==
  /\ start[p].st = "unborn" /\ \A r \in Starts : r < p => start[r].st # "unborn"
  /\ start' = [start EXCEPT ![p] = [st |-> "check", port |-> port]]
  /\ mixed' = (mixed \/ Busy)
  /\ UNCHANGED <<stop, pidFile, portFile, stranger>>

\* Mutant: the recorded process is not looked for.
readPidIfAlive_Unasked(p) ==
  /\ start[p].st = "check"
  /\ Go(p, "bind")
  /\ UNCHANGED <<stop, pidFile, portFile, stranger, mixed>>

\* A recorded process that lives means already-running; a file that is cut off,
\* or of a process that is gone, does not.
readPidIfAlive(p) ==
  /\ start[p].st = "check"
  /\ Go(p, IF pidFile.st = "whole" /\ isPidAlive(pidFile.by) THEN "exited" ELSE "bind")
  /\ UNCHANGED <<stop, pidFile, portFile, stranger, mixed>>

\* startServer; a port that is taken ends the command.
startServer(p) ==
  /\ start[p].st = "bind"
  /\ Go(p, IF \E r \in Starts \ {p} : Binds(r) /\ start[r].port = start[p].port
             THEN "exited" ELSE "bound")
  /\ UNCHANGED <<stop, pidFile, portFile, stranger, mixed>>

\* The pid file is emptied, then filled, unless it was removed in between.
OpenPid(p) ==
  /\ start[p].st = "bound"
  /\ Go(p, "opened")
  /\ pidFile' = [st |-> "empty", by |-> p]
  /\ UNCHANGED <<stop, portFile, stranger, mixed>>

FillPid(p) ==
  /\ start[p].st = "opened"
  /\ Go(p, "filled")
  /\ pidFile' = IF pidFile.st = "missing" THEN pidFile ELSE [st |-> "whole", by |-> p]
  /\ UNCHANGED <<stop, portFile, stranger, mixed>>

WritePort(p) ==
  /\ start[p].st = "filled"
  /\ Go(p, "serving")
  /\ portFile' = start[p].port
  /\ UNCHANGED <<stop, pidFile, stranger, mixed>>

\* SIGTERM and SIGINT: before the handlers are there, and the second time, the
\* process ends at once; else its server closes first. No file is removed.
Signalled(p) ==
  CASE start[p].st = "serving" -> [start EXCEPT ![p].st = "closing"]
    [] OTHER                   -> [start EXCEPT ![p].st = "exited"]

CtrlC(p) ==
  /\ Alive(p)
  /\ start' = Signalled(p)
  /\ UNCHANGED <<stop, pidFile, portFile, stranger, mixed>>

\* server.close is done once the requests under way are.
close(p) ==
  /\ start[p].st = "closing"
  /\ Go(p, "exited")
  /\ UNCHANGED <<stop, pidFile, portFile, stranger, mixed>>

Crash(p) ==
  /\ Alive(p)
  /\ Go(p, "exited")
  /\ UNCHANGED <<stop, pidFile, portFile, stranger, mixed>>

\* Another program is given the pid of a process that has ended.
Reuse(p) ==
  /\ stranger = None
  /\ start[p].st = "exited"
  /\ stranger' = p
  /\ UNCHANGED <<start, stop, pidFile, portFile, mixed>>

\* ---- tierkit runtime stop
stopRuntime(q) ==
  /\ stop[q].st = "unborn" /\ \A r \in Stops : r < q => stop[r].st # "unborn"
  /\ stop' = [stop EXCEPT ![q].st = "read"]
  /\ mixed' = (mixed \/ Busy)
  /\ UNCHANGED <<start, pidFile, portFile, stranger>>

\* No file: not running. A malformed file, or one of a process that is gone, is
\* removed next; else the process is signalled before.
ReadPid(q) ==
  /\ stop[q].st = "read"
  /\ stop' = [stop EXCEPT ![q] =
       CASE pidFile.st = "missing" -> [st |-> "done", pid |-> None]
         [] pidFile.st = "whole" /\ isPidAlive(pidFile.by) -> [st |-> "kill", pid |-> pidFile.by]
         [] OTHER -> [st |-> "rm", pid |-> None]]
  /\ UNCHANGED <<start, pidFile, portFile, stranger, mixed>>

\* A process that went in the meantime is an error, and the file stays.
Kill(q) ==
  /\ stop[q].st = "kill"
  /\ LET pid == stop[q].pid
     IN /\ stop' = [stop EXCEPT ![q].st = IF isPidAlive(pid) THEN "rm" ELSE "done"]
        /\ start' = IF Alive(pid) THEN Signalled(pid) ELSE start
  /\ UNCHANGED <<pidFile, portFile, stranger, mixed>>

Remove(q) ==
  /\ stop[q].st = "rm"
  /\ stop' = [stop EXCEPT ![q].st = "done"]
  /\ pidFile' = NoFile
  /\ UNCHANGED <<start, portFile, stranger, mixed>>

Next ==
  \/ \E p \in Starts :
       \/ \E port \in Ports : startRuntime(p, port)
       \/ readPidIfAlive(p) \/ startServer(p) \/ OpenPid(p) \/ FillPid(p) \/ WritePort(p)
       \/ CtrlC(p) \/ close(p) \/ Crash(p) \/ Reuse(p)
  \/ \E q \in Stops : stopRuntime(q) \/ ReadPid(q) \/ Kill(q) \/ Remove(q)
  \/ ~Busy /\ UNCHANGED vars

Spec == Init /\ [][Next]_vars

-----------------------------------------------------------------------------
\* runtimeStatus.
running == pidFile.st = "whole" /\ isPidAlive(pidFile.by)

Serving == {p \in Starts : start[p].st = "serving"}

\* The files tell the truth about the daemon (startRuntime: "throws
\* already-running if the recorded pid is alive").  As long as no two commands
\* ran at the same time, whatever crashed, was interrupted or left a stale file,
\* at most one daemon serves the workspace, and between commands the two files
\* name it and its port, so that status shows it and stop reaches it.
DaemonIsRecorded ==
  /\ ~mixed => \A p, r \in Serving : p = r
  /\ ~mixed /\ ~Busy => \A p \in Serving :
       running /\ pidFile.by = p /\ portFile = start[p].port
=============================================================================
