---------------------------- MODULE OllamaLaunch ----------------------------
(***************************************************************************)
(* The launching of a local Ollama for calls that found none               *)
(* (ollamaAutoLaunch.ts, called from ensureUpThenFetch), by several calls  *)
(* of one process at once, with the child process, an Ollama the user      *)
(* starts and stops, and the shutdown of the daemon.                       *)
(***************************************************************************)
EXTENDS Naturals

CONSTANTS
  Callers,      \* calls to Ollama under way
  MaxLaunches   \* bound: child processes ever spawned

VARIABLES
  caller,        \* caller[c]: where the call is
  spawnedChild,  \* the child the module remembers, 0 for none
  process,       \* process[p]: the p-th child ever spawned
  cooling,       \* the last attempt was less than two seconds ago
  external,      \* an Ollama nobody here started is up
  shutdowns      \* history: a shutdown has happened

vars == <<caller, spawnedChild, process, cooling, external, shutdowns>>

Children == 1 .. MaxLaunches
Alive(p) == process[p] \in {"starting", "serving", "stopping"}
Remembered == \E p \in Children : p = spawnedChild /\ Alive(p)
Up == external \/ \E p \in Children : process[p] \in {"serving", "stopping"}

Init ==
  /\ caller = [c \in Callers |-> "idle"]
  /\ spawnedChild = 0
  /\ process = [p \in Children |-> "none"]
  /\ cooling = FALSE
  /\ external \in BOOLEAN
  /\ shutdowns = FALSE

Goto(c, where) == caller' = [caller EXCEPT ![c] = where]

-----------------------------------------------------------------------------
(* tryEnsureOllamaRunning.                                                  *)

\* The connection was refused: is it up after all?
Refused(c) ==
  /\ caller[c] = "idle"
  /\ Goto(c, "probing")
  /\ UNCHANGED <<spawnedChild, process, cooling, external, shutdowns>>

ProbeFindsIt(c) ==
  /\ caller[c] = "probing"
  /\ Up
  /\ Goto(c, "up")
  /\ UNCHANGED <<spawnedChild, process, cooling, external, shutdowns>>

InCooldown(c) ==
  /\ caller[c] = "probing"
  /\ cooling
  /\ Goto(c, "failed")
  /\ UNCHANGED <<spawnedChild, process, cooling, external, shutdowns>>

\* Our child is there, but not up yet: wait for it.
JoinWait(c) ==
  /\ caller[c] = "probing"
  /\ ~ cooling
  /\ Remembered
  /\ cooling' = TRUE
  /\ Goto(c, "waiting")
  /\ UNCHANGED <<spawnedChild, process, external, shutdowns>>

\* Mutant: the cooldown alone keeps a second child from being spawned.
Launch_NoJoin(c) ==
  /\ caller[c] = "probing"
  /\ ~ cooling
  /\ \E p \in Children :
       /\ process[p] = "none"
       /\ \A q \in Children : q < p => process[q] # "none"
       /\ process' = [process EXCEPT ![p] = "starting"]
       /\ spawnedChild' = p
  /\ cooling' = TRUE
  /\ Goto(c, "waiting")
  /\ UNCHANGED <<external, shutdowns>>

\* No child, or one that is known to be gone: spawn `ollama serve`.
Launch(c) ==
  /\ caller[c] = "probing"
  /\ ~ cooling
  /\ ~ Remembered
  /\ \E p \in Children :
       /\ process[p] = "none"
       /\ \A q \in Children : q < p => process[q] # "none"
       /\ process' = [process EXCEPT ![p] = "starting"]
       /\ spawnedChild' = p
  /\ cooling' = TRUE
  /\ Goto(c, "waiting")
  /\ UNCHANGED <<external, shutdowns>>

\* spawn itself throws.
LaunchThrows(c) ==
  /\ caller[c] = "probing"
  /\ ~ cooling
  /\ ~ Remembered
  /\ spawnedChild' = 0
  /\ cooling' = TRUE
  /\ Goto(c, "failed")
  /\ UNCHANGED <<process, external, shutdowns>>

\* waitForUp: polled every 250 ms, for twelve seconds.
WaitEnds(c) ==
  /\ caller[c] = "waiting"
  /\ Up
  /\ Goto(c, "up")
  /\ UNCHANGED <<spawnedChild, process, cooling, external, shutdowns>>

WaitTimesOut(c) ==
  /\ caller[c] = "waiting"
  /\ Goto(c, "failed")
  /\ UNCHANGED <<spawnedChild, process, cooling, external, shutdowns>>

\* Whatever came of it, the request is sent once more, and the call is over.
Refetch(c) ==
  /\ caller[c] \in {"up", "failed"}
  /\ Goto(c, "idle")
  /\ UNCHANGED <<spawnedChild, process, cooling, external, shutdowns>>

-----------------------------------------------------------------------------
(* The child processes, and time.                                           *)

Serves(p) ==
  /\ process[p] = "starting"
  /\ ~ Up
  /\ process' = [process EXCEPT ![p] = "serving"]
  /\ UNCHANGED <<caller, spawnedChild, cooling, external, shutdowns>>

\* 'exit', or 'error' when the binary is missing: whichever child it was, the
\* module forgets the one it remembers.
Exits(p) ==
  /\ Alive(p)
  /\ process' = [process EXCEPT ![p] = "gone"]
  /\ spawnedChild' = 0
  /\ UNCHANGED <<caller, cooling, external, shutdowns>>

CooldownEnds ==
  /\ cooling
  /\ cooling' = FALSE
  /\ UNCHANGED <<caller, spawnedChild, process, external, shutdowns>>

UserStartsOrStops ==
  /\ external' = ~ external
  /\ external \/ ~ Up
  /\ UNCHANGED <<caller, spawnedChild, process, cooling, shutdowns>>

\* shutdownSpawnedOllama, from the close of the daemon's server.
Shutdown ==
  /\ shutdowns' = TRUE
  /\ process' = IF Remembered
                  THEN [process EXCEPT ![spawnedChild] = "stopping"] ELSE process
  /\ spawnedChild' = 0
  /\ UNCHANGED <<caller, cooling, external>>

Next ==
  \/ \E c \in Callers :
       \/ Refused(c) \/ ProbeFindsIt(c) \/ InCooldown(c) \/ JoinWait(c)
       \/ Launch(c) \/ LaunchThrows(c) \/ WaitEnds(c) \/ WaitTimesOut(c)
       \/ Refetch(c)
  \/ \E p \in Children : Serves(p) \/ Exits(p)
  \/ CooldownEnds
  \/ UserStartsOrStops
  \/ Shutdown

Spec == Init /\ [][Next]_vars

-----------------------------------------------------------------------------
\* Until the daemon is first shut down, however many calls find no Ollama at
\* once and however often it dies, at most one child started here is alive,
\* and it is the one the module remembers and would stop.
OneOllama ==
  ~ shutdowns => \A p \in Children : Alive(p) => spawnedChild = p
=============================================================================
