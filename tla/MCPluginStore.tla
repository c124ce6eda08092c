---------------------------- MODULE MCPluginStore ----------------------------
(* What Tierkit keeps in and reads from a workspace, in one run: PluginStore, *)
(* RuntimeDaemon (the files of the daemon), DigestCache, Digests and          *)
(* ChunkedReads. The components are side by side: part says which of them a   *)
(* behaviour is about; the variables of the others are blank, and PluginStore *)
(* stays as it begins.                                                        *)
EXTENDS PluginStore, Naturals, TLC

CONSTANTS
  MaxStarts,    \* bound: start commands of RuntimeDaemon
  MaxStops,     \* bound: stop commands
  Ports,        \* the ports a daemon is told to bind
  Files,        \* the files that DigestCache knows
  Contents,     \* what they may contain
  MaxAsks,      \* bound: digests asked for
  MaxSaves,     \* bound: edits of the files
  MaxClears,    \* bound: clears of the cache
  MaxKills,     \* bound: processes that end in the middle
  MaxLines,     \* bound: lines of an input of Digests
  MaxItems,     \* the budget of a digest
  FrameCap,     \* the frames a failed case keeps
  Absent,       \* a value that no line gave
  Gone,         \* a file or directory that ChunkedReads does not find
  Versioned,    \* the contents of its file differ in this
  MaxLength,    \* and in their number of lines, up to this one
  Names,        \* the entries of its directory
  HardMax,      \* the largest answer
  MaxAsked,     \* bound: the largest answer that is asked for
  MaxChanges,   \* bound: edits of its file or directory
  MaxReads      \* bound: calls of a chain

\* The 0 that stands for no port is none.
ASSUME PortsAssumption == 0 \notin Ports

Texts == [id : Versioned, lines : 1 .. MaxLength]

\* A value that no line gave is not the number of a line; a file that is gone is no
\* content; budgets and sizes of answers are numbers, and a directory is finite.
ASSUME ReadsAssumption ==
  /\ Absent \notin Nat
  /\ MaxItems \in Nat /\ FrameCap \in Nat
  /\ Gone \notin Texts
  /\ IsFiniteSet(Names) /\ Names \subseteq Nat
  /\ HardMax \in Nat \ {0} /\ MaxAsked \in Nat

-----------------------------------------------------------------------------
VARIABLES
  part,
  start, stop, pidFile, portFile, stranger, mixed,
  file, entry, asks, clear, edits, clears, crashes,
  tool, input, loop,
  chunked, listed, read, list, chunkEdits

cliVars    == <<start, stop, pidFile, portFile, stranger, mixed>>
cacheVars  == <<file, entry, asks, clear, edits, clears, crashes>>
digestVars == <<tool, input, loop>>
chunkVars  == <<chunked, listed, read, list, chunkEdits>>

Cli     == INSTANCE RuntimeDaemon WITH None <- 0
Cache   == INSTANCE DigestCache
             WITH MaxCalls <- MaxAsks, MaxEdits <- MaxSaves, MaxCrashes <- MaxKills
Summary == INSTANCE Digests WITH state <- loop
Chunks  == INSTANCE ChunkedReads
             WITH Contents <- Texts, Entries <- Names, MaxEdits <- MaxChanges,
                  MaxCalls <- MaxReads,
                  file <- chunked, dir <- listed, edits <- chunkEdits

CliBlank     == /\ start = 0 /\ stop = 0 /\ pidFile = 0
                /\ portFile = 0 /\ stranger = 0 /\ mixed = 0
CacheBlank   == /\ file = 0 /\ entry = 0 /\ asks = 0 /\ clear = 0
                /\ edits = 0 /\ clears = 0 /\ crashes = 0
DigestsBlank == tool = 0 /\ input = 0 /\ loop = 0
ChunksBlank  == chunked = 0 /\ listed = 0 /\ read = 0 /\ list = 0 /\ chunkEdits = 0

WorkspaceInit ==
  /\ part \in {"plugins", "daemon", "cache", "digests", "chunks"}
  /\ Init
  /\ part # "plugins" => config = Missing /\ \A p \in Plugins : source[p] = Invalid
  /\ IF part = "daemon" THEN Cli!Init ELSE CliBlank
  /\ IF part = "cache" THEN Cache!Init ELSE CacheBlank
  /\ IF part = "digests" THEN Summary!Init ELSE DigestsBlank
  /\ IF part = "chunks" THEN Chunks!Init ELSE ChunksBlank

PluginsStep == part = "plugins" /\ Next
               /\ UNCHANGED <<part, cliVars, cacheVars, digestVars, chunkVars>>
CliStep     == part = "daemon" /\ Cli!Next
               /\ UNCHANGED <<part, vars, cacheVars, digestVars, chunkVars>>
CacheStep   == part = "cache" /\ Cache!Next
               /\ UNCHANGED <<part, vars, cliVars, digestVars, chunkVars>>
DigestsStep == part = "digests" /\ Summary!Next
               /\ UNCHANGED <<part, vars, cliVars, cacheVars, chunkVars>>
ChunksStep  == part = "chunks" /\ Chunks!Next
               /\ UNCHANGED <<part, vars, cliVars, cacheVars, digestVars>>

WorkspaceSpec ==
  /\ WorkspaceInit
  /\ [][PluginsStep \/ CliStep \/ CacheStep \/ DigestsStep \/ ChunksStep]_
       <<part, vars, cliVars, cacheVars, digestVars, chunkVars>>

\* The files of a daemon on the command line tell the truth about it
\* (RuntimeDaemon).
DaemonIsRecorded == part = "daemon" => Cli!DaemonIsRecorded

\* What the model is given in place of a file is true of the file: a cached
\* digest (DigestCache), a digest of logs and diffs (Digests), and what the
\* chunks and pages of a chain of calls add up to (ChunkedReads).
DigestsAreFaithful ==
  /\ part = "cache" => Cache!DigestIsOfTheFile
  /\ part = "digests" => Summary!DigestsAreTrue
  /\ part = "chunks" => Chunks!ChainsAreWhole
=============================================================================
