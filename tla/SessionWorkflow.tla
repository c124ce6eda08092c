--------------------------- MODULE SessionWorkflow --------------------------
(***************************************************************************)
(* Workflow sessions and the gate they put before `route run`.             *)
(*                                                                         *)
(* A project has one JSON file per session and a file "current" that names *)
(* one of them.  The CLI and the daemon's /v1/session endpoints start,     *)
(* advance, approve and abandon the current session; runRoute reads it and *)
(* refuses what the strictest active plugin does not allow.  Nobody locks, *)
(* and a session file is written in place: it is truncated, then filled.   *)
(***************************************************************************)
EXTENDS Naturals, FiniteSets

CONSTANTS
  Sessions,    \* session ids (UUIDs: never used twice)
  Plugins,     \* installed plugins
  LevelOf,     \* LevelOf[p]: the freedom level plugin p declares
  Clients,     \* CLI processes and daemon requests
  None,        \* no such file
  Torn,        \* a session file that does not parse
  Requests,    \* the runs clients ask for: [mode, multiFile] records
  Targets,     \* the states clients advance to
  Crashes      \* TRUE: a client may die between two steps

Levels == {"free", "guided", "balanced", "strict"}

States == {"planning", "implementing", "reviewing", "done", "abandoned"}
Closed == {"done", "abandoned"}
Modes  == {"plan", "execute", "review"}

ASSUME SessionAssumption ==
  /\ Requests \subseteq [mode : Modes, multiFile : BOOLEAN]
  /\ Targets \subseteq States
  /\ LevelOf \in [Plugins -> Levels]
  /\ Crashes \in BOOLEAN
  /\ None \notin Sessions
  /\ None # Torn

VARIABLES
  store,       \* store[s]: the content of session file s
  current,     \* the id in the pointer file; an empty pointer file reads as none
  active,      \* the plugins that are active
  op,          \* op[c]: the operation client c is in the middle of
  approved,    \* history: the sessions whose approve-plan wrote its result
  calm         \* history: no operation met another one or a crash so far

vars == <<store, current, active, op, approved, calm>>

-----------------------------------------------------------------------------
\* (The file also holds the freedom level of the plugins at its start, which
\* nothing reads back.)
Session == [state : States, planApproved : BOOLEAN]

ASSUME FilesAssumption == None \notin Session /\ Torn \notin Session

IsOpen(s) == store[s] \in Session /\ store[s].state \notin Closed

Rank(l) ==
  CASE l = "free" -> 0 [] l = "guided" -> 1 [] l = "balanced" -> 2 [] l = "strict" -> 3

\* The strictest level among the active plugins.
EffectiveFreedom(act) ==
  LET declared == {"free"} \cup {LevelOf[p] : p \in act} IN
  CHOOSE l \in declared : \A m \in declared : Rank(m) <= Rank(l)

\* Mutant: a strict execute needs the state but not the approved plan.
Gate_PlanUnchecked(freedom, mode, multiFile, session) ==
  \/ freedom \in {"free", "guided"}
  \/ freedom = "balanced" /\ (session = None \/ session.state \notin Closed)
  \/ /\ freedom = "strict" /\ session # None
     /\ session.state \notin Closed
     /\ mode = "execute" => session.state = "implementing"

\* checkSessionGate: TRUE iff the run is allowed; session is a Session or None.
Gate(freedom, mode, multiFile, session) ==
  \/ freedom \in {"free", "guided"}
  \/ freedom = "balanced" /\ session = None /\ ~ (mode = "execute" /\ multiFile)
  \/ /\ freedom = "balanced" /\ session # None
     /\ session.state \notin Closed
     /\ mode = "execute" /\ multiFile => session.state = "implementing"
  \/ /\ freedom = "strict" /\ session # None
     /\ session.state \notin Closed
     /\ mode = "plan"    => session.state = "planning"
     /\ mode = "execute" => session.planApproved /\ session.state = "implementing"
     /\ mode = "review"  => session.state \in {"reviewing", "implementing"}

\* The local variables of an operation: what it is (kind and arguments), the
\* freedom level it read, the session it is about and the document it writes.
Idle == [pc |-> "idle", kind |-> "none", freedom |-> "free", to |-> "planning",
         mode |-> "plan", multiFile |-> FALSE, sid |-> None, doc |-> None]

Kinds == {"none", "start", "advance", "approve", "abandon", "run"}
PC == {"idle", "pointer", "session", "open", "fill", "create", "blank", "point", "clear",
       "running"}

CanStart(c) == op[c].pc = "idle"

\* A client that has no file operation under way.
Quiet(c) == op[c].pc \in {"idle", "running"}

Become(c, next) == op' = [op EXCEPT ![c] = next]

Init ==
  /\ store    = [s \in Sessions |-> None]
  /\ current  = None
  /\ active   \in SUBSET Plugins
  /\ op       = [c \in Clients |-> Idle]
  /\ approved = {}
  /\ calm     = TRUE

-----------------------------------------------------------------------------
(* The operations begin.  runRoute reads the freedom level it will enforce;  *)
(* all of them then read the current session.                                *)

StartSession(c) ==
  /\ CanStart(c)
  /\ Become(c, [Idle EXCEPT !.kind = "start", !.pc = "pointer"])
  /\ UNCHANGED <<store, current, active, approved>>

AdvanceSession(c, to) ==
  /\ CanStart(c)
  /\ Become(c, [Idle EXCEPT !.kind = "advance", !.pc = "pointer", !.to = to])
  /\ UNCHANGED <<store, current, active, approved>>

ApprovePlan(c) ==
  /\ CanStart(c)
  /\ Become(c, [Idle EXCEPT !.kind = "approve", !.pc = "pointer"])
  /\ UNCHANGED <<store, current, active, approved>>

AbandonSession(c) ==
  /\ CanStart(c)
  /\ Become(c, [Idle EXCEPT !.kind = "abandon", !.pc = "pointer"])
  /\ UNCHANGED <<store, current, active, approved>>

\* The run r gets past the gate, having seen session file content s.
Pass(c, r, s) == Become(c, [r EXCEPT !.pc = "running", !.doc = s])

\* With effective freedom "free" the session is not even read.
RunRoute(c, mode, multiFile) ==
  LET run == [Idle EXCEPT !.kind = "run", !.pc = "pointer", !.mode = mode,
                !.multiFile = multiFile, !.freedom = EffectiveFreedom(active)]
  IN
  /\ CanStart(c)
  /\ IF run.freedom = "free" THEN Pass(c, run, None) ELSE Become(c, run)
  /\ UNCHANGED <<store, current, active, approved>>

\* The stream of the run has ended.
RunEnds(c) ==
  /\ op[c].pc = "running"
  /\ Become(c, Idle)
  /\ UNCHANGED <<store, current, active, approved>>

-----------------------------------------------------------------------------
(* readCurrentSession: the pointer, then the file.  A file that does not     *)
(* parse makes the operation throw; runRoute catches the error, which has no *)
(* errno code, and goes on as if there were no gate.                         *)

\* What operation r goes on with once it has session s, or None.
Write(r, s) == [r EXCEPT !.pc = "open", !.doc = s]

NextOf(r, s) ==
  CASE r.kind = "start" ->
         IF s # None /\ s.state \notin Closed
           THEN Write(r, [s EXCEPT !.state = "abandoned"])
           ELSE [r EXCEPT !.pc = "create", !.sid = None]
    [] r.kind = "advance" /\ s # None -> Write(r, [s EXCEPT !.state = r.to])
    [] r.kind = "approve" /\ s # None /\ s.state = "planning" ->
         Write(r, [s EXCEPT !.planApproved = TRUE])
    [] r.kind = "abandon" /\ s # None -> Write(r, [s EXCEPT !.state = "abandoned"])
    [] OTHER -> Idle

\* Go on with session file content s.
GoOn(c, r, s) ==
  IF r.kind = "run" /\ (s = Torn \/ Gate(r.freedom, r.mode, r.multiFile, s))
    THEN Pass(c, r, s)
    ELSE Become(c, IF s = Torn THEN Idle ELSE NextOf(r, s))

ReadPointer(c) ==
  /\ op[c].pc = "pointer"
  /\ IF current = None
       THEN GoOn(c, op[c], None)
       ELSE Become(c, [op[c] EXCEPT !.pc = "session", !.sid = current])
  /\ UNCHANGED <<store, current, active, approved>>

ReadSession(c) ==
  /\ op[c].pc = "session"
  /\ GoOn(c, op[c], store[op[c].sid])
  /\ UNCHANGED <<store, current, active, approved>>

-----------------------------------------------------------------------------
(* writeSession, setCurrentSessionId                                         *)

\* fs.writeFile opens the file, truncating it ...
OpenFile(c) ==
  /\ op[c].pc = "open"
  /\ store' = [store EXCEPT ![op[c].sid] = Torn]
  /\ Become(c, [op[c] EXCEPT !.pc = "fill"])
  /\ UNCHANGED <<current, active, approved>>

\* Mutant: closing a session leaves the pointer alone.
AfterWrite_KeepPointer(r) ==
  CASE r.kind = "start" /\ r.doc.state = "abandoned" -> [r EXCEPT !.pc = "create", !.sid = None]
    [] r.kind = "start" /\ r.doc.state # "abandoned" -> [r EXCEPT !.pc = "blank"]
    [] OTHER -> Idle

\* What follows a completed session write.
AfterWrite(r) ==
  CASE r.kind = "start" /\ r.doc.state = "abandoned" -> [r EXCEPT !.pc = "create", !.sid = None]
    [] r.kind = "start" /\ r.doc.state # "abandoned" -> [r EXCEPT !.pc = "blank"]
    [] r.kind \in {"advance", "abandon"} /\ r.doc.state \in Closed -> [r EXCEPT !.pc = "clear"]
    [] OTHER -> Idle

\* ... then writes the document over what is there: a longer document another
\* client completed since the truncation leaves its tail behind.
FillFile(c) ==
  LET s == op[c].sid IN
  /\ op[c].pc = "fill"
  /\ \E left \in {op[c].doc, Torn} :
       /\ left = Torn => store[s] # Torn
       /\ store' = [store EXCEPT ![s] = left]
  /\ approved' = IF op[c].kind = "approve" THEN approved \cup {s} ELSE approved
  /\ Become(c, AfterWrite(op[c]))
  /\ UNCHANGED <<current, active>>

\* Mutant: the new session is written before it is made.
CreateSession_NoDocument(c, s) ==
  /\ op[c].pc = "create"
  /\ store[s] = None
  /\ \A d \in Clients : op[d].sid # s
  /\ Become(c, [op[c] EXCEPT !.pc = "open", !.sid = s, !.doc = None])
  /\ UNCHANGED <<store, current, active, approved>>

\* startSession makes the new session under an id nobody has seen.
CreateSession(c, s) ==
  /\ op[c].pc = "create"
  /\ store[s] = None
  /\ \A d \in Clients : op[d].sid # s
  /\ Become(c, [op[c] EXCEPT !.pc = "open", !.sid = s,
                  !.doc = [state |-> "planning", planApproved |-> FALSE]])
  /\ UNCHANGED <<store, current, active, approved>>

\* The pointer file is truncated, which reads as no pointer, then filled.
BlankPointer(c) ==
  /\ op[c].pc = "blank"
  /\ current' = None
  /\ Become(c, [op[c] EXCEPT !.pc = "point"])
  /\ UNCHANGED <<store, active, approved>>

SetPointer(c) ==
  /\ op[c].pc = "point"
  /\ current' = op[c].sid
  /\ Become(c, Idle)
  /\ UNCHANGED <<store, active, approved>>

ClearPointer(c) ==
  /\ op[c].pc = "clear"
  /\ current' = None
  /\ Become(c, Idle)
  /\ UNCHANGED <<store, active, approved>>

-----------------------------------------------------------------------------
(* The environment: plugins are enabled and disabled, clients die.           *)

TogglePlugin(p) ==
  /\ active' = IF p \in active THEN active \ {p} ELSE active \cup {p}
  /\ UNCHANGED <<store, current, op, approved>>

Crash(c) ==
  /\ Crashes
  /\ op[c].pc # "idle"
  /\ Become(c, Idle)
  /\ UNCHANGED <<store, current, active, approved>>

Begin(c) ==
  \/ StartSession(c)
  \/ \E to \in Targets : AdvanceSession(c, to)
  \/ ApprovePlan(c)
  \/ AbandonSession(c)
  \/ \E req \in Requests : RunRoute(c, req.mode, req.multiFile)

Continue(c) ==
  \/ RunEnds(c)
  \/ ReadPointer(c)
  \/ ReadSession(c)
  \/ OpenFile(c)
  \/ FillFile(c)
  \/ \E s \in Sessions : CreateSession(c, s)
  \/ BlankPointer(c)
  \/ SetPointer(c)
  \/ ClearPointer(c)

Next ==
  \/ \E c \in Clients :
       \/ Begin(c) /\ calm' = (calm /\ \A d \in Clients : Quiet(d))
       \/ Continue(c) /\ UNCHANGED calm
       \/ Crash(c) /\ calm' = (calm /\ Quiet(c))
  \/ \E p \in Plugins : TogglePlugin(p) /\ UNCHANGED calm

Spec == Init /\ [][Next]_vars

-----------------------------------------------------------------------------
(* Properties *)

File == Session \cup {None, Torn}

Operation ==
  [pc : PC, kind : Kinds, freedom : Levels, to : States, mode : Modes,
   multiFile : BOOLEAN, sid : Sessions \cup {None}, doc : File]

\* The type of every variable, and that whoever reads or writes a session file
\* knows which one and what it will write.
TypeOK ==
  /\ store \in [Sessions -> File]
  /\ current \in Sessions \cup {None}
  /\ active \subseteq Plugins
  /\ op \in [Clients -> Operation]
  /\ approved \subseteq Sessions
  /\ calm \in BOOLEAN
  /\ \A c \in Clients :
       /\ op[c].pc \in {"session", "open", "fill", "blank", "point"} => op[c].sid \in Sessions
       /\ op[c].pc \in {"open", "fill"} => op[c].doc \in Session

Running(c, freedom, mode) ==
  op[c].pc = "running" /\ op[c].freedom = freedom /\ op[c].mode = mode

\* Whatever raced with it, a strict execute that could read its session runs in
\* a session it saw in state implementing and whose plan somebody did approve:
\* planApproved never leaks from one session into another or out of a lost
\* update.
StrictExecuteIsPlanned ==
  \A c \in Clients :
    Running(c, "strict", "execute") /\ op[c].doc # Torn =>
      /\ op[c].doc # None
      /\ op[c].doc.state = "implementing"
      /\ op[c].sid \in approved

\* "Strict workflow refuses mode=execute until the user has explicitly
\* approved a plan", whatever state the session file is in.
StrictRefusesUnplanned ==
  \A c \in Clients : Running(c, "strict", "execute") => op[c].sid \in approved

\* As long as no operation met another one or a crash, the pointer names the
\* open session between operations and there is no other: every operation that
\* closes the session also takes the pointer away.
OpenIsCurrent ==
  calm /\ (\A c \in Clients : Quiet(c)) =>
    \A s \in Sessions : IsOpen(s) <=> current = s
=============================================================================
