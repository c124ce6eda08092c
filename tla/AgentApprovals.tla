--------------------------- MODULE AgentApprovals ---------------------------
(***************************************************************************)
(* The coding agent behind POST /v1/agent/run: several runs of the agent   *)
(* loop in one daemon, their tool calls, and the one map of pending        *)
(* approvals all interactive runs share, answered by POST                  *)
(* /v1/agent/approval, by a five-minute timer or by the closing of the     *)
(* run's connection.                                                       *)
(*                                                                         *)
(* The daemon is one event loop: what the code does between two awaits on  *)
(* the outside world is one action here.  A call id is the millisecond the *)
(* model's answer was parsed in and the position of the call in it.        *)
(***************************************************************************)
EXTENDS Naturals, Sequences

CONSTANTS
  Runs,        \* the agent runs, each one POST /v1/agent/run
  Inputs,      \* bound: the inputs runs are started with
  None,        \* no entry in the map of pending approvals
  MaxTurns,    \* maxTurns of every run
  MaxCalls,    \* bound: tool calls in one answer of the model
  MaxNow,      \* bound: milliseconds in which answers arrive
  SameMs       \* TRUE: two answers may be parsed within one millisecond

Input == [interactive : BOOLEAN, edit : BOOLEAN, singleShot : BOOLEAN]

ASSUME ApprovalAssumption ==
  /\ Inputs \subseteq Input
  /\ MaxTurns \in Nat \ {0}
  /\ MaxCalls \in Nat
  /\ MaxNow \in Nat
  /\ SameMs \in BOOLEAN
  /\ None \notin Runs

VARIABLES
  run,         \* run[r]: the loop of r
  pending,     \* pendingApprovals[id]: the run whose promise is registered
  timers,      \* the live approval timers
  closed,      \* the runs whose connection has closed
  now,         \* the millisecond of the last answer
  asked,       \* asked[r]: ids shown to r's client, not answered by it
  granted,     \* history: granted[r]: ids r's client approved
  ran          \* history: the <<run, id>> that went on to run the tool

vars == <<run, pending, timers, closed, now, asked, granted, ran>>

-----------------------------------------------------------------------------
\* approval "always"; any other tool; no such tool.
Kinds == {"ask", "free", "unknown"}
Id    == (1 .. MaxNow) \X (1 .. MaxCalls)
Call  == [id : Id, kind : Kinds]
Timer == [id : Id, run : Runs]

NoInput == [interactive |-> FALSE, edit |-> FALSE, singleShot |-> FALSE]
Waiting == {r \in Runs : run[r].pc = "await"}
CallOf(r) == Head(run[r].calls)

Init ==
  /\ run     = [r \in Runs |-> [pc |-> "idle", input |-> NoInput, turn |-> 0,
                                calls |-> <<>>, forceUsed |-> FALSE]]
  /\ pending = [id \in Id |-> None]
  /\ timers  = {}
  /\ closed  = {}
  /\ now     = 0
  /\ asked   = [r \in Runs |-> {}]
  /\ granted = [r \in Runs |-> {}]
  /\ ran     = {}

Goto(r, pc) == run' = [run EXCEPT ![r].pc = pc]
DropCall(r) == [run[r] EXCEPT !.pc = "calls", !.calls = Tail(run[r].calls)]
Registry    == <<pending, timers, closed, asked, granted, ran>>

-----------------------------------------------------------------------------
(* runAgent: one turn asks the model and runs the calls of its answer.      *)

StartRun(r, input) ==
  /\ run[r].pc = "idle"
  /\ run' = [run EXCEPT ![r].pc = "model", ![r].input = input, ![r].turn = 1]
  /\ UNCHANGED <<now, Registry>>

\* The model call throws, or times out in single-shot mode.
ModelFails(r) ==
  /\ run[r].pc = "model"
  /\ Goto(r, "done")
  /\ UNCHANGED <<now, Registry>>

\* task_complete, or any answer in single-shot mode: calls in it are not run.
ModelCompletes(r) ==
  /\ run[r].pc = "model"
  /\ Goto(r, "done")
  /\ UNCHANGED <<now, Registry>>

\* Mutant: the forced retry ignores the turn cap.
ModelStalls_NoCap(r) ==
  /\ run[r].pc = "model"
  /\ ~ run[r].input.singleShot
  /\ run' = [run EXCEPT ![r] =
               IF run[r].input.edit /\ ~ run[r].forceUsed
                 THEN [run[r] EXCEPT !.turn = run[r].turn + 1, !.forceUsed = TRUE]
                 ELSE [run[r] EXCEPT !.pc = "done"]]
  /\ UNCHANGED <<now, Registry>>

\* No tool call: one forced retry when an edit was wanted and a turn is left.
ModelStalls(r) ==
  /\ run[r].pc = "model"
  /\ ~ run[r].input.singleShot
  /\ run' = [run EXCEPT ![r] =
               IF /\ run[r].input.edit
                  /\ ~ run[r].forceUsed
                  /\ run[r].turn < MaxTurns
                 THEN [run[r] EXCEPT !.turn = run[r].turn + 1, !.forceUsed = TRUE]
                 ELSE [run[r] EXCEPT !.pc = "done"]]
  /\ UNCHANGED <<now, Registry>>

\* The calls parsed from one answer, in its millisecond.
ModelCallsTools(r, kinds, ms) ==
  /\ run[r].pc = "model"
  /\ ~ run[r].input.singleShot
  /\ ms \in 1 .. MaxNow
  /\ ms > now \/ (SameMs /\ ms = now)
  /\ now' = ms
  /\ run' = [run EXCEPT ![r].pc = "calls",
                        ![r].calls = [i \in DOMAIN kinds |->
                                        [id |-> <<ms, i>>, kind |-> kinds[i]]]]
  /\ UNCHANGED Registry

NextTurn(r) ==
  /\ run[r].pc = "calls"
  /\ run[r].calls = <<>>
  /\ run' = [run EXCEPT ![r] =
               IF run[r].turn < MaxTurns
                 THEN [run[r] EXCEPT !.pc = "model", !.turn = run[r].turn + 1]
                 ELSE [run[r] EXCEPT !.pc = "done"]]
  /\ UNCHANGED <<now, Registry>>

UnknownTool(r) ==
  /\ run[r].pc = "calls"
  /\ run[r].calls # <<>>
  /\ CallOf(r).kind = "unknown"
  /\ run' = [run EXCEPT ![r] = DropCall(r)]
  /\ UNCHANGED <<now, Registry>>

\* A tool that asks nobody: no approval "always", or a run in auto mode.
RunTool(r) ==
  /\ run[r].pc = "calls"
  /\ run[r].calls # <<>>
  /\ \/ CallOf(r).kind = "free"
     \/ CallOf(r).kind = "ask" /\ ~ run[r].input.interactive
  /\ Goto(r, "tool")
  /\ UNCHANGED <<now, Registry>>

\* Mutant: the promise is registered without a timer.
AskApproval_NoTimer(r) ==
  /\ run[r].pc = "calls"
  /\ run[r].calls # <<>>
  /\ CallOf(r).kind = "ask"
  /\ run[r].input.interactive
  /\ Goto(r, "await")
  /\ pending' = [pending EXCEPT ![CallOf(r).id] = r]
  /\ asked'   = [asked EXCEPT ![r] = asked[r] \cup {CallOf(r).id}]
  /\ UNCHANGED <<timers, closed, now, granted, ran>>

\* tool_approval_pending is sent and the promise registered, whatever the
\* map holds under that id already.
AskApproval(r) ==
  /\ run[r].pc = "calls"
  /\ run[r].calls # <<>>
  /\ CallOf(r).kind = "ask"
  /\ run[r].input.interactive
  /\ Goto(r, "await")
  /\ pending' = [pending EXCEPT ![CallOf(r).id] = r]
  /\ timers'  = timers \cup {[id |-> CallOf(r).id, run |-> r]}
  /\ asked'   = [asked EXCEPT ![r] = asked[r] \cup {CallOf(r).id}]
  /\ UNCHANGED <<closed, now, granted, ran>>

\* The tool returns, throws or is killed by the abort signal.
ToolEnds(r) ==
  /\ run[r].pc = "tool"
  /\ run' = [run EXCEPT ![r] = DropCall(r)]
  /\ UNCHANGED <<now, Registry>>

-----------------------------------------------------------------------------
(* Resolving an approval wakes the run whose promise is in the map.         *)

Wake(e, id, approved) ==
  /\ pending' = [pending EXCEPT ![id] = None]
  /\ run' = [run EXCEPT ![e] = IF approved THEN [run[e] EXCEPT !.pc = "tool"]
                                           ELSE DropCall(e)]
  /\ ran' = IF approved THEN ran \cup {<<e, id>>} ELSE ran

\* Mutant: the timer is left running.
ResolveApproval_KeepTimer(id, approved) ==
  IF pending[id] = None
    THEN UNCHANGED <<run, pending, timers, ran>>
    ELSE Wake(pending[id], id, approved) /\ UNCHANGED timers

ResolveApproval(id, approved) ==
  IF pending[id] = None
    THEN UNCHANGED <<run, pending, timers, ran>>
    ELSE /\ Wake(pending[id], id, approved)
         /\ timers' = timers \ {[id |-> id, run |-> pending[id]]}

\* The client of r answers a call it was shown, perhaps too late.
PostApproval(r, id, approved) ==
  /\ id \in asked[r]
  /\ asked'   = [asked EXCEPT ![r] = asked[r] \ {id}]
  /\ granted' = IF approved THEN [granted EXCEPT ![r] = granted[r] \cup {id}] ELSE granted
  /\ ResolveApproval(id, approved)
  /\ UNCHANGED <<closed, now>>

\* Mutant: a timeout counts as consent.
ApprovalTimeout_Approve(t) ==
  /\ t \in timers
  /\ timers' = timers \ {t}
  /\ IF pending[t.id] = None
       THEN UNCHANGED <<run, pending, ran>> ELSE Wake(pending[t.id], t.id, TRUE)
  /\ now' = IF now > MaxNow THEN now ELSE now + 1
  /\ UNCHANGED <<closed, asked, granted>>

\* A timer fires: whatever is under its id now is denied.
ApprovalTimeout(t) ==
  /\ t \in timers
  /\ timers' = timers \ {t}
  /\ IF pending[t.id] = None
       THEN UNCHANGED <<run, pending, ran>> ELSE Wake(pending[t.id], t.id, FALSE)
  /\ now' = IF now > MaxNow THEN now ELSE now + 1
  /\ UNCHANGED <<closed, asked, granted>>

\* Mutant: the connection's approvals are taken to be all pending ones.
CallIdsForThisRun_All(r) == {id \in Id : pending[id] # None}

\* The ids the run's own stream reported pending and not yet resolved.
CallIdsForThisRun(r) == IF run[r].pc = "await" THEN {CallOf(r).id} ELSE {}

\* req "close": abort the tools and deny what this run is waiting for.
CloseConnection(r) ==
  /\ run[r].pc \notin {"idle", "done"}
  /\ r \notin closed
  /\ closed' = closed \cup {r}
  /\ \/ /\ CallIdsForThisRun(r) = {}
        /\ UNCHANGED <<run, pending, timers, ran>>
     \/ \E id \in CallIdsForThisRun(r) : ResolveApproval(id, FALSE)
  /\ UNCHANGED <<now, asked, granted>>

-----------------------------------------------------------------------------
AnswersOf(n) == UNION {[1 .. k -> Kinds] : k \in 1 .. n}

LoopStep(r) ==
  \/ \E input \in Inputs : StartRun(r, input)
  \/ ModelFails(r)
  \/ ModelCompletes(r)
  \/ ModelStalls(r)
  \/ \E kinds \in AnswersOf(MaxCalls), ms \in 1 .. MaxNow : ModelCallsTools(r, kinds, ms)
  \/ NextTurn(r)
  \/ UnknownTool(r)
  \/ RunTool(r)
  \/ AskApproval(r)
  \/ ToolEnds(r)

Next ==
  \/ \E r \in Runs : LoopStep(r)
  \/ \E r \in Runs, id \in Id, approved \in BOOLEAN : PostApproval(r, id, approved)
  \/ \E t \in timers : ApprovalTimeout(t)
  \/ \E r \in Runs : CloseConnection(r)

\* Node fires every timer that is not cleared; nobody has to answer, and
\* neither the model nor a tool has to return.
Fairness == WF_vars(\E t \in timers : ApprovalTimeout(t))

Spec     == Init /\ [][Next]_vars
FairSpec == Spec /\ Fairness

-----------------------------------------------------------------------------
(* Properties *)

RunState ==
  [pc : {"idle", "model", "calls", "await", "tool", "done"}, input : Input,
   turn : 0 .. MaxTurns, calls : Seq(Call), forceUsed : BOOLEAN]

\* The type of every variable; a run that waits or runs a tool has a call.
TypeOK ==
  /\ run \in [Runs -> RunState]
  /\ pending \in [Id -> Runs \cup {None}]
  /\ timers \subseteq Timer
  /\ closed \subseteq Runs
  /\ now \in 0 .. MaxNow + 1
  /\ asked \in [Runs -> SUBSET Id]
  /\ granted \in [Runs -> SUBSET Id]
  /\ ran \subseteq Runs \X Id
  /\ \A r \in Runs : run[r].pc \in {"await", "tool"} => run[r].calls # <<>>

\* A tool that needs approval runs in an interactive run only after the
\* client of that very run approved that very call: an answer for another
\* run, a late answer, a timeout or a closed connection never runs it.
ApprovedCallsOnly == \A x \in ran : x[2] \in granted[x[1]]

\* The map holds exactly the calls somebody waits for, and every wait has its
\* timer: no promise is orphaned, no entry and no timer is left behind. (What
\* the registry and the runs may be at all: TypeOK.)
RegistryIsExact ==
  /\ TypeOK
  /\ \A id \in Id : pending[id] # None =>
       pending[id] \in Waiting /\ CallOf(pending[id]).id = id
  /\ \A r \in Waiting : pending[CallOf(r).id] = r
  /\ timers = {[id |-> CallOf(r).id, run |-> r] : r \in Waiting}

\* What the client of one run answers, or its leaving, never wakes another
\* run.
WokenByItsOwn ==
  [][\A e \in Waiting, r \in Runs :
       run'[e].pc # "await" /\ r # e =>
         asked'[r] = asked[r] /\ (r \in closed' <=> r \in closed)]_vars

\* Every request for approval is answered in the end, by the timer if by
\* nobody else: no run waits for ever.
EveryWaitEnds == \A r \in Runs : run[r].pc = "await" ~> run[r].pc # "await"
=============================================================================
