------------------------ MODULE AgentApprovalsProofs ------------------------
(***************************************************************************)
(* Theorems about AgentApprovals, for any number of runs, turns, calls and *)
(* milliseconds.  Types, and that an entry of the map is always somebody's *)
(* current wait, hold whatever milliseconds answers are parsed in; that    *)
(* the map is exact and that a tool runs only on its own client's consent  *)
(* need ids that no two answers share (SameMs = FALSE).                    *)
(***************************************************************************)
EXTENDS AgentApprovals, TLAPS

-----------------------------------------------------------------------------
\* An entry of the map belongs to a run that waits at that very call.
EntriesWait ==
  \A id \in Id : pending[id] # None =>
    pending[id] \in Waiting /\ CallOf(pending[id]).id = id

TypeInv == TypeOK /\ EntriesWait

\* Taking the first call of an answer.
LEMMA FirstCall ==
  ASSUME NEW S, NEW s \in Seq(S), s # <<>>
  PROVE  /\ 1 \in DOMAIN s /\ Head(s) = s[1] /\ Head(s) \in S
         /\ Tail(s) \in Seq(S)
         /\ \A i \in DOMAIN Tail(s) : /\ i \in Nat
                                      /\ i + 1 \in DOMAIN s
                                      /\ Tail(s)[i] = s[i + 1]
OBVIOUS

\* What is left of a run after its first call is a run again.
LEMMA DropCallType ==
  ASSUME TypeOK, NEW r \in Runs, run[r].calls # <<>>
  PROVE  /\ DropCall(r) \in RunState
         /\ DropCall(r).pc = "calls"
         /\ DropCall(r).calls = Tail(run[r].calls)
         /\ CallOf(r) \in Call
<1>1. run[r] \in RunState /\ run[r].calls \in Seq(Call)
  BY DEF TypeOK, RunState
<1>2. Tail(run[r].calls) \in Seq(Call) /\ Head(run[r].calls) \in Call
  BY <1>1, FirstCall
<1>3. QED
  BY <1>1, <1>2 DEF DropCall, RunState, CallOf

\* What the answer to an approval does, whoever gives it.
Answered(id, approved) ==
  IF pending[id] = None THEN UNCHANGED <<run, pending, ran>>
                        ELSE Wake(pending[id], id, approved)

\* A step of one run's loop that is not waiting, and that leaves the map alone.
LEMMA LoopEntries ==
  ASSUME TypeInv, NEW r \in Runs, run[r].pc # "await", NEW next \in RunState,
         run' = [run EXCEPT ![r] = next], UNCHANGED pending,
         next.pc \in {"await", "tool"} => next.calls # <<>>
  PROVE  /\ run' \in [Runs -> RunState]
         /\ \A s \in Runs : run'[s].pc \in {"await", "tool"} => run'[s].calls # <<>>
         /\ EntriesWait'
<1>1. run' \in [Runs -> RunState]
  BY DEF TypeInv, TypeOK
<1>2. \A s \in Runs : run'[s].pc \in {"await", "tool"} => run'[s].calls # <<>>
  BY DEF TypeInv, TypeOK
<1>3. ASSUME NEW id \in Id, pending'[id] # None
      PROVE  /\ pending'[id] \in Runs /\ run'[pending'[id]].pc = "await"
             /\ Head(run'[pending'[id]].calls).id = id
  <2>1. pending[id] \in Waiting /\ CallOf(pending[id]).id = id /\ pending[id] # r
    BY <1>3 DEF TypeInv, EntriesWait, Waiting
  <2>2. run'[pending[id]] = run[pending[id]]
    BY <2>1 DEF TypeInv, TypeOK, Waiting
  <2>3. QED
    BY <2>1, <2>2 DEF Waiting, CallOf
<1>4. QED
  BY <1>1, <1>2, <1>3 DEF EntriesWait, Waiting, CallOf

\* The answer wakes the one run that waits for it, and its entry goes.
LEMMA AnsweredType ==
  ASSUME TypeInv, NEW id \in Id, NEW approved \in BOOLEAN, Answered(id, approved)
  PROVE  /\ run' \in [Runs -> RunState]
         /\ \A s \in Runs : run'[s].pc \in {"await", "tool"} => run'[s].calls # <<>>
         /\ pending' \in [Id -> Runs \cup {None}]
         /\ ran' \subseteq Runs \X Id
         /\ EntriesWait'
<1>1. CASE pending[id] = None
  BY <1>1 DEF Answered, TypeInv, TypeOK, EntriesWait, Waiting, CallOf
<1>2. CASE pending[id] # None
  <2> DEFINE e == pending[id]
             woken == IF approved THEN [run[e] EXCEPT !.pc = "tool"] ELSE DropCall(e)
  <2>1. e \in Runs /\ run[e].pc = "await" /\ CallOf(e).id = id /\ run[e].calls # <<>>
    BY <1>2 DEF TypeInv, TypeOK, EntriesWait, Waiting
  <2>2. woken \in RunState /\ woken.pc \in {"tool", "calls"}
        /\ (woken.pc = "tool" => woken.calls # <<>>)
    <3>0. run[e] \in RunState
      BY <2>1 DEF TypeInv, TypeOK
    <3>1. [run[e] EXCEPT !.pc = "tool"] \in RunState
      BY <3>0 DEF RunState
    <3>2. [run[e] EXCEPT !.pc = "tool"].pc = "tool"
          /\ [run[e] EXCEPT !.pc = "tool"].calls = run[e].calls
      BY <3>0 DEF RunState
    <3>3. DropCall(e) \in RunState /\ DropCall(e).pc = "calls"
      BY <2>1, DropCallType DEF TypeInv
    <3>4. QED
      BY <2>1, <3>1, <3>2, <3>3
  <2>3. /\ pending' = [pending EXCEPT ![id] = None]
        /\ run' = [run EXCEPT ![e] = woken]
        /\ ran' = IF approved THEN ran \cup {<<e, id>>} ELSE ran
    BY <1>2 DEF Answered, Wake
  <2> HIDE DEF e, woken
  <2>4. run' \in [Runs -> RunState]
    BY <2>1, <2>2, <2>3 DEF TypeInv, TypeOK
  <2>5. \A s \in Runs : run'[s].pc \in {"await", "tool"} => run'[s].calls # <<>>
    BY <2>1, <2>2, <2>3 DEF TypeInv, TypeOK
  <2>6. pending' \in [Id -> Runs \cup {None}] /\ ran' \subseteq Runs \X Id
    BY <2>1, <2>3 DEF TypeInv, TypeOK
  <2>7. ASSUME NEW i \in Id, pending'[i] # None
        PROVE  /\ pending'[i] \in Runs /\ run'[pending'[i]].pc = "await"
               /\ Head(run'[pending'[i]].calls).id = i
    <3>1. i # id /\ pending'[i] = pending[i]
      BY <2>3, <2>7 DEF TypeInv, TypeOK
    <3>2. pending[i] \in Waiting /\ CallOf(pending[i]).id = i
      BY <2>7, <3>1 DEF TypeInv, EntriesWait
    <3>3. pending[i] # e
      BY <2>1, <3>1, <3>2
    <3>4. run'[pending[i]] = run[pending[i]]
      BY <2>1, <2>3, <3>2, <3>3 DEF TypeInv, TypeOK, Waiting
    <3>5. QED
      BY <3>1, <3>2, <3>4 DEF Waiting, CallOf
  <2>8. QED
    BY <2>4, <2>5, <2>6, <2>7 DEF EntriesWait, Waiting, CallOf
<1>3. QED
  BY <1>1, <1>2

\* Resolving by hand or by a closing connection answers in that sense.
LEMMA ResolveAnswers ==
  ASSUME NEW id, NEW approved, ResolveApproval(id, approved)
  PROVE  Answered(id, approved) /\ timers' \subseteq timers
BY DEF ResolveApproval, Answered

\* The loop of one run keeps every type and every entry of the map.
LEMMA LoopTypeOK == ASSUME TypeInv, NEW r \in Runs, LoopStep(r) PROVE TypeInv'
<1>0. run[r] \in RunState
  BY DEF TypeInv, TypeOK
\* A step that moves r and touches nothing but it and the clock.
<1>a. ASSUME NEW next \in RunState, run[r].pc # "await", run' = [run EXCEPT ![r] = next],
             next.pc \in {"await", "tool"} => next.calls # <<>>,
             now' \in 0 .. MaxNow + 1, UNCHANGED Registry
      PROVE  TypeInv'
  <2>1. UNCHANGED <<pending, timers, closed, asked, granted, ran>>
    BY <1>a DEF Registry
  <2>2. /\ run' \in [Runs -> RunState]
        /\ \A s \in Runs : run'[s].pc \in {"await", "tool"} => run'[s].calls # <<>>
        /\ EntriesWait'
    BY <1>a, <2>1, LoopEntries
  <2>3. QED
    BY <1>a, <2>1, <2>2 DEF TypeInv, TypeOK
<1>1. ASSUME NEW input \in Inputs, StartRun(r, input)
      PROVE  TypeInv'
  <2> DEFINE next == [run[r] EXCEPT !.pc = "model", !.input = input, !.turn = 1]
  <2>1. next \in RunState /\ next.pc = "model"
    <3>1. input \in Input /\ 1 \in 0 .. MaxTurns
      BY ApprovalAssumption
    <3>2. QED
      BY <1>0, <3>1 DEF RunState
  <2>2. run' = [run EXCEPT ![r] = next]
    BY <1>1 DEF StartRun, TypeInv, TypeOK
  <2> HIDE DEF next
  <2>3. QED
    BY <1>1, <2>1, <2>2, <1>a DEF StartRun, TypeInv, TypeOK
<1>2. CASE ModelFails(r) \/ ModelCompletes(r)
  <2> DEFINE next == [run[r] EXCEPT !.pc = "done"]
  <2>1. next \in RunState /\ next.pc = "done"
    BY <1>0 DEF RunState
  <2>2. run' = [run EXCEPT ![r] = next]
    BY <1>2 DEF ModelFails, ModelCompletes, Goto, TypeInv, TypeOK
  <2> HIDE DEF next
  <2>3. QED
    BY <1>2, <2>1, <2>2, <1>a DEF ModelFails, ModelCompletes, TypeInv, TypeOK
<1>3. CASE ModelStalls(r)
  <2> DEFINE again == [run[r] EXCEPT !.turn = run[r].turn + 1, !.forceUsed = TRUE]
             stop  == [run[r] EXCEPT !.pc = "done"]
  <2>1. run[r].turn < MaxTurns => again \in RunState /\ again.pc = run[r].pc
    <3>1. run[r].turn < MaxTurns => run[r].turn + 1 \in 0 .. MaxTurns
      BY <1>0, ApprovalAssumption DEF RunState
    <3>2. QED
      BY <1>0, <3>1 DEF RunState
  <2>2. stop \in RunState /\ stop.pc = "done"
    BY <1>0 DEF RunState
  <2>3. \/ run[r].turn < MaxTurns /\ run' = [run EXCEPT ![r] = again]
        \/ run' = [run EXCEPT ![r] = stop]
    BY <1>3 DEF ModelStalls
  <2> HIDE DEF again, stop
  <2>4. QED
    BY <1>3, <2>1, <2>2, <2>3, <1>a DEF ModelStalls, TypeInv, TypeOK
<1>4. ASSUME NEW kinds \in AnswersOf(MaxCalls), NEW ms \in 1 .. MaxNow,
             ModelCallsTools(r, kinds, ms)
      PROVE  TypeInv'
  <2> DEFINE calls == [i \in DOMAIN kinds |-> [id |-> <<ms, i>>, kind |-> kinds[i]]]
             next  == [run[r] EXCEPT !.pc = "calls", !.calls = calls]
  <2>1. PICK k \in 1 .. MaxCalls : kinds \in [1 .. k -> Kinds]
    BY <1>4 DEF AnswersOf
  <2>2. calls \in [1 .. k -> Call]
    BY <2>1, ApprovalAssumption DEF Call, Id
  <2>3. calls \in Seq(Call)
    BY <2>2, ApprovalAssumption
  <2>4. run' = [run EXCEPT ![r] = next]
    BY <1>4 DEF ModelCallsTools, TypeInv, TypeOK
  <2> HIDE DEF calls
  <2>5. next \in RunState /\ next.pc = "calls"
    BY <1>0, <2>3 DEF RunState
  <2> HIDE DEF next
  <2>6. now' \in 0 .. MaxNow + 1
    BY <1>4, ApprovalAssumption DEF ModelCallsTools
  <2>7. QED
    BY <1>4, <2>4, <2>5, <2>6, <1>a DEF ModelCallsTools
<1>5. CASE NextTurn(r)
  <2> DEFINE again == [run[r] EXCEPT !.pc = "model", !.turn = run[r].turn + 1]
             stop  == [run[r] EXCEPT !.pc = "done"]
  <2>1. run[r].turn < MaxTurns => again \in RunState /\ again.pc = "model"
    <3>1. run[r].turn < MaxTurns => run[r].turn + 1 \in 0 .. MaxTurns
      BY <1>0, ApprovalAssumption DEF RunState
    <3>2. QED
      BY <1>0, <3>1 DEF RunState
  <2>2. stop \in RunState /\ stop.pc = "done"
    BY <1>0 DEF RunState
  <2>3. \/ run[r].turn < MaxTurns /\ run' = [run EXCEPT ![r] = again]
        \/ run' = [run EXCEPT ![r] = stop]
    BY <1>5 DEF NextTurn
  <2> HIDE DEF again, stop
  <2>4. QED
    BY <1>5, <2>1, <2>2, <2>3, <1>a DEF NextTurn, TypeInv, TypeOK
<1>6. CASE UnknownTool(r) \/ ToolEnds(r)
  <2>1. run[r].calls # <<>> /\ run[r].pc \in {"calls", "tool"} /\ UNCHANGED <<now, Registry>>
    BY <1>6 DEF UnknownTool, ToolEnds, TypeInv, TypeOK
  <2>2. run' = [run EXCEPT ![r] = DropCall(r)]
    BY <1>6 DEF UnknownTool, ToolEnds
  <2>3. DropCall(r) \in RunState /\ DropCall(r).pc = "calls"
    BY <2>1, DropCallType DEF TypeInv
  <2>4. QED
    BY <2>1, <2>2, <2>3, <1>a DEF TypeInv, TypeOK
<1>7. CASE RunTool(r)
  <2> DEFINE next == [run[r] EXCEPT !.pc = "tool"]
  <2>1. next \in RunState /\ next.calls = run[r].calls
    BY <1>0 DEF RunState
  <2>2. run' = [run EXCEPT ![r] = next]
    BY <1>7 DEF RunTool, Goto, TypeInv, TypeOK
  <2> HIDE DEF next
  <2>3. QED
    BY <1>7, <2>1, <2>2, <1>a DEF RunTool, TypeInv, TypeOK
<1>8. CASE AskApproval(r)
  <2> DEFINE next == [run[r] EXCEPT !.pc = "await"]
             id   == CallOf(r).id
  <2>1. next \in RunState /\ next.pc = "await" /\ next.calls = run[r].calls
    BY <1>0 DEF RunState
  <2>2. run' = [run EXCEPT ![r] = next] /\ run[r].calls # <<>> /\ run[r].pc = "calls"
    BY <1>8 DEF AskApproval, Goto, TypeInv, TypeOK
  <2>3. id \in Id
    BY <2>2, DropCallType DEF TypeInv, Call
  <2>4. /\ pending' = [pending EXCEPT ![id] = r]
        /\ timers'  = timers \cup {[id |-> id, run |-> r]}
        /\ asked'   = [asked EXCEPT ![r] = asked[r] \cup {id}]
        /\ UNCHANGED <<closed, now, granted, ran>>
    BY <1>8 DEF AskApproval
  <2>5. Head(next.calls).id = id
    BY <2>1 DEF CallOf
  <2> HIDE DEF next, id
  <2>6. /\ run' \in [Runs -> RunState]
        /\ \A s \in Runs : run'[s].pc \in {"await", "tool"} => run'[s].calls # <<>>
    BY <2>1, <2>2 DEF TypeInv, TypeOK
  <2>7. /\ pending' \in [Id -> Runs \cup {None}]
        /\ timers' \subseteq Timer
        /\ asked' \in [Runs -> SUBSET Id]
    BY <2>3, <2>4 DEF TypeInv, TypeOK, Timer
  <2>8. ASSUME NEW i \in Id, pending'[i] # None
        PROVE  /\ pending'[i] \in Runs /\ run'[pending'[i]].pc = "await"
               /\ Head(run'[pending'[i]].calls).id = i
    <3>1. CASE i = id
      <4>1. pending'[i] = r /\ run'[r] = next
        BY <2>2, <2>4, <3>1 DEF TypeInv, TypeOK
      <4>2. QED
        BY <2>1, <2>5, <3>1, <4>1 DEF Waiting, CallOf
    <3>2. CASE i # id
      <4>1. pending'[i] = pending[i]
        BY <2>4, <3>2 DEF TypeInv, TypeOK
      <4>2. pending[i] \in Waiting /\ CallOf(pending[i]).id = i /\ pending[i] # r
        BY <2>2, <2>8, <4>1 DEF TypeInv, EntriesWait, Waiting
      <4>3. run'[pending[i]] = run[pending[i]]
        BY <2>2, <4>2 DEF TypeInv, TypeOK, Waiting
      <4>4. QED
        BY <4>1, <4>2, <4>3 DEF Waiting, CallOf
    <3>3. QED
      BY <3>1, <3>2
  <2>9. QED
    BY <2>4, <2>6, <2>7, <2>8 DEF TypeInv, TypeOK, EntriesWait, Waiting, CallOf
<1>9. QED
  BY <1>1, <1>2, <1>3, <1>4, <1>5, <1>6, <1>7, <1>8 DEF LoopStep

\* So does every other step.
LEMMA TypeInvariance == TypeInv /\ [Next]_vars => TypeInv'
<1> SUFFICES ASSUME TypeInv, [Next]_vars
             PROVE  TypeInv'
  OBVIOUS
<1>1. ASSUME NEW r \in Runs, LoopStep(r)
      PROVE  TypeInv'
  BY <1>1, LoopTypeOK
\* An answer, with what else the answering step does.
<1>a. ASSUME NEW id \in Id, NEW approved \in BOOLEAN, Answered(id, approved),
             timers' \subseteq timers, closed' \subseteq Runs, now' \in 0 .. MaxNow + 1,
             asked' \in [Runs -> SUBSET Id], granted' \in [Runs -> SUBSET Id]
      PROVE  TypeInv'
  <2>1. /\ run' \in [Runs -> RunState]
        /\ \A s \in Runs : run'[s].pc \in {"await", "tool"} => run'[s].calls # <<>>
        /\ pending' \in [Id -> Runs \cup {None}]
        /\ ran' \subseteq Runs \X Id
        /\ EntriesWait'
    BY <1>a, AnsweredType
  <2>2. QED
    BY <1>a, <2>1 DEF TypeInv, TypeOK
<1>2. ASSUME NEW r \in Runs, NEW id \in Id, NEW approved \in BOOLEAN,
             PostApproval(r, id, approved)
      PROVE  TypeInv'
  <2>1. Answered(id, approved) /\ timers' \subseteq timers
    BY <1>2, ResolveAnswers DEF PostApproval
  <2>2. asked' \in [Runs -> SUBSET Id] /\ granted' \in [Runs -> SUBSET Id]
    BY <1>2 DEF PostApproval, TypeInv, TypeOK
  <2>3. QED
    BY <1>2, <2>1, <2>2, <1>a DEF PostApproval, TypeInv, TypeOK
<1>3. ASSUME NEW t \in timers, ApprovalTimeout(t)
      PROVE  TypeInv'
  <2>1. t.id \in Id /\ Answered(t.id, FALSE)
    BY <1>3 DEF ApprovalTimeout, Answered, TypeInv, TypeOK, Timer
  <2>2. now' \in 0 .. MaxNow + 1
    BY <1>3, ApprovalAssumption DEF ApprovalTimeout, TypeInv, TypeOK
  <2>3. QED
    BY <1>3, <2>1, <2>2, <1>a DEF ApprovalTimeout, TypeInv, TypeOK
<1>4. ASSUME NEW r \in Runs, CloseConnection(r)
      PROVE  TypeInv'
  <2>1. CASE \E id \in CallIdsForThisRun(r) : ResolveApproval(id, FALSE)
    <3>1. PICK id \in CallIdsForThisRun(r) : ResolveApproval(id, FALSE)
      BY <2>1
    <3>2. id \in Id
      <4>1. run[r].pc = "await" /\ id = CallOf(r).id
        BY <3>1 DEF CallIdsForThisRun
      <4>2. QED
        BY <4>1, DropCallType DEF TypeInv, TypeOK, Call
    <3>3. Answered(id, FALSE) /\ timers' \subseteq timers
      BY <3>1, ResolveAnswers
    <3>4. QED
      BY <1>4, <3>2, <3>3, <1>a DEF CloseConnection, TypeInv, TypeOK
  <2>2. CASE UNCHANGED <<run, pending, timers, ran>>
    BY <1>4, <2>2 DEF CloseConnection, TypeInv, TypeOK, EntriesWait, Waiting, CallOf
  <2>3. QED
    BY <1>4, <2>1, <2>2 DEF CloseConnection
<1>5. CASE UNCHANGED vars
  BY <1>5 DEF vars, TypeInv, TypeOK, EntriesWait, Waiting, CallOf
<1>6. QED
  BY <1>1, <1>2, <1>3, <1>4, <1>5 DEF Next

LEMMA InitType == Init => TypeInv
<1>1. [pc |-> "idle", input |-> NoInput, turn |-> 0, calls |-> <<>>, forceUsed |-> FALSE]
        \in RunState
  BY ApprovalAssumption DEF RunState, NoInput, Input
<1>2. QED
  BY <1>1, ApprovalAssumption DEF Init, TypeInv, TypeOK, EntriesWait

\* Whatever the milliseconds answers arrive in, the loop of every run stays
\* well-formed: the answer to an approval never meets a run that has no call.
THEOREM ApprovalTypeCorrect == Spec => []TypeOK
<1>1. TypeInv => TypeOK
  BY DEF TypeInv
<1>2. QED
  BY <1>1, InitType, TypeInvariance, PTL DEF Spec

-----------------------------------------------------------------------------
(* Exactness.  A second request under an id that is in the map would take   *)
(* the entry of the first, and an answer to one would reach the other.  No  *)
(* two answers sharing a millisecond, ids are never used again: the ids of  *)
(* all calls still to run differ, those of the past are behind the clock,   *)
(* and a client still owes an answer only to calls of its own run.          *)

IdsDiffer ==
  \A r, s \in Runs : \A i \in DOMAIN run[r].calls, j \in DOMAIN run[s].calls :
    run[r].calls[i].id = run[s].calls[j].id => r = s /\ i = j

IdsArePast ==
  /\ \A r \in Runs : \A i \in DOMAIN run[r].calls : run[r].calls[i].id[1] <= now
  /\ \A r \in Runs : \A id \in asked[r] : id[1] <= now

AskedIsOwn ==
  \A r, s \in Runs : \A i \in DOMAIN run[s].calls :
    run[s].calls[i].id \in asked[r] => r = s

IdsInv == IdsDiffer /\ IdsArePast /\ AskedIsOwn

WaitsAreHeld ==
  /\ \A r \in Waiting : pending[CallOf(r).id] = r
  /\ timers = {[id |-> CallOf(r).id, run |-> r] : r \in Waiting}

ApprovalInv == TypeInv /\ IdsInv /\ WaitsAreHeld /\ ApprovedCallsOnly

LEMMA IdOfCall == ASSUME NEW c \in Call PROVE c.id \in Id /\ c.id[1] \in Nat
BY DEF Call, Id

LEMMA CallsHaveIds ==
  ASSUME TypeOK, NEW r \in Runs, NEW i \in DOMAIN run[r].calls
  PROVE  i \in Nat /\ run[r].calls[i].id \in Id /\ run[r].calls[i].id[1] \in Nat
<1>1. run[r].calls \in Seq(Call)
  BY DEF TypeOK, RunState
<1>2. i \in Nat /\ run[r].calls[i] \in Call
  BY <1>1
<1>3. QED
  BY <1>2, IdOfCall

\* Whatever a run waits for or runs next is a call of its answer.
LEMMA CallOfRun ==
  ASSUME TypeOK, NEW r \in Runs, run[r].calls # <<>>
  PROVE  /\ 1 \in DOMAIN run[r].calls
         /\ CallOf(r) = run[r].calls[1]
         /\ CallOf(r).id \in Id
<1>1. run[r].calls \in Seq(Call)
  BY DEF TypeOK, RunState
<1>2. 1 \in DOMAIN run[r].calls /\ CallOf(r) = run[r].calls[1] /\ CallOf(r) \in Call
  BY <1>1, FirstCall DEF CallOf
<1>3. QED
  BY <1>2, IdOfCall

\* The calls of a run stay as they are, or the first is worked off.
Shrinks(s) ==
  \/ run'[s].calls = run[s].calls
  \/ run[s].calls # <<>> /\ run'[s].calls = Tail(run[s].calls)

\* Ids stay unique while runs only work off their calls and ask for them.
LEMMA FewerCalls ==
  ASSUME TypeOK, IdsInv, now' \in Nat, now <= now',
         \A s \in Runs : Shrinks(s),
         \A s \in Runs : \A id \in asked'[s] :
           id \in asked[s] \/ (run[s].calls # <<>> /\ id = CallOf(s).id)
  PROVE  IdsInv'
<1> DEFINE k(s) == IF run'[s].calls = run[s].calls THEN 0 ELSE 1
<1>1. ASSUME NEW s \in Runs, NEW i \in DOMAIN run'[s].calls
      PROVE  /\ i \in Nat
             /\ i + k(s) \in DOMAIN run[s].calls
             /\ run'[s].calls[i] = run[s].calls[i + k(s)]
             /\ run[s].calls[i + k(s)].id \in Id
  <2>1. run[s].calls \in Seq(Call)
    BY DEF TypeOK, RunState
  <2>2. CASE run'[s].calls = run[s].calls
    BY <1>1, <2>1, <2>2, CallsHaveIds
  <2>3. CASE run'[s].calls # run[s].calls
    <3>1. run[s].calls # <<>> /\ run'[s].calls = Tail(run[s].calls) /\ k(s) = 1
      BY <2>3 DEF Shrinks
    <3> HIDE DEF k
    <3>2. i \in Nat /\ i + 1 \in DOMAIN run[s].calls /\ run'[s].calls[i] = run[s].calls[i + 1]
      BY <1>1, <2>1, <3>1, FirstCall
    <3>3. QED
      BY <3>1, <3>2, CallsHaveIds
  <2>4. QED
    BY <2>2, <2>3
<1>2. \A s \in Runs : k(s) \in {0, 1}
  OBVIOUS
<1> HIDE DEF k
<1>3. IdsDiffer'
  <2> SUFFICES ASSUME NEW r \in Runs, NEW s \in Runs, NEW i \in DOMAIN run'[r].calls,
                      NEW j \in DOMAIN run'[s].calls, run'[r].calls[i].id = run'[s].calls[j].id
               PROVE  r = s /\ i = j
    BY DEF IdsDiffer
  <2>1. r = s /\ i + k(r) = j + k(s)
    BY <1>1 DEF IdsInv, IdsDiffer
  <2>2. QED
    BY <1>1, <1>2, <2>1
<1>4. ASSUME NEW s \in Runs, NEW i \in DOMAIN run'[s].calls
      PROVE  run'[s].calls[i].id[1] <= now'
  <2>1. run[s].calls[i + k(s)].id[1] <= now /\ run[s].calls[i + k(s)].id[1] \in Nat
    BY <1>1 DEF IdsInv, IdsArePast, Id
  <2>2. QED
    BY <1>1, <2>1 DEF TypeOK
<1>5. ASSUME NEW s \in Runs, NEW id \in asked'[s]
      PROVE  id[1] <= now'
  <2>1. id[1] <= now /\ id \in Id
    BY <1>5, CallOfRun DEF IdsInv, IdsArePast, TypeOK
  <2>2. QED
    BY <2>1 DEF TypeOK, Id
<1>6. ASSUME NEW r \in Runs, NEW s \in Runs, NEW i \in DOMAIN run'[s].calls,
             run'[s].calls[i].id \in asked'[r]
      PROVE  r = s
  <2> DEFINE id == run[s].calls[i + k(s)].id
  <2>1. id \in asked[r] \/ (run[r].calls # <<>> /\ id = CallOf(r).id)
    BY <1>1, <1>6
  <2>2. CASE id \in asked[r]
    BY <1>1, <2>2 DEF IdsInv, AskedIsOwn
  <2>3. CASE run[r].calls # <<>> /\ id = CallOf(r).id
    BY <1>1, <2>3, CallOfRun DEF IdsInv, IdsDiffer
  <2>4. QED
    BY <2>1, <2>2, <2>3
<1>7. QED
  BY <1>3, <1>4, <1>5, <1>6 DEF IdsInv, IdsArePast, AskedIsOwn

\* A new answer has ids nobody has seen.
LEMMA FreshCalls ==
  ASSUME TypeOK, IdsInv, SameMs = FALSE, NEW r \in Runs, NEW kinds \in AnswersOf(MaxCalls),
         NEW ms \in 1 .. MaxNow, ModelCallsTools(r, kinds, ms)
  PROVE  IdsInv'
<1> DEFINE calls == [i \in DOMAIN kinds |-> [id |-> <<ms, i>>, kind |-> kinds[i]]]
<1>1. \A i \in DOMAIN calls : calls[i].id = <<ms, i>>
  OBVIOUS
<1>2. ms > now /\ now' = ms /\ asked' = asked /\ now \in Nat /\ ms \in Nat
  BY ApprovalAssumption DEF ModelCallsTools, Registry, TypeOK
<1>3. run'[r].calls = calls /\ \A s \in Runs \ {r} : run'[s] = run[s]
  BY DEF ModelCallsTools, TypeOK, RunState
<1> HIDE DEF calls
<1>4. ASSUME NEW s \in Runs, NEW i \in DOMAIN run[s].calls
      PROVE  run[s].calls[i].id[1] <= now /\ run[s].calls[i].id[1] \in Nat
  BY CallsHaveIds DEF IdsInv, IdsArePast
<1>5. IdsDiffer'
  <2> SUFFICES ASSUME NEW q \in Runs, NEW s \in Runs, NEW i \in DOMAIN run'[q].calls,
                      NEW j \in DOMAIN run'[s].calls, run'[q].calls[i].id = run'[s].calls[j].id
               PROVE  q = s /\ i = j
    BY DEF IdsDiffer
  <2>1. CASE q = r /\ s = r
    BY <1>1, <1>3, <2>1
  <2>2. CASE q = r /\ s # r
    <3>1. run'[q].calls[i].id[1] = ms
      BY <1>1, <1>3, <2>2
    <3>2. run'[s].calls[j].id[1] <= now
      BY <1>3, <1>4, <2>2
    <3>3. QED
      BY <1>2, <3>1, <3>2
  <2>3. CASE q # r /\ s = r
    <3>1. run'[s].calls[j].id[1] = ms
      BY <1>1, <1>3, <2>3
    <3>2. run'[q].calls[i].id[1] <= now
      BY <1>3, <1>4, <2>3
    <3>3. QED
      BY <1>2, <3>1, <3>2
  <2>4. CASE q # r /\ s # r
    BY <1>3, <2>4 DEF IdsInv, IdsDiffer
  <2>5. QED
    BY <2>1, <2>2, <2>3, <2>4
<1>6. IdsArePast'
  <2>1. ASSUME NEW s \in Runs, NEW i \in DOMAIN run'[s].calls
        PROVE  run'[s].calls[i].id[1] <= now'
    <3>1. CASE s = r
      BY <1>1, <1>2, <1>3, <3>1
    <3>2. CASE s # r
      BY <1>2, <1>3, <1>4, <3>2
    <3>3. QED
      BY <3>1, <3>2
  <2>2. ASSUME NEW s \in Runs, NEW id \in asked'[s]
        PROVE  id[1] <= now'
    BY <1>2 DEF IdsInv, IdsArePast, TypeOK, Id
  <2>3. QED
    BY <2>1, <2>2 DEF IdsArePast
<1>7. AskedIsOwn'
  <2> SUFFICES ASSUME NEW q \in Runs, NEW s \in Runs, NEW i \in DOMAIN run'[s].calls,
                      run'[s].calls[i].id \in asked'[q]
               PROVE  q = s
    BY DEF AskedIsOwn
  <2>1. CASE s = r
    <3>1. run'[s].calls[i].id[1] = ms
      BY <1>1, <1>3, <2>1
    <3>2. run'[s].calls[i].id[1] <= now
      BY <1>2 DEF IdsInv, IdsArePast
    <3>3. QED
      BY <1>2, <3>1, <3>2
  <2>2. CASE s # r
    BY <1>2, <1>3, <2>2 DEF IdsInv, AskedIsOwn
  <2>3. QED
    BY <2>1, <2>2
<1>8. QED
  BY <1>5, <1>6, <1>7 DEF IdsInv

\* A step that wakes nobody and asks nothing.
LEMMA SameWaits ==
  ASSUME WaitsAreHeld, UNCHANGED <<pending, timers>>, Waiting' = Waiting,
         \A s \in Waiting : run'[s] = run[s]
  PROVE  WaitsAreHeld'
<1>1. \A s \in Waiting : CallOf(s)' = CallOf(s)
  BY DEF CallOf
<1>2. QED
  BY <1>1 DEF WaitsAreHeld

\* The answer wakes one run, drops its call or starts its tool, and takes its
\* timer; the timers of all others stay.
LEMMA AnsweredExact ==
  ASSUME TypeInv, IdsDiffer, WaitsAreHeld, NEW id \in Id, NEW approved \in BOOLEAN,
         Answered(id, approved),
         timers' = timers \ {[id |-> id, run |-> pending[id]]}
  PROVE  /\ WaitsAreHeld'
         /\ \A s \in Runs : Shrinks(s)
         /\ \A s \in Waiting : run'[s].pc # "await" => pending[id] = s /\ CallOf(s).id = id
<1>1. CASE pending[id] = None
  <2>1. UNCHANGED <<run, pending>>
    BY <1>1 DEF Answered
  <2>2. timers' = timers
    <3>1. [id |-> id, run |-> None] \notin timers
      BY ApprovalAssumption DEF TypeInv, TypeOK, Timer
    <3>2. QED
      BY <1>1, <3>1
  <2>3. WaitsAreHeld'
    BY <2>1, <2>2, SameWaits DEF Waiting
  <2>4. QED
    BY <2>1, <2>3 DEF Waiting, Shrinks
<1>2. CASE pending[id] # None
  <2> DEFINE e == pending[id]
             woken == IF approved THEN [run[e] EXCEPT !.pc = "tool"] ELSE DropCall(e)
  <2>1. e \in Runs /\ run[e].pc = "await" /\ CallOf(e).id = id /\ run[e].calls # <<>>
    BY <1>2 DEF TypeInv, TypeOK, EntriesWait, Waiting
  <2>2. woken.pc # "await" /\ woken.calls \in {run[e].calls, Tail(run[e].calls)}
    <3>1. [run[e] EXCEPT !.pc = "tool"].pc = "tool"
          /\ [run[e] EXCEPT !.pc = "tool"].calls = run[e].calls
      BY <2>1 DEF TypeInv, TypeOK, RunState
    <3>2. DropCall(e).pc = "calls" /\ DropCall(e).calls = Tail(run[e].calls)
      BY <2>1, DropCallType DEF TypeInv
    <3>3. QED
      BY <3>1, <3>2
  <2>3. pending' = [pending EXCEPT ![id] = None] /\ run' = [run EXCEPT ![e] = woken]
    BY <1>2 DEF Answered, Wake
  <2>4. timers' = timers \ {[id |-> id, run |-> e]}
    OBVIOUS
  <2> HIDE DEF e, woken
  <2>5. run'[e] = woken /\ \A s \in Runs \ {e} : run'[s] = run[s]
    BY <2>1, <2>3 DEF TypeInv, TypeOK
  <2>6. Waiting' = Waiting \ {e}
    BY <2>1, <2>2, <2>5 DEF Waiting
  <2>7. \A s \in Waiting \ {e} : CallOf(s)' = CallOf(s) /\ CallOf(s).id # id
    <3> SUFFICES ASSUME NEW s \in Waiting \ {e}
                 PROVE  CallOf(s)' = CallOf(s) /\ CallOf(s).id # id
      OBVIOUS
    <3>1. s \in Runs /\ run'[s] = run[s] /\ run[s].calls # <<>>
      BY <2>5 DEF Waiting, TypeInv, TypeOK
    <3>2. CallOf(s).id # CallOf(e).id
      BY <2>1, <3>1, CallOfRun DEF IdsDiffer, TypeInv
    <3>3. QED
      BY <2>1, <3>1, <3>2 DEF CallOf
  <2>8. \A s \in Waiting \ {e} : pending'[CallOf(s).id] = s
    <3> SUFFICES ASSUME NEW s \in Waiting \ {e}
                 PROVE  pending'[CallOf(s).id] = s
      OBVIOUS
    <3>1. CallOf(s).id \in Id /\ CallOf(s).id # id
      BY <2>7, CallOfRun DEF TypeInv, TypeOK, Waiting
    <3>2. pending[CallOf(s).id] = s
      BY DEF WaitsAreHeld
    <3>3. QED
      BY <2>3, <3>1, <3>2 DEF TypeInv, TypeOK
  <2>9. timers' = {[id |-> CallOf(s).id, run |-> s] : s \in Waiting \ {e}}
    <3>1. timers = {[id |-> CallOf(s).id, run |-> s] : s \in Waiting}
      BY DEF WaitsAreHeld
    <3>2. e \in Waiting /\ [id |-> CallOf(e).id, run |-> e] = [id |-> id, run |-> e]
      BY <2>1 DEF Waiting
    <3>3. QED
      BY <2>4, <3>1, <3>2
  <2>10. WaitsAreHeld'
    <3>1. {[id |-> CallOf(s).id, run |-> s] : s \in Waiting \ {e}}
            = {[id |-> CallOf(s)'.id, run |-> s] : s \in Waiting \ {e}}
      BY <2>7
    <3>2. QED
      BY <2>6, <2>7, <2>8, <2>9, <3>1 DEF WaitsAreHeld
  <2>11. \A s \in Runs : Shrinks(s)
    BY <2>1, <2>2, <2>5 DEF Shrinks
  <2>12. \A s \in Waiting : run'[s].pc # "await" => pending[id] = s /\ CallOf(s).id = id
    BY <2>1, <2>5 DEF Waiting, e
  <2>13. QED
    BY <2>10, <2>11, <2>12
<1>3. QED
  BY <1>1, <1>2

\* An answer by hand, and one by the connection's end, clears the timer of the
\* run it wakes.
LEMMA ResolveExact ==
  ASSUME TypeInv, NEW id, NEW approved, ResolveApproval(id, approved)
  PROVE  timers' = timers \ {[id |-> id, run |-> pending[id]]}
<1>1. CASE pending[id] = None
  <2>1. [id |-> id, run |-> None] \notin timers
    BY ApprovalAssumption DEF TypeInv, TypeOK, Timer
  <2>2. QED
    BY <1>1, <2>1 DEF ResolveApproval
<1>2. QED
  BY <1>1 DEF ResolveApproval

\* A timer that fires is that of the run its id wakes.
LEMMA TimerExact ==
  ASSUME TypeInv, WaitsAreHeld, NEW t \in timers
  PROVE  t = [id |-> t.id, run |-> pending[t.id]]
<1>1. PICK r \in Waiting : t = [id |-> CallOf(r).id, run |-> r]
  BY DEF WaitsAreHeld
<1>2. pending[CallOf(r).id] = r
  BY DEF WaitsAreHeld
<1>3. QED
  BY <1>1, <1>2

\* The loop of one run: who waits stays waiting, and the map stays exact.
LEMMA LoopExact ==
  ASSUME SameMs = FALSE, ApprovalInv, NEW r \in Runs, LoopStep(r)
  PROVE  /\ IdsInv' /\ WaitsAreHeld'
         /\ UNCHANGED <<granted, ran>>
         /\ \A s \in Waiting : run'[s].pc = "await"
<1>0. TypeInv /\ TypeOK /\ IdsInv /\ WaitsAreHeld /\ run[r] \in RunState
  BY DEF ApprovalInv, TypeInv, TypeOK
\* A step of r that neither was nor will be waiting.
<1>a. ASSUME NEW next, run' = [run EXCEPT ![r] = next], run[r].pc # "await",
             next.pc # "await", UNCHANGED <<pending, timers>>
      PROVE  WaitsAreHeld' /\ \A s \in Waiting : run'[s].pc = "await"
  <2>1. run'[r] = next /\ \A s \in Runs \ {r} : run'[s] = run[s]
    BY <1>0, <1>a DEF TypeOK
  <2>2. Waiting' = Waiting /\ \A s \in Waiting : run'[s] = run[s]
    BY <1>a, <2>1 DEF Waiting
  <2>3. QED
    BY <1>0, <1>a, <2>2, SameWaits DEF Waiting
\* Such a step that goes on with the calls of r or without the first.
<1>b. ASSUME NEW next, run' = [run EXCEPT ![r] = next], run[r].pc # "await", next.pc # "await",
             next.calls = run[r].calls \/ (run[r].calls # <<>> /\ next.calls = Tail(run[r].calls)),
             UNCHANGED <<now, Registry>>
      PROVE  /\ IdsInv' /\ WaitsAreHeld'
             /\ UNCHANGED <<granted, ran>>
             /\ \A s \in Waiting : run'[s].pc = "await"
  <2>1. UNCHANGED <<now, pending, timers, asked, granted, ran>> /\ now \in Nat
    BY <1>0, <1>b, ApprovalAssumption DEF Registry, TypeOK
  <2>2. \A s \in Runs : Shrinks(s)
    BY <1>0, <1>b DEF TypeOK, Shrinks
  <2>3. IdsInv'
    BY <1>0, <2>1, <2>2, FewerCalls
  <2>4. QED
    BY <1>b, <2>1, <2>3, <1>a
<1>1. ASSUME NEW input \in Inputs, StartRun(r, input)
      PROVE  /\ IdsInv' /\ WaitsAreHeld'
             /\ UNCHANGED <<granted, ran>>
             /\ \A s \in Waiting : run'[s].pc = "await"
  <2> DEFINE next == [run[r] EXCEPT !.pc = "model", !.input = input, !.turn = 1]
  <2>1. next.pc = "model" /\ next.calls = run[r].calls
    BY <1>0 DEF RunState
  <2>2. run' = [run EXCEPT ![r] = next]
    BY <1>0, <1>1 DEF StartRun, TypeOK
  <2> HIDE DEF next
  <2>3. QED
    BY <1>1, <2>1, <2>2, <1>b DEF StartRun
<1>2. CASE ModelFails(r) \/ ModelCompletes(r) \/ RunTool(r)
  <2> DEFINE next(pc) == [run[r] EXCEPT !.pc = pc]
  <2>1. \A pc : next(pc).pc = pc /\ next(pc).calls = run[r].calls
    BY <1>0 DEF RunState
  <2>2. PICK pc \in {"done", "tool"} : run' = [run EXCEPT ![r] = next(pc)]
    BY <1>0, <1>2 DEF ModelFails, ModelCompletes, RunTool, Goto, TypeOK
  <2>3. run[r].pc # "await" /\ UNCHANGED <<now, Registry>>
    BY <1>2 DEF ModelFails, ModelCompletes, RunTool
  <2> HIDE DEF next
  <2>4. QED
    BY <2>1, <2>2, <2>3, <1>b
<1>3. CASE ModelStalls(r) \/ NextTurn(r)
  <2> DEFINE stall == [run[r] EXCEPT !.turn = run[r].turn + 1, !.forceUsed = TRUE]
             again == [run[r] EXCEPT !.pc = "model", !.turn = run[r].turn + 1]
             stop  == [run[r] EXCEPT !.pc = "done"]
  <2>1. /\ stall.pc = run[r].pc /\ stall.calls = run[r].calls
        /\ again.pc = "model" /\ again.calls = run[r].calls
        /\ stop.pc = "done" /\ stop.calls = run[r].calls
    BY <1>0 DEF RunState
  <2>2. PICK next \in {stall, again, stop} : run' = [run EXCEPT ![r] = next]
    BY <1>3 DEF ModelStalls, NextTurn
  <2>3. run[r].pc # "await" /\ UNCHANGED <<now, Registry>>
    BY <1>3 DEF ModelStalls, NextTurn
  <2> HIDE DEF stall, again, stop
  <2>4. next.pc # "await" /\ next.calls = run[r].calls
    BY <2>1, <2>2, <2>3
  <2>5. QED
    BY <2>2, <2>3, <2>4, <1>b
<1>4. ASSUME NEW kinds \in AnswersOf(MaxCalls), NEW ms \in 1 .. MaxNow,
             ModelCallsTools(r, kinds, ms)
      PROVE  /\ IdsInv' /\ WaitsAreHeld'
             /\ UNCHANGED <<granted, ran>>
             /\ \A s \in Waiting : run'[s].pc = "await"
  <2> DEFINE calls == [i \in DOMAIN kinds |-> [id |-> <<ms, i>>, kind |-> kinds[i]]]
             next  == [run[r] EXCEPT !.pc = "calls", !.calls = calls]
  <2>1. IdsInv'
    BY <1>0, <1>4, FreshCalls
  <2>2. run' = [run EXCEPT ![r] = next]
    BY <1>0, <1>4 DEF ModelCallsTools, TypeOK
  <2> HIDE DEF calls
  <2>3. next.pc = "calls"
    BY <1>0 DEF RunState
  <2> HIDE DEF next
  <2>4. run[r].pc # "await" /\ UNCHANGED <<pending, timers, granted, ran>>
    BY <1>4 DEF ModelCallsTools, Registry
  <2>5. QED
    BY <2>1, <2>2, <2>3, <2>4, <1>a
<1>5. CASE UnknownTool(r) \/ ToolEnds(r)
  <2>1. run[r].calls # <<>> /\ run[r].pc # "await" /\ UNCHANGED <<now, Registry>>
    BY <1>0, <1>5 DEF UnknownTool, ToolEnds, TypeOK
  <2>2. run' = [run EXCEPT ![r] = DropCall(r)]
    BY <1>5 DEF UnknownTool, ToolEnds
  <2>3. DropCall(r).calls = Tail(run[r].calls) /\ DropCall(r).pc = "calls"
    BY <1>0, <2>1, DropCallType
  <2>4. QED
    BY <2>1, <2>2, <2>3, <1>b
<1>6. CASE AskApproval(r)
  <2> DEFINE next == [run[r] EXCEPT !.pc = "await"]
             id   == CallOf(r).id
  <2>1. next.pc = "await" /\ next.calls = run[r].calls
    BY <1>0 DEF RunState
  <2>2. run' = [run EXCEPT ![r] = next] /\ run[r].calls # <<>> /\ run[r].pc = "calls"
    BY <1>0, <1>6 DEF AskApproval, Goto, TypeOK
  <2>3. /\ pending' = [pending EXCEPT ![id] = r]
        /\ timers'  = timers \cup {[id |-> id, run |-> r]}
        /\ asked'   = [asked EXCEPT ![r] = asked[r] \cup {id}]
        /\ UNCHANGED <<now, granted, ran>>
    BY <1>6 DEF AskApproval
  <2>4. id \in Id /\ id = CallOf(r).id
    BY <1>0, <2>2, CallOfRun
  <2>5. CallOf(r)'.id = id
    BY <1>0, <2>1, <2>2 DEF TypeOK, CallOf
  <2> HIDE DEF id, next
  <2>6. run'[r] = next /\ \A s \in Runs \ {r} : run'[s] = run[s]
    BY <1>0, <2>2 DEF TypeOK
  <2>7. Waiting' = Waiting \cup {r} /\ r \notin Waiting
    BY <2>1, <2>2, <2>6 DEF Waiting
  <2>8. \A s \in Waiting : CallOf(s)' = CallOf(s) /\ CallOf(s).id # id
    <3> SUFFICES ASSUME NEW s \in Waiting
                 PROVE  CallOf(s)' = CallOf(s) /\ CallOf(s).id # id
      OBVIOUS
    <3>1. s \in Runs /\ s # r /\ run'[s] = run[s] /\ run[s].calls # <<>>
      BY <1>0, <2>6, <2>7 DEF Waiting, TypeOK
    <3>2. CallOf(s).id # CallOf(r).id
      BY <1>0, <2>2, <3>1, CallOfRun DEF IdsInv, IdsDiffer
    <3>3. QED
      BY <2>4, <3>1, <3>2 DEF CallOf
  <2>9. WaitsAreHeld'
    <3>1. \A s \in Waiting : pending'[CallOf(s).id] = s
      <4> SUFFICES ASSUME NEW s \in Waiting
                   PROVE  pending'[CallOf(s).id] = s
        OBVIOUS
      <4>1. CallOf(s).id \in Id
        BY <1>0, CallOfRun DEF TypeOK, Waiting
      <4>2. pending[CallOf(s).id] = s
        BY <1>0 DEF WaitsAreHeld
      <4>3. QED
        BY <1>0, <2>3, <2>8, <4>1, <4>2 DEF TypeOK
    <3>2. pending'[id] = r
      BY <1>0, <2>3, <2>4 DEF TypeOK
    <3>3. timers = {[id |-> CallOf(s).id, run |-> s] : s \in Waiting}
      BY <1>0 DEF WaitsAreHeld
    <3>4. timers' = {[id |-> CallOf(s)'.id, run |-> s] : s \in Waiting'}
      BY <2>3, <2>5, <2>7, <2>8, <3>3
    <3>5. QED
      BY <2>5, <2>7, <2>8, <3>1, <3>2, <3>4 DEF WaitsAreHeld
  <2>10. IdsInv'
    <3>1. \A s \in Runs : Shrinks(s)
      BY <2>1, <2>6 DEF Shrinks
    <3>2. \A s \in Runs : \A x \in asked'[s] :
             x \in asked[s] \/ (run[s].calls # <<>> /\ x = CallOf(s).id)
      BY <1>0, <2>2, <2>3, <2>4 DEF TypeOK
    <3>3. now' \in Nat /\ now <= now'
      BY <1>0, <2>3, ApprovalAssumption DEF TypeOK
    <3>4. QED
      BY <1>0, <3>1, <3>2, <3>3, FewerCalls
  <2>11. QED
    BY <2>1, <2>3, <2>6, <2>7, <2>9, <2>10 DEF Waiting
<1>7. QED
  BY <1>1, <1>2, <1>3, <1>4, <1>5, <1>6 DEF LoopStep

-----------------------------------------------------------------------------
\* The inductive invariant, and with it who wakes whom.
WakesItsOwn ==
  \A e \in Waiting, r \in Runs :
    run'[e].pc # "await" /\ r # e => asked'[r] = asked[r] /\ (r \in closed' <=> r \in closed)

LEMMA ApprovalInvariance ==
  ASSUME SameMs = FALSE, ApprovalInv, [Next]_vars
  PROVE  ApprovalInv' /\ WakesItsOwn
<1>0. TypeInv /\ TypeOK /\ IdsInv /\ IdsDiffer /\ WaitsAreHeld /\ ApprovedCallsOnly
  BY DEF ApprovalInv, TypeInv, IdsInv
<1>1. TypeInv'
  BY <1>0, TypeInvariance
<1>2. ASSUME NEW r \in Runs, LoopStep(r)
      PROVE  IdsInv' /\ WaitsAreHeld' /\ ApprovedCallsOnly' /\ WakesItsOwn
  <2>1. /\ IdsInv' /\ WaitsAreHeld'
        /\ UNCHANGED <<granted, ran>>
        /\ \A s \in Waiting : run'[s].pc = "await"
    BY <1>2, LoopExact
  <2>2. QED
    BY <1>0, <2>1 DEF ApprovedCallsOnly, WakesItsOwn
\* An answer that asks nothing new and turns no clock back.
<1>a. ASSUME NEW id \in Id, NEW approved \in BOOLEAN, Answered(id, approved),
             timers' = timers \ {[id |-> id, run |-> pending[id]]},
             now' \in Nat, now <= now', \A s \in Runs : asked'[s] \subseteq asked[s]
      PROVE  /\ IdsInv' /\ WaitsAreHeld'
             /\ \A s \in Waiting : run'[s].pc # "await" => pending[id] = s /\ CallOf(s).id = id
  <2>1. /\ WaitsAreHeld'
        /\ \A s \in Runs : Shrinks(s)
        /\ \A s \in Waiting : run'[s].pc # "await" => pending[id] = s /\ CallOf(s).id = id
    BY <1>0, <1>a, AnsweredExact
  <2>2. IdsInv'
    BY <1>0, <1>a, <2>1, FewerCalls
  <2>3. QED
    BY <2>1, <2>2
\* Whoever is woken by a client's answer is the run that asked the client.
<1>b. ASSUME NEW r \in Runs, NEW id \in asked[r], NEW e \in Waiting, CallOf(e).id = id
      PROVE  r = e
  <2>1. e \in Runs /\ run[e].calls # <<>>
    BY <1>0 DEF Waiting, TypeOK
  <2>2. QED
    BY <1>0, <1>b, <2>1, CallOfRun DEF IdsInv, AskedIsOwn
<1>3. ASSUME NEW r \in Runs, NEW id \in Id, NEW approved \in BOOLEAN,
             PostApproval(r, id, approved)
      PROVE  IdsInv' /\ WaitsAreHeld' /\ ApprovedCallsOnly' /\ WakesItsOwn
  <2>1. /\ id \in asked[r] /\ ResolveApproval(id, approved)
        /\ asked' = [asked EXCEPT ![r] = asked[r] \ {id}]
        /\ UNCHANGED <<closed, now>>
    BY <1>3 DEF PostApproval
  <2>2. now' \in Nat /\ now <= now' /\ \A s \in Runs : asked'[s] \subseteq asked[s]
    BY <1>0, <2>1, ApprovalAssumption DEF TypeOK
  <2>3. Answered(id, approved) /\ timers' = timers \ {[id |-> id, run |-> pending[id]]}
    BY <1>0, <2>1, ResolveAnswers, ResolveExact
  <2>4. /\ IdsInv' /\ WaitsAreHeld'
        /\ \A s \in Waiting : run'[s].pc # "await" => pending[id] = s /\ CallOf(s).id = id
    BY <2>2, <2>3, <1>a
  <2>5. WakesItsOwn
    <3> SUFFICES ASSUME NEW e \in Waiting, NEW q \in Runs, run'[e].pc # "await", q # e
                 PROVE  asked'[q] = asked[q] /\ (q \in closed' <=> q \in closed)
      BY DEF WakesItsOwn
    <3>1. r = e
      BY <2>1, <2>4, <1>b
    <3>2. QED
      BY <1>0, <2>1, <3>1 DEF TypeOK
  <2>6. ASSUME NEW x \in ran'
        PROVE  x[2] \in granted'[x[1]]
    <3>1. \A s \in Runs : granted[s] \subseteq granted'[s]
      BY <1>0, <1>3 DEF PostApproval, TypeOK
    <3>2. CASE x \in ran
      <4>1. x[2] \in granted[x[1]] /\ x[1] \in Runs
        BY <1>0, <3>2 DEF ApprovedCallsOnly, TypeOK
      <4>2. QED
        BY <3>1, <4>1
    <3>3. CASE x \notin ran
      <4>1. approved /\ pending[id] # None /\ x = <<pending[id], id>>
        BY <2>3, <2>6, <3>3 DEF Answered, Wake
      <4>2. pending[id] \in Waiting /\ CallOf(pending[id]).id = id
        BY <1>0, <4>1 DEF TypeInv, EntriesWait
      <4>3. r = pending[id]
        BY <2>1, <4>2, <1>b
      <4>4. granted' = [granted EXCEPT ![r] = granted[r] \cup {id}]
        BY <1>3, <4>1 DEF PostApproval
      <4>5. QED
        BY <1>0, <4>1, <4>3, <4>4 DEF TypeOK
    <3>4. QED
      BY <3>2, <3>3
  <2>7. QED
    BY <2>4, <2>5, <2>6 DEF ApprovedCallsOnly
<1>4. ASSUME NEW t \in timers, ApprovalTimeout(t)
      PROVE  IdsInv' /\ WaitsAreHeld' /\ ApprovedCallsOnly' /\ WakesItsOwn
  <2>1. t.id \in Id /\ Answered(t.id, FALSE)
    BY <1>0, <1>4 DEF ApprovalTimeout, Answered, TypeOK, Timer
  <2>2. timers' = timers \ {[id |-> t.id, run |-> pending[t.id]]}
    BY <1>0, <1>4, TimerExact DEF ApprovalTimeout
  <2>3. now' \in Nat /\ now <= now' /\ UNCHANGED <<closed, asked, granted, ran>>
    BY <1>0, <1>4, ApprovalAssumption DEF ApprovalTimeout, TypeOK, Wake
  <2>4. IdsInv' /\ WaitsAreHeld'
    BY <2>1, <2>2, <2>3, <1>a
  <2>5. QED
    BY <1>0, <2>3, <2>4 DEF ApprovedCallsOnly, WakesItsOwn
<1>5. ASSUME NEW r \in Runs, CloseConnection(r)
      PROVE  IdsInv' /\ WaitsAreHeld' /\ ApprovedCallsOnly' /\ WakesItsOwn
  <2>1. /\ closed' = closed \cup {r}
        /\ UNCHANGED <<now, asked, granted>>
        /\ now \in Nat
    BY <1>0, <1>5, ApprovalAssumption DEF CloseConnection, TypeOK
  <2>2. CASE UNCHANGED <<run, pending, timers, ran>>
    <3>1. Waiting' = Waiting /\ \A s \in Waiting : run'[s] = run[s] /\ run[s].pc = "await"
      BY <2>2 DEF Waiting
    <3>2. WaitsAreHeld'
      BY <1>0, <2>2, <3>1, SameWaits
    <3>3. IdsInv'
      BY <1>0, <2>1, <2>2, FewerCalls DEF Shrinks
    <3>4. QED
      BY <1>0, <2>1, <2>2, <3>1, <3>2, <3>3 DEF ApprovedCallsOnly, WakesItsOwn
  <2>3. ASSUME NEW id \in CallIdsForThisRun(r), ResolveApproval(id, FALSE)
        PROVE  IdsInv' /\ WaitsAreHeld' /\ ApprovedCallsOnly' /\ WakesItsOwn
    <3>1. r \in Waiting /\ id = CallOf(r).id /\ run[r].calls # <<>>
      BY <1>0, <2>3 DEF CallIdsForThisRun, Waiting, TypeOK
    <3>2. id \in Id /\ pending[id] = r
      BY <1>0, <3>1, CallOfRun DEF WaitsAreHeld
    <3>3. Answered(id, FALSE) /\ timers' = timers \ {[id |-> id, run |-> pending[id]]}
      BY <1>0, <2>3, ResolveAnswers, ResolveExact
    <3>4. now' \in Nat /\ now <= now' /\ \A s \in Runs : asked'[s] \subseteq asked[s]
      BY <2>1
    <3>5. /\ IdsInv' /\ WaitsAreHeld'
          /\ \A s \in Waiting : run'[s].pc # "await" => pending[id] = s /\ CallOf(s).id = id
      BY <3>2, <3>3, <3>4, <1>a
    <3>6. ran' = ran
      BY <3>3 DEF Answered, Wake
    <3>7. QED
      BY <1>0, <2>1, <3>2, <3>5, <3>6 DEF ApprovedCallsOnly, WakesItsOwn
  <2>4. QED
    BY <1>5, <2>2, <2>3 DEF CloseConnection
<1>6. ASSUME UNCHANGED vars
      PROVE  IdsInv' /\ WaitsAreHeld' /\ ApprovedCallsOnly' /\ WakesItsOwn
  <2>1. UNCHANGED <<run, pending, timers, closed, now, asked, granted, ran>> /\ now \in Nat
    BY <1>0, <1>6, ApprovalAssumption DEF vars, TypeOK
  <2>2. Waiting' = Waiting /\ \A s \in Waiting : run'[s] = run[s] /\ run[s].pc = "await"
    BY <2>1 DEF Waiting
  <2>3. WaitsAreHeld'
    BY <1>0, <2>1, <2>2, SameWaits
  <2>4. IdsInv'
    BY <1>0, <2>1, FewerCalls DEF Shrinks
  <2>5. QED
    BY <1>0, <2>1, <2>2, <2>3, <2>4 DEF ApprovedCallsOnly, WakesItsOwn
<1>7. IdsInv' /\ WaitsAreHeld' /\ ApprovedCallsOnly' /\ WakesItsOwn
  BY <1>2, <1>3, <1>4, <1>5, <1>6 DEF Next
<1>8. QED
  BY <1>1, <1>7 DEF ApprovalInv

LEMMA InitApproval == Init => ApprovalInv
<1> SUFFICES ASSUME Init
             PROVE  ApprovalInv
  OBVIOUS
<1>1. TypeInv
  BY InitType
<1>2. \A r \in Runs : run[r].calls = <<>> /\ run[r].pc = "idle" /\ asked[r] = {}
  BY DEF Init
<1>3. Waiting = {}
  BY <1>2 DEF Waiting
<1>4. IdsInv
  BY <1>2 DEF IdsInv, IdsDiffer, IdsArePast, AskedIsOwn
<1>5. WaitsAreHeld /\ ApprovedCallsOnly
  BY <1>3 DEF Init, WaitsAreHeld, ApprovedCallsOnly
<1>6. QED
  BY <1>1, <1>4, <1>5 DEF ApprovalInv

\* When no two answers share a millisecond, a tool that needs approval runs in
\* an interactive run only after that run's client approved that call: a late
\* answer, one for another run, a timeout or a closed connection never runs it.
THEOREM OnlyApprovedCallsRun ==
  ASSUME SameMs = FALSE
  PROVE  Spec => []ApprovedCallsOnly
<1>1. ApprovalInv /\ [Next]_vars => ApprovalInv'
  BY ApprovalInvariance
<1>2. ApprovalInv => ApprovedCallsOnly
  BY DEF ApprovalInv
<1>3. QED
  BY <1>1, <1>2, InitApproval, PTL DEF Spec

\* Under the same condition no promise is orphaned: the map of pending
\* approvals and the live timers are exactly the waits of the runs.
THEOREM RegistryStaysExact ==
  ASSUME SameMs = FALSE
  PROVE  Spec => []RegistryIsExact
<1>1. ApprovalInv /\ [Next]_vars => ApprovalInv'
  BY ApprovalInvariance
<1>2. ApprovalInv => RegistryIsExact
  BY DEF ApprovalInv, TypeInv, EntriesWait, WaitsAreHeld, RegistryIsExact
<1>3. QED
  BY <1>1, <1>2, InitApproval, PTL DEF Spec

\* And a run is woken by its own client, its own timer or its own connection
\* only.
THEOREM RunsWakeByTheirOwn ==
  ASSUME SameMs = FALSE
  PROVE  Spec => WokenByItsOwn
<1>1. ApprovalInv /\ [Next]_vars => ApprovalInv' /\ WakesItsOwn
  BY ApprovalInvariance
<1>2. WakesItsOwn =>
        [\A e \in Waiting, r \in Runs :
           run'[e].pc # "await" /\ r # e =>
             asked'[r] = asked[r] /\ (r \in closed' <=> r \in closed)]_vars
  BY DEF WakesItsOwn
<1>3. QED
  BY <1>1, <1>2, InitApproval, PTL DEF Spec, WokenByItsOwn
=============================================================================
