------------------------ MODULE SessionWorkflowProofs -----------------------
(***************************************************************************)
(* Theorems about SessionWorkflow, for any sets of sessions, plugins and   *)
(* clients, with or without overlap and crashes: the variables keep their  *)
(* types, a strict execute that read its session runs in one whose plan    *)
(* was approved, and undisturbed operations keep pointer and open session  *)
(* together.  About the page, for any number of turns, images, artifacts   *)
(* and comparisons: what a comparison or a verdict says is of one whole    *)
(* run, and what the threads show is true.                                 *)
(***************************************************************************)
EXTENDS MCSessionPage, TLAPS

-----------------------------------------------------------------------------
\* The effective freedom is one of the declared levels, or free.
LEMMA FreedomType ==
  ASSUME NEW act \in SUBSET Plugins
  PROVE  EffectiveFreedom(act) \in Levels
<1> DEFINE declared == {"free"} \cup {LevelOf[p] : p \in act}
<1>1. declared \subseteq Levels /\ "free" \in declared
  BY SessionAssumption DEF Levels
<1>2. \E l \in declared : \A m \in declared : Rank(m) <= Rank(l)
  <2>1. CASE "strict" \in declared
    BY <1>1, <2>1 DEF Levels, Rank
  <2>2. CASE "strict" \notin declared /\ "balanced" \in declared
    BY <1>1, <2>2 DEF Levels, Rank
  <2>3. CASE "strict" \notin declared /\ "balanced" \notin declared /\ "guided" \in declared
    BY <1>1, <2>3 DEF Levels, Rank
  <2>4. CASE declared = {"free"}
    BY <1>1, <2>4 DEF Levels, Rank
  <2>5. QED
    BY <1>1, <2>1, <2>2, <2>3, <2>4 DEF Levels
<1>3. EffectiveFreedom(act) \in declared
  BY <1>2 DEF EffectiveFreedom
<1>4. QED
  BY <1>1, <1>3

\* What an operation record must look like between two steps.
OpOK(r) ==
  /\ r \in Operation
  /\ r.pc \in {"session", "open", "fill", "blank", "point"} => r.sid \in Sessions
  /\ r.pc \in {"open", "fill"} => r.doc \in Session

LEMMA IdleOK == OpOK(Idle)
BY DEF OpOK, Idle, Operation, PC, Kinds, Levels, States, Modes, File

\* One client moves to a well-formed record, the others stay.
LEMMA BecomeOK ==
  ASSUME TypeOK, NEW c \in Clients, NEW next, OpOK(next), Become(c, next)
  PROVE  /\ op' \in [Clients -> Operation]
         /\ \A d \in Clients : OpOK(op'[d])
BY DEF TypeOK, Become, OpOK

\* The files read and written keep their type whatever an operation goes on with.
LEMMA NextOfOK ==
  ASSUME NEW r, OpOK(r), r.pc \in {"pointer", "session"}, r.pc = "session" => r.sid \in Sessions,
         NEW s \in Session \cup {None}, s # None => r.sid \in Sessions
  PROVE  OpOK(NextOf(r, s))
<1>1. ASSUME s \in Session, r.sid \in Sessions, NEW t \in Session
      PROVE  OpOK(Write(r, t))
  BY <1>1 DEF OpOK, Write, Operation, PC, File
<1>2. ASSUME s \in Session, NEW st \in States
      PROVE  [s EXCEPT !.state = st] \in Session
  BY <1>2 DEF Session
<1>3. ASSUME s \in Session
      PROVE  [s EXCEPT !.planApproved = TRUE] \in Session
  BY <1>3 DEF Session
<1>4. OpOK([r EXCEPT !.pc = "create", !.sid = None])
  BY DEF OpOK, Operation, PC
<1>5. r.to \in States /\ "abandoned" \in States
  BY DEF OpOK, Operation, States
<1>6. s # None => s \in Session /\ r.sid \in Sessions
  OBVIOUS
<1>7. QED
  BY <1>1, <1>2, <1>3, <1>4, <1>5, <1>6, IdleOK DEF NextOf

\* What reading a pointer or a session file leads to, whichever it is.
LEMMA GoOnOK ==
  ASSUME TypeOK, NEW c \in Clients, NEW s \in File, op[c].pc \in {"pointer", "session"},
         s # None => op[c].sid \in Sessions, GoOn(c, op[c], s)
  PROVE  /\ op' \in [Clients -> Operation]
         /\ \A d \in Clients : OpOK(op'[d])
<1>1. OpOK(op[c])
  BY DEF TypeOK, OpOK
<1>2. OpOK([op[c] EXCEPT !.pc = "running", !.doc = s])
  BY <1>1 DEF OpOK, Operation, PC
<1>3. s # Torn => OpOK(NextOf(op[c], s))
  BY <1>1, NextOfOK DEF File, OpOK
<1>4. PICK next : OpOK(next) /\ Become(c, next)
  BY <1>2, <1>3, IdleOK DEF GoOn, Pass
<1>5. QED
  BY <1>4, BecomeOK

-----------------------------------------------------------------------------
\* Every variable of the session store and of its clients keeps its type, and
\* whoever reads or writes a session file knows which one and what it writes.
THEOREM SessionTypeCorrect == Spec => []TypeOK
<1>1. Init => TypeOK
  BY IdleOK DEF Init, TypeOK, OpOK, File, Idle
<1>2. TypeOK /\ [Next]_vars => TypeOK'
  <2>0. TypeOK /\ [Next]_vars => calm' \in BOOLEAN
    BY DEF TypeOK, Next, vars
  <2> SUFFICES ASSUME TypeOK, [Next]_vars, calm' \in BOOLEAN
               PROVE  TypeOK'
    BY <2>0
  \* A step of c that leaves the store, the pointer and the histories alone.
  <2>a. ASSUME NEW c \in Clients, NEW next, OpOK(next), Become(c, next),
               store' \in [Sessions -> File], current' \in Sessions \cup {None},
               active' \subseteq Plugins, approved' \subseteq Sessions, calm' \in BOOLEAN
        PROVE  TypeOK'
    <3>1. op' \in [Clients -> Operation] /\ \A d \in Clients : OpOK(op'[d])
      BY <2>a, BecomeOK
    <3>2. QED
      BY <2>a, <3>1 DEF TypeOK, OpOK
  <2>1. ASSUME NEW c \in Clients, Begin(c)
        PROVE  TypeOK'
    <3>1. EffectiveFreedom(active) \in Levels
      BY FreedomType DEF TypeOK
    <3>2. CASE StartSession(c)
      <4> DEFINE next == [Idle EXCEPT !.kind = "start", !.pc = "pointer"]
      <4>1. OpOK(next)
        BY IdleOK DEF OpOK, Operation, PC, Kinds
      <4>2. Become(c, next)
        BY <3>2 DEF StartSession
      <4> HIDE DEF next
      <4>3. QED
        BY <3>2, <4>1, <4>2, <2>a DEF StartSession, TypeOK
    <3>3. ASSUME NEW to \in Targets, AdvanceSession(c, to)
          PROVE  TypeOK'
      <4> DEFINE next == [Idle EXCEPT !.kind = "advance", !.pc = "pointer", !.to = to]
      <4>1. OpOK(next)
        BY SessionAssumption, IdleOK DEF OpOK, Operation, PC, Kinds
      <4>2. Become(c, next)
        BY <3>3 DEF AdvanceSession
      <4> HIDE DEF next
      <4>3. QED
        BY <3>3, <4>1, <4>2, <2>a DEF AdvanceSession, TypeOK
    <3>4. CASE ApprovePlan(c)
      <4> DEFINE next == [Idle EXCEPT !.kind = "approve", !.pc = "pointer"]
      <4>1. OpOK(next)
        BY IdleOK DEF OpOK, Operation, PC, Kinds
      <4>2. Become(c, next)
        BY <3>4 DEF ApprovePlan
      <4> HIDE DEF next
      <4>3. QED
        BY <3>4, <4>1, <4>2, <2>a DEF ApprovePlan, TypeOK
    <3>5. CASE AbandonSession(c)
      <4> DEFINE next == [Idle EXCEPT !.kind = "abandon", !.pc = "pointer"]
      <4>1. OpOK(next)
        BY IdleOK DEF OpOK, Operation, PC, Kinds
      <4>2. Become(c, next)
        BY <3>5 DEF AbandonSession
      <4> HIDE DEF next
      <4>3. QED
        BY <3>5, <4>1, <4>2, <2>a DEF AbandonSession, TypeOK
    <3>6. ASSUME NEW req \in Requests, RunRoute(c, req.mode, req.multiFile)
          PROVE  TypeOK'
      <4> DEFINE ran  == [Idle EXCEPT !.kind = "run", !.pc = "pointer", !.mode = req.mode,
                            !.multiFile = req.multiFile, !.freedom = EffectiveFreedom(active)]
                 next == [ran EXCEPT !.pc = "running", !.doc = None]
      <4>1. req.mode \in Modes /\ req.multiFile \in BOOLEAN
        BY SessionAssumption
      <4>2. ran \in Operation
        BY <3>1, <4>1, IdleOK DEF OpOK, Operation, PC, Kinds
      <4>3. OpOK(ran)
        BY <4>2 DEF OpOK, Idle
      <4>4. OpOK(next)
        BY <4>2 DEF OpOK, Operation, PC, File
      <4>5. CASE ran.freedom = "free"
        <5>1. Become(c, next)
          BY <3>6, <4>5 DEF RunRoute, Pass
        <5> HIDE DEF next
        <5>2. QED
          BY <3>6, <4>4, <5>1, <2>a DEF RunRoute, TypeOK
      <4>6. CASE ran.freedom # "free"
        <5>1. Become(c, ran)
          BY <3>6, <4>6 DEF RunRoute
        <5> HIDE DEF ran
        <5>2. QED
          BY <3>6, <4>3, <5>1, <2>a DEF RunRoute, TypeOK
      <4>7. QED
        BY <4>5, <4>6
    <3>7. QED
      BY <2>1, <3>2, <3>3, <3>4, <3>5, <3>6 DEF Begin
  <2>2. ASSUME NEW c \in Clients, Continue(c)
        PROVE  TypeOK'
    <3>1. OpOK(op[c])
      BY DEF TypeOK, OpOK
    <3>2. CASE RunEnds(c)
      BY <3>2, IdleOK, <2>a DEF RunEnds, TypeOK
    <3>3. CASE ReadPointer(c)
      <4>1. CASE current = None
        <5>1. GoOn(c, op[c], None) /\ op[c].pc = "pointer"
          BY <3>3, <4>1 DEF ReadPointer
        <5>2. op' \in [Clients -> Operation] /\ (\A d \in Clients : OpOK(op'[d]))
          BY <5>1, GoOnOK DEF File
        <5>3. QED
          BY <3>3, <5>2 DEF ReadPointer, TypeOK, OpOK
      <4>2. CASE current # None
        <5>1. OpOK([op[c] EXCEPT !.pc = "session", !.sid = current])
          BY <3>1, <4>2 DEF OpOK, TypeOK, Operation, PC
        <5>2. QED
          BY <3>3, <4>2, <5>1, <2>a DEF ReadPointer, TypeOK
      <4>3. QED
        BY <4>1, <4>2
    <3>4. CASE ReadSession(c)
      <4>1. op[c].pc = "session" /\ op[c].sid \in Sessions /\ store[op[c].sid] \in File
            /\ GoOn(c, op[c], store[op[c].sid])
        BY <3>4 DEF ReadSession, TypeOK
      <4>2. op' \in [Clients -> Operation] /\ (\A d \in Clients : OpOK(op'[d]))
        BY <4>1, GoOnOK
      <4>3. QED
        BY <3>4, <4>2 DEF ReadSession, TypeOK, OpOK
    <3>5. CASE OpenFile(c)
      <4>1. OpOK([op[c] EXCEPT !.pc = "fill"]) /\ op[c].sid \in Sessions
        BY <3>1, <3>5 DEF OpenFile, OpOK, Operation, PC
      <4>2. store' \in [Sessions -> File]
        BY <3>5, <4>1 DEF OpenFile, TypeOK, File
      <4>3. QED
        BY <3>5, <4>1, <4>2, <2>a DEF OpenFile, TypeOK
    <3>6. CASE FillFile(c)
      <4>1. op[c].sid \in Sessions /\ op[c].doc \in Session
        BY <3>1, <3>6 DEF FillFile, OpOK
      <4>2. OpOK(AfterWrite(op[c]))
        <5>1. OpOK([op[c] EXCEPT !.pc = "create", !.sid = None])
          BY <3>1 DEF OpOK, Operation, PC
        <5>2. OpOK([op[c] EXCEPT !.pc = "blank"])
          BY <3>1, <4>1 DEF OpOK, Operation, PC
        <5>3. OpOK([op[c] EXCEPT !.pc = "clear"])
          BY <3>1 DEF OpOK, Operation, PC
        <5>4. QED
          BY <5>1, <5>2, <5>3, IdleOK DEF AfterWrite
      <4>3. store' \in [Sessions -> File] /\ approved' \subseteq Sessions
        BY <3>6, <4>1 DEF FillFile, TypeOK, File
      <4>4. QED
        BY <3>6, <4>2, <4>3, <2>a DEF FillFile, TypeOK
    <3>7. ASSUME NEW s \in Sessions, CreateSession(c, s)
          PROVE  TypeOK'
      <4> DEFINE doc == [state |-> "planning", planApproved |-> FALSE]
      <4>1. doc \in Session
        BY <3>1 DEF OpOK, Operation, Session, States
      <4>2. Become(c, [op[c] EXCEPT !.pc = "open", !.sid = s, !.doc = doc])
        BY <3>7 DEF CreateSession
      <4> HIDE DEF doc
      <4>3. OpOK([op[c] EXCEPT !.pc = "open", !.sid = s, !.doc = doc])
        BY <3>1, <4>1 DEF OpOK, Operation, PC, File
      <4>4. QED
        BY <3>7, <4>2, <4>3, <2>a DEF CreateSession, TypeOK
    <3>8. CASE BlankPointer(c)
      <4>1. OpOK([op[c] EXCEPT !.pc = "point"])
        BY <3>1, <3>8 DEF BlankPointer, OpOK, Operation, PC
      <4>2. QED
        BY <3>8, <4>1, <2>a DEF BlankPointer, TypeOK
    <3>9. CASE SetPointer(c)
      <4>1. op[c].sid \in Sessions
        BY <3>1, <3>9 DEF SetPointer, OpOK
      <4>2. QED
        BY <3>9, <4>1, IdleOK, <2>a DEF SetPointer, TypeOK
    <3>10. CASE ClearPointer(c)
      BY <3>10, IdleOK, <2>a DEF ClearPointer, TypeOK
    <3>11. QED
      BY <2>2, <3>2, <3>3, <3>4, <3>5, <3>6, <3>7, <3>8, <3>9, <3>10 DEF Continue
  <2>3. ASSUME NEW c \in Clients, Crash(c)
        PROVE  TypeOK'
    BY <2>3, IdleOK, <2>a DEF Crash, TypeOK
  <2>4. ASSUME NEW p \in Plugins, TogglePlugin(p)
        PROVE  TypeOK'
    BY <2>4 DEF TogglePlugin, TypeOK
  <2>5. CASE UNCHANGED vars
    BY <2>5 DEF vars, TypeOK
  <2>6. QED
    BY <2>1, <2>2, <2>3, <2>4, <2>5 DEF Next
<1>3. QED
  BY <1>1, <1>2, PTL DEF Spec

-----------------------------------------------------------------------------
(* StrictExecuteIsPlanned speaks of the copy a run has read; what makes it   *)
(* inductive is that planApproved is true nowhere, on disk or in the         *)
(* document an operation is about to write, unless the session was approved  *)
(* or it is the approval itself that is about to be written.                 *)

Planned(r, ap) ==
  /\ r.pc \in {"open", "fill"} /\ r.kind # "approve" /\ r.doc.planApproved => r.sid \in ap
  /\ r.pc = "running" /\ r.doc \in Session /\ r.doc.planApproved => r.sid \in ap
  /\ r.pc = "running" /\ r.freedom = "strict" /\ r.mode = "execute" /\ r.doc # Torn =>
       r.doc # None /\ r.doc.state = "implementing" /\ r.doc.planApproved

PlannedInv ==
  /\ \A s \in Sessions : store[s] \in Session /\ store[s].planApproved => s \in approved
  /\ \A c \in Clients : Planned(op[c], approved)

\* A record that neither writes nor runs owes nothing.
LEMMA QuietPlanned ==
  ASSUME NEW r, r.pc \notin {"open", "fill", "running"}, NEW ap
  PROVE  Planned(r, ap)
BY DEF Planned

LEMMA IdlePlanned == ASSUME NEW ap PROVE Planned(Idle, ap)
BY QuietPlanned DEF Idle

\* A step of one client that approves nothing less.
LEMMA PlannedStep ==
  ASSUME TypeOK, PlannedInv, NEW c \in Clients, NEW next, Become(c, next),
         approved \subseteq approved', Planned(next, approved'),
         \A s \in Sessions : store'[s] \in Session /\ store'[s].planApproved => s \in approved'
  PROVE  PlannedInv'
<1>1. ASSUME NEW d \in Clients
      PROVE  Planned(op'[d], approved')
  <2>1. CASE d = c
    BY <2>1 DEF Become, TypeOK
  <2>2. CASE d # c
    <3>1. op'[d] = op[d] /\ Planned(op[d], approved)
      BY <2>2 DEF Become, TypeOK, PlannedInv
    <3>2. QED
      BY <3>1 DEF Planned
  <2>3. QED
    BY <2>1, <2>2
<1>2. QED
  BY <1>1 DEF PlannedInv

\* The gate lets a strict execute pass only in a planned session.
LEMMA PassPlanned ==
  ASSUME NEW r, OpOK(r), NEW s \in File, s # Torn, Gate(r.freedom, r.mode, r.multiFile, s),
         NEW ap, s \in Session /\ s.planApproved => r.sid \in ap
  PROVE  Planned([r EXCEPT !.pc = "running", !.doc = s], ap)
<1> DEFINE ran == [r EXCEPT !.pc = "running", !.doc = s]
<1>1. ran.pc = "running" /\ ran.doc = s /\ ran.freedom = r.freedom /\ ran.mode = r.mode
      /\ ran.sid = r.sid
  BY DEF OpOK, Operation
<1>2. r.freedom = "strict" /\ r.mode = "execute" =>
        s # None /\ s.state = "implementing" /\ s.planApproved
  BY DEF Gate
<1> HIDE DEF ran
<1>3. Planned(ran, ap)
  BY <1>1, <1>2 DEF Planned
<1>4. QED
  BY <1>3 DEF ran

\* Going on with what was read keeps the plan where it was approved.
LEMMA GoOnPlanned ==
  ASSUME TypeOK, PlannedInv, NEW c \in Clients, op[c].pc \in {"pointer", "session"},
         NEW s \in File, s \in Session => op[c].sid \in Sessions,
         s \in Session /\ s.planApproved => op[c].sid \in approved,
         GoOn(c, op[c], s), UNCHANGED <<store, approved>>
  PROVE  PlannedInv'
<1>1. OpOK(op[c])
  BY DEF TypeOK, OpOK
<1> DEFINE r == op[c]
           ran == [r EXCEPT !.pc = "running", !.doc = s]
<1>2. CASE s = Torn
  <2>1. Planned(ran, approved)
    <3>1. ran.pc = "running" /\ ran.doc = Torn
      BY <1>1, <1>2 DEF OpOK, Operation
    <3> HIDE DEF ran
    <3>2. QED
      BY <3>1, FilesAssumption DEF Planned
  <2>2. Become(c, ran) \/ Become(c, Idle)
    BY <1>2 DEF GoOn, Pass
  <2> HIDE DEF ran
  <2>3. QED
    BY <2>1, <2>2, IdlePlanned, PlannedStep DEF PlannedInv
<1>3. CASE s # Torn /\ r.kind = "run" /\ Gate(r.freedom, r.mode, r.multiFile, s)
  <2>1. Planned(ran, approved) /\ Become(c, ran)
    BY <1>1, <1>3, PassPlanned DEF GoOn, Pass
  <2> HIDE DEF ran
  <2>2. QED
    BY <2>1, PlannedStep DEF PlannedInv
<1>4. CASE s # Torn /\ ~ (r.kind = "run" /\ Gate(r.freedom, r.mode, r.multiFile, s))
  <2>1. Become(c, NextOf(r, s))
    BY <1>4 DEF GoOn
  <2>2. ASSUME s \in Session, NEW t \in Session,
               r.kind # "approve" => t.planApproved = s.planApproved
        PROVE  Planned(Write(r, t), approved)
    <3>1. Write(r, t).pc = "open" /\ Write(r, t).doc = t /\ Write(r, t).kind = r.kind
          /\ Write(r, t).sid = r.sid
      BY <1>1 DEF Write, OpOK, Operation
    <3>2. QED
      BY <2>2, <3>1 DEF Planned
  <2>3. ASSUME s \in Session, NEW st \in States
        PROVE  [s EXCEPT !.state = st] \in Session /\ [s EXCEPT !.state = st].planApproved = s.planApproved
    BY <2>3 DEF Session
  <2>4. ASSUME s \in Session
        PROVE  [s EXCEPT !.planApproved = TRUE] \in Session
    BY <2>4 DEF Session
  <2>5. Planned([r EXCEPT !.pc = "create", !.sid = None], approved)
    <3>1. [r EXCEPT !.pc = "create", !.sid = None].pc = "create"
      BY <1>1 DEF OpOK, Operation
    <3>2. QED
      BY <3>1, QuietPlanned
  <2>6. r.to \in States /\ "abandoned" \in States
    BY <1>1 DEF OpOK, Operation, States
  <2>7. s # None => s \in Session
    BY <1>4 DEF File
  <2>8. Planned(NextOf(r, s), approved)
    <3> HIDE DEF r
    <3>1. QED
      BY <2>2, <2>3, <2>4, <2>5, <2>6, <2>7, IdlePlanned DEF NextOf
  <2>9. QED
    BY <2>1, <2>8, PlannedStep DEF PlannedInv
<1>5. QED
  BY <1>2, <1>3, <1>4

\* The inductive invariant, one step per operation of session.ts and runRoute.
LEMMA PlannedInvariance == TypeOK /\ PlannedInv /\ [Next]_vars => PlannedInv'
<1> SUFFICES ASSUME TypeOK, PlannedInv, [Next]_vars
             PROVE  PlannedInv'
  OBVIOUS
\* A step that leaves the files and the approvals alone.
<1>a. ASSUME NEW c \in Clients, NEW next, Become(c, next), Planned(next, approved),
             UNCHANGED <<store, approved>>
      PROVE  PlannedInv'
  BY <1>a, PlannedStep DEF PlannedInv
<1>1. ASSUME NEW c \in Clients, Begin(c)
      PROVE  PlannedInv'
  <2>1. CASE StartSession(c)
    <3> DEFINE next == [Idle EXCEPT !.kind = "start", !.pc = "pointer"]
    <3>1. Become(c, next) /\ next.pc = "pointer"
      BY <2>1 DEF StartSession, Idle
    <3> HIDE DEF next
    <3>2. QED
      BY <2>1, <3>1, QuietPlanned, <1>a DEF StartSession
  <2>2. ASSUME NEW to \in Targets, AdvanceSession(c, to)
        PROVE  PlannedInv'
    <3> DEFINE next == [Idle EXCEPT !.kind = "advance", !.pc = "pointer", !.to = to]
    <3>1. Become(c, next) /\ next.pc = "pointer"
      BY <2>2 DEF AdvanceSession, Idle
    <3> HIDE DEF next
    <3>2. QED
      BY <2>2, <3>1, QuietPlanned, <1>a DEF AdvanceSession
  <2>3. CASE ApprovePlan(c) \/ AbandonSession(c)
    <3> DEFINE next(kind) == [Idle EXCEPT !.kind = kind, !.pc = "pointer"]
    <3>1. Become(c, next("approve")) \/ Become(c, next("abandon"))
      BY <2>3 DEF ApprovePlan, AbandonSession
    <3>2. next("approve").pc = "pointer" /\ next("abandon").pc = "pointer"
      BY DEF Idle
    <3> HIDE DEF next
    <3>3. UNCHANGED <<store, approved>>
      BY <2>3 DEF ApprovePlan, AbandonSession
    <3>4. QED
      BY <3>1, <3>2, <3>3, QuietPlanned, <1>a
  <2>4. ASSUME NEW req \in Requests, RunRoute(c, req.mode, req.multiFile)
        PROVE  PlannedInv'
    <3> DEFINE ran  == [Idle EXCEPT !.kind = "run", !.pc = "pointer", !.mode = req.mode,
                          !.multiFile = req.multiFile, !.freedom = EffectiveFreedom(active)]
               next == [ran EXCEPT !.pc = "running", !.doc = None]
    <3>1. CASE ran.freedom = "free"
      <4>1. Become(c, next)
        BY <2>4, <3>1 DEF RunRoute, Pass
      <4>2. next.doc = None /\ next.pc = "running" /\ next.freedom = "free"
        BY <3>1 DEF Idle
      <4> HIDE DEF next, ran
      <4>3. Planned(next, approved)
        BY <4>2, FilesAssumption DEF Planned
      <4>4. QED
        BY <2>4, <4>1, <4>3, <1>a DEF RunRoute
    <3>2. CASE ran.freedom # "free"
      <4>1. Become(c, ran) /\ ran.pc = "pointer"
        BY <2>4, <3>2 DEF RunRoute, Idle
      <4> HIDE DEF ran
      <4>2. QED
        BY <2>4, <4>1, QuietPlanned, <1>a DEF RunRoute
    <3>3. QED
      BY <3>1, <3>2
  <2>5. QED
    BY <1>1, <2>1, <2>2, <2>3, <2>4 DEF Begin
<1>2. ASSUME NEW c \in Clients, Continue(c)
      PROVE  PlannedInv'
  <2>1. OpOK(op[c]) /\ Planned(op[c], approved)
    BY DEF TypeOK, OpOK, PlannedInv
  <2>2. CASE RunEnds(c) \/ SetPointer(c) \/ ClearPointer(c)
    BY <2>2, IdlePlanned, <1>a DEF RunEnds, SetPointer, ClearPointer
  <2>3. CASE ReadPointer(c)
    <3>1. CASE current = None
      BY <2>3, <3>1, GoOnPlanned, FilesAssumption DEF ReadPointer, File
    <3>2. CASE current # None
      <4>1. [op[c] EXCEPT !.pc = "session", !.sid = current].pc = "session"
        BY <2>1 DEF OpOK, Operation
      <4>2. QED
        BY <2>3, <3>2, <4>1, QuietPlanned, <1>a DEF ReadPointer
    <3>3. QED
      BY <3>1, <3>2
  <2>4. CASE ReadSession(c)
    <3>1. op[c].sid \in Sessions /\ store[op[c].sid] \in File
      BY <2>4 DEF ReadSession, TypeOK
    <3>2. QED
      BY <2>4, <3>1, GoOnPlanned DEF ReadSession, PlannedInv
  <2>5. CASE OpenFile(c)
    <3> DEFINE next == [op[c] EXCEPT !.pc = "fill"]
    <3>1. next.pc = "fill" /\ next.kind = op[c].kind /\ next.doc = op[c].doc
          /\ next.sid = op[c].sid /\ op[c].pc = "open" /\ Become(c, next)
      BY <2>1, <2>5 DEF OpenFile, OpOK, Operation
    <3> HIDE DEF next
    <3>2. Planned(next, approved)
      BY <2>1, <3>1 DEF Planned
    <3>3. \A s \in Sessions : store'[s] \in Session /\ store'[s].planApproved => s \in approved
      BY <2>5, FilesAssumption DEF OpenFile, PlannedInv, TypeOK
    <3>4. QED
      BY <2>5, <3>1, <3>2, <3>3, PlannedStep DEF OpenFile
  <2>6. CASE FillFile(c)
    <3>1. op[c].sid \in Sessions /\ op[c].doc \in Session /\ op[c].pc = "fill"
          /\ Become(c, AfterWrite(op[c]))
      BY <2>1, <2>6 DEF FillFile, OpOK
    <3>2. approved \subseteq approved' /\ (op[c].doc.planApproved => op[c].sid \in approved')
      BY <2>1, <2>6, <3>1 DEF FillFile, Planned
    <3>3. \A s \in Sessions : store'[s] \in Session /\ store'[s].planApproved => s \in approved'
      BY <2>6, <3>1, <3>2, FilesAssumption DEF FillFile, PlannedInv, TypeOK
    <3>4. AfterWrite(op[c]).pc \in {"idle", "create", "blank", "clear"}
      BY <2>1 DEF AfterWrite, OpOK, Operation, Idle
    <3>5. QED
      BY <3>1, <3>2, <3>3, <3>4, QuietPlanned, PlannedStep
  <2>7. ASSUME NEW s \in Sessions, CreateSession(c, s)
        PROVE  PlannedInv'
    <3> DEFINE doc  == [state |-> "planning", planApproved |-> FALSE]
               next == [op[c] EXCEPT !.pc = "open", !.sid = s, !.doc = doc]
    <3>1. next.pc = "open" /\ next.doc.planApproved = FALSE /\ Become(c, next)
      BY <2>1, <2>7 DEF CreateSession, OpOK, Operation
    <3> HIDE DEF next
    <3>2. QED
      BY <2>7, <3>1, <1>a DEF CreateSession, Planned
  <2>8. CASE BlankPointer(c)
    <3>1. [op[c] EXCEPT !.pc = "point"].pc = "point"
      BY <2>1 DEF OpOK, Operation
    <3>2. QED
      BY <2>8, <3>1, QuietPlanned, <1>a DEF BlankPointer
  <2>9. QED
    BY <1>2, <2>2, <2>3, <2>4, <2>5, <2>6, <2>7, <2>8 DEF Continue
<1>3. ASSUME NEW c \in Clients, Crash(c)
      PROVE  PlannedInv'
  BY <1>3, IdlePlanned, <1>a DEF Crash
<1>4. ASSUME NEW p \in Plugins, TogglePlugin(p)
      PROVE  PlannedInv'
  BY <1>4 DEF TogglePlugin, PlannedInv
<1>5. CASE UNCHANGED vars
  BY <1>5 DEF vars, PlannedInv
<1>6. QED
  BY <1>1, <1>2, <1>3, <1>4, <1>5 DEF Next

\* A strict execute that could read its session runs in a session it saw in
\* state implementing, whose plan somebody approved, whatever starts, advances,
\* approvals, abandons, crashes and half-written files it raced with.
THEOREM StrictExecutesArePlanned == Spec => []StrictExecuteIsPlanned
<1>1. Init => PlannedInv
  BY IdlePlanned, FilesAssumption DEF Init, PlannedInv
<1>2. TypeOK /\ PlannedInv => StrictExecuteIsPlanned
  <2> SUFFICES ASSUME TypeOK, PlannedInv, NEW c \in Clients,
                      Running(c, "strict", "execute"), op[c].doc # Torn
               PROVE  /\ op[c].doc # None
                      /\ op[c].doc.state = "implementing"
                      /\ op[c].sid \in approved
    BY DEF StrictExecuteIsPlanned
  <2>1. op[c].doc \in File /\ Planned(op[c], approved)
    BY DEF TypeOK, Operation, PlannedInv
  <2>2. QED
    BY <2>1 DEF Planned, Running, File
<1>3. QED
  BY <1>1, <1>2, SessionTypeCorrect, PlannedInvariance, PTL DEF Spec

-----------------------------------------------------------------------------
(* OpenIsCurrent speaks of moments between operations; in the middle of one  *)
(* the open session and the pointer differ, in a way that its next steps     *)
(* mend.  While calm, at most one operation is under way, and what it has    *)
(* still to write makes up for what the files do not yet agree on.           *)

OpenIn(st, s) == st[s] \in Session /\ st[s].state \notin Closed

Settled(st, cur) == \A s \in Sessions : OpenIn(st, s) <=> cur = s

\* What the files look like at each step of the one operation r under way.
Midway(r, st, cur) ==
  /\ r.pc = "pointer" => Settled(st, cur)
  /\ r.pc = "session" => Settled(st, cur) /\ cur = r.sid
  /\ r.pc \in {"open", "fill"} =>
       /\ \A s \in Sessions \ {r.sid} : ~ OpenIn(st, s)
       /\ \/ /\ cur = r.sid
             /\ r.kind \in {"start", "advance", "approve", "abandon"}
             /\ r.kind \in {"start", "abandon"} => r.doc.state = "abandoned"
             /\ r.kind = "approve" => r.doc.state = "planning"
          \/ r.kind = "start" /\ r.doc.state = "planning"
  /\ r.pc = "fill" => st[r.sid] = Torn
  /\ r.pc = "create" => r.kind = "start" /\ \A s \in Sessions : ~ OpenIn(st, s)
  /\ r.pc = "clear" => \A s \in Sessions : ~ OpenIn(st, s)
  /\ r.pc \in {"blank", "point"} => \A s \in Sessions : OpenIn(st, s) <=> s = r.sid

AtRest(r) == r.pc \in {"idle", "running"}

CalmInv ==
  calm =>
    /\ \A c, d \in Clients : ~ AtRest(op[c]) /\ ~ AtRest(op[d]) => c = d
    /\ (\A c \in Clients : AtRest(op[c])) => Settled(store, current)
    /\ \A c \in Clients : ~ AtRest(op[c]) => Midway(op[c], store, current)

\* The only operation under way takes a step.
LEMMA OwnStep ==
  ASSUME TypeOK, NEW c \in Clients, \A d \in Clients \ {c} : AtRest(op[d]),
         NEW next, Become(c, next),
         AtRest(next) => Settled(store', current'),
         ~ AtRest(next) => Midway(next, store', current')
  PROVE  CalmInv'
<1>1. op'[c] = next /\ \A d \in Clients \ {c} : op'[d] = op[d]
  BY DEF Become, TypeOK
<1>2. QED
  BY <1>1 DEF CalmInv

\* An operation goes on with the session that is open, or with none.
LEMMA GoOnCalm ==
  ASSUME TypeOK, NEW c \in Clients, \A d \in Clients \ {c} : AtRest(op[d]),
         op[c].pc \in {"pointer", "session"}, Settled(store, current), NEW s,
         \/ s = None /\ current = None
         \/ current \in Sessions /\ op[c].sid = current /\ s = store[current],
         GoOn(c, op[c], s), UNCHANGED <<store, current>>
  PROVE  CalmInv'
<1> DEFINE r == op[c]
<1>1. r \in Operation
  BY DEF TypeOK
<1>2. s # None => s \in Session /\ s.state \notin Closed /\ current = r.sid /\ r.sid \in Sessions
  BY DEF Settled, OpenIn
<1>3. s # Torn
  BY <1>2, SessionAssumption, FilesAssumption
<1>4. CASE r.kind = "run" /\ Gate(r.freedom, r.mode, r.multiFile, s)
  <2> DEFINE next == [r EXCEPT !.pc = "running", !.doc = s]
  <2>1. Become(c, next) /\ AtRest(next)
    BY <1>1, <1>4 DEF GoOn, Pass, AtRest, Operation
  <2> HIDE DEF next
  <2>2. QED
    BY <2>1, OwnStep
<1>5. CASE ~ (r.kind = "run" /\ Gate(r.freedom, r.mode, r.multiFile, s))
  <2>1. Become(c, NextOf(r, s))
    BY <1>3, <1>5 DEF GoOn
  <2>2. ASSUME NEW t \in Session, s # None,
               r.kind \in {"start", "advance", "approve", "abandon"},
               r.kind \in {"start", "abandon"} => t.state = "abandoned",
               r.kind = "approve" => t.state = "planning"
        PROVE  ~ AtRest(Write(r, t)) /\ Midway(Write(r, t), store, current)
    <3>1. /\ Write(r, t).pc = "open" /\ Write(r, t).doc = t
          /\ Write(r, t).kind = r.kind /\ Write(r, t).sid = r.sid
      BY <1>1 DEF Write, Operation
    <3> HIDE DEF r
    <3>2. QED
      BY <1>2, <2>2, <3>1 DEF Midway, Settled, AtRest
  <2>3. s # None => \A st \in States : [s EXCEPT !.state = st] \in Session
                                     /\ [s EXCEPT !.state = st].state = st
    BY <1>2 DEF Session
  <2>4. s # None => /\ [s EXCEPT !.planApproved = TRUE] \in Session
                    /\ [s EXCEPT !.planApproved = TRUE].state = s.state
    BY <1>2 DEF Session
  <2>5. s = None => /\ ~ AtRest([r EXCEPT !.pc = "create", !.sid = None])
                    /\ r.kind = "start" =>
                         Midway([r EXCEPT !.pc = "create", !.sid = None], store, current)
    <3>1. /\ [r EXCEPT !.pc = "create", !.sid = None].pc = "create"
          /\ [r EXCEPT !.pc = "create", !.sid = None].kind = r.kind
      BY <1>1 DEF Operation
    <3>2. s = None => current = None
      BY <1>2, FilesAssumption DEF Settled, OpenIn
    <3> HIDE DEF r
    <3>3. QED
      BY <3>1, <3>2, SessionAssumption DEF Midway, Settled, AtRest
  <2>6. r.to \in States /\ "abandoned" \in States
    BY <1>1 DEF Operation, States
  <2>7. AtRest(Idle)
    BY DEF AtRest, Idle
  <2> HIDE DEF r
  <2>8. \/ AtRest(NextOf(r, s))
        \/ ~ AtRest(NextOf(r, s)) /\ Midway(NextOf(r, s), store, current)
    <3>1. CASE r.kind = "start"
      <4>1. CASE s # None
        <5> DEFINE t == [s EXCEPT !.state = "abandoned"]
        <5>1. NextOf(r, s) = Write(r, t) /\ t \in Session /\ t.state = "abandoned"
          BY <1>2, <2>3, <2>6, <3>1, <4>1 DEF NextOf
        <5> HIDE DEF t
        <5>2. QED
          BY <2>2, <3>1, <4>1, <5>1
      <4>2. CASE s = None
        BY <2>5, <3>1, <4>2 DEF NextOf
      <4>3. QED
        BY <4>1, <4>2
    <3>2. CASE r.kind = "advance" /\ s # None
      <4> DEFINE t == [s EXCEPT !.state = r.to]
      <4>1. NextOf(r, s) = Write(r, t) /\ t \in Session
        BY <2>3, <2>6, <3>2 DEF NextOf
      <4> HIDE DEF t
      <4>2. QED
        BY <2>2, <3>2, <4>1
    <3>3. CASE r.kind = "approve" /\ s # None /\ s.state = "planning"
      <4> DEFINE t == [s EXCEPT !.planApproved = TRUE]
      <4>1. NextOf(r, s) = Write(r, t) /\ t \in Session /\ t.state = "planning"
        BY <2>4, <3>3 DEF NextOf
      <4> HIDE DEF t
      <4>2. QED
        BY <2>2, <3>3, <4>1
    <3>4. CASE r.kind = "abandon" /\ s # None
      <4> DEFINE t == [s EXCEPT !.state = "abandoned"]
      <4>1. NextOf(r, s) = Write(r, t) /\ t \in Session /\ t.state = "abandoned"
        BY <2>3, <2>6, <3>4 DEF NextOf
      <4> HIDE DEF t
      <4>2. QED
        BY <2>2, <3>4, <4>1
    <3>5. CASE /\ r.kind # "start" /\ ~ (r.kind = "advance" /\ s # None)
               /\ ~ (r.kind = "approve" /\ s # None /\ s.state = "planning")
               /\ ~ (r.kind = "abandon" /\ s # None)
      <4>1. NextOf(r, s) = Idle
        BY <3>5 DEF NextOf
      <4>2. QED
        BY <2>7, <4>1
    <3>6. QED
      BY <3>1, <3>2, <3>3, <3>4, <3>5
  <2>9. QED
    BY <2>1, <2>8, OwnStep
<1>6. QED
  BY <1>4, <1>5

\* Every step of an operation, of a run and of the environment.
LEMMA CalmInvariance ==
  ASSUME TypeOK, CalmInv, [Next]_vars
  PROVE  CalmInv'
<1>0. AtRest(Idle)
  BY DEF AtRest, Idle
<1> SUFFICES ASSUME calm'
             PROVE  CalmInv'
  BY DEF CalmInv
\* A step between two states of rest, with the files as they are.
<1>a. ASSUME calm, NEW c \in Clients, AtRest(op[c]), NEW next, AtRest(next), Become(c, next),
             UNCHANGED <<store, current>>
      PROVE  CalmInv'
  <2>1. op'[c] = next /\ \A d \in Clients \ {c} : op'[d] = op[d]
    BY <1>a DEF Become, TypeOK
  <2>2. \A d \in Clients : AtRest(op'[d]) <=> AtRest(op[d])
    BY <1>a, <2>1
  <2>3. \A d \in Clients : ~ AtRest(op[d]) => op'[d] = op[d]
    BY <1>a, <2>1
  <2>4. QED
    BY <1>a, <2>2, <2>3 DEF CalmInv
\* An operation begins when all are at rest.
<1>b. ASSUME calm, \A d \in Clients : AtRest(op[d]), NEW c \in Clients, NEW next,
             next.pc = "pointer", Become(c, next), UNCHANGED <<store, current>>
      PROVE  CalmInv'
  <2>1. Settled(store, current)
    BY <1>a, <1>b DEF CalmInv
  <2>2. QED
    BY <1>b, <2>1, OwnStep DEF Midway, AtRest
<1>1. ASSUME NEW c \in Clients, Begin(c), calm' = (calm /\ \A d \in Clients : Quiet(d))
      PROVE  CalmInv'
  <2>1. calm /\ (\A d \in Clients : AtRest(op[d])) /\ UNCHANGED <<store, current>>
    BY <1>1 DEF Begin, StartSession, AdvanceSession, ApprovePlan, AbandonSession, RunRoute,
                TypeOK, Quiet, AtRest
  <2>2. \E next : Become(c, next) /\ (next.pc = "pointer" \/ AtRest(next))
    <3>1. CASE StartSession(c) \/ ApprovePlan(c) \/ AbandonSession(c)
      <4> DEFINE next(kind) == [Idle EXCEPT !.kind = kind, !.pc = "pointer"]
      <4>1. \A kind : next(kind).pc = "pointer"
        BY DEF Idle
      <4>2. Become(c, next("start")) \/ Become(c, next("approve")) \/ Become(c, next("abandon"))
        BY <3>1 DEF StartSession, ApprovePlan, AbandonSession
      <4> HIDE DEF next
      <4>3. QED
        BY <4>1, <4>2
    <3>2. ASSUME NEW to \in Targets, AdvanceSession(c, to)
          PROVE  \E next : Become(c, next) /\ next.pc = "pointer"
      <4> DEFINE next == [Idle EXCEPT !.kind = "advance", !.pc = "pointer", !.to = to]
      <4>1. Become(c, next) /\ next.pc = "pointer"
        BY <3>2 DEF AdvanceSession, Idle
      <4> HIDE DEF next
      <4>2. QED
        BY <4>1
    <3>3. ASSUME NEW req \in Requests, RunRoute(c, req.mode, req.multiFile)
          PROVE  \E next : Become(c, next) /\ (next.pc = "pointer" \/ AtRest(next))
      <4> DEFINE ran  == [Idle EXCEPT !.kind = "run", !.pc = "pointer", !.mode = req.mode,
                            !.multiFile = req.multiFile, !.freedom = EffectiveFreedom(active)]
                 next == [ran EXCEPT !.pc = "running", !.doc = None]
      <4>1. ran.pc = "pointer" /\ AtRest(next)
        BY DEF Idle, AtRest
      <4>2. Become(c, ran) \/ Become(c, next)
        BY <3>3 DEF RunRoute, Pass
      <4> HIDE DEF ran, next
      <4>3. QED
        BY <4>1, <4>2
    <3>4. QED
      BY <1>1, <3>1, <3>2, <3>3 DEF Begin
  <2>3. QED
    BY <2>1, <2>2, <1>a, <1>b
<1>2. ASSUME NEW c \in Clients, Crash(c), calm' = (calm /\ Quiet(c))
      PROVE  CalmInv'
  <2>1. calm /\ AtRest(op[c])
    BY <1>2 DEF TypeOK, Quiet, AtRest
  <2>2. QED
    BY <1>0, <1>2, <2>1, <1>a DEF Crash
<1>3. ASSUME NEW c \in Clients, RunEnds(c), UNCHANGED calm
      PROVE  CalmInv'
  BY <1>0, <1>3, <1>a DEF RunEnds, AtRest
\* The steps of c in the middle of its operation: it is the only one.
<1>c. ASSUME calm, NEW c \in Clients, ~ AtRest(op[c])
      PROVE  /\ \A d \in Clients \ {c} : AtRest(op[d])
             /\ Midway(op[c], store, current)
             /\ op[c] \in Operation
  BY <1>c DEF CalmInv, TypeOK
<1>4. ASSUME NEW c \in Clients, ReadPointer(c), UNCHANGED calm
      PROVE  CalmInv'
  <2>1. /\ \A d \in Clients \ {c} : AtRest(op[d])
        /\ Settled(store, current) /\ op[c] \in Operation
    BY <1>4, <1>c DEF ReadPointer, AtRest, Midway
  <2>2. CASE current = None
    BY <1>4, <2>1, <2>2, GoOnCalm DEF ReadPointer
  <2>3. CASE current # None
    <3> DEFINE next == [op[c] EXCEPT !.pc = "session", !.sid = current]
    <3>1. next.pc = "session" /\ next.sid = current
      BY <2>1 DEF Operation
    <3>2. Become(c, next) /\ UNCHANGED <<store, current>>
      BY <1>4, <2>3 DEF ReadPointer
    <3> HIDE DEF next
    <3>3. QED
      BY <2>1, <3>1, <3>2, OwnStep DEF Midway, AtRest
  <2>4. QED
    BY <2>2, <2>3
<1>5. ASSUME NEW c \in Clients, ReadSession(c), UNCHANGED calm
      PROVE  CalmInv'
  <2>1. /\ \A d \in Clients \ {c} : AtRest(op[d])
        /\ Settled(store, current) /\ current = op[c].sid
    BY <1>5, <1>c DEF ReadSession, AtRest, Midway
  <2>2. op[c].sid \in Sessions
    BY <1>5 DEF ReadSession, TypeOK
  <2>3. QED
    BY <1>5, <2>1, <2>2, GoOnCalm DEF ReadSession
<1>6. ASSUME NEW c \in Clients, OpenFile(c), UNCHANGED calm
      PROVE  CalmInv'
  <2> DEFINE next == [op[c] EXCEPT !.pc = "fill"]
  <2>1. /\ \A d \in Clients \ {c} : AtRest(op[d])
        /\ Midway(op[c], store, current) /\ op[c] \in Operation /\ op[c].sid \in Sessions
    BY <1>6, <1>c DEF OpenFile, AtRest, TypeOK
  <2>2. /\ next.pc = "fill" /\ next.sid = op[c].sid /\ next.doc = op[c].doc
        /\ next.kind = op[c].kind /\ op[c].pc = "open"
    BY <1>6, <2>1 DEF OpenFile, Operation
  <2>3. Become(c, next) /\ store' = [store EXCEPT ![op[c].sid] = Torn] /\ current' = current
    BY <1>6 DEF OpenFile
  <2> HIDE DEF next
  <2>4. store'[op[c].sid] = Torn /\ \A s \in Sessions \ {op[c].sid} : store'[s] = store[s]
    BY <2>1, <2>3 DEF TypeOK
  <2>5. ~ AtRest(next) /\ Midway(next, store', current')
    BY <2>1, <2>2, <2>3, <2>4 DEF AtRest, Midway, OpenIn
  <2>6. QED
    BY <2>1, <2>3, <2>5, OwnStep
<1>7. ASSUME NEW c \in Clients, FillFile(c), UNCHANGED calm
      PROVE  CalmInv'
  <2> DEFINE r == op[c]
  <2>1. /\ \A d \in Clients \ {c} : AtRest(op[d])
        /\ Midway(r, store, current) /\ r \in Operation /\ r.sid \in Sessions
        /\ r.doc \in Session /\ r.pc = "fill" /\ store[r.sid] = Torn
    BY <1>7, <1>c DEF FillFile, AtRest, TypeOK, Midway
  <2>2. store' = [store EXCEPT ![r.sid] = r.doc] /\ Become(c, AfterWrite(r)) /\ current' = current
    BY <1>7, <2>1 DEF FillFile
  <2>3. store'[r.sid] = r.doc /\ \A s \in Sessions \ {r.sid} : store'[s] = store[s]
    BY <2>1, <2>2 DEF TypeOK
  <2>4. /\ [r EXCEPT !.pc = "create", !.sid = None].pc = "create"
        /\ [r EXCEPT !.pc = "create", !.sid = None].kind = r.kind
        /\ [r EXCEPT !.pc = "blank"].pc = "blank" /\ [r EXCEPT !.pc = "blank"].sid = r.sid
        /\ [r EXCEPT !.pc = "clear"].pc = "clear"
    BY <2>1 DEF Operation
  <2> HIDE DEF r
  <2>5. \A s \in Sessions : OpenIn(store', s) <=> s = r.sid /\ r.doc.state \notin Closed
    BY <2>1, <2>3 DEF Midway, OpenIn
  <2>6. CASE r.kind = "start" /\ r.doc.state = "abandoned"
    <3> DEFINE next == [r EXCEPT !.pc = "create", !.sid = None]
    <3>1. AfterWrite(r) = next
      BY <2>6 DEF AfterWrite
    <3>2. next.pc = "create" /\ next.kind = "start"
      BY <2>4, <2>6
    <3> HIDE DEF next
    <3>3. QED
      BY <2>1, <2>2, <2>5, <2>6, <3>1, <3>2, OwnStep DEF AtRest, Midway, Closed
  <2>7. CASE r.kind = "start" /\ r.doc.state # "abandoned"
    <3> DEFINE next == [r EXCEPT !.pc = "blank"]
    <3>1. AfterWrite(r) = next /\ r.doc.state = "planning"
      BY <2>1, <2>7 DEF AfterWrite, Midway
    <3>2. next.pc = "blank" /\ next.sid = r.sid
      BY <2>4
    <3> HIDE DEF next
    <3>3. QED
      BY <2>1, <2>2, <2>5, <3>1, <3>2, OwnStep DEF AtRest, Midway, Closed
  <2>8. CASE r.kind \in {"advance", "abandon"} /\ r.doc.state \in Closed
    <3> DEFINE next == [r EXCEPT !.pc = "clear"]
    <3>1. AfterWrite(r) = next
      BY <2>8 DEF AfterWrite
    <3>2. next.pc = "clear"
      BY <2>4
    <3> HIDE DEF next
    <3>3. QED
      BY <2>1, <2>2, <2>5, <2>8, <3>1, <3>2, OwnStep DEF AtRest, Midway
  <2>9. CASE r.kind # "start" /\ ~ (r.kind \in {"advance", "abandon"} /\ r.doc.state \in Closed)
    <3>1. AfterWrite(r) = Idle
      BY <2>9 DEF AfterWrite
    <3>2. current = r.sid /\ r.doc.state \notin Closed
      BY <2>1, <2>9 DEF Midway, Closed
    <3>3. Settled(store', current')
      BY <2>2, <2>5, <3>2 DEF Settled
    <3>4. QED
      BY <1>0, <2>1, <2>2, <3>1, <3>3, OwnStep
  <2>10. QED
    BY <2>6, <2>7, <2>8, <2>9
<1>8. ASSUME NEW c \in Clients, NEW s \in Sessions, CreateSession(c, s), UNCHANGED calm
      PROVE  CalmInv'
  <2> DEFINE doc  == [state |-> "planning", planApproved |-> FALSE]
             next == [op[c] EXCEPT !.pc = "open", !.sid = s, !.doc = doc]
  <2>1. /\ \A d \in Clients \ {c} : AtRest(op[d])
        /\ Midway(op[c], store, current) /\ op[c] \in Operation /\ op[c].pc = "create"
    BY <1>8, <1>c DEF CreateSession, AtRest
  <2>2. /\ next.pc = "open" /\ next.sid = s /\ next.doc.state = "planning"
        /\ next.kind = op[c].kind
    BY <2>1 DEF Operation
  <2>3. Become(c, next) /\ UNCHANGED <<store, current>>
    BY <1>8 DEF CreateSession
  <2> HIDE DEF next
  <2>4. ~ AtRest(next) /\ Midway(next, store', current')
    BY <2>1, <2>2, <2>3 DEF AtRest, Midway
  <2>5. QED
    BY <2>1, <2>3, <2>4, OwnStep
<1>9. ASSUME NEW c \in Clients, BlankPointer(c), UNCHANGED calm
      PROVE  CalmInv'
  <2> DEFINE next == [op[c] EXCEPT !.pc = "point"]
  <2>1. /\ \A d \in Clients \ {c} : AtRest(op[d])
        /\ Midway(op[c], store, current) /\ op[c] \in Operation /\ op[c].pc = "blank"
    BY <1>9, <1>c DEF BlankPointer, AtRest
  <2>2. next.pc = "point" /\ next.sid = op[c].sid
    BY <2>1 DEF Operation
  <2>3. Become(c, next) /\ store' = store
    BY <1>9 DEF BlankPointer
  <2> HIDE DEF next
  <2>4. ~ AtRest(next) /\ Midway(next, store', current')
    BY <2>1, <2>2, <2>3 DEF AtRest, Midway
  <2>5. QED
    BY <2>1, <2>3, <2>4, OwnStep
<1>10. ASSUME NEW c \in Clients, SetPointer(c) \/ ClearPointer(c), UNCHANGED calm
       PROVE  CalmInv'
  <2>1. /\ \A d \in Clients \ {c} : AtRest(op[d])
        /\ Midway(op[c], store, current)
    BY <1>10, <1>c DEF SetPointer, ClearPointer, AtRest
  <2>2. Settled(store', current')
    BY <1>10, <2>1, SessionAssumption DEF SetPointer, ClearPointer, Midway, Settled
  <2>3. Become(c, Idle)
    BY <1>10 DEF SetPointer, ClearPointer
  <2>4. QED
    BY <1>0, <2>1, <2>2, <2>3, OwnStep
<1>11. ASSUME UNCHANGED <<store, current, op, calm>>
       PROVE  CalmInv'
  BY <1>11 DEF CalmInv
<1>12. QED
  BY <1>1, <1>2, <1>3, <1>4, <1>5, <1>6, <1>7, <1>8, <1>9, <1>10, <1>11
  DEF Next, Continue, TogglePlugin, vars

\* As long as no operation met another one or a crash, the pointer names the
\* open session between operations and no other is open, for any sequence of
\* starts, advances, approvals and abandons.
THEOREM CalmPointerIsOpen == Spec => []OpenIsCurrent
<1>1. Init => CalmInv
  BY SessionAssumption, FilesAssumption DEF Init, CalmInv, AtRest, Idle, Settled, OpenIn
<1>2. TypeOK /\ CalmInv /\ [Next]_vars => CalmInv'
  BY CalmInvariance
<1>3. CalmInv => OpenIsCurrent
  BY DEF CalmInv, OpenIsCurrent, Quiet, AtRest, Settled, OpenIn, IsOpen
<1>4. QED
  BY <1>1, <1>2, <1>3, SessionTypeCorrect, PTL DEF Spec

-----------------------------------------------------------------------------
(* The comparisons of the page.                                             *)

\* A run of an artifact, or nothing.
OfRun == [art : 0 .. MaxArtifacts, run : 0 .. MaxCompares]
Kept  == [compare : 0 .. MaxCompares, verdict : 0 .. MaxCompares]
Cards == [selected : 0 .. MaxArtifacts, shown : 0 .. MaxArtifacts, button : {"gone", "on", "off"},
          building : BOOLEAN, result : OfRun, verdict : OfRun]
Comparisons ==
  [st : {"none", "failed", "done"} \cup Compare!Active, art : 0 .. MaxArtifacts, by : {"daemon", "cli"},
   whole : BOOLEAN]
Calls == [st : {"none", "modal", "stream"}, art : 0 .. MaxArtifacts, run : 0 .. MaxCompares]
Loading == [art : 1 .. MaxArtifacts, read : BOOLEAN, run : 0 .. MaxCompares]

CompareTypes ==
  /\ Compare!Built \subseteq Compare!Artifacts
  /\ artifacts \in [Compare!Built -> Kept]
  /\ compareRuns \in [Compare!Runs -> Comparisons]
  /\ running \subseteq Compare!Built
  /\ compareCard \in Cards
  /\ compareCall \in Calls
  /\ loads \subseteq Loading
  /\ saving \in OfRun

\* A run that is whole has answered both sides, and is not begun again.
WholeAtTheEnd ==
  \A r \in Compare!Runs : /\ compareRuns[r].st # "none" => compareRuns[r].art \in Compare!Built
                          /\ compareRuns[r].whole <=> compareRuns[r].st \in {"storing", "done"}

\* What is kept, shown, read or on its way of a comparison is of a whole run of
\* its artifact.
Trusted(a, r) == r = 0 \/ (r \in Compare!Runs /\ a \in Compare!Built /\ Compare!WholeRunOf(r, a))

AllTrusted ==
  /\ \A a \in Compare!Built : /\ Trusted(a, artifacts[a].compare)
                              /\ Trusted(a, artifacts[a].verdict)
                              /\ artifacts[a].verdict # 0 => artifacts[a].compare # 0
  /\ Trusted(compareCard.verdict.art, compareCard.verdict.run)
  /\ compareCard.verdict # Compare!Nothing => compareCard.verdict.art \in Compare!Built
  /\ Trusted(saving.art, saving.run)
  /\ saving # Compare!Nothing => saving.art \in Compare!Built
  /\ \A l \in loads : l.art \in Compare!Built /\ Trusted(l.art, l.run)

\* Who asks for a comparison asks for one of an artifact that is there.
AskedIsBuilt ==
  /\ compareCard.shown # 0 => compareCard.shown \in Compare!Built
  /\ compareCall.st # "none" => compareCall.art \in Compare!Built
  /\ compareCard.building => Compare!Built # Compare!Artifacts

\* The lock of an artifact is held exactly while the daemon compares it, once.
LockIsHeld ==
  \A a \in Compare!Built : /\ a \in running <=> Compare!OfDaemon(a) # {}
                           /\ \A r, q \in Compare!OfDaemon(a) : r = q

CompareInv == CompareTypes /\ WholeAtTheEnd /\ AllTrusted /\ AskedIsBuilt /\ LockIsHeld

\* Nothing that was whole is undone.
WholeStays ==
  /\ Compare!Built \subseteq Compare!Built'
  /\ \A q \in Compare!Runs :
       compareRuns[q].whole => compareRuns'[q].whole /\ compareRuns'[q].art = compareRuns[q].art

\* What a run is trusted to be after a step.
TrustedNext(a, r) ==
  \/ r = 0
  \/ r \in Compare!Runs /\ a \in Compare!Built' /\ compareRuns'[r].art = a /\ compareRuns'[r].whole

LEMMA TrustKept ==
  ASSUME WholeStays, NEW a, NEW r, Trusted(a, r)
  PROVE  TrustedNext(a, r)
BY DEF Trusted, TrustedNext, WholeStays, Compare!WholeRunOf

LEMMA AllTrustKept ==
  ASSUME \A b \in Compare!Built' : /\ TrustedNext(b, artifacts'[b].compare)
                                   /\ TrustedNext(b, artifacts'[b].verdict)
                                   /\ artifacts'[b].verdict # 0 => artifacts'[b].compare # 0,
         TrustedNext(compareCard'.verdict.art, compareCard'.verdict.run),
         compareCard'.verdict # Compare!Nothing => compareCard'.verdict.art \in Compare!Built',
         TrustedNext(saving'.art, saving'.run),
         saving' # Compare!Nothing => saving'.art \in Compare!Built',
         \A l \in loads' : l.art \in Compare!Built' /\ TrustedNext(l.art, l.run)
  PROVE  AllTrusted'
BY DEF AllTrusted, Trusted, TrustedNext, Compare!WholeRunOf, Compare!Nothing

\* A run that is not begun.
LEMMA FreshRun ==
  ASSUME Compare!CanRun
  PROVE  Compare!Fresh \in Compare!Runs /\ compareRuns[Compare!Fresh].st = "none"
BY DEF Compare!CanRun, Compare!Fresh

\* What the invariant says of the card's own state.
LEMMA CardFacts ==
  ASSUME CompareInv
  PROVE  /\ compareCard \in Cards /\ compareCall \in Calls /\ loads \subseteq Loading /\ saving \in OfRun
         /\ Compare!Built \subseteq Compare!Artifacts /\ Compare!Built \subseteq 0 .. MaxArtifacts
         /\ 0 \in 0 .. MaxArtifacts
         /\ 0 \in 0 .. MaxCompares
         /\ Compare!Nothing \in OfRun
         /\ (\A a : Trusted(a, 0))
         /\ Trusted(Compare!Nothing.art, Compare!Nothing.run)
         /\ compareCard.shown # 0 => compareCard.shown \in Compare!Built
         /\ compareCall.st # "none" => compareCall.art \in Compare!Built
         /\ compareCard.building => Compare!Built # Compare!Artifacts
         /\ Trusted(compareCard.verdict.art, compareCard.verdict.run)
         /\ compareCard.verdict # Compare!Nothing => compareCard.verdict.art \in Compare!Built
         /\ Trusted(saving.art, saving.run)
         /\ saving # Compare!Nothing => saving.art \in Compare!Built
         /\ \A l \in loads : l.art \in Compare!Built /\ Trusted(l.art, l.run)
BY PageAssumption
DEF CompareInv, CompareTypes, AllTrusted, AskedIsBuilt, Compare!Nothing, OfRun, Trusted,
   Compare!Artifacts

LEMMA CompareInit ==
  ASSUME Compare!Init
  PROVE  CompareInv
<1> USE PageAssumption DEF Compare!Init, Compare!Nothing
<1>1. Compare!Built = {}
  BY DEF Compare!Built
<1>2. CompareTypes
  BY <1>1
  DEF CompareTypes, Kept, Comparisons, Cards, Calls, Loading, OfRun, Compare!Blank, Compare!Idle,
      Compare!Built
<1>3. WholeAtTheEnd
  BY DEF WholeAtTheEnd
<1>4. AllTrusted
  BY <1>1 DEF AllTrusted, Trusted, Compare!Blank
<1>5. AskedIsBuilt
  BY DEF AskedIsBuilt, Compare!Blank, Compare!Idle
<1>6. LockIsHeld
  BY <1>1 DEF LockIsHeld
<1>7. QED
  BY <1>2, <1>3, <1>4, <1>5, <1>6 DEF CompareInv

\* What a run is, was it begun here, does not say: the lock only looks at the
\* daemon's.
LEMMA CliStays ==
  ASSUME CompareInv, NEW a \in Compare!Built, Compare!cliCompare(a)
  PROVE  CompareInv'
<1> DEFINE f == Compare!Fresh
<1>1. f \in Compare!Runs /\ compareRuns[f].st = "none"
  BY FreshRun DEF Compare!cliCompare
<1> HIDE DEF f
<1>2. /\ compareRuns' =
           [compareRuns EXCEPT ![f] = [st |-> "baseline", art |-> a, by |-> "cli", whole |-> FALSE]]
      /\ UNCHANGED <<artifacts, running, compareCard, compareCall, loads, saving>>
  BY DEF Compare!cliCompare, Compare!Begin, f
<1>3. ~ compareRuns[f].whole /\ Compare!Built' = Compare!Built /\ a \in 0 .. MaxArtifacts
  BY <1>1, <1>2, PageAssumption
  DEF CompareInv, CompareTypes, WholeAtTheEnd, Compare!Built, Compare!Artifacts
<1>4. WholeStays
  BY <1>1, <1>2, <1>3 DEF WholeStays, CompareInv, CompareTypes
<1>5. CompareTypes'
  BY <1>1, <1>2, <1>3 DEF CompareInv, CompareTypes, Comparisons, Compare!Active
<1>6. WholeAtTheEnd'
  BY <1>1, <1>2, <1>3 DEF CompareInv, CompareTypes, WholeAtTheEnd
<1>7. AllTrusted'
  BY <1>2, <1>3, <1>4, TrustKept, AllTrustKept DEF CompareInv, AllTrusted
<1>8. AskedIsBuilt'
  BY <1>2, <1>3 DEF CompareInv, AskedIsBuilt
<1>9. LockIsHeld'
  <2>1. ASSUME NEW b \in Compare!Built
        PROVE  Compare!OfDaemon(b)' = Compare!OfDaemon(b)
    BY <1>1, <1>2 DEF Compare!OfDaemon, CompareInv, CompareTypes, Compare!Active
  <2>2. QED
    BY <1>2, <1>3, <2>1 DEF CompareInv, LockIsHeld
<1>10. QED
  BY <1>5, <1>6, <1>7, <1>8, <1>9 DEF CompareInv

\* The end of a run gives back the lock, if it has one.
LEMMA EndedLock ==
  ASSUME CompareInv, NEW r \in Compare!Runs,
         compareRuns[r].st \in Compare!Active, NEW end \in {"failed", "done"},
         \A q \in Compare!Runs : /\ compareRuns'[q].st = IF q = r THEN end ELSE compareRuns[q].st
                                 /\ compareRuns'[q].art = compareRuns[q].art
                                 /\ compareRuns'[q].by = compareRuns[q].by,
         Compare!Built' = Compare!Built,
         running' = IF compareRuns[r].by = "daemon" THEN running \ {compareRuns[r].art} ELSE running
  PROVE  LockIsHeld'
<1>1. ASSUME NEW b \in Compare!Built
      PROVE  Compare!OfDaemon(b)' = Compare!OfDaemon(b) \ {r}
  BY DEF Compare!OfDaemon, Compare!Active
<1>2. ASSUME NEW b \in Compare!Built, r \notin Compare!OfDaemon(b)
      PROVE  /\ Compare!OfDaemon(b)' = Compare!OfDaemon(b)
             /\ b \in running' <=> b \in running
  <2>1. compareRuns[r].by = "daemon" => b # compareRuns[r].art
    BY <1>2 DEF Compare!OfDaemon
  <2>2. QED
    BY <1>1, <1>2, <2>1
<1>3. ASSUME NEW b \in Compare!Built, r \in Compare!OfDaemon(b)
      PROVE  Compare!OfDaemon(b)' = {} /\ b \notin running'
  <2>1. compareRuns[r].by = "daemon" /\ compareRuns[r].art = b
    BY <1>3 DEF Compare!OfDaemon
  <2>2. Compare!OfDaemon(b) = {r}
    BY <1>3 DEF CompareInv, LockIsHeld
  <2>3. QED
    BY <1>1, <2>1, <2>2
<1>4. QED
  BY <1>2, <1>3 DEF CompareInv, LockIsHeld

\* What the card says of an end is a run of its artifact, or none.
LEMMA EndedCard ==
  ASSUME CompareInv, NEW r \in Compare!Runs, NEW shown, Compare!Ended(r, shown),
         NEW a \in Compare!Built, shown = Compare!Failed(a) \/ shown = Compare!Result(compareCard, a, r)
  PROVE  /\ compareCall' \in Calls /\ compareCard' \in Cards
         /\ compareCard'.shown = compareCard.shown /\ compareCard'.building = compareCard.building
         /\ \/ compareCard'.verdict = compareCard.verdict
            \/ shown = Compare!Result(compareCard, a, r) /\ compareCard'.verdict = [art |-> a, run |-> r]
         /\ compareCall'.st # "none" => compareCall'.art = compareCall.art /\ compareCall.st # "none"
<1>1. /\ Compare!Idle \in Calls /\ Compare!Idle.st = "none" /\ a \in 0 .. MaxArtifacts
      /\ r \in 0 .. MaxCompares
  BY PageAssumption
  DEF Compare!Idle, Calls, CompareInv, CompareTypes, Compare!Artifacts, Compare!Runs
<1>2. compareCard \in Cards /\ compareCall \in Calls /\ a \in Compare!Artifacts
  BY DEF CompareInv, CompareTypes
<1>3. /\ Compare!Failed(a) \in Cards
      /\ Compare!Failed(a).shown = compareCard.shown
      /\ Compare!Failed(a).building = compareCard.building
      /\ Compare!Failed(a).verdict = compareCard.verdict
  BY <1>1, <1>2, PageAssumption DEF Compare!Failed, Cards, OfRun
<1>4. /\ Compare!Result(compareCard, a, r) \in Cards
      /\ Compare!Result(compareCard, a, r).shown = compareCard.shown
      /\ Compare!Result(compareCard, a, r).building = compareCard.building
      /\ Compare!Result(compareCard, a, r).verdict = [art |-> a, run |-> r]
  BY <1>1, <1>2, PageAssumption DEF Compare!Result, Cards, OfRun
<1>5. \/ compareCall' = Compare!Idle /\ compareCard' = shown
      \/ compareCall' = compareCall /\ compareCard' = compareCard
  BY DEF Compare!Ended
<1>6. QED
  BY <1>1, <1>2, <1>3, <1>4, <1>5

LEMMA SideStays ==
  ASSUME CompareInv, NEW r \in Compare!Runs, Compare!runOneSide(r)
  PROVE  CompareInv'
<1>1. /\ compareRuns[r].st \in {"baseline", "compressed"}
      /\ UNCHANGED <<artifacts, loads, saving>> /\ Compare!Built' = Compare!Built
      /\ compareRuns[r].art \in Compare!Built
      /\ compareRuns \in [Compare!Runs -> Comparisons]
  BY DEF Compare!runOneSide, CompareInv, CompareTypes, WholeAtTheEnd, Compare!Built
<1>2. ~ compareRuns[r].whole
  BY <1>1 DEF CompareInv, WholeAtTheEnd
<1>3. CASE compareRuns[r].st = "baseline" /\ compareRuns' = [compareRuns EXCEPT ![r].st = "compressed"]
           /\ UNCHANGED <<running, compareCard, compareCall>>
  <2>1. WholeStays
    BY <1>1, <1>3 DEF WholeStays
  <2>2. CompareTypes'
    BY <1>1, <1>3 DEF CompareInv, CompareTypes, Comparisons, Compare!Active
  <2>3. WholeAtTheEnd'
    BY <1>1, <1>2, <1>3 DEF CompareInv, WholeAtTheEnd, Comparisons
  <2>4. AllTrusted'
    BY <1>1, <1>3, <2>1, TrustKept, AllTrustKept DEF CompareInv, AllTrusted
  <2>5. AskedIsBuilt'
    BY <1>1, <1>3 DEF CompareInv, AskedIsBuilt
  <2>6. \A b \in Compare!Built : Compare!OfDaemon(b)' = Compare!OfDaemon(b)
    BY <1>1, <1>3 DEF Compare!OfDaemon, Compare!Active, Comparisons
  <2>7. LockIsHeld'
    BY <1>1, <1>3, <2>6 DEF CompareInv, LockIsHeld
  <2>8. QED
    BY <2>2, <2>3, <2>4, <2>5, <2>7 DEF CompareInv
<1>4. CASE /\ compareRuns[r].st = "compressed"
           /\ compareRuns' = [compareRuns EXCEPT ![r].st = "storing", ![r].whole = TRUE]
           /\ UNCHANGED <<running, compareCard, compareCall>>
  <2>1. WholeStays
    BY <1>1, <1>4 DEF WholeStays, Comparisons
  <2>2. CompareTypes'
    BY <1>1, <1>4 DEF CompareInv, CompareTypes, Comparisons, Compare!Active
  <2>3. WholeAtTheEnd'
    BY <1>1, <1>2, <1>4 DEF CompareInv, WholeAtTheEnd, Comparisons
  <2>4. AllTrusted'
    BY <1>1, <1>4, <2>1, TrustKept, AllTrustKept DEF CompareInv, AllTrusted
  <2>5. AskedIsBuilt'
    BY <1>1, <1>4 DEF CompareInv, AskedIsBuilt
  <2>6. \A b \in Compare!Built : Compare!OfDaemon(b)' = Compare!OfDaemon(b)
    BY <1>1, <1>4 DEF Compare!OfDaemon, Compare!Active, Comparisons
  <2>7. LockIsHeld'
    BY <1>1, <1>4, <2>6 DEF CompareInv, LockIsHeld
  <2>8. QED
    BY <2>2, <2>3, <2>4, <2>5, <2>7 DEF CompareInv
<1>5. CASE compareRuns' = [compareRuns EXCEPT ![r].st = "failed"]
           /\ Compare!Ended(r, Compare!Failed(compareRuns[r].art))
  <2>1. /\ compareCall' \in Calls /\ compareCard' \in Cards
        /\ compareCard'.shown = compareCard.shown /\ compareCard'.building = compareCard.building
        /\ compareCard'.verdict = compareCard.verdict
        /\ compareCall'.st # "none" => compareCall'.art = compareCall.art /\ compareCall.st # "none"
    <3>1. DEFINE a == compareRuns[r].art
    <3>2. Compare!Ended(r, Compare!Failed(a)) /\ a \in Compare!Built
      BY <1>1, <1>5
    <3> HIDE DEF a
    <3>3. /\ compareCall' \in Calls /\ compareCard' \in Cards
          /\ compareCard'.shown = compareCard.shown /\ compareCard'.building = compareCard.building
          /\ compareCard'.verdict = compareCard.verdict \/ Compare!Failed(a) = Compare!Result(compareCard, a, r)
          /\ compareCall'.st # "none" => compareCall'.art = compareCall.art /\ compareCall.st # "none"
      BY <3>2, EndedCard
    <3>4. Compare!Failed(a) # Compare!Result(compareCard, a, r)
      <4>1. /\ Compare!Failed(a).result.run = 0 /\ Compare!Result(compareCard, a, r).result.run = r
            /\ r # 0
        BY PageAssumption
        DEF Compare!Failed, Compare!Result, Compare!Runs, Cards, CompareInv, CompareTypes
      <4>2. QED
        BY <4>1
    <3>5. QED
      BY <3>3, <3>4
  <2>2. running' = IF compareRuns[r].by = "daemon" THEN running \ {compareRuns[r].art} ELSE running
    BY <1>5 DEF Compare!Ended
  <2>3. WholeStays
    BY <1>1, <1>5 DEF WholeStays, Comparisons
  <2>4. compareRuns' \in [Compare!Runs -> Comparisons]
    BY <1>1, <1>5 DEF Comparisons
  <2>5. CompareTypes'
    BY <1>1, <2>1, <2>2, <2>4 DEF CompareInv, CompareTypes
  <2>6. WholeAtTheEnd'
    BY <1>1, <1>2, <1>5 DEF CompareInv, WholeAtTheEnd, Comparisons
  <2>7. AllTrusted'
    BY <1>1, <2>1, <2>3, TrustKept, AllTrustKept DEF CompareInv, AllTrusted, Compare!Nothing
  <2>8. AskedIsBuilt'
    BY <1>1, <2>1 DEF CompareInv, AskedIsBuilt
  <2>9. \A q \in Compare!Runs : /\ compareRuns'[q].st = IF q = r THEN "failed" ELSE compareRuns[q].st
                                /\ compareRuns'[q].art = compareRuns[q].art
                                /\ compareRuns'[q].by = compareRuns[q].by
    BY <1>1, <1>5 DEF Comparisons
  <2>10. LockIsHeld'
    BY <1>1, <2>2, <2>9, EndedLock DEF Compare!Active
  <2>11. QED
    BY <2>5, <2>6, <2>7, <2>8, <2>10 DEF CompareInv
<1>6. QED
  BY <1>1, <1>3, <1>4, <1>5 DEF Compare!runOneSide, Comparisons

LEMMA StoreStays ==
  ASSUME CompareInv, NEW r \in Compare!Runs, Compare!mutateArtifact(r)
  PROVE  CompareInv'
<1> PICK a : a = compareRuns[r].art
  OBVIOUS
<1>1. /\ compareRuns[r].st = "storing" /\ a \in Compare!Built /\ compareRuns[r].whole
      /\ compareRuns \in [Compare!Runs -> Comparisons] /\ r \in 0 .. MaxCompares /\ r # 0
  BY PageAssumption
  DEF Compare!mutateArtifact, CompareInv, CompareTypes, WholeAtTheEnd, Compare!Runs
<1>2. /\ artifacts' = [artifacts EXCEPT ![a].compare = r]
      /\ compareRuns' = [compareRuns EXCEPT ![r].st = "done"]
      /\ UNCHANGED <<loads, saving>>
  BY DEF Compare!mutateArtifact
<1>3. Compare!Ended(r, Compare!Result(compareCard, a, r))
  BY DEF Compare!mutateArtifact
<1>4. /\ Compare!Built' = Compare!Built /\ artifacts' \in [Compare!Built -> Kept]
      /\ artifacts'[a].compare = r /\ artifacts'[a].verdict = artifacts[a].verdict
      /\ \A b \in Compare!Built : b # a => artifacts'[b] = artifacts[b]
  BY <1>1, <1>2 DEF CompareInv, CompareTypes, Compare!Built, Kept
<1>5. running' = IF compareRuns[r].by = "daemon" THEN running \ {a} ELSE running
  BY <1>3 DEF Compare!Ended
<1>6. \A q \in Compare!Runs : /\ compareRuns'[q].st = IF q = r THEN "done" ELSE compareRuns[q].st
                              /\ compareRuns'[q].art = compareRuns[q].art
                              /\ compareRuns'[q].by = compareRuns[q].by
                              /\ compareRuns'[q].whole = compareRuns[q].whole
  BY <1>1, <1>2 DEF Comparisons
<1>7. compareRuns' \in [Compare!Runs -> Comparisons]
  BY <1>1, <1>2 DEF Comparisons
<1>8. /\ compareCall' \in Calls /\ compareCard' \in Cards
      /\ compareCard'.shown = compareCard.shown /\ compareCard'.building = compareCard.building
      /\ compareCard'.verdict = compareCard.verdict \/ compareCard'.verdict = [art |-> a, run |-> r]
      /\ compareCall'.st # "none" => compareCall'.art = compareCall.art /\ compareCall.st # "none"
  BY <1>1, <1>3, EndedCard
<1>9. WholeStays
  BY <1>4, <1>6 DEF WholeStays
<1>10. TrustedNext(a, r)
  BY <1>1, <1>4, <1>6 DEF TrustedNext
<1>11. CompareTypes'
  BY <1>4, <1>5, <1>7, <1>8, <1>2 DEF CompareInv, CompareTypes
<1>12. WholeAtTheEnd'
  BY <1>1, <1>4, <1>6 DEF CompareInv, WholeAtTheEnd
<1>13. AllTrusted'
  <2>1. \A b \in Compare!Built : /\ TrustedNext(b, artifacts'[b].compare)
                                 /\ TrustedNext(b, artifacts'[b].verdict)
                                 /\ artifacts'[b].verdict # 0 => artifacts'[b].compare # 0
    BY <1>1, <1>4, <1>9, <1>10, TrustKept, AllTrustKept DEF CompareInv, AllTrusted
  <2>2. /\ TrustedNext(compareCard'.verdict.art, compareCard'.verdict.run)
        /\ compareCard'.verdict # Compare!Nothing => compareCard'.verdict.art \in Compare!Built
    BY <1>1, <1>8, <1>9, <1>10, TrustKept, AllTrustKept DEF CompareInv, AllTrusted
  <2>3. QED
    BY <1>2, <1>4, <1>9, <2>1, <2>2, TrustKept, AllTrustKept
    DEF CompareInv, AllTrusted, Compare!Nothing
<1>14. AskedIsBuilt'
  BY <1>4, <1>8 DEF CompareInv, AskedIsBuilt
<1>15. LockIsHeld'
  BY <1>1, <1>4, <1>5, <1>6, EndedLock DEF Compare!Active
<1>16. QED
  BY <1>11, <1>12, <1>13, <1>14, <1>15 DEF CompareInv

LEMMA WriteStays ==
  ASSUME CompareInv, Compare!writeArtifact
  PROVE  CompareInv'
<1> PICK a : a = CHOOSE b \in Compare!Artifacts : b \notin Compare!Built
  OBVIOUS
<1>1. a \in Compare!Artifacts /\ a \notin Compare!Built
  BY DEF Compare!writeArtifact, CompareInv, CompareTypes, AskedIsBuilt
<1>2. /\ artifacts' = [b \in Compare!Built \cup {a} |-> IF b = a THEN Compare!Unrun ELSE artifacts[b]]
      /\ compareCard' = Compare!Picker([compareCard EXCEPT !.building = FALSE, !.selected = a], a)
      /\ UNCHANGED <<compareRuns, running, compareCall, loads, saving>>
  BY DEF Compare!writeArtifact
<1>3. Compare!Built' = Compare!Built \cup {a}
  BY <1>2 DEF Compare!Built
<1>4. /\ compareCard' \in Cards /\ compareCard'.shown = a /\ compareCard'.verdict = Compare!Nothing
      /\ compareCard'.building = FALSE
  <2> DEFINE c == [compareCard EXCEPT !.building = FALSE, !.selected = a]
  <2>1. a \in 0 .. MaxArtifacts
    BY <1>1, CardFacts, PageAssumption DEF Compare!Artifacts
  <2>2. compareCard \in Cards /\ Compare!Nothing \in OfRun
    BY CardFacts
  <2>3. c \in Cards /\ c.building = FALSE
    BY <2>1, <2>2 DEF Cards
  <2>4. compareCard' = Compare!Picker(c, a)
    BY <1>2
  <2> HIDE DEF c
  <2>5. QED
    BY <2>1, <2>2, <2>3, <2>4 DEF Compare!Picker, Cards
<1>5. /\ Compare!Unrun \in Kept /\ Compare!Unrun.compare = 0 /\ Compare!Unrun.verdict = 0
      /\ Compare!Nothing.run = 0
  BY PageAssumption DEF Compare!Unrun, Kept, Compare!Nothing
<1>6. WholeStays
  BY <1>2, <1>3 DEF WholeStays
<1>7. CompareTypes'
  BY <1>1, <1>2, <1>3, <1>4, <1>5 DEF CompareInv, CompareTypes
<1>8. WholeAtTheEnd'
  BY <1>2, <1>3 DEF CompareInv, WholeAtTheEnd
<1>9. AllTrusted'
  <2>1. \A b \in Compare!Built' : /\ TrustedNext(b, artifacts'[b].compare)
                                  /\ TrustedNext(b, artifacts'[b].verdict)
                                  /\ artifacts'[b].verdict # 0 => artifacts'[b].compare # 0
    <3>1. ASSUME NEW b \in Compare!Built
          PROVE  artifacts'[b] = artifacts[b]
      BY <1>1, <1>2
    <3>2. artifacts'[a] = Compare!Unrun
      BY <1>2
    <3>3. \A b : TrustedNext(b, 0)
      BY DEF TrustedNext
    <3>4. QED
      BY <1>3, <1>5, <1>6, <3>1, <3>2, <3>3, TrustKept, AllTrustKept DEF CompareInv, AllTrusted
  <2>2. TrustedNext(compareCard'.verdict.art, compareCard'.verdict.run)
    BY <1>4, <1>5 DEF TrustedNext
  <2>3. QED
    BY <1>2, <1>3, <1>4, <1>6, <2>1, <2>2, TrustKept, AllTrustKept
    DEF CompareInv, AllTrusted, Compare!Nothing
<1>10. AskedIsBuilt'
  BY <1>2, <1>3, <1>4 DEF CompareInv, AskedIsBuilt
<1>11. LockIsHeld'
  <2>1. ASSUME NEW b \in Compare!Built'
        PROVE  Compare!OfDaemon(b)' = Compare!OfDaemon(b)
    BY <1>2 DEF Compare!OfDaemon
  <2>2. Compare!OfDaemon(a) = {} /\ a \notin running
    BY <1>1 DEF Compare!OfDaemon, Compare!Active, CompareInv, CompareTypes, WholeAtTheEnd
  <2>3. ASSUME NEW b \in Compare!Built
        PROVE  /\ b \in running' <=> Compare!OfDaemon(b)' # {}
               /\ \A r, q \in Compare!OfDaemon(b)' : r = q
    BY <1>2, <1>3, <2>1 DEF CompareInv, LockIsHeld
  <2>4. Compare!OfDaemon(a)' = {} /\ a \notin running'
    BY <1>2, <1>3, <2>1, <2>2
  <2>5. QED
    BY <1>3, <2>3, <2>4 DEF LockIsHeld
<1>12. QED
  BY <1>7, <1>8, <1>9, <1>10, <1>11 DEF CompareInv

\* What the card and its calls do leaves runs, artifacts and the lock alone.
LEMMA CardStays ==
  ASSUME CompareInv, UNCHANGED <<artifacts, compareRuns, running>>,
         compareCard' \in Cards, compareCall' \in Calls, loads' \subseteq Loading, saving' \in OfRun,
         compareCard'.shown # 0 => compareCard'.shown \in Compare!Built,
         compareCall'.st # "none" => compareCall'.art \in Compare!Built,
         compareCard'.building => Compare!Built # Compare!Artifacts,
         Trusted(compareCard'.verdict.art, compareCard'.verdict.run),
         compareCard'.verdict # Compare!Nothing => compareCard'.verdict.art \in Compare!Built,
         Trusted(saving'.art, saving'.run),
         saving' # Compare!Nothing => saving'.art \in Compare!Built,
         \A l \in loads' : l.art \in Compare!Built /\ Trusted(l.art, l.run)
  PROVE  CompareInv'
<1>1. Compare!Built' = Compare!Built
  BY DEF Compare!Built
<1>2. WholeStays
  BY <1>1 DEF WholeStays
<1>3. CompareTypes'
  BY <1>1 DEF CompareInv, CompareTypes
<1>4. WholeAtTheEnd'
  BY <1>1 DEF CompareInv, WholeAtTheEnd
<1>5. AllTrusted'
  BY <1>1, <1>2, TrustKept, AllTrustKept DEF CompareInv, AllTrusted, Compare!Nothing
<1>6. AskedIsBuilt'
  BY <1>1 DEF AskedIsBuilt
<1>7. \A b : Compare!OfDaemon(b)' = Compare!OfDaemon(b)
  BY DEF Compare!OfDaemon
<1>8. LockIsHeld'
  BY <1>1, <1>7 DEF CompareInv, LockIsHeld
<1>9. QED
  BY <1>3, <1>4, <1>5, <1>6, <1>8 DEF CompareInv

LEMMA BuildStays ==
  ASSUME CompareInv, Compare!c122Build
  PROVE  CompareInv'
<1>1. /\ compareCard' \in Cards /\ compareCard'.shown = compareCard.shown
      /\ compareCard'.verdict = compareCard.verdict
      /\ UNCHANGED <<artifacts, compareRuns, running, compareCall, loads, saving>>
      /\ Compare!Built # Compare!Artifacts
  BY CardFacts DEF Compare!c122Build, Cards
<1>2. QED
  BY <1>1, CardFacts, CardStays

LEMMA LoadStays ==
  ASSUME CompareInv, NEW a \in Compare!Built, Compare!c122LoadArtifact(a)
  PROVE  CompareInv'
<1> DEFINE l == [art |-> a, read |-> FALSE, run |-> 0]
<1>1. /\ compareCard' = [compareCard EXCEPT !.selected = a, !.shown = 0]
      /\ loads' = loads \cup {l}
      /\ UNCHANGED <<artifacts, compareRuns, running, compareCall, saving>>
  BY DEF Compare!c122LoadArtifact
<1>2. /\ compareCard' \in Cards /\ compareCard'.shown = 0
      /\ compareCard'.verdict = compareCard.verdict
      /\ compareCard'.building = compareCard.building
  BY <1>1, CardFacts DEF Cards
<1>3. l \in Loading /\ l.art = a /\ l.run = 0
  BY CardFacts DEF Loading, Compare!Artifacts
<1> HIDE DEF l
<1>4. QED
  BY <1>1, <1>2, <1>3, CardFacts, CardStays

LEMMA ReadStays ==
  ASSUME CompareInv, NEW l \in loads, Compare!readArtifact(l)
  PROVE  CompareInv'
<1> DEFINE m == [l EXCEPT !.read = TRUE, !.run = artifacts[l.art].compare]
<1>1. /\ loads' = (loads \ {l}) \cup {m}
      /\ UNCHANGED <<artifacts, compareRuns, running, compareCard, compareCall, saving>>
  BY DEF Compare!readArtifact
<1>2. /\ l \in Loading /\ l.art \in Compare!Built /\ artifacts[l.art] \in Kept
      /\ Trusted(l.art, artifacts[l.art].compare)
  BY CardFacts DEF CompareInv, CompareTypes, AllTrusted
<1>3. m \in Loading /\ m.art = l.art /\ m.run = artifacts[l.art].compare
  BY <1>2 DEF Loading, Kept
<1> HIDE DEF m
<1>4. QED
  BY <1>1, <1>2, <1>3, CardFacts, CardStays

LEMMA LoadedStays ==
  ASSUME CompareInv, NEW l \in loads, Compare!Loaded(l)
  PROVE  CompareInv'
<1>1. /\ loads' = loads \ {l}
      /\ compareCard' = Compare!c122RenderArtifact(compareCard, l.art, l.run)
      /\ UNCHANGED <<artifacts, compareRuns, running, compareCall, saving>>
  BY DEF Compare!Loaded
<1>2. l \in Loading /\ l.art \in Compare!Built /\ Trusted(l.art, l.run)
  BY CardFacts
<1>3. /\ compareCard' \in Cards /\ compareCard'.shown = l.art
      /\ compareCard'.building = compareCard.building
      /\ compareCard'.verdict = Compare!Nothing \/ compareCard'.verdict = [art |-> l.art, run |-> l.run]
  BY <1>1, <1>2, CardFacts
 
  DEF Compare!c122RenderArtifact, Compare!Picker, Compare!Result, Cards, OfRun, Loading,
      Compare!Nothing
<1>4. QED
  BY <1>1, <1>2, <1>3, CardFacts, CardStays

LEMMA StartStays ==
  ASSUME CompareInv, Compare!c122StartCompare
  PROVE  CompareInv'
<1>1. /\ compareCard' = [compareCard EXCEPT !.button = "off"] /\ compareCard.shown # 0
      /\ compareCall' = [st |-> "modal", art |-> compareCard.shown, run |-> 0]
      /\ UNCHANGED <<artifacts, compareRuns, running, loads, saving>>
  BY DEF Compare!c122StartCompare
<1>2. /\ compareCard' \in Cards /\ compareCard'.shown = compareCard.shown
      /\ compareCard'.verdict = compareCard.verdict
      /\ compareCard'.building = compareCard.building /\ compareCall' \in Calls
      /\ compareCall'.art = compareCard.shown
  BY <1>1, CardFacts DEF Cards, Calls
<1>3. QED
  BY <1>1, <1>2, CardFacts, CardStays

LEMMA CancelStays ==
  ASSUME CompareInv, Compare!ModalCancel \/ Compare!c122CancelCompare
  PROVE  CompareInv'
<1>1. /\ compareCall' = Compare!Idle
      /\ UNCHANGED <<artifacts, compareRuns, running, loads, saving>>
      /\ \/ compareCard' = compareCard
         \/ compareCard' = [compareCard EXCEPT !.button = IF @ = "off" THEN "on" ELSE @]
  BY DEF Compare!ModalCancel, Compare!c122CancelCompare
<1>2. /\ compareCard' \in Cards /\ compareCard'.shown = compareCard.shown
      /\ compareCard'.verdict = compareCard.verdict
      /\ compareCard'.building = compareCard.building
  BY <1>1, CardFacts DEF Cards
<1>3. Compare!Idle \in Calls /\ Compare!Idle.st = "none"
  BY CardFacts DEF Calls, Compare!Idle
<1>4. QED
  BY <1>1, <1>2, <1>3, CardFacts, CardStays

LEMMA SaveStays ==
  ASSUME CompareInv, Compare!c122SaveVerdict
  PROVE  CompareInv'
<1>1. /\ saving' = compareCard.verdict
      /\ UNCHANGED <<artifacts, compareRuns, running, compareCard, compareCall, loads>>
  BY DEF Compare!c122SaveVerdict
<1>2. compareCard.verdict \in OfRun
  BY CardFacts DEF Cards
<1>3. QED
  BY <1>1, <1>2, CardFacts, CardStays

\* The confirmed request: refused, or a run with the lock.
LEMMA RunStays ==
  ASSUME CompareInv, Compare!c122RunCompare
  PROVE  CompareInv'
<1> PICK f, a : f = Compare!Fresh /\ a = compareCall.art
  OBVIOUS
<1>1. f \in Compare!Runs /\ compareRuns[f].st = "none" /\ a \in Compare!Built
  BY FreshRun, CardFacts DEF Compare!c122RunCompare
<1>2. CASE a \in running
  <2>1. /\ compareCall' = Compare!Idle /\ compareCard' = Compare!Failed(a)
        /\ UNCHANGED <<compareRuns, running, artifacts, loads, saving>>
    BY <1>2 DEF Compare!c122RunCompare
  <2>2. /\ compareCard' \in Cards /\ compareCard'.shown = compareCard.shown
        /\ compareCard'.verdict = compareCard.verdict
        /\ compareCard'.building = compareCard.building
    BY <1>1, <2>1, CardFacts DEF Compare!Failed, Cards, OfRun
  <2>3. Compare!Idle \in Calls /\ Compare!Idle.st = "none"
    BY CardFacts DEF Calls, Compare!Idle
  <2>4. QED
    BY <2>1, <2>2, <2>3, CardFacts, CardStays
<1>3. CASE a \notin running
  <2>1. /\ compareCall' = [compareCall EXCEPT !.st = "stream", !.run = f]
        /\ running' = running \cup {a}
        /\ compareRuns' =
             [compareRuns EXCEPT ![f] = [st |-> "baseline", art |-> a, by |-> "daemon", whole |-> FALSE]]
        /\ compareCard' = [compareCard EXCEPT !.result = Compare!Nothing]
        /\ UNCHANGED <<artifacts, loads, saving>>
    BY <1>3 DEF Compare!c122RunCompare, Compare!Begin
  <2> DEFINE new == [st |-> "baseline", art |-> a, by |-> "daemon", whole |-> FALSE]
  <2>2. /\ compareCard' \in Cards /\ compareCard'.shown = compareCard.shown
        /\ compareCard'.verdict = compareCard.verdict
        /\ compareCard'.building = compareCard.building
    BY <2>1, CardFacts DEF Cards
  <2>3. compareCall' \in Calls /\ compareCall'.art = a
    <3>1. f \in 0 .. MaxCompares
      BY <1>1, PageAssumption DEF Compare!Runs
    <3>2. QED
      BY <1>1, <2>1, <3>1, CardFacts DEF Calls
  <2>4. /\ new \in Comparisons /\ new.art = a /\ new.st = "baseline" /\ new.by = "daemon"
        /\ new.whole = FALSE
    BY <1>1, CardFacts DEF Comparisons, Compare!Active
  <2>5. compareRuns' = [compareRuns EXCEPT ![f] = new]
    BY <2>1
  <2> HIDE DEF new
  <2>6. /\ compareRuns \in [Compare!Runs -> Comparisons]
        /\ compareRuns' \in [Compare!Runs -> Comparisons] /\ Compare!Built' = Compare!Built
        /\ ~ compareRuns[f].whole
        /\ compareRuns'[f] = new /\ \A q \in Compare!Runs : q # f => compareRuns'[q] = compareRuns[q]
    BY <1>1, <2>1, <2>4, <2>5 DEF CompareInv, CompareTypes, WholeAtTheEnd, Compare!Built
  <2>7. WholeStays
    BY <2>6 DEF WholeStays
  <2>8. CompareTypes'
    BY <1>1, <2>1, <2>2, <2>3, <2>6 DEF CompareInv, CompareTypes
  <2>9. WholeAtTheEnd'
    BY <1>1, <2>4, <2>6 DEF CompareInv, WholeAtTheEnd
  <2>10. AllTrusted'
    BY <2>1, <2>2, <2>6, <2>7, TrustKept, AllTrustKept DEF CompareInv, AllTrusted, Compare!Nothing
  <2>11. AskedIsBuilt'
    BY <1>1, <2>2, <2>3, <2>6 DEF CompareInv, AskedIsBuilt
  <2>12. Compare!OfDaemon(a) = {}
    BY <1>1, <1>3 DEF CompareInv, LockIsHeld
  <2>13. Compare!OfDaemon(a)' = {f}
    BY <1>1, <2>4, <2>6, <2>12 DEF Compare!OfDaemon, Compare!Active
  <2>14. ASSUME NEW b \in Compare!Built, b # a
         PROVE  Compare!OfDaemon(b)' = Compare!OfDaemon(b)
    BY <1>1, <2>4, <2>6, <2>14 DEF Compare!OfDaemon, Compare!Active
  <2>15. LockIsHeld'
    BY <1>1, <2>1, <2>6, <2>13, <2>14 DEF CompareInv, LockIsHeld
  <2>16. QED
    BY <2>8, <2>9, <2>10, <2>11, <2>15 DEF CompareInv
<1>4. QED
  BY <1>2, <1>3

LEMMA VerdictStays ==
  ASSUME CompareInv, Compare!writeVerdict
  PROVE  CompareInv'
<1> PICK a, v : a = saving.art /\ v = saving.run
  OBVIOUS
<1>1. /\ saving # Compare!Nothing /\ a \in Compare!Built /\ saving \in OfRun /\ Trusted(a, v)
  BY CardFacts DEF Compare!writeVerdict
<1>2. saving' = Compare!Nothing /\ UNCHANGED <<compareRuns, running, compareCall, loads>>
  BY DEF Compare!writeVerdict
<1>3. CASE artifacts[a].compare = 0
  <2>1. UNCHANGED <<artifacts, compareCard>>
    BY <1>3 DEF Compare!writeVerdict
  <2>2. QED
    BY <1>2, <2>1, CardFacts, CardStays
<1>4. CASE artifacts[a].compare # 0
  <2>1. /\ artifacts' = [artifacts EXCEPT ![a].verdict = v]
        /\ compareCard' = [compareCard EXCEPT !.verdict = saving]
    BY <1>4 DEF Compare!writeVerdict
  <2>2. /\ Compare!Built' = Compare!Built /\ artifacts' \in [Compare!Built -> Kept]
        /\ artifacts'[a].verdict = v /\ artifacts'[a].compare = artifacts[a].compare
        /\ \A b \in Compare!Built : b # a => artifacts'[b] = artifacts[b]
    BY <1>1, <2>1 DEF CompareInv, CompareTypes, Compare!Built, Kept, OfRun
  <2>3. /\ compareCard' \in Cards /\ compareCard'.shown = compareCard.shown
        /\ compareCard'.verdict = saving
        /\ compareCard'.building = compareCard.building
    BY <1>1, <2>1, CardFacts DEF Cards
  <2>4. WholeStays
    BY <1>2, <2>2 DEF WholeStays
  <2>5. TrustedNext(a, v)
    BY <1>1, <2>4, TrustKept
  <2>6. CompareTypes'
    BY <1>2, <2>2, <2>3, CardFacts DEF CompareInv, CompareTypes
  <2>7. WholeAtTheEnd'
    BY <1>2, <2>2 DEF CompareInv, WholeAtTheEnd
  <2>8. \A b \in Compare!Built : /\ TrustedNext(b, artifacts'[b].compare)
                                 /\ TrustedNext(b, artifacts'[b].verdict)
                                 /\ artifacts'[b].verdict # 0 => artifacts'[b].compare # 0
    BY <1>4, <2>2, <2>4, <2>5, TrustKept, AllTrustKept DEF CompareInv, AllTrusted
  <2>9. /\ TrustedNext(compareCard'.verdict.art, compareCard'.verdict.run)
        /\ compareCard'.verdict.art \in Compare!Built'
    BY <1>1, <2>2, <2>3, <2>5
  <2>10. TrustedNext(saving'.art, saving'.run)
    BY <1>2 DEF Compare!Nothing, TrustedNext
  <2>11. \A l \in loads' : l.art \in Compare!Built' /\ TrustedNext(l.art, l.run)
    BY <1>2, <2>2, <2>4, TrustKept, CardFacts
  <2>12. AllTrusted'
    BY <1>2, <2>2, <2>8, <2>9, <2>10, <2>11, AllTrustKept
  <2>13. AskedIsBuilt'
    BY <1>2, <2>2, <2>3, CardFacts DEF AskedIsBuilt
  <2>14. \A b : Compare!OfDaemon(b)' = Compare!OfDaemon(b)
    BY <1>2 DEF Compare!OfDaemon
  <2>15. LockIsHeld'
    BY <1>2, <2>2, <2>14 DEF CompareInv, LockIsHeld
  <2>16. QED
    BY <2>6, <2>7, <2>12, <2>13, <2>15 DEF CompareInv
<1>5. QED
  BY <1>3, <1>4

LEMMA CompareStays ==
  ASSUME CompareInv, [Compare!Next]_(Compare!vars)
  PROVE  CompareInv'
<1>1. CASE UNCHANGED Compare!vars
  BY <1>1, CardFacts, CardStays DEF Compare!vars
<1>2. CASE Compare!Next
  BY <1>1, <1>2, CliStays, SideStays, StoreStays, WriteStays, BuildStays, LoadStays, ReadStays,
     LoadedStays, StartStays, CancelStays, SaveStays, RunStays, VerdictStays
  DEF Compare!Next, Compare!Finished
<1>3. QED
  BY <1>1, <1>2

\* The invariant says what the property does.
LEMMA ComparisonsAreWhole == Compare!Spec => []Compare!ComparesAreWhole
<1>1. CompareInv => Compare!ComparesAreWhole
  BY DEF CompareInv, AllTrusted, LockIsHeld, Trusted, Compare!ComparesAreWhole
<1>2. QED
  BY <1>1, CompareInit, CompareStays, PTL DEF Compare!Spec

-----------------------------------------------------------------------------
(* The thread of the page.                                                  *)

TurnStates == [st : {"none", "streaming", "aborted", "over"}, session : 0 .. MaxTurns, left : BOOLEAN]
RunStates  == [st : {"idle", "open", "started"}, waits : {"no", "soon", "user", "approved"}]

ThreadTypes ==
  /\ run \in RunStates
  /\ suppress \in BOOLEAN
  /\ bubbles \in [task : Nat, imported : Nat]
  /\ card \in {"none", "plain", "buttons"}
  /\ images \in [reading : Nat, pending : Nat, most : Nat]
  /\ turn \in [Threads!Turns -> TurnStates]
  /\ ctrl \in 0 .. MaxTurns /\ chat \in 0 .. MaxTurns
  /\ excused \subseteq {"echo", "import", "overtaken", "left", "wiped"}

\* What the thread of a run in progress shows, while nothing has gone another
\* way: its task was drawn when it was sent, and the echo is still to come
\* exactly while it is suppressed; the card of a tool is there until the run
\* waits no more.
RunIsShown ==
  /\ run.st = "open" => suppress /\ run.waits = "no"
  /\ run.st = "idle" => run.waits = "no"
  /\ bubbles.task <= 1 /\ bubbles.imported <= 1
  /\ run.waits = "soon" => card # "none"
  /\ run.waits = "user" => card = "buttons"

\* An image is attached that was read, and read while there was room.
RoomForImages ==
  /\ images.reading <= images.most
  /\ images.pending + images.reading + 1 <= MAX_ATTACHMENTS + images.most

\* The turn that streams is the one that can be stopped.
OneStreams == \A t \in Threads!Turns : turn[t].st = "streaming" => ctrl = t

OnScreen == view \in {chat, Threads!Cleared}

\* Nothing goes on from an excuse, so what it excuses is all that can be wrong.
ThreadInv ==
  /\ ThreadTypes
  /\ RoomForImages
  /\ excused = {} => RunIsShown /\ OneStreams /\ OnScreen
  /\ Threads!StopStops /\ Threads!ThreadIsSession /\ Threads!AgentThreadIsTrue

\* What each excuse leaves to be shown.
LEMMA StillTrue ==
  ASSUME ThreadTypes', RoomForImages',
         "overtaken" \notin excused' => OneStreams',
         "left" \notin excused' => OnScreen',
         excused' = {} => RunIsShown',
         excused' \cap {"echo", "import"} = {} => bubbles'.task <= 1 /\ bubbles'.imported <= 1,
         excused' \cap {"import", "wiped"} = {} => (run'.waits = "user" => card' = "buttons")
  PROVE  ThreadInv'
<1>1. Threads!StopStops' /\ Threads!ThreadIsSession'
  BY DEF Threads!StopStops, Threads!ThreadIsSession, OneStreams, OnScreen
<1>2. images'.pending + 1 <= MAX_ATTACHMENTS + images'.most
  BY PageAssumption DEF ThreadTypes, RoomForImages
<1>3. Threads!AgentThreadIsTrue'
  BY <1>2 DEF Threads!AgentThreadIsTrue
<1>4. QED
  BY <1>1, <1>3 DEF ThreadInv

LEMMA ThreadStart ==
  ASSUME Threads!Init
  PROVE  ThreadInv
<1> USE PageAssumption DEF Threads!Init
<1>1. ThreadTypes
  <2>1. run \in RunStates /\ bubbles \in [task : Nat, imported : Nat]
    BY DEF Threads!Idle, RunStates
  <2>2. images \in [reading : Nat, pending : Nat, most : Nat]
    OBVIOUS
  <2>3. turn \in [Threads!Turns -> TurnStates]
    BY DEF TurnStates
  <2>4. ctrl \in 0 .. MaxTurns
    OBVIOUS
  <2>5. suppress \in BOOLEAN
    BY Zenon
  <2>6. QED
    BY <2>1, <2>2, <2>3, <2>4, <2>5 DEF ThreadTypes
<1>2. RoomForImages /\ RunIsShown /\ OneStreams /\ OnScreen
  BY DEF RoomForImages, RunIsShown, OneStreams, OnScreen, Threads!Idle
<1>3. images.pending + 1 <= MAX_ATTACHMENTS + images.most
  BY DEF RoomForImages
<1>4. QED
  BY <1>1, <1>2, <1>3
 
  DEF ThreadInv, Threads!StopStops, Threads!ThreadIsSession, Threads!AgentThreadIsTrue, OneStreams,
      OnScreen, RunIsShown

\* The images, the agent run and its card, of which no excuse is made.
LEMMA ImagesStay ==
  ASSUME ThreadInv, excused = {}, Threads!attachFile \/ Threads!FileRead \/ Threads!removeAttachment
  PROVE  ThreadInv'
<1>1. UNCHANGED <<run, runs, suppress, bubbles, remembered, card, importing, Threads!Chat, excused>>
  BY DEF Threads!attachFile, Threads!FileRead, Threads!removeAttachment
<1>2. images' \in [reading : Nat, pending : Nat, most : Nat] /\ RoomForImages'
  <2> USE PageAssumption
  <2>1. images \in [reading : Nat, pending : Nat, most : Nat] /\ RoomForImages
    BY DEF ThreadInv, ThreadTypes
  <2>2. PICK r \in Nat, p \in Nat, m \in Nat :
          images.reading = r /\ images.pending = p /\ images.most = m
    BY <2>1
  <2>3. images = [reading |-> r, pending |-> p, most |-> m]
    BY <2>1, <2>2
  <2>4. r <= m /\ p + r + 1 <= MAX_ATTACHMENTS + m
    BY <2>1, <2>2 DEF RoomForImages
  <2>5. \/ images' = images
        \/ images' = [reading |-> r + 1, pending |-> p, most |-> r + 1]
           /\ p < MAX_ATTACHMENTS /\ m < r + 1
        \/ images' = [reading |-> r + 1, pending |-> p, most |-> m] /\ p < MAX_ATTACHMENTS /\ r + 1 <= m
        \/ images' = [reading |-> r - 1, pending |-> p + 1, most |-> m] /\ r > 0
        \/ images' = [reading |-> r, pending |-> p - 1, most |-> m] /\ p > 0
    <3>1. CASE Threads!attachFile
      <4>1. CASE p >= MAX_ATTACHMENTS
        BY <2>2, <3>1, <4>1 DEF Threads!attachFile
      <4>2. CASE ~ p >= MAX_ATTACHMENTS /\ r + 1 > m
        <5>1. images' = [images EXCEPT !.reading = r + 1, !.most = r + 1]
          BY <2>2, <3>1, <4>2 DEF Threads!attachFile
        <5>2. images' = [reading |-> r + 1, pending |-> p, most |-> r + 1]
          BY <2>3, <5>1
        <5>3. p < MAX_ATTACHMENTS /\ m < r + 1
          BY <4>2
        <5>4. QED
          BY <5>2, <5>3
      <4>3. CASE ~ p >= MAX_ATTACHMENTS /\ ~ r + 1 > m
        <5>1. images' = [images EXCEPT !.reading = r + 1, !.most = m]
          BY <2>2, <3>1, <4>3 DEF Threads!attachFile
        <5>2. images' = [reading |-> r + 1, pending |-> p, most |-> m]
          BY <2>3, <5>1
        <5>3. p < MAX_ATTACHMENTS /\ r + 1 <= m
          BY <4>3
        <5>4. QED
          BY <5>2, <5>3
      <4>4. QED
        BY <4>1, <4>2, <4>3
    <3>2. CASE Threads!FileRead
      <4>1. images' = [images EXCEPT !.reading = r - 1, !.pending = p + 1] /\ r > 0
        BY <2>2, <3>2 DEF Threads!FileRead
      <4>2. QED
        BY <2>3, <4>1
    <3>3. CASE Threads!removeAttachment
      <4>1. images' = [images EXCEPT !.pending = p - 1] /\ p > 0
        BY <2>2, <3>3 DEF Threads!removeAttachment
      <4>2. QED
        BY <2>3, <4>1
    <3>4. QED
      BY <3>1, <3>2, <3>3
  <2>6. QED
    BY <2>1, <2>4, <2>5 DEF RoomForImages
<1>3. ThreadTypes'
  BY <1>1, <1>2 DEF ThreadInv, ThreadTypes, Threads!Chat
<1>4. OneStreams' /\ OnScreen' /\ RunIsShown'
  BY <1>1 DEF ThreadInv, OneStreams, OnScreen, RunIsShown, Threads!Chat
<1>5. QED
  BY <1>2, <1>3, <1>4, StillTrue DEF RunIsShown

LEMMA RunStepsStay ==
  ASSUME ThreadInv, excused = {},
         \/ Threads!submitAgentTask \/ Threads!TaskStart \/ Threads!ToolCall
         \/ Threads!ApprovalPending \/ Threads!ApprovalResolved
         \/ \E remember \in BOOLEAN : Threads!Approve(remember)
  PROVE  ThreadInv'
<1>1. UNCHANGED <<turn, ctrl, chat, view, excused>>
  BY
  DEF Threads!submitAgentTask, Threads!TaskStart, Threads!ToolCall, Threads!ApprovalPending,
      Threads!ApprovalResolved, Threads!Approve, Threads!Chat
<1>2. /\ run \in RunStates /\ bubbles \in [task : Nat, imported : Nat] /\ suppress \in BOOLEAN
      /\ card \in {"none", "plain", "buttons"}
      /\ images \in [reading : Nat, pending : Nat, most : Nat]
      /\ RoomForImages /\ RunIsShown
  BY Zenon DEF ThreadInv, ThreadTypes
<1>3. /\ run' \in RunStates /\ suppress' \in BOOLEAN /\ bubbles' \in [task : Nat, imported : Nat]
      /\ card' \in {"none", "plain", "buttons"}
      /\ images' = images \/ images' = [images EXCEPT !.pending = 0]
      /\ RunIsShown'
  <2>1. CASE Threads!submitAgentTask
    BY <1>2, <2>1 DEF Threads!submitAgentTask, RunStates, RunIsShown
  <2>2. CASE Threads!TaskStart
    BY <1>2, <2>2 DEF Threads!TaskStart, RunStates, RunIsShown
  <2>3. CASE Threads!ToolCall
    BY <1>2, <2>3 DEF Threads!ToolCall, RunStates, RunIsShown
  <2>4. CASE Threads!ApprovalPending
    BY <1>2, <2>4 DEF Threads!ApprovalPending, RunStates, RunIsShown
  <2>5. CASE Threads!ApprovalResolved
    BY <1>2, <2>5 DEF Threads!ApprovalResolved, RunStates, RunIsShown
  <2>6. CASE \E remember \in BOOLEAN : Threads!Approve(remember)
    BY <1>2, <2>6 DEF Threads!Approve, RunStates, RunIsShown
  <2>7. QED
    BY <2>1, <2>2, <2>3, <2>4, <2>5, <2>6
<1>4. images' \in [reading : Nat, pending : Nat, most : Nat] /\ RoomForImages'
  BY <1>2, <1>3, PageAssumption DEF RoomForImages
<1>5. ThreadTypes'
  BY <1>1, <1>3, <1>4 DEF ThreadInv, ThreadTypes
<1>6. OneStreams' /\ OnScreen'
  BY <1>1 DEF ThreadInv, OneStreams, OnScreen
<1>7. QED
  BY <1>3, <1>4, <1>5, <1>6, StillTrue DEF RunIsShown

\* The end of a run, and what empties its thread.
LEMMA EndsStay ==
  ASSUME ThreadInv, excused = {},
         Threads!RunEnds \/ Threads!clearAgent \/ Threads!importAgent \/ Threads!Imported
  PROVE  ThreadInv'
<1>1. /\ run \in RunStates /\ bubbles \in [task : Nat, imported : Nat] /\ suppress \in BOOLEAN
      /\ card \in {"none", "plain", "buttons"}
      /\ images \in [reading : Nat, pending : Nat, most : Nat]
      /\ RoomForImages /\ RunIsShown /\ OnScreen /\ OneStreams
  BY Zenon DEF ThreadInv, ThreadTypes
<1>2. /\ UNCHANGED <<turn, ctrl, chat>>
      /\ view' = view \/ view' = Threads!Cleared
  BY
  DEF Threads!RunEnds, Threads!clearAgent, Threads!importAgent, Threads!Imported, Threads!Reset,
      Threads!Chat
<1>3. images' = images \/ images' = [images EXCEPT !.pending = 0]
  BY DEF Threads!RunEnds, Threads!clearAgent, Threads!importAgent, Threads!Imported, Threads!Reset
<1>4. images' \in [reading : Nat, pending : Nat, most : Nat] /\ RoomForImages'
  BY <1>1, <1>3, PageAssumption DEF RoomForImages
<1>5. OneStreams' /\ OnScreen'
  BY <1>1, <1>2 DEF OneStreams, OnScreen, Threads!Cleared
<1>6. /\ run' \in RunStates /\ suppress' \in BOOLEAN /\ bubbles' \in [task : Nat, imported : Nat]
      /\ card' \in {"none", "plain", "buttons"} /\ excused' \subseteq {"echo", "import"}
      /\ excused' = {} => RunIsShown'
      /\ excused' \cap {"echo", "import"} = {} => bubbles'.task <= 1 /\ bubbles'.imported <= 1
      /\ excused' \cap {"import", "wiped"} = {} => (run'.waits = "user" => card' = "buttons")
  <2>1. CASE Threads!RunEnds
    BY <1>1, <2>1 DEF Threads!RunEnds, Threads!Idle, Threads!Excuse, RunStates, RunIsShown
  <2>2. CASE Threads!clearAgent
    BY <1>1, <2>2 DEF Threads!clearAgent, Threads!Reset, RunStates, RunIsShown
  <2>3. CASE Threads!importAgent
    BY <1>1, <2>3 DEF Threads!importAgent, RunStates, RunIsShown
  <2>4. CASE Threads!Imported
    <3>1. /\ bubbles' = [task |-> 0, imported |-> IF suppress THEN 0 ELSE 1]
          /\ suppress' = FALSE /\ run' = run /\ card' = "none"
          /\ excused' = IF run.st # "idle" THEN {"import"} ELSE {}
      BY <2>4 DEF Threads!Imported, Threads!Reset, Threads!Excuse
    <3>2. bubbles' \in [task : Nat, imported : Nat] /\ bubbles'.task <= 1 /\ bubbles'.imported <= 1
      BY <3>1
    <3>3. run.st = "idle" => RunIsShown'
      BY <1>1, <3>1, <3>2 DEF RunIsShown
    <3>4. suppress' \in BOOLEAN
      BY <3>1, Zenon
    <3>5. run.st = "idle" => run.waits = "no"
      BY <1>1 DEF RunIsShown
    <3>6. QED
      BY <1>1, <3>1, <3>2, <3>3, <3>4, <3>5
  <2>5. QED
    BY <2>1, <2>2, <2>3, <2>4
<1>7. ThreadTypes'
  BY <1>2, <1>4, <1>6 DEF ThreadInv, ThreadTypes
<1>8. QED
  BY <1>4, <1>5, <1>6, <1>7, StillTrue

\* A chat turn: its start, its session, its end, and Stop.
LEMMA TurnsStay ==
  ASSUME ThreadInv, excused = {},
         \/ \E t \in Threads!Turns :
              \/ Threads!streamChat(t) \/ Threads!TurnEnds(t)
              \/ Threads!SessionEvent(t) \/ Threads!LateSessionEvent(t)
         \/ Threads!stopChat
  PROVE  ThreadInv'
<1>1. UNCHANGED Threads!Agent
  BY
  DEF Threads!streamChat, Threads!TurnEnds, Threads!SessionEvent, Threads!LateSessionEvent,
      Threads!stopChat
<1>2. RunIsShown' /\ RoomForImages'
  BY <1>1 DEF ThreadInv, RunIsShown, RoomForImages, Threads!Agent
<1>3. /\ turn \in [Threads!Turns -> TurnStates] /\ ctrl \in 0 .. MaxTurns /\ chat \in 0 .. MaxTurns
      /\ OneStreams /\ OnScreen
  BY DEF ThreadInv, ThreadTypes
<1>4. /\ turn' \in [Threads!Turns -> TurnStates] /\ ctrl' \in 0 .. MaxTurns
      /\ chat' \in 0 .. MaxTurns
      /\ excused' \subseteq {"overtaken", "left"}
      /\ "overtaken" \notin excused' => OneStreams'
      /\ "left" \notin excused' => OnScreen'
  <2>1. CASE \E t \in Threads!Turns : Threads!streamChat(t)
    <3>1. PICK t \in Threads!Turns : Threads!streamChat(t)
      BY <2>1
    <3>2. OneStreams' /\ OnScreen' /\ excused' = {} /\ ctrl' \in 0 .. MaxTurns
          /\ chat' = chat
      BY <1>3, <3>1, PageAssumption DEF Threads!streamChat, OneStreams, OnScreen, Threads!Turns
    <3>3. turn' \in [Threads!Turns -> TurnStates]
      <4>1. ASSUME NEW u \in Threads!Turns
            PROVE  turn'[u] \in TurnStates
        <5>1. chat \in 0 .. MaxTurns /\ turn[u] \in TurnStates
          BY <1>3 DEF ThreadInv, ThreadTypes
        <5>2. \/ turn'[u] = [st |-> "streaming", session |-> chat, left |-> FALSE]
              \/ turn'[u] = [turn[u] EXCEPT !.st = "aborted"]
              \/ turn'[u] = turn[u]
          BY <3>1 DEF Threads!streamChat
        <5>3. [turn[u] EXCEPT !.st = "aborted"] \in TurnStates
          BY <5>1 DEF TurnStates
        <5>4. [st |-> "streaming", session |-> chat, left |-> FALSE] \in TurnStates
          BY <5>1 DEF TurnStates
        <5>5. QED
          BY <5>1, <5>2, <5>3, <5>4
      <4>2. turn' = [u \in Threads!Turns |-> turn'[u]]
        BY <3>1 DEF Threads!streamChat
      <4>3. QED
        BY <4>1, <4>2
    <3>4. QED
      BY <1>3, <3>2, <3>3
  <2>2. CASE \E t \in Threads!Turns : Threads!TurnEnds(t)
    <3>1. PICK t \in Threads!Turns : Threads!TurnEnds(t)
      BY <2>2
    <3>2. /\ turn' \in [Threads!Turns -> TurnStates] /\ ctrl' \in 0 .. MaxTurns
          /\ UNCHANGED <<chat, view>>
      BY <1>3, <3>1, PageAssumption DEF Threads!TurnEnds, TurnStates
    <3>3. excused' \subseteq {"overtaken"} /\ ("overtaken" \notin excused' => OneStreams')
      BY <1>3, <3>1 DEF Threads!TurnEnds, Threads!Excuse, OneStreams, TurnStates
    <3>4. QED
      BY <1>3, <3>2, <3>3 DEF OnScreen
  <2>3. CASE \E t \in Threads!Turns : Threads!SessionEvent(t) \/ Threads!LateSessionEvent(t)
    <3>1. PICK t \in Threads!Turns : Threads!SessionEvent(t) \/ Threads!LateSessionEvent(t)
      BY <2>3
    <3>2. Threads!SessionOf(t) \in 0 .. MaxTurns
      BY <1>3, PageAssumption DEF Threads!SessionOf, TurnStates, Threads!Turns
    <3>3. /\ turn' = [turn EXCEPT ![t].session = Threads!SessionOf(t)] /\ ctrl' = ctrl
          /\ chat' = Threads!SessionOf(t)
      BY <3>1 DEF Threads!SessionEvent, Threads!LateSessionEvent
    <3>4. turn' \in [Threads!Turns -> TurnStates] /\ \A u \in Threads!Turns : turn'[u].st = turn[u].st
      BY <1>3, <3>2, <3>3 DEF TurnStates
    <3>5. OneStreams'
      BY <1>3, <3>3, <3>4 DEF OneStreams
    <3>6. excused' \subseteq {"left"} /\ ("left" \notin excused' => OnScreen')
      BY <1>3, <3>1
      DEF Threads!SessionEvent, Threads!LateSessionEvent, Threads!Excuse, OnScreen, Threads!Cleared
    <3>7. QED
      BY <1>3, <3>2, <3>3, <3>4, <3>5, <3>6
  <2>4. CASE Threads!stopChat
    <3>1. ctrl \in Threads!Turns
      BY <1>3, <2>4 DEF Threads!stopChat, Threads!Turns
    <3>2. turn' \in [Threads!Turns -> TurnStates] /\ OneStreams'
      BY <1>3, <2>4, <3>1 DEF Threads!stopChat, TurnStates, OneStreams
    <3>3. QED
      BY <1>3, <2>4, <3>2 DEF Threads!stopChat, OnScreen
  <2>5. QED
    BY <2>1, <2>2, <2>3, <2>4
<1>5. ThreadTypes'
  BY <1>1, <1>4 DEF ThreadInv, ThreadTypes, Threads!Agent
<1>6. QED
  BY <1>2, <1>4, <1>5, StillTrue DEF RunIsShown

\* The sessions: the thread is emptied, which the run does not wait for.
LEMMA SessionsStay ==
  ASSUME ThreadInv, excused = {},
         \/ Threads!clearChatThread \/ Threads!newChatSession
         \/ \E s \in Threads!ChatSessions :
              \/ Threads!openSession(s) \/ Threads!loadChatSessionMessages(s)
              \/ Threads!SessionVanished(s)
  PROVE  ThreadInv'
<1>1. UNCHANGED <<run, suppress, images, ctrl>>
  BY
  DEF Threads!clearChatThread, Threads!newChatSession, Threads!openSession,
      Threads!loadChatSessionMessages, Threads!SessionVanished,
         Threads!Agent
<1>2. turn \in [Threads!Turns -> TurnStates] /\ ctrl \in 0 .. MaxTurns /\ OneStreams /\ OnScreen
  BY DEF ThreadInv, ThreadTypes
<1>3. OnScreen'
  BY <1>2
  DEF Threads!clearChatThread, Threads!newChatSession, Threads!openSession,
      Threads!loadChatSessionMessages,
              Threads!SessionVanished, OnScreen, Threads!Cleared
<1>4. turn' = turn \/ turn' = [t \in Threads!Turns |-> [turn[t] EXCEPT !.left = Threads!Live(t)]]
  BY
  DEF Threads!clearChatThread, Threads!newChatSession, Threads!openSession,
      Threads!loadChatSessionMessages, Threads!SessionVanished,
         Threads!LeaveTurns
<1>5. turn' \in [Threads!Turns -> TurnStates] /\ \A t \in Threads!Turns : turn'[t].st = turn[t].st
  <2>1. ASSUME NEW t \in Threads!Turns
        PROVE  [turn[t] EXCEPT !.left = Threads!Live(t)] \in TurnStates
               /\ [turn[t] EXCEPT !.left = Threads!Live(t)].st = turn[t].st
    <3>1. turn[t] \in TurnStates /\ Threads!Live(t) \in BOOLEAN
      BY <1>2 DEF Threads!Live
    <3> DEFINE l == Threads!Live(t)
    <3> HIDE DEF l
    <3>2. [turn[t] EXCEPT !.left = l] \in TurnStates /\ [turn[t] EXCEPT !.left = l].st = turn[t].st
      BY <3>1 DEF TurnStates, l
    <3>3. QED
      BY <3>2 DEF l
  <2>2. QED
    BY <1>2, <1>4, <2>1
<1>6. OneStreams'
  BY <1>1, <1>2, <1>5 DEF OneStreams
<1>7. \/ UNCHANGED <<card, bubbles, excused>>
      \/ card' = "none" /\ bubbles' = [task |-> 0, imported |-> 0] /\ Threads!Leave
  BY
  DEF Threads!clearChatThread, Threads!newChatSession, Threads!openSession,
      Threads!loadChatSessionMessages, Threads!SessionVanished,
         Threads!Agent
<1>8. /\ bubbles' \in [task : Nat, imported : Nat] /\ bubbles'.task <= 1 /\ bubbles'.imported <= 1
      /\ card' \in {"none", "plain", "buttons"} /\ excused' \subseteq {"wiped"}
  BY <1>7 DEF ThreadInv, ThreadTypes, RunIsShown, Threads!Leave, Threads!Excuse
<1>9. "wiped" \notin excused' => RunIsShown'
  BY <1>1, <1>7, <1>8 DEF ThreadInv, RunIsShown, Threads!Leave, Threads!Excuse
<1>10. RoomForImages'
  BY <1>1 DEF ThreadInv, RoomForImages
<1>11. chat' \in 0 .. MaxTurns
  BY PageAssumption
 
  DEF Threads!clearChatThread, Threads!newChatSession, Threads!openSession,
      Threads!loadChatSessionMessages, Threads!SessionVanished,
      Threads!ChatSessions, Threads!Turns, ThreadInv, ThreadTypes
<1>12. ThreadTypes'
  BY <1>1, <1>5, <1>8, <1>11 DEF ThreadInv, ThreadTypes
<1>13. QED
  BY <1>3, <1>6, <1>8, <1>9, <1>10, <1>12, StillTrue DEF RunIsShown

LEMMA ThreadStays ==
  ASSUME ThreadInv, [Threads!Next]_(Threads!vars)
  PROVE  ThreadInv'
<1>1. CASE UNCHANGED Threads!vars
  BY <1>1
 
  DEF Threads!vars, ThreadInv, ThreadTypes, RoomForImages, RunIsShown, OneStreams, OnScreen,
      Threads!StopStops,
      Threads!ThreadIsSession, Threads!AgentThreadIsTrue
<1>2. CASE Threads!Next /\ excused = {}
  BY <1>2, ImagesStay, RunStepsStay, EndsStay, TurnsStay, SessionsStay
  DEF Threads!Next, Threads!Settled
<1>3. CASE Threads!Next /\ excused # {}
  BY <1>1, <1>3 DEF Threads!Next, Threads!Settled
<1>4. QED
  BY <1>1, <1>2, <1>3

\* The thread shows what there is, but for what is excused.
LEMMA ThreadsShow ==
  Threads!Spec => [](Threads!StopStops /\ Threads!ThreadIsSession /\ Threads!AgentThreadIsTrue)
<1>1. ThreadInv => Threads!StopStops /\ Threads!ThreadIsSession /\ Threads!AgentThreadIsTrue
  BY DEF ThreadInv
<1>2. QED
  BY <1>1, ThreadStart, ThreadStays, PTL DEF Threads!Spec

-----------------------------------------------------------------------------
(* The two beside the sessions.                                             *)

PageNext == SessionStep \/ ThreadsStep \/ CompareStep \/ AnswersStep
pageVars == <<part, vars, composerVars, compareVars, answerVars>>

\* However building, comparing, selecting and judging of artifacts interleave on
\* the page, with the command line beside it, the comparison and the verdict an
\* artifact keeps are of whole runs of it, and the daemon's lock is held exactly
\* while it compares, once for an artifact (compareCompressedContext, writeVerdict).
THEOREM ComparesWhole == PageSpec => []ComparesAreWhole
<1> DEFINE Mine == part = "compare"
<1>1. PageSpec => PageInit /\ [][PageNext]_pageVars
  BY DEF PageSpec, PageNext, pageVars
<1>2. PageInit /\ Mine => Compare!Init
  BY DEF PageInit
<1>3. Mine /\ [PageNext]_pageVars => Mine' /\ [Compare!Next]_(Compare!vars)
  BY DEF PageNext, SessionStep, ThreadsStep, CompareStep, AnswersStep, pageVars, compareVars,
         Compare!vars
<1>4. ~ Mine /\ [PageNext]_pageVars => ~ Mine'
  BY DEF PageNext, SessionStep, ThreadsStep, CompareStep, AnswersStep, pageVars
<1>5. Compare!Spec => []Compare!ComparesAreWhole
  BY ComparisonsAreWhole
<1>6. (Mine => Compare!ComparesAreWhole) => ComparesAreWhole
  BY DEF ComparesAreWhole
<1> HIDE DEF Mine
<1>7. QED
  BY <1>1, <1>2, <1>3, <1>4, <1>5, <1>6, PTL DEF Compare!Spec

\* Whatever turns, runs, imports, sessions and images overlap in the thread of the
\* page, Stop reaches the turn that streams, the next message continues the session
\* on screen, and the agent's thread shows each task once and the approval it waits
\* for; but for the five ways that are excused (streamChat, submitAgentTask).
THEOREM ThreadsTrue == PageSpec => []ThreadsAreTrue
<1> DEFINE Mine == part = "threads"
           Shown == Threads!StopStops /\ Threads!ThreadIsSession /\ Threads!AgentThreadIsTrue
<1>1. PageSpec => PageInit /\ [][PageNext]_pageVars
  BY DEF PageSpec, PageNext, pageVars
<1>2. PageInit /\ Mine => Threads!Init
  BY DEF PageInit
<1>3. Mine /\ [PageNext]_pageVars => Mine' /\ [Threads!Next]_(Threads!vars)
  BY DEF PageNext, SessionStep, ThreadsStep, CompareStep, AnswersStep, pageVars, composerVars,
         Threads!vars
<1>4. ~ Mine /\ [PageNext]_pageVars => ~ Mine'
  BY DEF PageNext, SessionStep, ThreadsStep, CompareStep, AnswersStep, pageVars
<1>5. Threads!Spec => []Shown
  BY ThreadsShow
<1>6. (Mine => Shown) => ThreadsAreTrue
  BY DEF ThreadsAreTrue
<1> HIDE DEF Mine, Shown
<1>7. QED
  BY <1>1, <1>2, <1>3, <1>4, <1>5, <1>6, PTL DEF Threads!Spec
=============================================================================
