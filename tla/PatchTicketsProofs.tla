------------------------- MODULE PatchTicketsProofs -------------------------
(***************************************************************************)
(* Theorems about PatchTickets, for any sets of patches, files, contents,  *)
(* sessions and deciders, with or without edits and tampering.  Whether    *)
(* sessions and decisions overlap or not: the variables keep their types,  *)
(* apply_patch writes nothing but the approved diff, and a ticket that     *)
(* says applied has had every file written.  When they do not overlap: no  *)
(* file that changed since the proposal is overwritten, and the operations *)
(* implement the status diagram of PatchLifecycle.                         *)
(***************************************************************************)
EXTENDS PatchTickets, TLAPS

-----------------------------------------------------------------------------
(* Types of the values the operations build. *)

\* The status an update overrides with is one updatePatchTicket may merge:
\* the merged ticket is a ticket.
LEMMA MergedType ==
  ASSUME NEW t \in Ticket, NEW u \in Update
  PROVE  Merged(t, u) \in Ticket
BY DEF Merged, Ticket, Update, Live, Terminal

\* A draft made by propose_patch is a ticket, and it needs approval as soon
\* as it names a file.
LEMMA DraftType ==
  ASSUME NEW fs \in SUBSET Files, NEW new, \A f \in fs : new[f] \in Contents
  PROVE  /\ Draft(fs, new) \in Ticket
         /\ Draft(fs, new).files = fs
         /\ fs # {} => Draft(fs, new).requiresApproval = TRUE
<1>1. [f \in Files |-> IF f \in fs THEN new[f] ELSE Absent] \in [Files -> Content]
  BY DEF Content
<1>2. NoFiles \in [Files -> Content]
  BY DEF NoFiles, Content
<1>3. fs # {} => RequiresApproval(fs) = TRUE
  BY DEF RequiresApproval, RiskLevel
<1>4. RequiresApproval(fs) \in BOOLEAN
  BY DEF RequiresApproval
<1>5. QED
  BY <1>1, <1>2, <1>3, <1>4 DEF Draft, Ticket, Live

\* The blank ticket and the idle process have their types.
LEMMA IdleType ==
  /\ Blank \in Ticket
  /\ Idle \in ProcState
<1>1. Blank \in Ticket
  BY DraftType DEF Blank
<1>2. NoFiles \in [Files -> Content]
  BY DEF NoFiles, Content
<1>3. Keep \in Update
  BY DEF Keep, Update
<1>4. QED
  BY <1>1, <1>2, <1>3 DEF Idle, ProcState, PC

\* The updates the handlers make.
LEMMA UpdateType ==
  /\ \A st \in Live \cup Terminal : SetStatus(st) \in Update
  /\ [Keep EXCEPT !.approval = "approved"] \in Update
  /\ [status |-> "rejected", approval |-> "rejected"] \in Update
BY DEF SetStatus, Keep, Update, Live, Terminal

-----------------------------------------------------------------------------
(* Types of a process between the steps of its operation. *)

\* A process record that differs from the current one only in where it is,
\* what it still visits and what it is updating keeps its type.
LEMMA VisitType ==
  ASSUME TypeOK, NEW x \in Procs, NEW f \in Files, NEW next \in ProcState,
         Visit(x, f, next)
  PROVE  proc' \in [Procs -> ProcState]
<1>1. proc[x] \in ProcState
  BY DEF TypeOK
<1>2. [proc[x] EXCEPT !.todo = @ \ {f}] \in ProcState
  BY <1>1 DEF ProcState
<1>3. QED
  BY <1>1, <1>2 DEF Visit, TypeOK

\* A process moves to a state that is typed and about a patch.
ProcOK(r) ==
  /\ r \in ProcState
  /\ r.pc \notin {"idle", "propose"} => r.patch \in Patches

LEMMA ProcStep ==
  ASSUME TypeOK, NEW x \in Procs, NEW next, ProcOK(next),
         proc' = [proc EXCEPT ![x] = next]
  PROVE  /\ proc' \in [Procs -> ProcState]
         /\ \A y \in Procs : proc'[y].pc \notin {"idle", "propose"} => proc'[y].patch \in Patches
BY DEF TypeOK, ProcOK

LEMMA BeginUpdateType ==
  ASSUME TypeOK, NEW x \in Procs, NEW u \in Update
  PROVE  BeginUpdate(x, u) \in ProcState
<1>1. proc[x] \in ProcState
  BY DEF TypeOK
<1>2. QED
  BY <1>1 DEF BeginUpdate, ProcState, PC

LEMMA GateType ==
  ASSUME TypeOK, NEW s \in Procs
  PROVE  Gate(s) \in ProcState
<1>1. proc[s] \in ProcState
  BY DEF TypeOK
<1>2. SetStatus("awaiting_approval") \in Update
  BY UpdateType DEF Live
<1>3. BeginUpdate(s, SetStatus("awaiting_approval")) \in ProcState
  BY <1>2, BeginUpdateType
<1>4. [proc[s] EXCEPT !.pc = "verify", !.todo = proc[s].snap.files] \in ProcState
  BY <1>1 DEF ProcState, PC, Ticket
<1>5. [proc[s] EXCEPT !.pc = "reread", !.todo = {}] \in ProcState
  BY <1>1 DEF ProcState, PC
<1>6. QED
  BY <1>3, <1>4, <1>5 DEF Gate

LEMMA OnLatestType ==
  ASSUME TypeOK, NEW s \in Procs, NEW latest \in Ticket
  PROVE  OnLatest(s, latest) \in ProcState
<1>1. proc[s] \in ProcState
  BY DEF TypeOK
<1>2. SetStatus("rejected") \in Update
  BY UpdateType DEF Terminal
<1>3. BeginUpdate(s, SetStatus("rejected")) \in ProcState
  BY <1>2, BeginUpdateType
<1>4. [proc[s] EXCEPT !.pc = "verify", !.todo = proc[s].snap.files] \in ProcState
  BY <1>1 DEF ProcState, PC, Ticket
<1>5. QED
  BY <1>3, <1>4, IdleType DEF OnLatest

-----------------------------------------------------------------------------
\* Every variable keeps its type, and an operation past the proposing stage
\* is about a patch: the first part of what the files on disk and the local
\* variables of patchStore.ts, proposePatch.ts and applyPatch.ts look like.
THEOREM TypeCorrect == Spec => []TypeOK
<1>1. Init => TypeOK
  BY IdleType DEF Init, TypeOK, NoFiles, Content, Idle
<1>2. TypeOK /\ [Next]_vars => TypeOK'
  <2> SUFFICES ASSUME TypeOK, [Next]_vars
               PROVE  TypeOK'
    OBVIOUS
  <2> USE DEF TypeOK
  <2>1. ASSUME NEW s \in Servers, NEW fs \in SUBSET Files, NEW new \in [fs -> Contents],
               ProposeStart(s, fs, new)
        PROVE  TypeOK'
    <3>1. Draft(fs, new) \in Ticket
      BY DraftType
    <3>2. [Idle EXCEPT !.pc = "propose", !.snap = Draft(fs, new), !.todo = fs] \in ProcState
      BY <3>1, IdleType DEF ProcState, PC
    <3>3. s \in Procs
      BY DEF Procs
    <3>4. QED
      BY <2>1, <3>2, <3>3, IdleType DEF ProposeStart, Idle
  <2>2. ASSUME NEW s \in Servers, NEW f \in Files, ReadBefore(s, f)
        PROVE  TypeOK'
    <3>1. s \in Procs /\ proc[s] \in ProcState
      BY DEF Procs
    <3>2. [[proc[s] EXCEPT !.snap.before[f] = file[f]] EXCEPT !.todo = proc[s].todo \ {f}]
            \in ProcState
      BY <3>1 DEF ProcState, Ticket
    <3>3. QED
      BY <2>2, <3>1, <3>2 DEF ReadBefore
  <2>3. ASSUME NEW s \in Servers, NEW p \in Patches, CreatePatchTicket(s, p)
        PROVE  TypeOK'
    <3>1. s \in Procs /\ proc[s] \in ProcState
      BY DEF Procs
    <3>2. [proc[s] EXCEPT !.pc = "sidecar", !.patch = p, !.todo = proc[s].snap.files]
            \in ProcState
      BY <3>1 DEF ProcState, PC, Ticket
    <3>3. proc[s].snap \in Ticket
      BY <3>1 DEF ProcState
    <3>4. QED
      BY <2>3, <3>1, <3>2, <3>3 DEF CreatePatchTicket
  <2>4. ASSUME NEW s \in Servers, NEW f \in Files, WritePatchPayload(s, f)
        PROVE  TypeOK'
    <3>1. s \in Procs /\ proc[s] \in ProcState
      BY DEF Procs
    <3>2. proc' \in [Procs -> ProcState] /\ payload' \in [Patches -> [Files -> Content]]
      BY <2>4, <3>1, VisitType, IdleType DEF WritePatchPayload, ProcState, Ticket
    <3>3. QED
      BY <2>4, <3>1, <3>2 DEF WritePatchPayload, Visit, Idle
  <2>5. ASSUME NEW s \in Servers, NEW p \in Patches, ApplyStart(s, p)
        PROVE  TypeOK'
    <3> DEFINE run == [Idle EXCEPT !.patch = p, !.snap = ticket[p]]
    <3>1. s \in Procs /\ ticket[p] \in Ticket
      BY <2>5 DEF Procs, ApplyStart
    <3>2. SetStatus("expired") \in Update
      BY UpdateType DEF Terminal
    <3>3. /\ [run EXCEPT !.pc = "fresh", !.todo = ticket[p].files] \in ProcState
          /\ [run EXCEPT !.pc = "update", !.upd = SetStatus("expired")] \in ProcState
      BY <3>1, <3>2, IdleType DEF ProcState, PC, Ticket
    <3>4. /\ [run EXCEPT !.pc = "fresh", !.todo = ticket[p].files].patch = p
          /\ [run EXCEPT !.pc = "update", !.upd = SetStatus("expired")].patch = p
      BY DEF Idle
    <3> HIDE DEF run
    <3>5. QED
      BY <2>5, <3>1, <3>3, <3>4 DEF ApplyStart, run
  <2>6. ASSUME NEW s \in Servers, NEW f \in Files, FreshnessCheck(s, f)
        PROVE  TypeOK'
    <3>1. s \in Procs /\ proc[s].pc = "fresh"
      BY <2>6 DEF Procs, FreshnessCheck
    <3>2. ProcOK(Gate(s))
      <4>1. Gate(s) \in ProcState
        BY <3>1, GateType
      <4>2. Gate(s).patch = proc[s].patch /\ proc[s].patch \in Patches
        BY <3>1 DEF Gate, BeginUpdate, ProcState
      <4>3. QED
        BY <4>1, <4>2 DEF ProcOK
    <3>3. ProcOK([proc[s] EXCEPT !.todo = proc[s].todo \ {f}])
      <4>1. proc[s] \in ProcState /\ proc[s].patch \in Patches
        BY <3>1
      <4>2. QED
        BY ONLY <4>1 DEF ProcOK, ProcState
    <3>4. ProcOK(Idle)
      BY IdleType DEF ProcOK, Idle
    <3>5. PICK next : ProcOK(next) /\ proc' = [proc EXCEPT ![s] = next]
      BY <2>6, <3>2, <3>3, <3>4 DEF FreshnessCheck, Visit, Return
    <3>6. QED
      BY <2>6, <3>1, <3>5, ProcStep DEF FreshnessCheck
  <2>7. ASSUME NEW s \in Servers, RereadApproval(s)
        PROVE  TypeOK'
    <3>1. s \in Procs /\ proc[s].patch \in Patches
      BY <2>7 DEF Procs, RereadApproval
    <3> DEFINE latest == ticket[proc[s].patch]
    <3>2. CASE latest = NoTicket
      <4>1. ProcOK(Idle)
        BY IdleType DEF ProcOK, Idle
      <4>2. QED
        BY <2>7, <3>1, <3>2, <4>1, ProcStep DEF RereadApproval
    <3>3. CASE latest # NoTicket
      <4>1. latest \in Ticket
        BY <3>1, <3>3
      <4>2. OnLatest(s, latest) \in ProcState
        BY <3>1, <4>1, OnLatestType
      <4>3. ProcOK(OnLatest(s, latest))
        BY <3>1, <4>2 DEF ProcOK, OnLatest, BeginUpdate, Idle, ProcState
      <4>4. QED
        BY <2>7, <3>1, <3>3, <4>3, ProcStep DEF RereadApproval
    <3>4. QED
      BY <3>2, <3>3
  <2>8. ASSUME NEW s \in Servers, NEW f \in Files, VerifyPayload(s, f)
        PROVE  TypeOK'
    <3>1. s \in Procs /\ proc[s] \in ProcState /\ proc[s].patch \in Patches
      BY <2>8 DEF Procs, VerifyPayload
    <3> DEFINE content == payload[proc[s].patch][f]
               run     == [proc[s] EXCEPT !.buf[f] = content]
               next    == IF content = Absent \/ content # proc[s].snap.after[f] THEN Idle
                          ELSE IF proc[s].todo = {f}
                            THEN [run EXCEPT !.pc = "write", !.todo = proc[s].snap.files]
                          ELSE [run EXCEPT !.todo = run.todo \ {f}]
    <3>2. run \in ProcState /\ run.patch = proc[s].patch
      <4>1. content \in Content
        BY <3>1
      <4>2. QED
        BY <3>1, <4>1 DEF ProcState
    <3>3. ProcOK(Idle)
      BY IdleType DEF ProcOK, Idle
    <3>4. ProcOK([run EXCEPT !.pc = "write", !.todo = proc[s].snap.files])
      BY <3>1, <3>2 DEF ProcOK, ProcState, PC, Ticket
    <3>5. ProcOK([run EXCEPT !.todo = run.todo \ {f}])
      BY <3>1, <3>2 DEF ProcOK, ProcState
    <3>6. ProcOK(next) /\ proc' = [proc EXCEPT ![s] = next]
      BY <2>8, <3>3, <3>4, <3>5 DEF VerifyPayload
    <3> HIDE DEF next, run
    <3>7. QED
      BY <2>8, <3>1, <3>6, ProcStep DEF VerifyPayload
  <2>9. ASSUME NEW s \in Servers, NEW f \in Files, WriteFile(s, f)
        PROVE  TypeOK'
    <3>1. s \in Procs /\ proc[s] \in ProcState /\ proc[s].pc = "write"
          /\ proc[s].patch \in Patches
      BY <2>9 DEF Procs, WriteFile
    <3>2. BeginUpdate(s, SetStatus("applied")) \in ProcState
      BY <3>1, UpdateType, BeginUpdateType DEF Terminal
    <3>3. proc' \in [Procs -> ProcState]
      BY <2>9, <3>1, <3>2, VisitType DEF WriteFile
    <3>4. proc[s].buf[f] \in Content
      BY <3>1 DEF ProcState
    <3>5. file' \in [Files -> Content] /\ wrote' \subseteq Write
      BY <2>9, <3>1, <3>4 DEF WriteFile, Write
    <3>6. BeginUpdate(s, SetStatus("applied")).patch = proc[s].patch
      BY <3>1 DEF BeginUpdate, ProcState
    <3>7. QED
      BY <2>9, <3>1, <3>3, <3>5, <3>6 DEF WriteFile, Visit
  <2>10. ASSUME NEW s \in Servers, NEW p \in Patches, SweepList(s, p)
         PROVE  TypeOK'
    <3> DEFINE next == [Idle EXCEPT !.pc = "sweep", !.patch = p]
    <3>1. next \in ProcState /\ next.patch = p
      BY IdleType DEF ProcState, PC
    <3>2. s \in Procs /\ proc' = [proc EXCEPT ![s] = next]
      BY <2>10 DEF SweepList, Procs
    <3> HIDE DEF next
    <3>3. QED
      BY <2>10, <3>1, <3>2 DEF SweepList
  <2>11. ASSUME NEW s \in Servers, DeletePatchTicket(s)
         PROVE  TypeOK'
    <3>1. s \in Procs /\ NoFiles \in [Files -> Content]
      BY DEF Procs, NoFiles, Content
    <3>2. QED
      BY <2>11, <3>1, IdleType DEF DeletePatchTicket, Return, Idle
  <2>12. ASSUME NEW d \in Deciders, NEW p \in Patches, NEW u \in Update, Decide(d, p, u)
         PROVE  TypeOK'
    <3>1. [Idle EXCEPT !.pc = "update", !.patch = p, !.upd = u] \in ProcState
      BY IdleType DEF ProcState, PC
    <3>2. QED
      BY <2>12, <3>1 DEF Decide, Procs, Idle
  <2>13. ASSUME NEW x \in Procs, UpdateRead(x)
         PROVE  TypeOK'
    <3>1. proc[x] \in ProcState /\ proc[x].patch \in Patches
      BY <2>13 DEF UpdateRead
    <3>2. ASSUME ticket[proc[x].patch] # NoTicket
          PROVE  ProcOK([proc[x] EXCEPT !.pc = "rename", !.current = ticket[proc[x].patch]])
      BY <3>1, <3>2 DEF ProcOK, ProcState, PC
    <3>3. ProcOK(Idle)
      BY IdleType DEF ProcOK, Idle
    <3>4. PICK next : ProcOK(next) /\ proc' = [proc EXCEPT ![x] = next]
      BY <2>13, <3>1, <3>2, <3>3 DEF UpdateRead, Return
    <3>5. QED
      BY <2>13, <3>4, ProcStep DEF UpdateRead
  <2>14. ASSUME NEW x \in Procs, UpdateRename(x)
         PROVE  TypeOK'
    <3>1. proc[x] \in ProcState /\ proc[x].patch \in Patches
      BY <2>14 DEF UpdateRename
    <3>2. Merged(proc[x].current, proc[x].upd) \in Ticket
      BY <3>1, MergedType DEF ProcState
    <3>3. QED
      BY <2>14, <3>1, <3>2, IdleType DEF UpdateRename, Return, Idle
  <2>15. CASE Environment
    <3>1. ASSUME NEW p \in Patches, GrowOlder(p)
          PROVE  TypeOK'
      BY <3>1 DEF GrowOlder
    <3>2. ASSUME NEW x \in Procs, Crash(x)
          PROVE  TypeOK'
      BY <3>2, IdleType DEF Crash, Return, Idle
    <3>3. ASSUME NEW f \in Files, NEW c \in Content, EditFile(f, c)
          PROVE  TypeOK'
      BY <3>3 DEF EditFile
    <3>4. ASSUME NEW p \in Patches, NEW f \in Files, NEW c \in Content,
                 TamperPayload(p, f, c)
          PROVE  TypeOK'
      BY <3>4 DEF TamperPayload
    <3>5. QED
      BY <2>15, <3>1, <3>2, <3>3, <3>4 DEF Environment
  <2>16. CASE UNCHANGED vars
    BY <2>16 DEF vars
  <2>17. ASSUME NEW d \in Deciders, DeciderStep(d)
         PROVE  TypeOK'
    BY <2>12, <2>17, UpdateType DEF DeciderStep, ApprovePatchTicket, RejectPatchTicket
  <2>18. QED
    BY <2>1, <2>2, <2>3, <2>4, <2>5, <2>6, <2>7, <2>8, <2>9, <2>10, <2>11, <2>13, <2>14,
       <2>15, <2>16, <2>17
    DEF Next, ServerStep, UpdateStep
<1>3. QED
  BY <1>1, <1>2, PTL DEF Spec

-----------------------------------------------------------------------------
(* ApprovedDiffOnly is not inductive: it says nothing of the operations     *)
(* that are about to write.  What makes it inductive is that a ticket's     *)
(* diff never changes after propose_patch returned it, in whatever copy of  *)
(* the ticket an operation holds, and that "approved" is only ever read     *)
(* where an approve has succeeded.                                          *)

\* t has the diff that propose_patch returned for p, and needs approval.
Carries(t, p, sh) ==
  /\ sh[p] # NoTicket
  /\ t.files = sh[p].files
  /\ t.after = sh[p].after
  /\ t.requiresApproval = TRUE

\* t carries the diff of p, and is approved only if somebody approved p.
Sound(t, p, sh, ab) ==
  /\ Carries(t, p, sh)
  /\ t.approval = "approved" => ab[p] # {}

\* A file of the patch that the verify loop has passed is buffered as approved.
Verified(r) ==
  /\ r.todo \subseteq r.snap.files
  /\ \A f \in r.snap.files : r.pc = "write" \/ f \notin r.todo => r.buf[f] = r.snap.after[f]

\* The local variables of an operation agree with what was shown and approved.
Faithful(r, sh, ab) ==
  /\ r.pc = "propose" => r.snap.requiresApproval = TRUE /\ r.snap.approval = "pending"
  /\ r.pc \in {"fresh", "reread", "verify", "write"} => Carries(r.snap, r.patch, sh)
  /\ r.pc = "rename" => Sound(r.current, r.patch, sh, ab)
  /\ r.pc \in {"verify", "write"} => ab[r.patch] # {} /\ Verified(r)

TicketsSound   == \A p \in Patches : ticket[p] # NoTicket => Sound(ticket[p], p, shown, approvedBy)
ProcsFaithful  == \A x \in Procs : Faithful(proc[x], shown, approvedBy)

ApprovalInv == TicketsSound /\ ProcsFaithful /\ ApprovedDiffOnly

\* The histories only grow.
HistoryGrows ==
  /\ \A p \in Patches : shown[p] # NoTicket => shown'[p] = shown[p]
  /\ \A p \in Patches : approvedBy[p] # {} => approvedBy'[p] # {}

\* An operation that is faithful stays so while others add to the histories.
LEMMA FaithfulGrows ==
  ASSUME HistoryGrows, NEW r, ProcOK(r), Faithful(r, shown, approvedBy)
  PROVE  Faithful(r, shown', approvedBy')
<1>1. CASE r.pc \in {"idle", "propose"}
  BY <1>1 DEF Faithful
<1>2. CASE r.pc \notin {"idle", "propose"}
  <2>1. r.patch \in Patches
    BY <1>2 DEF ProcOK
  <2>2. QED
    BY <1>2, <2>1 DEF Faithful, Carries, Sound, HistoryGrows
<1>3. QED
  BY <1>1, <1>2

\* A ticket on disk that is sound stays so while the histories grow.
LEMMA SoundGrows ==
  ASSUME HistoryGrows, NEW p \in Patches, NEW t, Sound(t, p, shown, approvedBy)
  PROVE  Sound(t, p, shown', approvedBy')
BY DEF Sound, Carries, HistoryGrows

\* What every step that changes one process has in common: the process it
\* leaves behind is faithful, the tickets it does not touch stay sound.
LEMMA ProcsStep ==
  ASSUME TypeOK, ProcsFaithful, HistoryGrows, NEW x \in Procs, NEW next,
         proc' = [proc EXCEPT ![x] = next], Faithful(next, shown', approvedBy')
  PROVE  ProcsFaithful'
<1>1. ASSUME NEW y \in Procs
      PROVE  Faithful(proc'[y], shown', approvedBy')
  <2>1. CASE y = x
    BY <2>1 DEF TypeOK
  <2>2. CASE y # x
    <3>1. ProcOK(proc[y]) /\ proc'[y] = proc[y]
      BY <2>2 DEF TypeOK, ProcOK
    <3>2. QED
      BY <3>1, FaithfulGrows DEF ProcsFaithful
  <2>3. QED
    BY <2>1, <2>2
<1>2. QED
  BY <1>1 DEF ProcsFaithful

\* A step that changes one process and nothing the invariant talks about.
LEMMA LocalStep ==
  ASSUME TypeOK, ApprovalInv, NEW x \in Procs, NEW next,
         proc' = [proc EXCEPT ![x] = next], Faithful(next, shown, approvedBy),
         UNCHANGED <<ticket, shown, approvedBy, wrote>>
  PROVE  ApprovalInv'
<1>1. HistoryGrows
  BY DEF HistoryGrows
<1>2. ProcsFaithful'
  BY <1>1, ProcsStep DEF ApprovalInv
<1>3. QED
  BY <1>2 DEF ApprovalInv, TicketsSound, ApprovedDiffOnly

\* An idle process owes nothing.
LEMMA IdleFaithful ==
  ASSUME NEW sh, NEW ab
  PROVE  Faithful(Idle, sh, ab)
BY DEF Faithful, Idle

\* Entering updatePatchTicket owes nothing: the update re-reads the ticket.
LEMMA BeginUpdateFaithful ==
  ASSUME TypeOK, NEW x \in Procs, NEW u, NEW sh, NEW ab
  PROVE  Faithful(BeginUpdate(x, u), sh, ab)
<1>1. BeginUpdate(x, u).pc = "update"
  BY DEF BeginUpdate, TypeOK, ProcState
<1>2. QED
  BY <1>1 DEF Faithful

-----------------------------------------------------------------------------
\* The inductive invariant, one step per handler of the three source files.
LEMMA ApprovalInvariance == TypeOK /\ TypeOK' /\ ApprovalInv /\ [Next]_vars => ApprovalInv'
<1> SUFFICES ASSUME TypeOK, TypeOK', ApprovalInv, [Next]_vars
             PROVE  ApprovalInv'
  OBVIOUS
<1>1. ASSUME NEW s \in Servers, NEW fs \in SUBSET Files, NEW new \in [fs -> Contents],
             ProposeStart(s, fs, new)
      PROVE  ApprovalInv'
  <2> DEFINE next == [Idle EXCEPT !.pc = "propose", !.snap = Draft(fs, new), !.todo = fs]
  <2>1. s \in Procs /\ proc' = [proc EXCEPT ![s] = next]
    BY <1>1 DEF ProposeStart, Procs
  <2>2. Draft(fs, new).requiresApproval = TRUE /\ Draft(fs, new).approval = "pending"
    BY <1>1, DraftType DEF ProposeStart, Draft
  <2>3. next.pc = "propose" /\ next.snap = Draft(fs, new)
    BY DEF Idle
  <2>4. Faithful(next, shown, approvedBy)
    BY <2>2, <2>3 DEF Faithful
  <2> HIDE DEF next
  <2>5. QED
    BY <1>1, <2>1, <2>4, LocalStep DEF ProposeStart
<1>2. ASSUME NEW s \in Servers, NEW f \in Files, ReadBefore(s, f)
      PROVE  ApprovalInv'
  <2>1. s \in Procs /\ proc[s] \in ProcState /\ proc[s].pc = "propose"
    BY <1>2 DEF ReadBefore, Procs, TypeOK
  <2>2. proc'[s].pc = "propose" /\ proc'[s].snap.requiresApproval = proc[s].snap.requiresApproval
        /\ proc'[s].snap.approval = proc[s].snap.approval
    <3> DEFINE read == [proc[s] EXCEPT !.snap.before[f] = file[f], !.todo = proc[s].todo \ {f}]
    <3>1. proc'[s] = read
      BY <1>2, <2>1 DEF ReadBefore, TypeOK
    <3>2. read.pc = proc[s].pc /\ read.snap = [proc[s].snap EXCEPT !.before[f] = file[f]]
      BY <2>1 DEF ProcState
    <3>3. proc[s].snap \in Ticket
      BY <2>1 DEF ProcState
    <3>4. read.snap.requiresApproval = proc[s].snap.requiresApproval
          /\ read.snap.approval = proc[s].snap.approval
      BY <3>2, <3>3 DEF Ticket
    <3> HIDE DEF read
    <3>5. QED
      BY <2>1, <3>1, <3>2, <3>4
  <2>3. Faithful(proc'[s], shown, approvedBy)
    BY <2>1, <2>2 DEF Faithful, ApprovalInv, ProcsFaithful
  <2>4. PICK next : proc' = [proc EXCEPT ![s] = next]
    BY <1>2, <2>1 DEF ReadBefore, TypeOK
  <2>5. proc'[s] = next
    BY <2>1, <2>4 DEF TypeOK
  <2>6. QED
    BY <1>2, <2>1, <2>3, <2>4, <2>5, LocalStep DEF ReadBefore
<1>3. ASSUME NEW s \in Servers, NEW p \in Patches, CreatePatchTicket(s, p)
      PROVE  ApprovalInv'
  <2> DEFINE next == [proc[s] EXCEPT !.pc = "sidecar", !.patch = p, !.todo = proc[s].snap.files]
  <2>1. s \in Procs /\ proc[s] \in ProcState /\ proc[s].pc = "propose" /\ shown[p] = NoTicket
    BY <1>3 DEF CreatePatchTicket, Procs, TypeOK
  <2>2. proc[s].snap \in Ticket /\ proc[s].snap # NoTicket
    BY <2>1, NoTicketAssumption DEF ProcState
  <2>3. HistoryGrows
    BY <1>3, <2>1 DEF CreatePatchTicket, HistoryGrows, TypeOK
  <2>4. Faithful(next, shown', approvedBy')
    <3>1. next.pc = "sidecar"
      BY <2>1 DEF ProcState
    <3> HIDE DEF next
    <3>2. QED
      BY <3>1 DEF Faithful
  <2>5. proc' = [proc EXCEPT ![s] = next]
    BY <1>3, <2>1 DEF CreatePatchTicket, TypeOK
  <2>6. ProcsFaithful'
    BY <2>1, <2>3, <2>4, <2>5, ProcsStep DEF ApprovalInv
  <2>7. TicketsSound'
    <3> SUFFICES ASSUME NEW q \in Patches, ticket'[q] # NoTicket
                 PROVE  Sound(ticket'[q], q, shown', approvedBy')
      BY DEF TicketsSound
    <3>1. CASE q = p
      <4>1. ticket'[p] = proc[s].snap /\ shown'[p] = proc[s].snap
        BY <1>3 DEF CreatePatchTicket, TypeOK
      <4>2. proc[s].snap.requiresApproval = TRUE /\ proc[s].snap.approval = "pending"
        BY <2>1 DEF ApprovalInv, ProcsFaithful, Faithful
      <4>3. QED
        BY <2>2, <3>1, <4>1, <4>2 DEF Sound, Carries
    <3>2. CASE q # p
      BY <1>3, <2>3, <3>2, SoundGrows DEF CreatePatchTicket, TypeOK, ApprovalInv, TicketsSound
    <3>3. QED
      BY <3>1, <3>2
  <2>8. ApprovedDiffOnly'
    BY <1>3, <2>3 DEF CreatePatchTicket, ApprovalInv, ApprovedDiffOnly, HistoryGrows, TypeOK, Write
  <2>9. QED
    BY <2>6, <2>7, <2>8 DEF ApprovalInv
<1>4. ASSUME NEW s \in Servers, NEW f \in Files, WritePatchPayload(s, f)
      PROVE  ApprovalInv'
  <2>1. s \in Procs /\ proc[s] \in ProcState /\ proc[s].pc = "sidecar"
    BY <1>4 DEF WritePatchPayload, Procs, TypeOK
  <2>2. Faithful([proc[s] EXCEPT !.todo = proc[s].todo \ {f}], shown, approvedBy)
    BY <2>1 DEF Faithful, ProcState
  <2>3. QED
    BY <1>4, <2>1, <2>2, IdleFaithful, LocalStep DEF WritePatchPayload, Visit
<1>5. ASSUME NEW s \in Servers, NEW p \in Patches, ApplyStart(s, p)
      PROVE  ApprovalInv'
  <2> DEFINE run  == [Idle EXCEPT !.patch = p, !.snap = ticket[p]]
             go   == [run EXCEPT !.pc = "fresh", !.todo = ticket[p].files]
             stop == [run EXCEPT !.pc = "update", !.upd = SetStatus("expired")]
  <2>1. s \in Procs /\ Sound(ticket[p], p, shown, approvedBy)
    BY <1>5 DEF ApplyStart, Procs, ApprovalInv, TicketsSound
  <2>2. go.pc = "fresh" /\ go.patch = p /\ go.snap = ticket[p]
    BY DEF Idle
  <2>3. Faithful(go, shown, approvedBy)
    BY <2>1, <2>2 DEF Faithful, Sound
  <2>4. stop.pc = "update"
    BY DEF Idle
  <2>5. Faithful(stop, shown, approvedBy)
    BY <2>4 DEF Faithful
  <2>6. proc' = [proc EXCEPT ![s] = go] \/ proc' = [proc EXCEPT ![s] = stop]
    BY <1>5 DEF ApplyStart
  <2> HIDE DEF go, stop
  <2>7. QED
    BY <1>5, <2>1, <2>3, <2>5, <2>6, LocalStep DEF ApplyStart
<1>6. ASSUME NEW s \in Servers, NEW f \in Files, FreshnessCheck(s, f)
      PROVE  ApprovalInv'
  <2>1. s \in Procs /\ proc[s] \in ProcState /\ proc[s].pc = "fresh"
    BY <1>6 DEF FreshnessCheck, Procs, TypeOK
  <2>2. Faithful(proc[s], shown, approvedBy)
    BY <2>1 DEF ApprovalInv, ProcsFaithful
  <2>3. Faithful([proc[s] EXCEPT !.todo = proc[s].todo \ {f}], shown, approvedBy)
    BY <2>1, <2>2 DEF Faithful, ProcState
  <2>4. Faithful([proc[s] EXCEPT !.pc = "reread", !.todo = {}], shown, approvedBy)
    BY <2>1, <2>2 DEF Faithful, ProcState
  <2>5. proc[s].snap.requiresApproval = TRUE
    BY <2>1, <2>2 DEF Faithful, Carries
  <2>6. Faithful(Gate(s), shown, approvedBy)
    BY <2>1, <2>4, <2>5, BeginUpdateFaithful DEF Gate
  <2>7. QED
    BY <1>6, <2>1, <2>3, <2>6, IdleFaithful, LocalStep DEF FreshnessCheck, Visit, Return
<1>7. ASSUME NEW s \in Servers, RereadApproval(s)
      PROVE  ApprovalInv'
  <2>1. s \in Procs /\ proc[s] \in ProcState /\ proc[s].pc = "reread"
        /\ proc[s].patch \in Patches
    BY <1>7 DEF RereadApproval, Procs, TypeOK
  <2> DEFINE latest == ticket[proc[s].patch]
             go     == [proc[s] EXCEPT !.pc = "verify", !.todo = proc[s].snap.files]
  <2>2. Faithful(proc[s], shown, approvedBy)
    BY <2>1 DEF ApprovalInv, ProcsFaithful
  <2>3. ASSUME latest # NoTicket, latest.approval = "approved"
        PROVE  Faithful(go, shown, approvedBy)
    <3>1. approvedBy[proc[s].patch] # {}
      BY <2>1, <2>3 DEF ApprovalInv, TicketsSound, Sound
    <3>2. go.pc = "verify" /\ go.patch = proc[s].patch /\ go.snap = proc[s].snap
          /\ go.todo = proc[s].snap.files
      BY <2>1 DEF ProcState
    <3>3. Carries(go.snap, go.patch, shown)
      BY <2>1, <2>2, <3>2 DEF Faithful
    <3> HIDE DEF go
    <3>4. QED
      BY <3>1, <3>2, <3>3 DEF Faithful, Verified
  <2>4. ASSUME latest # NoTicket
        PROVE  Faithful(OnLatest(s, latest), shown, approvedBy)
    BY <2>1, <2>3, <2>4, IdleFaithful, BeginUpdateFaithful DEF OnLatest
  <2>5. QED
    BY <1>7, <2>1, <2>4, IdleFaithful, LocalStep DEF RereadApproval
<1>8. ASSUME NEW s \in Servers, NEW f \in Files, VerifyPayload(s, f)
      PROVE  ApprovalInv'
  <2>1. s \in Procs /\ proc[s] \in ProcState /\ proc[s].pc = "verify" /\ f \in proc[s].todo
        /\ proc[s].patch \in Patches
    BY <1>8 DEF VerifyPayload, Procs, TypeOK
  <2> DEFINE content == payload[proc[s].patch][f]
             run     == [proc[s] EXCEPT !.buf[f] = content]
             last    == [run EXCEPT !.pc = "write", !.todo = proc[s].snap.files]
             more    == [run EXCEPT !.todo = run.todo \ {f}]
  <2>2. /\ Carries(proc[s].snap, proc[s].patch, shown)
        /\ approvedBy[proc[s].patch] # {}
        /\ Verified(proc[s])
    BY <2>1 DEF ApprovalInv, ProcsFaithful, Faithful
  <2>3. ASSUME content = proc[s].snap.after[f]
        PROVE  \A g \in proc[s].snap.files :
                 g = f \/ g \notin proc[s].todo => run.buf[g] = proc[s].snap.after[g]
    BY <2>1, <2>2, <2>3 DEF Verified, ProcState, Ticket
  <2>4. ASSUME content = proc[s].snap.after[f], proc[s].todo = {f}
        PROVE  Faithful(last, shown, approvedBy)
    <3>1. last.pc = "write" /\ last.patch = proc[s].patch /\ last.snap = proc[s].snap
          /\ last.todo = proc[s].snap.files /\ last.buf = run.buf
      BY <2>1 DEF ProcState
    <3> HIDE DEF last, run
    <3>2. Verified(last)
      BY <2>3, <2>4, <3>1 DEF Verified
    <3>3. QED
      BY <2>2, <3>1, <3>2 DEF Faithful
  <2>5. ASSUME content = proc[s].snap.after[f]
        PROVE  Faithful(more, shown, approvedBy)
    <3>1. more.pc = "verify" /\ more.patch = proc[s].patch /\ more.snap = proc[s].snap
          /\ more.todo = proc[s].todo \ {f} /\ more.buf = run.buf
      BY <2>1 DEF ProcState
    <3> HIDE DEF more, run
    <3>2. Verified(more)
      BY <2>2, <2>3, <2>5, <3>1 DEF Verified
    <3>3. QED
      BY <2>2, <3>1, <3>2 DEF Faithful
  <2>6. \/ proc' = [proc EXCEPT ![s] = Idle]
        \/ content = proc[s].snap.after[f] /\ proc[s].todo = {f} /\ proc' = [proc EXCEPT ![s] = last]
        \/ content = proc[s].snap.after[f] /\ proc' = [proc EXCEPT ![s] = more]
    BY <1>8 DEF VerifyPayload
  <2> HIDE DEF last, more, run, content
  <2>7. QED
    BY <1>8, <2>1, <2>4, <2>5, <2>6, IdleFaithful, LocalStep DEF VerifyPayload
<1>9. ASSUME NEW s \in Servers, NEW f \in Files, WriteFile(s, f)
      PROVE  ApprovalInv'
  <2>1. s \in Procs /\ proc[s] \in ProcState /\ proc[s].pc = "write" /\ f \in proc[s].todo
        /\ proc[s].patch \in Patches
    BY <1>9 DEF WriteFile, Procs, TypeOK
  <2> DEFINE done == BeginUpdate(s, SetStatus("applied"))
             more == [proc[s] EXCEPT !.todo = proc[s].todo \ {f}]
  <2>2. /\ Carries(proc[s].snap, proc[s].patch, shown)
        /\ approvedBy[proc[s].patch] # {}
        /\ Verified(proc[s])
    BY <2>1 DEF ApprovalInv, ProcsFaithful, Faithful
  <2>3. Faithful(done, shown, approvedBy)
    BY <2>1, BeginUpdateFaithful
  <2>4. Faithful(more, shown, approvedBy)
    <3>1. more.pc = "write" /\ more.patch = proc[s].patch /\ more.snap = proc[s].snap
          /\ more.todo \subseteq proc[s].todo /\ more.buf = proc[s].buf
      BY <2>1 DEF ProcState
    <3> HIDE DEF more
    <3>2. QED
      BY <2>1, <2>2, <3>1 DEF Faithful, Verified
  <2>5. HistoryGrows
    BY <1>9 DEF WriteFile, HistoryGrows
  <2>6. ProcsFaithful'
    <3>1. proc' = [proc EXCEPT ![s] = done] \/ proc' = [proc EXCEPT ![s] = more]
      BY <1>9 DEF WriteFile, Visit
    <3> HIDE DEF done, more
    <3>2. shown' = shown /\ approvedBy' = approvedBy
      BY <1>9 DEF WriteFile
    <3>3. QED
      BY <2>1, <2>3, <2>4, <2>5, <3>1, <3>2, ProcsStep DEF ApprovalInv
  <2>7. ApprovedDiffOnly'
    <3>1. f \in shown[proc[s].patch].files /\ shown[proc[s].patch] # NoTicket
          /\ proc[s].buf[f] = shown[proc[s].patch].after[f]
      BY <2>1, <2>2 DEF Carries, Verified
    <3>2. QED
      BY <1>9, <2>2, <3>1 DEF WriteFile, ApprovalInv, ApprovedDiffOnly
  <2>8. TicketsSound'
    BY <1>9 DEF WriteFile, ApprovalInv, TicketsSound
  <2>9. QED
    BY <2>6, <2>7, <2>8 DEF ApprovalInv
<1>10. ASSUME NEW s \in Servers, NEW p \in Patches, SweepList(s, p)
       PROVE  ApprovalInv'
  <2> DEFINE next == [Idle EXCEPT !.pc = "sweep", !.patch = p]
  <2>1. s \in Procs /\ proc' = [proc EXCEPT ![s] = next] /\ next.pc = "sweep"
    BY <1>10 DEF SweepList, Procs, Idle
  <2> HIDE DEF next
  <2>2. Faithful(next, shown, approvedBy)
    BY <2>1 DEF Faithful
  <2>3. QED
    BY <1>10, <2>1, <2>2, LocalStep DEF SweepList
<1>11. ASSUME NEW s \in Servers, DeletePatchTicket(s)
       PROVE  ApprovalInv'
  <2>1. s \in Procs /\ proc[s].patch \in Patches
    BY <1>11 DEF DeletePatchTicket, Procs, TypeOK
  <2>2. HistoryGrows
    BY <1>11 DEF DeletePatchTicket, HistoryGrows
  <2>3. ProcsFaithful'
    BY <1>11, <2>1, <2>2, IdleFaithful, ProcsStep DEF DeletePatchTicket, Return, ApprovalInv
  <2>4. TicketsSound' /\ ApprovedDiffOnly'
    BY <1>11, <2>1 DEF DeletePatchTicket, ApprovalInv, TicketsSound, ApprovedDiffOnly, TypeOK
  <2>5. QED
    BY <2>3, <2>4 DEF ApprovalInv
<1>12. ASSUME NEW d \in Deciders, DeciderStep(d)
       PROVE  ApprovalInv'
  <2> SUFFICES ASSUME NEW p \in Patches, NEW u, Decide(d, p, u)
               PROVE  ApprovalInv'
    BY <1>12 DEF DeciderStep, ApprovePatchTicket, RejectPatchTicket
  <2> DEFINE next == [Idle EXCEPT !.pc = "update", !.patch = p, !.upd = u]
  <2>1. d \in Procs /\ proc' = [proc EXCEPT ![d] = next] /\ next.pc = "update"
    BY DEF Decide, Procs, Idle
  <2> HIDE DEF next
  <2>2. Faithful(next, shown, approvedBy)
    BY <2>1 DEF Faithful
  <2>3. QED
    BY <2>1, <2>2, LocalStep DEF Decide
<1>13. ASSUME NEW x \in Procs, UpdateRead(x)
       PROVE  ApprovalInv'
  <2>1. proc[x] \in ProcState /\ proc[x].patch \in Patches
    BY <1>13 DEF UpdateRead, TypeOK
  <2> DEFINE next == [proc[x] EXCEPT !.pc = "rename", !.current = ticket[proc[x].patch]]
  <2>2. next.pc = "rename" /\ next.patch = proc[x].patch /\ next.current = ticket[proc[x].patch]
    BY <2>1 DEF ProcState
  <2>3. CASE ticket[proc[x].patch] = NoTicket
    BY <1>13, <2>3, IdleFaithful, LocalStep DEF UpdateRead, Return
  <2>4. CASE ticket[proc[x].patch] # NoTicket
    <3>1. proc' = [proc EXCEPT ![x] = next]
      BY <1>13, <2>4 DEF UpdateRead, TypeOK
    <3> HIDE DEF next
    <3>2. Sound(next.current, next.patch, shown, approvedBy)
      BY <2>1, <2>2, <2>4 DEF ApprovalInv, TicketsSound
    <3>3. Faithful(next, shown, approvedBy)
      BY <2>2, <3>2 DEF Faithful
    <3>4. QED
      BY <1>13, <3>1, <3>3, LocalStep DEF UpdateRead
  <2>5. QED
    BY <2>3, <2>4
<1>14. ASSUME NEW x \in Procs, UpdateRename(x)
       PROVE  ApprovalInv'
  <2> DEFINE p == proc[x].patch
             t == Merged(proc[x].current, proc[x].upd)
  <2>1. proc[x] \in ProcState /\ p \in Patches /\ proc[x].pc = "rename"
    BY <1>14 DEF UpdateRename, TypeOK
  <2>2. Sound(proc[x].current, p, shown, approvedBy)
    BY <2>1 DEF ApprovalInv, ProcsFaithful, Faithful
  <2>3. HistoryGrows
    BY <1>14, <2>1 DEF UpdateRename, HistoryGrows, TypeOK
  <2>4. Sound(t, p, shown', approvedBy')
    <3>1. t.files = proc[x].current.files /\ t.after = proc[x].current.after
          /\ t.requiresApproval = proc[x].current.requiresApproval
      BY <2>1 DEF Merged, ProcState, Ticket
    <3>2. t.approval = IF proc[x].upd.approval = "keep" THEN proc[x].current.approval
                       ELSE proc[x].upd.approval
      BY <2>1 DEF Merged, ProcState, Ticket
    <3>3. Carries(t, p, shown')
      BY <1>14, <2>2, <3>1 DEF UpdateRename, Sound, Carries
    <3>4. ASSUME t.approval = "approved"
          PROVE  approvedBy'[p] # {}
      <4>1. CASE proc[x].upd.approval = "approved"
        BY <1>14, <2>1, <4>1 DEF UpdateRename, TypeOK
      <4>2. CASE proc[x].upd.approval # "approved"
        <5>1. proc[x].current.approval = "approved"
          BY <3>2, <3>4, <4>2
        <5>2. QED
          BY <2>1, <2>2, <2>3, <5>1 DEF Sound, HistoryGrows
      <4>3. QED
        BY <4>1, <4>2
    <3>5. QED
      BY <3>3, <3>4 DEF Sound
  <2>5. ticket' = [ticket EXCEPT ![p] = t]
    BY <1>14 DEF UpdateRename
  <2> HIDE DEF t
  <2>6. TicketsSound'
    <3> SUFFICES ASSUME NEW q \in Patches, ticket'[q] # NoTicket
                 PROVE  Sound(ticket'[q], q, shown', approvedBy')
      BY DEF TicketsSound
    <3>1. CASE q = p
      BY <2>4, <2>5, <3>1 DEF TypeOK
    <3>2. CASE q # p
      BY <2>3, <2>5, <3>2, SoundGrows DEF TypeOK, ApprovalInv, TicketsSound
    <3>3. QED
      BY <3>1, <3>2
  <2>7. ProcsFaithful'
    BY <1>14, <2>3, IdleFaithful, ProcsStep DEF UpdateRename, Return, ApprovalInv
  <2>8. ApprovedDiffOnly'
    BY <1>14, <2>3 DEF UpdateRename, ApprovalInv, ApprovedDiffOnly, HistoryGrows, TypeOK, Write
  <2>9. QED
    BY <2>6, <2>7, <2>8 DEF ApprovalInv
<1>15. CASE Environment
  <2>1. ASSUME NEW x \in Procs, Crash(x)
        PROVE  ApprovalInv'
    BY <2>1, IdleFaithful, LocalStep DEF Crash, Return
  <2>2. ASSUME UNCHANGED <<ticket, proc, shown, approvedBy, wrote>>
        PROVE  ApprovalInv'
    BY <2>2 DEF ApprovalInv, TicketsSound, ProcsFaithful, ApprovedDiffOnly
  <2>3. QED
    BY <1>15, <2>1, <2>2 DEF Environment, GrowOlder, EditFile, TamperPayload
<1>16. CASE UNCHANGED vars
  BY <1>16 DEF vars, ApprovalInv, TicketsSound, ProcsFaithful, ApprovedDiffOnly
<1>17. QED
  BY <1>1, <1>2, <1>3, <1>4, <1>5, <1>6, <1>7, <1>8, <1>9, <1>10, <1>11, <1>12, <1>13,
     <1>14, <1>15, <1>16
  DEF Next, ServerStep, UpdateStep

\* apply_patch writes nothing but the diff that propose_patch returned for the
\* patch, and only after an approve of it succeeded, for any number of
\* sessions, deciders, patches and files, through crashes, overlapping
\* updates, swept tickets and rewritten sidecars.
THEOREM OnlyTheApprovedDiffIsWritten == Spec => []ApprovedDiffOnly
<1>1. Init => ApprovalInv
  BY IdleFaithful DEF Init, ApprovalInv, TicketsSound, ProcsFaithful, ApprovedDiffOnly
<1>2. ApprovalInv => ApprovedDiffOnly
  BY DEF ApprovalInv
<1>3. QED
  BY <1>1, <1>2, TypeCorrect, ApprovalInvariance, PTL DEF Spec

-----------------------------------------------------------------------------
(* AppliedIsComplete.  "applied" is written long after the files, by an      *)
(* update that re-reads the ticket; what holds in between is that an update  *)
(* to "applied" is only ever under way, and "applied" only ever in a copy of *)
(* the ticket, when every file of the shown diff has been written.           *)

\* Every file of p has been written as it was shown.
Complete(p, sh, wr) ==
  /\ sh[p] # NoTicket
  /\ \A f \in sh[p].files : [patch |-> p, path |-> f, content |-> sh[p].after[f]] \in wr

\* How far an operation has come towards that.
Progress(r, sh, wr) ==
  /\ r.pc = "propose" => r.snap.status # "applied"
  /\ r.pc = "write" =>
       \A f \in r.snap.files \ r.todo :
         [patch |-> r.patch, path |-> f, content |-> r.snap.after[f]] \in wr
  /\ r.pc \in {"update", "rename"} /\ r.upd.status = "applied" => Complete(r.patch, sh, wr)
  /\ r.pc = "rename" /\ r.current.status = "applied" => Complete(r.patch, sh, wr)

AppliedOnDisk ==
  \A p \in Patches :
    ticket[p] # NoTicket /\ ticket[p].status = "applied" => Complete(p, shown, wrote)

CompleteInv == AppliedOnDisk /\ \A x \in Procs : Progress(proc[x], shown, wrote)

\* What is shown stays as it is, and writes are not forgotten.
ShownStays == wrote \subseteq wrote' /\ \A p \in Patches : shown[p] # NoTicket => shown'[p] = shown[p]

LEMMA CompleteGrows ==
  ASSUME ShownStays, NEW p \in Patches, Complete(p, shown, wrote)
  PROVE  Complete(p, shown', wrote')
BY DEF ShownStays, Complete

\* One process moves on, all others keep what they owe.
LEMMA ProgressStep ==
  ASSUME TypeOK, CompleteInv, ShownStays, NEW x \in Procs, NEW next,
         proc' = [proc EXCEPT ![x] = next], Progress(next, shown', wrote')
  PROVE  \A y \in Procs : Progress(proc'[y], shown', wrote')
<1>1. ASSUME NEW y \in Procs
      PROVE  Progress(proc'[y], shown', wrote')
  <2>1. CASE y = x
    BY <2>1 DEF TypeOK
  <2>2. CASE y # x
    <3>1. proc'[y] = proc[y] /\ Progress(proc[y], shown, wrote)
      BY <2>2 DEF TypeOK, CompleteInv
    <3>2. proc[y].pc \in {"update", "rename"} => proc[y].patch \in Patches
      BY DEF TypeOK
    <3>3. wrote \subseteq wrote'
      BY DEF ShownStays
    <3>4. proc[y].pc \in {"update", "rename"} /\ Complete(proc[y].patch, shown, wrote)
            => Complete(proc[y].patch, shown', wrote')
      BY <3>2, CompleteGrows
    <3>5. QED
      BY <3>1, <3>3, <3>4 DEF Progress
  <2>3. QED
    BY <2>1, <2>2
<1>2. QED
  BY <1>1

\* A record that proposes, writes and applies nothing owes nothing.
Owes(r) ==
  \/ r.pc \in {"propose", "write", "rename"}
  \/ r.pc = "update" /\ r.upd.status = "applied"

LEMMA FreeStep ==
  ASSUME TypeOK, CompleteInv, NEW x \in Procs, NEW next, ~ Owes(next),
         proc' = [proc EXCEPT ![x] = next], UNCHANGED <<ticket, shown, wrote>>
  PROVE  CompleteInv'
<1>1. ShownStays /\ Progress(next, shown', wrote')
  BY DEF ShownStays, Progress, Owes
<1>2. QED
  BY <1>1, ProgressStep DEF CompleteInv, AppliedOnDisk

LEMMA IdleFree == ~ Owes(Idle)
BY DEF Owes, Idle

LEMMA UpdateFree ==
  ASSUME TypeOK, NEW x \in Procs, NEW st \in {"awaiting_approval", "rejected"}
  PROVE  ~ Owes(BeginUpdate(x, SetStatus(st)))
BY DEF BeginUpdate, SetStatus, Keep, Owes, TypeOK, ProcState

\* The inductive invariant, one step per handler.
LEMMA CompleteInvariance ==
  ASSUME TypeOK, ApprovalInv, CompleteInv, [Next]_vars
  PROVE  CompleteInv'
<1>1. ASSUME NEW s \in Servers, NEW fs \in SUBSET Files, NEW new \in [fs -> Contents],
             ProposeStart(s, fs, new)
      PROVE  CompleteInv'
  <2> DEFINE next == [Idle EXCEPT !.pc = "propose", !.snap = Draft(fs, new), !.todo = fs]
  <2>1. s \in Procs /\ proc' = [proc EXCEPT ![s] = next]
    BY <1>1 DEF ProposeStart, Procs
  <2>2. next.pc = "propose" /\ next.snap.status = "proposed"
    BY DEF Idle, Draft
  <2> HIDE DEF next
  <2>3. ShownStays /\ Progress(next, shown', wrote')
    BY <1>1, <2>2 DEF ProposeStart, ShownStays, Progress
  <2>4. QED
    BY <1>1, <2>1, <2>3, ProgressStep DEF ProposeStart, CompleteInv, AppliedOnDisk
<1>2. ASSUME NEW s \in Servers, NEW f \in Files, ReadBefore(s, f)
      PROVE  CompleteInv'
  <2>1. s \in Procs /\ proc[s] \in ProcState /\ proc[s].pc = "propose"
    BY <1>2 DEF ReadBefore, Procs, TypeOK
  <2> DEFINE read == [proc[s] EXCEPT !.snap.before[f] = file[f], !.todo = proc[s].todo \ {f}]
  <2>2. proc' = [proc EXCEPT ![s] = read]
    BY <1>2, <2>1 DEF ReadBefore, TypeOK
  <2>3. read.pc = "propose" /\ read.snap = [proc[s].snap EXCEPT !.before[f] = file[f]]
        /\ proc[s].snap \in Ticket
    BY <2>1 DEF ProcState
  <2> HIDE DEF read
  <2>4. read.snap.status = proc[s].snap.status
    BY <2>3 DEF Ticket
  <2>5. ShownStays /\ Progress(read, shown', wrote')
    BY <1>2, <2>1, <2>3, <2>4 DEF ReadBefore, ShownStays, Progress, CompleteInv
  <2>6. QED
    BY <1>2, <2>1, <2>2, <2>5, ProgressStep DEF ReadBefore, CompleteInv, AppliedOnDisk
<1>3. ASSUME NEW s \in Servers, NEW p \in Patches, CreatePatchTicket(s, p)
      PROVE  CompleteInv'
  <2> DEFINE next == [proc[s] EXCEPT !.pc = "sidecar", !.patch = p, !.todo = proc[s].snap.files]
  <2>1. s \in Procs /\ proc[s] \in ProcState /\ proc[s].pc = "propose" /\ shown[p] = NoTicket
    BY <1>3 DEF CreatePatchTicket, Procs, TypeOK
  <2>2. proc' = [proc EXCEPT ![s] = next]
    BY <1>3, <2>1 DEF CreatePatchTicket, TypeOK
  <2>3. next.pc = "sidecar"
    BY <2>1 DEF ProcState
  <2> HIDE DEF next
  <2>4. ShownStays /\ Progress(next, shown', wrote')
    BY <1>3, <2>1, <2>3 DEF CreatePatchTicket, ShownStays, Progress, TypeOK
  <2>5. AppliedOnDisk'
    <3> SUFFICES ASSUME NEW q \in Patches, ticket'[q] # NoTicket, ticket'[q].status = "applied"
                 PROVE  Complete(q, shown', wrote')
      BY DEF AppliedOnDisk
    <3>1. q # p
      BY <1>3, <2>1 DEF CreatePatchTicket, TypeOK, CompleteInv, Progress
    <3>2. QED
      BY <1>3, <2>4, <3>1, CompleteGrows DEF CreatePatchTicket, TypeOK, CompleteInv, AppliedOnDisk
  <2>6. QED
    BY <2>1, <2>2, <2>4, <2>5, ProgressStep DEF CompleteInv
<1>4. ASSUME NEW s \in Servers, NEW f \in Files, WritePatchPayload(s, f)
      PROVE  CompleteInv'
  <2>1. s \in Procs /\ proc[s] \in ProcState /\ proc[s].pc = "sidecar"
    BY <1>4 DEF WritePatchPayload, Procs, TypeOK
  <2>2. ~ Owes([proc[s] EXCEPT !.todo = proc[s].todo \ {f}])
    BY <2>1 DEF Owes, ProcState
  <2>3. QED
    BY <1>4, <2>1, <2>2, IdleFree, FreeStep DEF WritePatchPayload, Visit
<1>5. ASSUME NEW s \in Servers, NEW p \in Patches, ApplyStart(s, p)
      PROVE  CompleteInv'
  <2> DEFINE run  == [Idle EXCEPT !.patch = p, !.snap = ticket[p]]
             go   == [run EXCEPT !.pc = "fresh", !.todo = ticket[p].files]
             stop == [run EXCEPT !.pc = "update", !.upd = SetStatus("expired")]
  <2>1. s \in Procs
    BY DEF Procs
  <2>2. ~ Owes(go) /\ ~ Owes(stop)
    BY DEF Owes, Idle, SetStatus, Keep
  <2>3. proc' = [proc EXCEPT ![s] = go] \/ proc' = [proc EXCEPT ![s] = stop]
    BY <1>5 DEF ApplyStart
  <2> HIDE DEF go, stop
  <2>4. QED
    BY <1>5, <2>1, <2>2, <2>3, FreeStep DEF ApplyStart
<1>6. ASSUME NEW s \in Servers, NEW f \in Files, FreshnessCheck(s, f)
      PROVE  CompleteInv'
  <2>1. s \in Procs /\ proc[s] \in ProcState /\ proc[s].pc = "fresh"
    BY <1>6 DEF FreshnessCheck, Procs, TypeOK
  <2>2. /\ ~ Owes([proc[s] EXCEPT !.todo = proc[s].todo \ {f}])
        /\ ~ Owes([proc[s] EXCEPT !.pc = "verify", !.todo = proc[s].snap.files])
        /\ ~ Owes([proc[s] EXCEPT !.pc = "reread", !.todo = {}])
    BY <2>1 DEF Owes, ProcState
  <2>3. ~ Owes(Gate(s))
    BY <2>1, <2>2, UpdateFree DEF Gate
  <2>4. QED
    BY <1>6, <2>1, <2>2, <2>3, IdleFree, FreeStep DEF FreshnessCheck, Visit, Return
<1>7. ASSUME NEW s \in Servers, RereadApproval(s)
      PROVE  CompleteInv'
  <2>1. s \in Procs /\ proc[s] \in ProcState
    BY <1>7 DEF RereadApproval, Procs, TypeOK
  <2>2. ~ Owes([proc[s] EXCEPT !.pc = "verify", !.todo = proc[s].snap.files])
    BY <2>1 DEF Owes, ProcState
  <2>3. ~ Owes(OnLatest(s, ticket[proc[s].patch]))
    BY <2>1, <2>2, IdleFree, UpdateFree DEF OnLatest
  <2>4. QED
    BY <1>7, <2>1, <2>3, IdleFree, FreeStep DEF RereadApproval
<1>8. ASSUME NEW s \in Servers, NEW f \in Files, VerifyPayload(s, f)
      PROVE  CompleteInv'
  <2>1. s \in Procs /\ proc[s] \in ProcState /\ proc[s].pc = "verify"
    BY <1>8 DEF VerifyPayload, Procs, TypeOK
  <2> DEFINE run  == [proc[s] EXCEPT !.buf[f] = payload[proc[s].patch][f]]
             last == [run EXCEPT !.pc = "write", !.todo = proc[s].snap.files]
             more == [run EXCEPT !.todo = run.todo \ {f}]
  <2>2. /\ last.pc = "write" /\ last.snap = proc[s].snap /\ last.todo = proc[s].snap.files
        /\ more.pc = "verify"
    BY <2>1 DEF ProcState
  <2>3. \/ proc' = [proc EXCEPT ![s] = Idle]
        \/ proc' = [proc EXCEPT ![s] = last]
        \/ proc' = [proc EXCEPT ![s] = more]
    BY <1>8 DEF VerifyPayload
  <2> HIDE DEF last, more, run
  <2>4. ShownStays /\ Progress(last, shown', wrote') /\ ~ Owes(more)
    BY <1>8, <2>2 DEF VerifyPayload, ShownStays, Progress, Owes
  <2>5. CASE proc' = [proc EXCEPT ![s] = last]
    BY <1>8, <2>1, <2>4, <2>5, ProgressStep DEF VerifyPayload, CompleteInv, AppliedOnDisk
  <2>6. QED
    BY <1>8, <2>1, <2>3, <2>4, <2>5, IdleFree, FreeStep DEF VerifyPayload
<1>9. ASSUME NEW s \in Servers, NEW f \in Files, WriteFile(s, f)
      PROVE  CompleteInv'
  <2> DEFINE r    == proc[s]
             done == BeginUpdate(s, SetStatus("applied"))
             more == [r EXCEPT !.todo = r.todo \ {f}]
  <2>1. s \in Procs /\ r \in ProcState /\ r.pc = "write" /\ f \in r.todo /\ r.patch \in Patches
    BY <1>9 DEF WriteFile, Procs, TypeOK
  <2>2. /\ Carries(r.snap, r.patch, shown) /\ r.todo \subseteq r.snap.files
        /\ r.buf[f] = r.snap.after[f]
    BY <2>1 DEF ApprovalInv, ProcsFaithful, Faithful, Verified
  <2>3. /\ wrote' = wrote \cup {[patch |-> r.patch, path |-> f, content |-> r.snap.after[f]]}
        /\ shown' = shown
    BY <1>9, <2>2 DEF WriteFile
  <2>4. \A g \in r.snap.files \ r.todo :
          [patch |-> r.patch, path |-> g, content |-> r.snap.after[g]] \in wrote
    BY <2>1 DEF CompleteInv, Progress
  <2>5. ShownStays
    BY <2>3 DEF ShownStays
  <2>6. ASSUME r.todo = {f}
        PROVE  Progress(done, shown', wrote')
    <3>1. done.pc = "update" /\ done.patch = r.patch
      BY <2>1 DEF BeginUpdate, ProcState
    <3>2. Complete(r.patch, shown', wrote')
      BY <2>2, <2>3, <2>4, <2>6 DEF Complete, Carries
    <3> HIDE DEF done, r
    <3>3. QED
      BY <3>1, <3>2 DEF Progress
  <2>7. Progress(more, shown', wrote')
    <3>1. /\ more.pc = "write" /\ more.patch = r.patch /\ more.snap = r.snap
          /\ more.todo = r.todo \ {f}
      BY <2>1 DEF ProcState
    <3> HIDE DEF more, r
    <3>2. QED
      BY <2>3, <2>4, <3>1 DEF Progress
  <2>8. \/ r.todo = {f} /\ proc' = [proc EXCEPT ![s] = done]
        \/ proc' = [proc EXCEPT ![s] = more]
    BY <1>9 DEF WriteFile, Visit
  <2> HIDE DEF done, more, r
  <2>9. \A y \in Procs : Progress(proc'[y], shown', wrote')
    BY <2>1, <2>5, <2>6, <2>7, <2>8, ProgressStep
  <2>10. AppliedOnDisk'
    BY <1>9, <2>5, CompleteGrows DEF WriteFile, CompleteInv, AppliedOnDisk
  <2>11. QED
    BY <2>9, <2>10 DEF CompleteInv
<1>10. ASSUME NEW s \in Servers, NEW p \in Patches, SweepList(s, p)
       PROVE  CompleteInv'
  <2> DEFINE next == [Idle EXCEPT !.pc = "sweep", !.patch = p]
  <2>1. s \in Procs /\ proc' = [proc EXCEPT ![s] = next] /\ ~ Owes(next)
    BY <1>10 DEF SweepList, Procs, Idle, Owes
  <2> HIDE DEF next
  <2>2. QED
    BY <1>10, <2>1, FreeStep DEF SweepList
<1>11. ASSUME NEW s \in Servers, DeletePatchTicket(s)
       PROVE  CompleteInv'
  <2>1. s \in Procs /\ proc[s].patch \in Patches /\ proc' = [proc EXCEPT ![s] = Idle]
    BY <1>11 DEF DeletePatchTicket, Procs, TypeOK, Return
  <2>2. ShownStays /\ Progress(Idle, shown', wrote')
    BY <1>11 DEF DeletePatchTicket, ShownStays, Progress, Idle
  <2>3. AppliedOnDisk'
    BY <1>11, <2>1 DEF DeletePatchTicket, TypeOK, CompleteInv, AppliedOnDisk
  <2>4. QED
    BY <2>1, <2>2, <2>3, ProgressStep DEF CompleteInv
<1>12. ASSUME NEW d \in Deciders, DeciderStep(d)
       PROVE  CompleteInv'
  <2>1. PICK p \in Patches, u \in {[Keep EXCEPT !.approval = "approved"],
                                   [status |-> "rejected", approval |-> "rejected"]} :
          Decide(d, p, u)
    BY <1>12 DEF DeciderStep, ApprovePatchTicket, RejectPatchTicket
  <2>2. u.status # "applied"
    BY <2>1 DEF Keep
  <2> DEFINE next == [Idle EXCEPT !.pc = "update", !.patch = p, !.upd = u]
  <2>3. d \in Procs /\ proc' = [proc EXCEPT ![d] = next] /\ next.pc = "update" /\ next.upd = u
    BY <2>1 DEF Decide, Procs, Idle
  <2> HIDE DEF next
  <2>4. ~ Owes(next)
    BY <2>2, <2>3 DEF Owes
  <2>5. QED
    BY <2>1, <2>3, <2>4, FreeStep DEF Decide
<1>13. ASSUME NEW x \in Procs, UpdateRead(x)
       PROVE  CompleteInv'
  <2>1. proc[x] \in ProcState /\ proc[x].patch \in Patches /\ proc[x].pc = "update"
    BY <1>13 DEF UpdateRead, TypeOK
  <2> DEFINE next == [proc[x] EXCEPT !.pc = "rename", !.current = ticket[proc[x].patch]]
  <2>2. /\ next.pc = "rename" /\ next.patch = proc[x].patch
        /\ next.current = ticket[proc[x].patch] /\ next.upd = proc[x].upd
    BY <2>1 DEF ProcState
  <2>3. CASE ticket[proc[x].patch] = NoTicket
    BY <1>13, <2>3, IdleFree, FreeStep DEF UpdateRead, Return
  <2>4. CASE ticket[proc[x].patch] # NoTicket
    <3>1. proc' = [proc EXCEPT ![x] = next]
      BY <1>13, <2>4 DEF UpdateRead, TypeOK
    <3> HIDE DEF next
    <3>2. Progress(next, shown', wrote') /\ ShownStays
      BY <1>13, <2>1, <2>2, <2>4
      DEF UpdateRead, Progress, CompleteInv, AppliedOnDisk, ShownStays
    <3>3. QED
      BY <1>13, <3>1, <3>2, ProgressStep DEF UpdateRead, CompleteInv, AppliedOnDisk
  <2>5. QED
    BY <2>3, <2>4
<1>14. ASSUME NEW x \in Procs, UpdateRename(x)
       PROVE  CompleteInv'
  <2> DEFINE p == proc[x].patch
             t == Merged(proc[x].current, proc[x].upd)
  <2>1. proc[x] \in ProcState /\ p \in Patches /\ proc[x].pc = "rename"
    BY <1>14 DEF UpdateRename, TypeOK
  <2>2. t.status = "applied" =>
          proc[x].current.status = "applied" \/ proc[x].upd.status = "applied"
    BY <2>1 DEF Merged, ProcState, Ticket
  <2>3. t.status = "applied" => Complete(p, shown, wrote)
    BY <2>1, <2>2 DEF CompleteInv, Progress
  <2>4. /\ ticket' = [ticket EXCEPT ![p] = t] /\ proc' = [proc EXCEPT ![x] = Idle]
        /\ UNCHANGED <<shown, wrote>>
    BY <1>14 DEF UpdateRename, Return
  <2> HIDE DEF t
  <2>5. AppliedOnDisk'
    BY <2>1, <2>3, <2>4 DEF TypeOK, CompleteInv, AppliedOnDisk
  <2>6. ShownStays /\ Progress(Idle, shown', wrote')
    BY <2>4 DEF ShownStays, Progress, Idle
  <2>7. QED
    BY <2>4, <2>5, <2>6, ProgressStep DEF CompleteInv
<1>15. CASE Environment
  <2>1. ASSUME NEW x \in Procs, Crash(x)
        PROVE  CompleteInv'
    BY <2>1, IdleFree, FreeStep DEF Crash, Return
  <2>2. ASSUME UNCHANGED <<ticket, proc, shown, wrote>>
        PROVE  CompleteInv'
    BY <2>2 DEF CompleteInv, AppliedOnDisk
  <2>3. QED
    BY <1>15, <2>1, <2>2 DEF Environment, GrowOlder, EditFile, TamperPayload
<1>16. CASE UNCHANGED vars
  BY <1>16 DEF vars, CompleteInv, AppliedOnDisk
<1>17. QED
  BY <1>1, <1>2, <1>3, <1>4, <1>5, <1>6, <1>7, <1>8, <1>9, <1>10, <1>11, <1>12, <1>13,
     <1>14, <1>15, <1>16
  DEF Next, ServerStep, UpdateStep

\* A ticket that says "applied" has every file of its diff written, wherever a
\* session died between the renames and the update of the ticket, and however
\* many sessions and deciders updated the ticket at once.
THEOREM AppliedMeansWritten == Spec => []AppliedIsComplete
<1>1. Init => ApprovalInv /\ CompleteInv
  <2>1. Init => ApprovalInv
    BY IdleFaithful DEF Init, ApprovalInv, TicketsSound, ProcsFaithful, ApprovedDiffOnly
  <2>2. Progress(Idle, shown, wrote)
    BY DEF Progress, Idle
  <2>3. Init => CompleteInv
    BY <2>2 DEF Init, CompleteInv, AppliedOnDisk
  <2>4. QED
    BY <2>1, <2>3
<1>2. ApprovalInv /\ CompleteInv => AppliedIsComplete
  BY DEF ApprovalInv, TicketsSound, Sound, Carries, CompleteInv, AppliedOnDisk, Complete,
         AppliedIsComplete
<1>3. TypeOK /\ ApprovalInv /\ CompleteInv /\ [Next]_vars => CompleteInv'
  BY CompleteInvariance
<1>4. QED
  BY <1>1, <1>2, <1>3, TypeCorrect, ApprovalInvariance, PTL DEF Spec

-----------------------------------------------------------------------------
(* One operation at a time (Overlap = FALSE).  Then what an operation read   *)
(* at its start is still so when it acts on it: the ticket it holds is the   *)
(* one on disk, the files it found fresh are fresh, and the update it is in  *)
(* the middle of is an edge of the status diagram.                           *)

\* An update that the diagram of PatchLifecycle has an edge for.
Permitted(u, t) ==
  \/ u.status \in {"awaiting_approval", "expired"} /\ u.approval = "keep"
  \/ u.status = "keep" /\ u.approval = "approved"
  \/ u.status = "rejected" /\ u.approval = "rejected"
  \/ u.status = "rejected" /\ u.approval = "keep" /\ t.approval = "rejected"
  \/ u.status = "applied" /\ u.approval = "keep" /\ t.approval = "approved"

\* What an operation knows of the tickets tk and the files fl.
Solo(r, tk, fl) ==
  /\ r.pc = "propose" => r.snap.status = "proposed" /\ r.snap.approval = "pending"
  /\ r.pc \in {"fresh", "reread", "verify", "write"} =>
       tk[r.patch] = r.snap /\ r.snap.status \in Live
  /\ r.pc = "fresh" => \A f \in r.snap.files \ r.todo : fl[f] = r.snap.before[f]
  /\ r.pc \in {"reread", "verify"} => \A f \in r.snap.files : fl[f] = r.snap.before[f]
  /\ r.pc = "write" => \A f \in r.todo : fl[f] = r.snap.before[f]
  /\ r.pc \in {"verify", "write"} => r.snap.approval = "approved"
  /\ r.pc \in {"update", "rename"} =>
       tk[r.patch] # NoTicket /\ tk[r.patch].status \in Live /\ Permitted(r.upd, tk[r.patch])
  /\ r.pc = "rename" => r.current = tk[r.patch]
  /\ r.pc = "sweep" => tk[r.patch] # NoTicket /\ tk[r.patch].status \in Terminal

SoloInv ==
  /\ \A x, y \in Procs : proc[x].pc # "idle" /\ proc[y].pc # "idle" => x = y
  /\ \A x \in Procs : Solo(proc[x], ticket, file)

LEMMA IdleSolo ==
  ASSUME NEW tk, NEW fl
  PROVE  Solo(Idle, tk, fl)
BY DEF Solo, Idle

LEMMA SoloStep ==
  ASSUME TypeOK, NEW x \in Procs, \A y \in Procs \ {x} : proc[y].pc = "idle",
         NEW next, proc' = [proc EXCEPT ![x] = next], Solo(next, ticket', file')
  PROVE  SoloInv'
<1>1. proc'[x] = next /\ \A y \in Procs \ {x} : proc'[y] = proc[y]
  BY DEF TypeOK
<1>2. \A y \in Procs \ {x} : Solo(proc'[y], ticket', file')
  BY <1>1 DEF Solo
<1>3. QED
  BY <1>1, <1>2 DEF SoloInv

\* A running operation is the only one; one can only start when there is none.
LEMMA Alone ==
  ASSUME SoloInv, Overlap = FALSE, NEW x \in Procs, proc[x].pc # "idle" \/ CanStart(x)
  PROVE  \A y \in Procs \ {x} : proc[y].pc = "idle"
BY DEF SoloInv, CanStart, Quiet

\* Entering an update that the diagram permits.
LEMMA BeginUpdateSolo ==
  ASSUME TypeOK, NEW x \in Procs, proc[x].patch \in Patches, NEW u,
         ticket[proc[x].patch] # NoTicket, ticket[proc[x].patch].status \in Live,
         Permitted(u, ticket[proc[x].patch]), NEW fl
  PROVE  Solo(BeginUpdate(x, u), ticket, fl)
<1>1. /\ BeginUpdate(x, u).pc = "update" /\ BeginUpdate(x, u).upd = u
      /\ BeginUpdate(x, u).patch = proc[x].patch
  BY DEF BeginUpdate, TypeOK, ProcState
<1>2. QED
  BY <1>1 DEF Solo

LEMMA SetStatusFields ==
  ASSUME NEW st
  PROVE  SetStatus(st).status = st /\ SetStatus(st).approval = "keep"
BY DEF SetStatus, Keep

\* The inductive invariant, one step per handler.
LEMMA SoloInvariance ==
  ASSUME Overlap = FALSE, TypeOK, ApprovalInv, SoloInv, [Next]_vars
  PROVE  SoloInv'
<1>1. ASSUME NEW s \in Servers, NEW fs \in SUBSET Files, NEW new \in [fs -> Contents],
             ProposeStart(s, fs, new)
      PROVE  SoloInv'
  <2> DEFINE next == [Idle EXCEPT !.pc = "propose", !.snap = Draft(fs, new), !.todo = fs]
  <2>1. s \in Procs /\ proc' = [proc EXCEPT ![s] = next] /\ CanStart(s)
    BY <1>1 DEF ProposeStart, Procs
  <2>2. next.pc = "propose" /\ next.snap.status = "proposed" /\ next.snap.approval = "pending"
    BY DEF Idle, Draft
  <2> HIDE DEF next
  <2>3. Solo(next, ticket', file')
    BY <2>2 DEF Solo
  <2>4. QED
    BY <2>1, <2>3, Alone, SoloStep
<1>2. ASSUME NEW s \in Servers, NEW f \in Files, ReadBefore(s, f)
      PROVE  SoloInv'
  <2>1. s \in Procs /\ proc[s] \in ProcState /\ proc[s].pc = "propose"
    BY <1>2 DEF ReadBefore, Procs, TypeOK
  <2> DEFINE read == [proc[s] EXCEPT !.snap.before[f] = file[f], !.todo = proc[s].todo \ {f}]
  <2>2. proc' = [proc EXCEPT ![s] = read]
    BY <1>2, <2>1 DEF ReadBefore, TypeOK
  <2>3. read.pc = "propose" /\ read.snap = [proc[s].snap EXCEPT !.before[f] = file[f]]
        /\ proc[s].snap \in Ticket
    BY <2>1 DEF ProcState
  <2> HIDE DEF read
  <2>4. read.snap.status = proc[s].snap.status /\ read.snap.approval = proc[s].snap.approval
    BY <2>3 DEF Ticket
  <2>5. Solo(read, ticket', file')
    BY <2>1, <2>3, <2>4 DEF Solo, SoloInv
  <2>6. QED
    BY <2>1, <2>2, <2>5, Alone, SoloStep
<1>3. ASSUME NEW s \in Servers, NEW p \in Patches, CreatePatchTicket(s, p)
      PROVE  SoloInv'
  <2> DEFINE next == [proc[s] EXCEPT !.pc = "sidecar", !.patch = p, !.todo = proc[s].snap.files]
  <2>1. s \in Procs /\ proc[s] \in ProcState /\ proc[s].pc = "propose"
    BY <1>3 DEF CreatePatchTicket, Procs, TypeOK
  <2>2. proc' = [proc EXCEPT ![s] = next]
    BY <1>3, <2>1 DEF CreatePatchTicket, TypeOK
  <2>3. next.pc = "sidecar"
    BY <2>1 DEF ProcState
  <2> HIDE DEF next
  <2>4. Solo(next, ticket', file')
    BY <2>3 DEF Solo
  <2>5. QED
    BY <2>1, <2>2, <2>4, Alone, SoloStep
<1>4. ASSUME NEW s \in Servers, NEW f \in Files, WritePatchPayload(s, f)
      PROVE  SoloInv'
  <2>1. s \in Procs /\ proc[s] \in ProcState /\ proc[s].pc = "sidecar"
    BY <1>4 DEF WritePatchPayload, Procs, TypeOK
  <2> DEFINE more == [proc[s] EXCEPT !.todo = proc[s].todo \ {f}]
  <2>2. more.pc = "sidecar"
    BY <2>1 DEF ProcState
  <2>3. proc' = [proc EXCEPT ![s] = Idle] \/ proc' = [proc EXCEPT ![s] = more]
    BY <1>4 DEF WritePatchPayload, Visit
  <2> HIDE DEF more
  <2>4. Solo(more, ticket', file')
    BY <2>2 DEF Solo
  <2>5. QED
    BY <2>1, <2>3, <2>4, IdleSolo, Alone, SoloStep
<1>5. ASSUME NEW s \in Servers, NEW p \in Patches, ApplyStart(s, p)
      PROVE  SoloInv'
  <2> DEFINE run  == [Idle EXCEPT !.patch = p, !.snap = ticket[p]]
             go   == [run EXCEPT !.pc = "fresh", !.todo = ticket[p].files]
             stop == [run EXCEPT !.pc = "update", !.upd = SetStatus("expired")]
  <2>1. s \in Procs /\ CanStart(s) /\ ticket[p] # NoTicket /\ ticket[p] \in Ticket
        /\ ticket[p].status \in Live /\ UNCHANGED <<ticket, file>>
    BY <1>5 DEF ApplyStart, Procs, TypeOK, Ticket
  <2>2. /\ go.pc = "fresh" /\ go.patch = p /\ go.snap = ticket[p] /\ go.todo = ticket[p].files
        /\ stop.pc = "update" /\ stop.patch = p /\ stop.upd = SetStatus("expired")
    BY DEF Idle
  <2>3. proc' = [proc EXCEPT ![s] = go] \/ proc' = [proc EXCEPT ![s] = stop]
    BY <1>5 DEF ApplyStart
  <2> HIDE DEF go, stop
  <2>4. Solo(go, ticket', file')
    BY <2>1, <2>2 DEF Solo
  <2>5. Solo(stop, ticket', file')
    BY <2>1, <2>2, SetStatusFields DEF Solo, Permitted
  <2>6. QED
    BY <2>1, <2>3, <2>4, <2>5, Alone, SoloStep
<1>6. ASSUME NEW s \in Servers, NEW f \in Files, FreshnessCheck(s, f)
      PROVE  SoloInv'
  <2> DEFINE r    == proc[s]
             more == [r EXCEPT !.todo = r.todo \ {f}]
             ver  == [r EXCEPT !.pc = "verify", !.todo = r.snap.files]
             rer  == [r EXCEPT !.pc = "reread", !.todo = {}]
  <2>1. s \in Procs /\ r \in ProcState /\ r.pc = "fresh" /\ r.patch \in Patches
        /\ UNCHANGED <<ticket, file>>
    BY <1>6 DEF FreshnessCheck, Procs, TypeOK
  <2>2. /\ ticket[r.patch] = r.snap /\ r.snap.status \in Live
        /\ \A g \in r.snap.files \ r.todo : file[g] = r.snap.before[g]
        /\ r.snap.requiresApproval = TRUE /\ r.snap \in Ticket
    BY <2>1 DEF SoloInv, Solo, ApprovalInv, ProcsFaithful, Faithful, Carries, ProcState
  <2>3. /\ more.pc = "fresh" /\ more.patch = r.patch /\ more.snap = r.snap
        /\ more.todo = r.todo \ {f}
        /\ rer.pc = "reread" /\ rer.patch = r.patch /\ rer.snap = r.snap
    BY <2>1 DEF ProcState
  <2>4. \/ proc' = [proc EXCEPT ![s] = Idle]
        \/ file[f] = r.snap.before[f] /\ proc' = [proc EXCEPT ![s] = more]
        \/ /\ file[f] = r.snap.before[f] /\ r.todo = {f}
           /\ proc' = [proc EXCEPT ![s] = Gate(s)]
    BY <1>6 DEF FreshnessCheck, Visit, Return
  <2>5. file[f] = r.snap.before[f] => Solo(more, ticket', file')
    <3> HIDE DEF more, r
    <3>1. QED
      BY <2>1, <2>2, <2>3 DEF Solo
  <2>6. file[f] = r.snap.before[f] /\ r.todo = {f} => Solo(rer, ticket', file')
    <3> HIDE DEF rer, r
    <3>1. QED
      BY <2>1, <2>2, <2>3 DEF Solo
  <2>7. Solo(BeginUpdate(s, SetStatus("awaiting_approval")), ticket', file')
    <3>1. Permitted(SetStatus("awaiting_approval"), ticket[r.patch])
      BY SetStatusFields DEF Permitted
    <3>2. ticket[r.patch] # NoTicket
      BY <2>2, NoTicketAssumption
    <3>3. QED
      BY <2>1, <2>2, <3>1, <3>2, BeginUpdateSolo
  <2>8. Gate(s) \in {BeginUpdate(s, SetStatus("awaiting_approval")), rer}
    BY <2>2 DEF Gate
  <2> HIDE DEF more, rer, r
  <2>9. QED
    BY <2>1, <2>4, <2>5, <2>6, <2>7, <2>8, IdleSolo, Alone, SoloStep DEF r
<1>7. ASSUME NEW s \in Servers, RereadApproval(s)
      PROVE  SoloInv'
  <2> DEFINE r  == proc[s]
             go == [r EXCEPT !.pc = "verify", !.todo = r.snap.files]
  <2>1. s \in Procs /\ r \in ProcState /\ r.pc = "reread" /\ r.patch \in Patches
        /\ UNCHANGED <<ticket, file>>
    BY <1>7 DEF RereadApproval, Procs, TypeOK
  <2>2. /\ ticket[r.patch] = r.snap /\ r.snap.status \in Live /\ r.snap \in Ticket
        /\ \A g \in r.snap.files : file[g] = r.snap.before[g]
    BY <2>1 DEF SoloInv, Solo, ProcState
  <2>3. go.pc = "verify" /\ go.patch = r.patch /\ go.snap = r.snap
    BY <2>1 DEF ProcState
  <2>4. r.snap.approval = "approved" => Solo(go, ticket', file')
    <3> HIDE DEF go, r
    <3>1. QED
      BY <2>1, <2>2, <2>3 DEF Solo
  <2>5. r.snap.approval = "rejected" => Solo(BeginUpdate(s, SetStatus("rejected")), ticket', file')
    <3>1. r.snap.approval = "rejected" => Permitted(SetStatus("rejected"), ticket[r.patch])
      BY <2>2, SetStatusFields DEF Permitted
    <3>2. ticket[r.patch] # NoTicket
      BY <2>2, NoTicketAssumption
    <3>3. QED
      BY <2>1, <2>2, <3>1, <3>2, BeginUpdateSolo
  <2>6. \/ proc' = [proc EXCEPT ![s] = Idle]
        \/ r.snap.approval = "approved" /\ proc' = [proc EXCEPT ![s] = go]
        \/ /\ r.snap.approval = "rejected"
           /\ proc' = [proc EXCEPT ![s] = BeginUpdate(s, SetStatus("rejected"))]
    <3>1. \/ proc' = [proc EXCEPT ![s] = Idle]
          \/ proc' = [proc EXCEPT ![s] = OnLatest(s, r.snap)]
      BY <1>7, <2>2 DEF RereadApproval
    <3>2. \/ OnLatest(s, r.snap) = Idle
          \/ r.snap.approval = "approved" /\ OnLatest(s, r.snap) = go
          \/ /\ r.snap.approval = "rejected"
             /\ OnLatest(s, r.snap) = BeginUpdate(s, SetStatus("rejected"))
      BY DEF OnLatest
    <3>3. QED
      BY <3>1, <3>2
  <2> HIDE DEF go, r
  <2>7. QED
    BY <2>1, <2>4, <2>5, <2>6, IdleSolo, Alone, SoloStep DEF r
<1>8. ASSUME NEW s \in Servers, NEW f \in Files, VerifyPayload(s, f)
      PROVE  SoloInv'
  <2> DEFINE r    == proc[s]
             run  == [r EXCEPT !.buf[f] = payload[r.patch][f]]
             last == [run EXCEPT !.pc = "write", !.todo = r.snap.files]
             more == [run EXCEPT !.todo = run.todo \ {f}]
  <2>1. s \in Procs /\ r \in ProcState /\ r.pc = "verify" /\ UNCHANGED <<ticket, file>>
    BY <1>8 DEF VerifyPayload, Procs, TypeOK
  <2>2. /\ last.pc = "write" /\ last.snap = r.snap /\ last.todo = r.snap.files
        /\ last.patch = r.patch
        /\ more.pc = "verify" /\ more.snap = r.snap /\ more.patch = r.patch
    BY <2>1 DEF ProcState
  <2>3. \/ proc' = [proc EXCEPT ![s] = Idle]
        \/ proc' = [proc EXCEPT ![s] = last]
        \/ proc' = [proc EXCEPT ![s] = more]
    BY <1>8 DEF VerifyPayload
  <2>4. Solo(r, ticket, file)
    BY <2>1 DEF SoloInv
  <2> HIDE DEF last, more, run, r
  <2>5. Solo(last, ticket', file') /\ Solo(more, ticket', file')
    BY <2>1, <2>2, <2>4 DEF Solo
  <2>6. QED
    BY <2>1, <2>3, <2>5, IdleSolo, Alone, SoloStep DEF r
<1>9. ASSUME NEW s \in Servers, NEW f \in Files, WriteFile(s, f)
      PROVE  SoloInv'
  <2> DEFINE r    == proc[s]
             done == BeginUpdate(s, SetStatus("applied"))
             more == [r EXCEPT !.todo = r.todo \ {f}]
  <2>1. s \in Procs /\ r \in ProcState /\ r.pc = "write" /\ r.patch \in Patches
        /\ r.snap \in Ticket /\ r.todo \subseteq Files
    BY <1>9 DEF WriteFile, Procs, TypeOK, ProcState
  <2>2. /\ ticket[r.patch] = r.snap /\ r.snap.status \in Live /\ r.snap.approval = "approved"
        /\ \A g \in r.todo : file[g] = r.snap.before[g]
    BY <2>1 DEF SoloInv, Solo
  <2>3. ticket' = ticket /\ \A g \in r.todo \ {f} : file'[g] = file[g]
    BY <1>9, <2>1 DEF WriteFile, TypeOK
  <2>4. Solo(done, ticket', file')
    <3>1. Permitted(SetStatus("applied"), ticket[r.patch])
      BY <2>2, SetStatusFields DEF Permitted
    <3>2. ticket[r.patch] # NoTicket
      BY <2>1, <2>2, NoTicketAssumption
    <3>3. QED
      BY <2>1, <2>2, <2>3, <3>1, <3>2, BeginUpdateSolo
  <2>5. /\ more.pc = "write" /\ more.snap = r.snap /\ more.patch = r.patch
        /\ more.todo = r.todo \ {f}
    BY <2>1 DEF ProcState
  <2>6. proc' = [proc EXCEPT ![s] = done] \/ proc' = [proc EXCEPT ![s] = more]
    BY <1>9 DEF WriteFile, Visit
  <2> HIDE DEF done, more, r
  <2>7. Solo(more, ticket', file')
    BY <2>2, <2>3, <2>5 DEF Solo
  <2>8. QED
    BY <2>1, <2>4, <2>6, <2>7, Alone, SoloStep DEF r
<1>10. ASSUME NEW s \in Servers, NEW p \in Patches, SweepList(s, p)
       PROVE  SoloInv'
  <2> DEFINE next == [Idle EXCEPT !.pc = "sweep", !.patch = p]
  <2>1. s \in Procs /\ proc' = [proc EXCEPT ![s] = next] /\ CanStart(s)
        /\ next.pc = "sweep" /\ next.patch = p
    BY <1>10 DEF SweepList, Procs, Idle
  <2> HIDE DEF next
  <2>2. Solo(next, ticket', file')
    BY <1>10, <2>1 DEF SweepList, ShouldRemove, Solo, Terminal
  <2>3. QED
    BY <2>1, <2>2, Alone, SoloStep
<1>11. ASSUME NEW s \in Servers, DeletePatchTicket(s)
       PROVE  SoloInv'
  <2>1. s \in Procs /\ proc[s].pc # "idle" /\ proc' = [proc EXCEPT ![s] = Idle]
    BY <1>11 DEF DeletePatchTicket, Procs, Return
  <2>2. QED
    BY <2>1, IdleSolo, Alone, SoloStep
<1>12. ASSUME NEW d \in Deciders, DeciderStep(d)
       PROVE  SoloInv'
  <2>1. PICK p \in Patches, u \in {[Keep EXCEPT !.approval = "approved"],
                                   [status |-> "rejected", approval |-> "rejected"]} :
          Decide(d, p, u)
    BY <1>12 DEF DeciderStep, ApprovePatchTicket, RejectPatchTicket
  <2>2. Permitted(u, ticket[p])
    BY <2>1 DEF Keep, Permitted
  <2> DEFINE next == [Idle EXCEPT !.pc = "update", !.patch = p, !.upd = u]
  <2>3. /\ d \in Procs /\ proc' = [proc EXCEPT ![d] = next] /\ CanStart(d)
        /\ next.pc = "update" /\ next.upd = u /\ next.patch = p
    BY <2>1 DEF Decide, Procs, Idle
  <2> HIDE DEF next
  <2>4. Solo(next, ticket', file')
    BY <2>1, <2>2, <2>3 DEF Decide, Solo
  <2>5. QED
    BY <2>3, <2>4, Alone, SoloStep
<1>13. ASSUME NEW x \in Procs, UpdateRead(x)
       PROVE  SoloInv'
  <2> DEFINE next == [proc[x] EXCEPT !.pc = "rename", !.current = ticket[proc[x].patch]]
  <2>1. proc[x] \in ProcState /\ proc[x].pc = "update" /\ UNCHANGED <<ticket, file>>
    BY <1>13 DEF UpdateRead, TypeOK
  <2>2. /\ next.pc = "rename" /\ next.patch = proc[x].patch
        /\ next.current = ticket[proc[x].patch] /\ next.upd = proc[x].upd
    BY <2>1 DEF ProcState
  <2>3. proc' = [proc EXCEPT ![x] = Idle] \/ proc' = [proc EXCEPT ![x] = next]
    BY <1>13 DEF UpdateRead, Return, TypeOK
  <2> HIDE DEF next
  <2>4. Solo(next, ticket', file')
    BY <2>1, <2>2 DEF SoloInv, Solo
  <2>5. QED
    BY <2>1, <2>3, <2>4, IdleSolo, Alone, SoloStep
<1>14. ASSUME NEW x \in Procs, UpdateRename(x)
       PROVE  SoloInv'
  BY <1>14, IdleSolo, Alone, SoloStep DEF UpdateRename, Return
<1>15. CASE Environment
  <2>1. ASSUME NEW x \in Procs, Crash(x)
        PROVE  SoloInv'
    BY <2>1, IdleSolo, Alone, SoloStep DEF Crash, Return
  <2>2. ASSUME UNCHANGED <<ticket, proc, file>>
        PROVE  SoloInv'
    BY <2>2 DEF SoloInv
  <2>3. ASSUME NEW f \in Files, NEW c \in Content, EditFile(f, c)
        PROVE  SoloInv'
    <3>1. Quiet /\ proc' = proc
      BY <2>3 DEF EditFile
    <3>2. \A x \in Procs : Solo(proc'[x], ticket', file')
      BY <3>1 DEF Quiet, Solo
    <3>3. QED
      BY <3>1, <3>2 DEF SoloInv
  <2>4. QED
    BY <1>15, <2>1, <2>2, <2>3 DEF Environment, GrowOlder, TamperPayload
<1>16. CASE UNCHANGED vars
  BY <1>16 DEF vars, SoloInv
<1>17. QED
  BY <1>1, <1>2, <1>3, <1>4, <1>5, <1>6, <1>7, <1>8, <1>9, <1>10, <1>11, <1>12, <1>13,
     <1>14, <1>15, <1>16
  DEF Next, ServerStep, UpdateStep

LEMMA SoloInit == Init => ApprovalInv /\ SoloInv
<1>1. Init => ApprovalInv
  BY IdleFaithful DEF Init, ApprovalInv, TicketsSound, ProcsFaithful, ApprovedDiffOnly
<1>2. Init => \A x \in Procs : proc[x] = Idle
  BY DEF Init
<1>3. Init => SoloInv
  BY <1>2, IdleSolo DEF SoloInv, Idle
<1>4. QED
  BY <1>1, <1>3

\* What apply_patch overwrites is what propose_patch read, as long as sessions,
\* decisions and edits do not overlap: a file that changed since the proposal
\* ends the call before anything is written, also after a half-finished apply.
THEOREM NoStaleFileIsOverwritten ==
  ASSUME Overlap = FALSE
  PROVE  Spec => NoStaleWrite
<1>1. TypeOK /\ ApprovalInv /\ SoloInv /\ [Next]_vars => SoloInv'
  BY SoloInvariance
<1>2. SoloInv =>
        [\A s \in Servers, f \in Files :
           proc[s].pc = "write" /\ proc'[s].todo # proc[s].todo /\ f \in proc[s].todo
           /\ file'[f] # file[f] => file[f] = proc[s].snap.before[f]]_vars
  BY DEF SoloInv, Solo, Procs
<1>3. QED
  BY <1>1, <1>2, SoloInit, TypeCorrect, ApprovalInvariance, PTL DEF Spec, NoStaleWrite

-----------------------------------------------------------------------------
(* The refinement.  A ticket appears, is deleted or is renamed over in one   *)
(* step each; every other step leaves the diagram where it is.               *)

\* The ticket of p changes: its place in the diagram and its decision follow.
LEMMA TicketStep ==
  ASSUME TypeOK, NEW p \in Patches, NEW t, ticket' = [ticket EXCEPT ![p] = t], t # NoTicket,
         \A q \in Patches \ {p} : shown'[q] = shown[q],
         NEW from, StatusOf(p) \in from
  PROVE  /\ Lifecycle!Edge(p, from, t.status)
         /\ t.approval = DecisionOn(p) =>
              [q \in Patches |-> DecisionOn(q)]' = [q \in Patches |-> DecisionOn(q)]
         /\ [q \in Patches |-> DecisionOn(q)]'
              = [[q \in Patches |-> DecisionOn(q)] EXCEPT ![p] = t.approval]
         /\ t.status = StatusOf(p) =>
              [q \in Patches |-> StatusOf(q)]' = [q \in Patches |-> StatusOf(q)]
<1>1. ticket'[p] = t /\ \A q \in Patches \ {p} : ticket'[q] = ticket[q]
  BY DEF TypeOK
<1>2. \A q \in Patches \ {p} : StatusOf(q)' = StatusOf(q) /\ DecisionOn(q)' = DecisionOn(q)
  BY <1>1 DEF StatusOf, DecisionOn
<1>3. StatusOf(p)' = t.status /\ DecisionOn(p)' = t.approval
  BY <1>1 DEF StatusOf, DecisionOn
<1>4. QED
  BY <1>2, <1>3 DEF Lifecycle!Edge

\* Every step of the bridge is a step of the diagram, or none.
LEMMA LifecycleStep ==
  ASSUME Overlap = FALSE, TypeOK, ApprovalInv, SoloInv, [Next]_vars
  PROVE  [Lifecycle!Next]_(Lifecycle!lifecycleVars)
<1>1. ASSUME UNCHANGED <<ticket, shown>>
      PROVE  UNCHANGED Lifecycle!lifecycleVars
  BY <1>1 DEF Lifecycle!lifecycleVars, StatusOf, DecisionOn
<1>2. ASSUME NEW s \in Servers, NEW p \in Patches, CreatePatchTicket(s, p)
      PROVE  Lifecycle!Next
  <2>1. s \in Procs /\ proc[s].pc = "propose" /\ shown[p] = NoTicket /\ proc[s].snap \in Ticket
    BY <1>2 DEF CreatePatchTicket, Procs, TypeOK, ProcState
  <2>2. proc[s].snap.status = "proposed" /\ proc[s].snap.approval = "pending"
    BY <2>1 DEF SoloInv, Solo
  <2>3. ticket[p] = NoTicket
    BY <2>1 DEF ApprovalInv, TicketsSound, Sound, Carries
  <2>4. StatusOf(p) = "none" /\ DecisionOn(p) = "pending"
    BY <2>1, <2>3 DEF StatusOf, DecisionOn
  <2>5. /\ ticket' = [ticket EXCEPT ![p] = proc[s].snap] /\ proc[s].snap # NoTicket
        /\ \A q \in Patches \ {p} : shown'[q] = shown[q]
    BY <1>2, <2>1, NoTicketAssumption DEF CreatePatchTicket, TypeOK
  <2>6. StatusOf(p) \in {"none"}
    BY <2>4
  <2>7. PICK t : t = proc[s].snap
    OBVIOUS
  <2>8. /\ Lifecycle!Edge(p, {"none"}, t.status)
        /\ t.approval = DecisionOn(p) =>
             [q \in Patches |-> DecisionOn(q)]' = [q \in Patches |-> DecisionOn(q)]
    BY <2>5, <2>6, <2>7, TicketStep
  <2>9. Lifecycle!Propose(p)
    BY <2>2, <2>4, <2>7, <2>8 DEF Lifecycle!Propose
  <2>10. QED
    BY <2>9 DEF Lifecycle!Next
<1>3. ASSUME NEW s \in Servers, DeletePatchTicket(s)
      PROVE  Lifecycle!Next
  <2>1. s \in Procs /\ proc[s].patch \in Patches /\ proc[s].pc = "sweep"
    BY <1>3 DEF DeletePatchTicket, Procs, TypeOK
  <2>2. PICK p \in Patches : p = proc[s].patch
    BY <2>1
  <2>3. ticket[p] # NoTicket /\ ticket[p].status \in Terminal
    BY <2>1, <2>2 DEF SoloInv, Solo
  <2>4. shown[p] # NoTicket
    BY <2>3 DEF ApprovalInv, TicketsSound, Sound, Carries
  <2>5. shown' = shown /\ ticket'[p] = NoTicket
        /\ \A q \in Patches \ {p} : ticket'[q] = ticket[q]
    BY <1>3, <2>2 DEF DeletePatchTicket, TypeOK
  <2>6. StatusOf(p) \in Lifecycle!TerminalStatus
    BY <2>3 DEF StatusOf, Terminal, Lifecycle!TerminalStatus
  <2>7. StatusOf(p)' = "deleted" /\ DecisionOn(p)' = "pending"
    BY <2>4, <2>5 DEF StatusOf, DecisionOn
  <2>8. \A q \in Patches \ {p} : StatusOf(q)' = StatusOf(q) /\ DecisionOn(q)' = DecisionOn(q)
    BY <2>5 DEF StatusOf, DecisionOn
  <2>9. Lifecycle!Edge(p, Lifecycle!TerminalStatus, "deleted")
    BY <2>6, <2>7, <2>8 DEF Lifecycle!Edge
  <2>10. [q \in Patches |-> DecisionOn(q)]'
           = [[q \in Patches |-> DecisionOn(q)] EXCEPT ![p] = "pending"]
    BY <2>7, <2>8
  <2>11. Lifecycle!Delete(p)
    BY <2>9, <2>10 DEF Lifecycle!Delete
  <2>12. QED
    BY <2>11 DEF Lifecycle!Next
<1>4. ASSUME NEW x \in Procs, UpdateRename(x)
      PROVE  Lifecycle!Next
  <2>0. proc[x].patch \in Patches
    BY <1>4 DEF UpdateRename, TypeOK, ProcState
  <2> PICK p \in Patches, u \in {proc[x].upd}, t \in {Merged(proc[x].current, proc[x].upd)} :
        p = proc[x].patch /\ u = proc[x].upd /\ t = Merged(proc[x].current, u)
    BY <2>0
  <2>1. proc[x] \in ProcState /\ p \in Patches /\ proc[x].pc = "rename"
    BY <1>4 DEF UpdateRename, TypeOK
  <2>2. /\ ticket[p] # NoTicket /\ ticket[p].status \in Live /\ Permitted(u, ticket[p])
        /\ proc[x].current = ticket[p] /\ proc[x].current \in Ticket /\ u \in Update
    BY <2>1 DEF SoloInv, Solo, ProcState
  <2>3. t \in Ticket /\ t # NoTicket
    BY <2>2, MergedType, NoTicketAssumption
  <2>4. /\ t.status = IF u.status = "keep" THEN ticket[p].status ELSE u.status
        /\ t.approval = IF u.approval = "keep" THEN ticket[p].approval ELSE u.approval
    BY <2>2 DEF Merged, Ticket
  <2>5. StatusOf(p) = ticket[p].status /\ DecisionOn(p) = ticket[p].approval
    BY <2>2 DEF StatusOf, DecisionOn
  <2>6. ticket' = [ticket EXCEPT ![p] = t] /\ shown' = shown
    BY <1>4 DEF UpdateRename
  <2>7. StatusOf(p) \in Lifecycle!LiveStatus
    BY <2>2, <2>5 DEF Live, Lifecycle!LiveStatus
  <2>8. /\ Lifecycle!Edge(p, Lifecycle!LiveStatus, t.status)
        /\ t.approval = DecisionOn(p) =>
             [q \in Patches |-> DecisionOn(q)]' = [q \in Patches |-> DecisionOn(q)]
        /\ [q \in Patches |-> DecisionOn(q)]'
             = [[q \in Patches |-> DecisionOn(q)] EXCEPT ![p] = t.approval]
        /\ t.status = StatusOf(p) =>
             [q \in Patches |-> StatusOf(q)]' = [q \in Patches |-> StatusOf(q)]
    BY <2>1, <2>3, <2>6, <2>7, TicketStep
  <2>9. CASE u.status = "awaiting_approval" /\ u.approval = "keep"
    <3>1. Lifecycle!AwaitApproval(p)
      BY <2>4, <2>5, <2>8, <2>9 DEF Lifecycle!AwaitApproval
    <3>2. QED
      BY <2>1, <3>1 DEF Lifecycle!Next
  <2>10. CASE u.status = "expired" /\ u.approval = "keep"
    <3>1. Lifecycle!Expire(p)
      BY <2>4, <2>5, <2>8, <2>10 DEF Lifecycle!Expire
    <3>2. QED
      BY <2>1, <3>1 DEF Lifecycle!Next
  <2>11. CASE u.status = "keep" /\ u.approval = "approved"
    <3>1. Lifecycle!Approve(p)
      BY <2>1, <2>4, <2>5, <2>7, <2>8, <2>11 DEF Lifecycle!Approve
    <3>2. QED
      BY <2>1, <3>1 DEF Lifecycle!Next
  <2>12. CASE /\ u.status = "rejected"
              /\ u.approval = "rejected" \/ (u.approval = "keep" /\ ticket[p].approval = "rejected")
    <3>0. t.status = "rejected" /\ t.approval = "rejected"
      BY <2>4, <2>12
    <3>1. Lifecycle!Reject(p)
      BY <2>8, <3>0 DEF Lifecycle!Reject
    <3>2. QED
      BY <2>1, <3>1 DEF Lifecycle!Next
  <2>13. CASE u.status = "applied" /\ u.approval = "keep" /\ ticket[p].approval = "approved"
    <3>1. Lifecycle!Apply(p)
      BY <2>1, <2>4, <2>5, <2>8, <2>13 DEF Lifecycle!Apply
    <3>2. QED
      BY <2>1, <3>1 DEF Lifecycle!Next
  <2>14. QED
    BY <2>2, <2>9, <2>10, <2>11, <2>12, <2>13 DEF Permitted
<1>5. ASSUME NEW s \in Servers, ServerStep(s)
      PROVE  UNCHANGED <<ticket, shown>> \/ Lifecycle!Next
  BY <1>2, <1>3, <1>5
  DEF ServerStep, ProposeStart, ReadBefore, WritePatchPayload, ApplyStart, FreshnessCheck,
      RereadApproval, VerifyPayload, WriteFile, SweepList
<1>6. ASSUME NEW d \in Deciders, DeciderStep(d)
      PROVE  UNCHANGED <<ticket, shown>>
  BY <1>6 DEF DeciderStep, ApprovePatchTicket, RejectPatchTicket, Decide
<1>7. ASSUME NEW x \in Procs, UpdateStep(x)
      PROVE  UNCHANGED <<ticket, shown>> \/ Lifecycle!Next
  BY <1>4, <1>7 DEF UpdateStep, UpdateRead
<1>8. ASSUME Environment \/ UNCHANGED vars
      PROVE  UNCHANGED <<ticket, shown>>
  BY <1>8 DEF Environment, GrowOlder, Crash, EditFile, TamperPayload, vars
<1>9. UNCHANGED <<ticket, shown>> \/ Lifecycle!Next
  BY <1>5, <1>6, <1>7, <1>8 DEF Next
<1>10. QED
  BY <1>1, <1>9

\* Run one at a time, with crashes between any two steps, the operations of the
\* bridge implement the status diagram of PatchLifecycle: every status is
\* reached by an edge of it, and a patch is applied only while it is approved.
THEOREM BridgeImplementsLifecycle ==
  ASSUME Overlap = FALSE
  PROVE  Spec => FollowsLifecycle
<1>1. Init => Lifecycle!Init
  BY DEF Init, Lifecycle!Init, StatusOf, DecisionOn
<1>2. TypeOK /\ ApprovalInv /\ SoloInv /\ [Next]_vars => SoloInv'
  BY SoloInvariance
<1>3. TypeOK /\ ApprovalInv /\ SoloInv /\ [Next]_vars
        => [Lifecycle!Next]_(Lifecycle!lifecycleVars)
  BY LifecycleStep
<1>4. QED
  BY <1>1, <1>2, <1>3, SoloInit, TypeCorrect, ApprovalInvariance, PTL
  DEF Spec, FollowsLifecycle, Lifecycle!Spec
=============================================================================
