---------------------------- MODULE PatchTickets ----------------------------
(***************************************************************************)
(* The patch tickets of the MCP bridge: propose_patch and apply_patch as   *)
(* run by MCP server sessions, approve and reject as run by the CLI and by *)
(* the daemon's HTTP endpoints, and the sweep of old tickets.              *)
(*                                                                         *)
(* All of them meet on disk: a ticket JSON per patch, a payload sidecar    *)
(* per patch and the workspace files.  No operation holds a lock; each     *)
(* await in the code is a point where the others may run, so every read    *)
(* and every rename is an action of its own.  A hash stands for the        *)
(* content it is taken of (two contents are equal iff their hashes are).   *)
(***************************************************************************)
EXTENDS Naturals, FiniteSets

CONSTANTS
  Patches,     \* patch ids
  Files,       \* workspace paths that pass the boundary and ignore checks
  HighRisk,    \* the paths matching HIGH_RISK_PATH_PATTERNS
  Contents,    \* possible file contents
  Servers,     \* MCP server sessions, each running one tool call at a time
  Deciders,    \* CLI processes and daemon requests that approve or reject
  Absent,      \* marks a file, or a sidecar entry, that does not exist
  NoTicket,    \* marks a ticket file that does not exist
  Overlap,     \* TRUE: operations, edits and the passing of time may overlap
  Edits,       \* the edits the user may make meanwhile: <<file, content>>
  Tampering    \* TRUE: somebody rewrites sidecar files meanwhile

ASSUME PatchAssumption ==
  /\ HighRisk \subseteq Files
  /\ Absent \notin Contents
  /\ Servers \cap Deciders = {}
  /\ Edits \subseteq Files \X (Contents \cup {Absent})
  /\ {Overlap, Tampering} \subseteq BOOLEAN

VARIABLES
  ticket,      \* ticket[p]: the JSON of patch p on disk
  payload,     \* payload[p][f]: the sidecar entry of f
  file,        \* file[f]: the workspace file f
  age,         \* age[p]: how old the ticket of p is
  proc,        \* proc[x]: the operation process x is in the middle of
  shown,       \* history: the ticket of p as propose_patch returned it
  approvedBy,  \* history: the deciders whose approve of p succeeded
  wrote        \* history: the file writes apply_patch made

vars == <<ticket, payload, file, age, proc, shown, approvedBy, wrote>>

-----------------------------------------------------------------------------
Procs    == Servers \cup Deciders
Content  == Contents \cup {Absent}
NoFiles  == [f \in Files |-> Absent]
Live     == {"proposed", "awaiting_approval"}
Terminal == {"applied", "rejected", "expired"}

Ticket ==
  [status           : Live \cup Terminal,
   approval         : {"pending", "approved", "rejected"},
   files            : SUBSET Files,
   before           : [Files -> Content],
   after            : [Files -> Content],
   requiresApproval : BOOLEAN]

ASSUME NoTicketAssumption == NoTicket \notin Ticket

\* scorePatchRisk: any mutation is at least medium, a high-risk path is high.
RiskLevel(fs) ==
  IF fs \cap HighRisk # {} THEN "high" ELSE IF fs # {} THEN "medium" ELSE "low"

\* Mutant: only high-risk patches need approval.
RequiresApproval_HighOnly(fs) == RiskLevel(fs) = "high"

RequiresApproval(fs) == RiskLevel(fs) \in {"medium", "high"}

\* A ticket under construction by propose_patch.
Draft(fs, new) ==
  [status |-> "proposed", approval |-> "pending", files |-> fs,
   before |-> NoFiles, after |-> [f \in Files |-> IF f \in fs THEN new[f] ELSE Absent],
   requiresApproval |-> RequiresApproval(fs)]

Blank == Draft({}, NoFiles)

\* The fields an updatePatchTicket call overrides; "keep" leaves a field alone.
Keep == [status |-> "keep", approval |-> "keep"]
SetStatus(st) == [Keep EXCEPT !.status = st]
Update == [status   : Live \cup Terminal \cup {"keep"},
           approval : {"keep", "approved", "rejected"}]

\* { ...current, ...patch }
Merged(t, u) ==
  [t EXCEPT !.status   = IF u.status   = "keep" THEN @ ELSE u.status,
            !.approval = IF u.approval = "keep" THEN @ ELSE u.approval]

\* The local variables of one running operation: where it is, the patch it is
\* about, the ticket it read first, the files a loop still has to visit, the
\* payloads it read, the pending update and the ticket that update read.
Idle == [pc |-> "idle", patch |-> NoTicket, snap |-> Blank, todo |-> {},
         buf |-> NoFiles, upd |-> Keep, current |-> Blank]

PC == {"idle", "propose", "sidecar", "fresh", "reread", "verify", "write",
       "update", "rename", "sweep"}

Quiet == \A y \in Procs : proc[y].pc = "idle"

CanStart(x) == proc[x].pc = "idle" /\ (Overlap \/ Quiet)

Return(x) == proc' = [proc EXCEPT ![x] = Idle]

\* Visit f in the loop at pc; after the last file go on at next.
Visit(x, f, next) ==
  proc' = [proc EXCEPT ![x] =
             IF proc[x].todo = {f} THEN next
             ELSE [proc[x] EXCEPT !.todo = proc[x].todo \ {f}]]

\* Mutant: the update forgets which patch it is about.
BeginUpdate_NoPatch(x, u) == [Idle EXCEPT !.pc = "update", !.upd = u]

\* Enter updatePatchTicket(patch, u).
BeginUpdate(x, u) == [proc[x] EXCEPT !.pc = "update", !.upd = u, !.todo = {}]

Init ==
  /\ ticket     = [p \in Patches |-> NoTicket]
  /\ payload    = [p \in Patches |-> NoFiles]
  /\ file       \in [Files -> Content]
  /\ age        = [p \in Patches |-> "fresh"]
  /\ proc       = [x \in Procs |-> Idle]
  /\ shown      = [p \in Patches |-> NoTicket]
  /\ approvedBy = [p \in Patches |-> {}]
  /\ wrote      = {}

-----------------------------------------------------------------------------
(* propose_patch *)

ProposeStart(s, fs, new) ==
  /\ CanStart(s)
  /\ fs # {}
  /\ proc' = [proc EXCEPT ![s] =
                [Idle EXCEPT !.pc = "propose", !.snap = Draft(fs, new), !.todo = fs]]
  /\ UNCHANGED <<ticket, payload, file, age, shown, approvedBy, wrote>>

\* Read the current content of one proposed file: beforeExists, beforeHash.
ReadBefore(s, f) ==
  /\ proc[s].pc = "propose"
  /\ f \in proc[s].todo
  /\ proc' = [proc EXCEPT ![s].snap.before[f] = file[f],
                          ![s].todo = proc[s].todo \ {f}]
  /\ UNCHANGED <<ticket, payload, file, age, shown, approvedBy, wrote>>

CreatePatchTicket(s, p) ==
  /\ proc[s].pc = "propose"
  /\ proc[s].todo = {}
  /\ shown[p] = NoTicket
  /\ ticket' = [ticket EXCEPT ![p] = proc[s].snap]
  /\ shown'  = [shown  EXCEPT ![p] = proc[s].snap]
  /\ proc'   = [proc EXCEPT ![s].pc = "sidecar", ![s].patch = p,
                            ![s].todo = proc[s].snap.files]
  /\ UNCHANGED <<payload, file, age, approvedBy, wrote>>

WritePatchPayload(s, f) ==
  /\ proc[s].pc = "sidecar"
  /\ f \in proc[s].todo
  /\ payload' = [payload EXCEPT ![proc[s].patch][f] = proc[s].snap.after[f]]
  /\ Visit(s, f, Idle)
  /\ UNCHANGED <<ticket, file, age, shown, approvedBy, wrote>>

-----------------------------------------------------------------------------
(* updatePatchTicket: re-read the ticket, merge, rename over it.  A ticket   *)
(* deleted meanwhile makes the read throw; one deleted after the read comes  *)
(* back with the rename.                                                     *)

UpdateRead(x) ==
  /\ proc[x].pc = "update"
  /\ IF ticket[proc[x].patch] = NoTicket
       THEN Return(x)
       ELSE proc' = [proc EXCEPT ![x].pc = "rename",
                                 ![x].current = ticket[proc[x].patch]]
  /\ UNCHANGED <<ticket, payload, file, age, shown, approvedBy, wrote>>

UpdateRename(x) ==
  LET p == proc[x].patch IN
  /\ proc[x].pc = "rename"
  /\ ticket' = [ticket EXCEPT ![p] = Merged(proc[x].current, proc[x].upd)]
  /\ approvedBy' = IF proc[x].upd.approval = "approved"
                     THEN [approvedBy EXCEPT ![p] = @ \cup {x}]
                     ELSE approvedBy
  /\ Return(x)
  /\ UNCHANGED <<payload, file, age, shown, wrote>>

-----------------------------------------------------------------------------
(* approve and reject: gate on the status just read, then update.           *)

\* Mutant: no state gate.
Decide_NoGate(d, p, u) ==
  /\ CanStart(d)
  /\ ticket[p] # NoTicket
  /\ proc' = [proc EXCEPT ![d] = [Idle EXCEPT !.pc = "update", !.patch = p, !.upd = u]]
  /\ UNCHANGED <<ticket, payload, file, age, shown, approvedBy, wrote>>

Decide(d, p, u) ==
  /\ CanStart(d)
  /\ ticket[p] # NoTicket
  /\ ticket[p].status \in Live
  /\ proc' = [proc EXCEPT ![d] = [Idle EXCEPT !.pc = "update", !.patch = p, !.upd = u]]
  /\ UNCHANGED <<ticket, payload, file, age, shown, approvedBy, wrote>>

ApprovePatchTicket(d, p) == Decide(d, p, [Keep EXCEPT !.approval = "approved"])

RejectPatchTicket(d, p) ==
  Decide(d, p, [status |-> "rejected", approval |-> "rejected"])

-----------------------------------------------------------------------------
(* apply_patch *)

\* Status guards and the 24h expiry check, on the ticket just read.
ApplyStart(s, p) ==
  /\ CanStart(s)
  /\ ticket[p] # NoTicket
  /\ ticket[p].status \notin Terminal
  /\ LET run == [Idle EXCEPT !.patch = p, !.snap = ticket[p]] IN
     proc' = [proc EXCEPT ![s] =
                IF age[p] = "fresh"
                  THEN [run EXCEPT !.pc = "fresh", !.todo = ticket[p].files]
                  ELSE [run EXCEPT !.pc = "update", !.upd = SetStatus("expired")]]
  /\ UNCHANGED <<ticket, payload, file, age, shown, approvedBy, wrote>>

\* The approval gate, on the ticket read at the start.
Gate(s) ==
  IF ~ proc[s].snap.requiresApproval
    THEN [proc[s] EXCEPT !.pc = "verify", !.todo = proc[s].snap.files]
  ELSE IF proc[s].snap.status = "proposed"
    THEN BeginUpdate(s, SetStatus("awaiting_approval"))
  ELSE [proc[s] EXCEPT !.pc = "reread", !.todo = {}]

\* Mutant: of a file that was there, the hash is not compared.
FreshnessCheck_HashUnchecked(s, f) ==
  /\ proc[s].pc = "fresh"
  /\ f \in proc[s].todo
  /\ IF proc[s].snap.before[f] = Absent => file[f] = Absent
       THEN Visit(s, f, Gate(s)) ELSE Return(s)
  /\ UNCHANGED <<ticket, payload, file, age, shown, approvedBy, wrote>>

\* A file that is not what propose_patch saw ends the call as stale-patch.
FreshnessCheck(s, f) ==
  /\ proc[s].pc = "fresh"
  /\ f \in proc[s].todo
  /\ IF file[f] = proc[s].snap.before[f] THEN Visit(s, f, Gate(s)) ELSE Return(s)
  /\ UNCHANGED <<ticket, payload, file, age, shown, approvedBy, wrote>>

\* What the latest decision leads to: the "rejected" of a ticket whose status
\* has not moved is reconciled, "approved" falls through to the write.
OnLatest(s, latest) ==
  CASE latest.approval = "approved" ->
         [proc[s] EXCEPT !.pc = "verify", !.todo = proc[s].snap.files]
    [] latest.approval = "rejected" /\ latest.status # "rejected" ->
         BeginUpdate(s, SetStatus("rejected"))
    [] OTHER -> Idle

RereadApproval(s) ==
  /\ proc[s].pc = "reread"
  /\ LET latest == ticket[proc[s].patch] IN
     proc' = [proc EXCEPT ![s] =
                IF latest = NoTicket THEN Idle ELSE OnLatest(s, latest)]
  /\ UNCHANGED <<ticket, payload, file, age, shown, approvedBy, wrote>>

\* A sidecar entry that is missing or does not hash to afterHash ends the call.
VerifyPayload(s, f) ==
  LET content == payload[proc[s].patch][f]
      run     == [proc[s] EXCEPT !.buf[f] = content]
  IN
  /\ proc[s].pc = "verify"
  /\ f \in proc[s].todo
  /\ proc' = [proc EXCEPT ![s] =
       IF content = Absent \/ content # proc[s].snap.after[f] THEN Idle
       ELSE IF proc[s].todo = {f}
         THEN [run EXCEPT !.pc = "write", !.todo = proc[s].snap.files]
       ELSE [run EXCEPT !.todo = run.todo \ {f}]]
  /\ UNCHANGED <<ticket, payload, file, age, shown, approvedBy, wrote>>

\* Mutant: the status is updated after the first file.
WriteFile_ReportFirst(s, f) ==
  /\ proc[s].pc = "write"
  /\ f \in proc[s].todo
  /\ file'  = [file EXCEPT ![f] = proc[s].buf[f]]
  /\ wrote' = wrote \cup {[patch |-> proc[s].patch, path |-> f, content |-> proc[s].buf[f]]}
  /\ proc' = [proc EXCEPT ![s] = BeginUpdate(s, SetStatus("applied"))]
  /\ UNCHANGED <<ticket, payload, age, shown, approvedBy>>

WriteFile(s, f) ==
  /\ proc[s].pc = "write"
  /\ f \in proc[s].todo
  /\ file'  = [file EXCEPT ![f] = proc[s].buf[f]]
  /\ wrote' = wrote \cup {[patch |-> proc[s].patch, path |-> f, content |-> proc[s].buf[f]]}
  /\ Visit(s, f, BeginUpdate(s, SetStatus("applied")))
  /\ UNCHANGED <<ticket, payload, age, shown, approvedBy>>

-----------------------------------------------------------------------------
(* cleanupExpiredAndApplied: decide on the listing, then delete.             *)

ShouldRemove(t, a) ==
  \/ t.status \in {"applied", "rejected"} /\ a = "week"
  \/ t.status = "expired" /\ a # "fresh"

SweepList(s, p) ==
  /\ CanStart(s)
  /\ ticket[p] # NoTicket
  /\ ShouldRemove(ticket[p], age[p])
  /\ proc' = [proc EXCEPT ![s] = [Idle EXCEPT !.pc = "sweep", !.patch = p]]
  /\ UNCHANGED <<ticket, payload, file, age, shown, approvedBy, wrote>>

DeletePatchTicket(s) ==
  /\ proc[s].pc = "sweep"
  /\ ticket'  = [ticket  EXCEPT ![proc[s].patch] = NoTicket]
  /\ payload' = [payload EXCEPT ![proc[s].patch] = NoFiles]
  /\ Return(s)
  /\ UNCHANGED <<file, age, shown, approvedBy, wrote>>

-----------------------------------------------------------------------------
(* The environment: time, crashes, the user's editor, the sidecar directory. *)

\* A ticket passes 24 hours, then 7 days.  The second only matters to one
\* whose status is final: to the others a week is no different from a day.
GrowOlder(p) ==
  /\ ticket[p] # NoTicket
  /\ age[p] = "day" => ticket[p].status \in Terminal
  /\ Overlap \/ Quiet
  /\ age[p] # "week"
  /\ age' = [age EXCEPT ![p] = IF @ = "fresh" THEN "day" ELSE "week"]
  /\ UNCHANGED <<ticket, payload, file, proc, shown, approvedBy, wrote>>

\* The process dies, or a file-system call throws, between two steps.
Crash(x) ==
  /\ proc[x].pc # "idle"
  /\ Return(x)
  /\ UNCHANGED <<ticket, payload, file, age, shown, approvedBy, wrote>>

EditFile(f, c) ==
  /\ <<f, c>> \in Edits
  /\ Overlap \/ Quiet
  /\ file[f] # c
  /\ file' = [file EXCEPT ![f] = c]
  /\ UNCHANGED <<ticket, payload, age, proc, shown, approvedBy, wrote>>

TamperPayload(p, f, c) ==
  /\ Tampering
  /\ ticket[p] # NoTicket
  /\ payload[p][f] # c
  /\ payload' = [payload EXCEPT ![p][f] = c]
  /\ UNCHANGED <<ticket, file, age, proc, shown, approvedBy, wrote>>

-----------------------------------------------------------------------------
ServerStep(s) ==
  \/ \E fs \in SUBSET Files : \E new \in [fs -> Contents] : ProposeStart(s, fs, new)
  \/ \E f \in Files : ReadBefore(s, f)
  \/ \E p \in Patches : CreatePatchTicket(s, p)
  \/ \E f \in Files : WritePatchPayload(s, f)
  \/ \E p \in Patches : ApplyStart(s, p)
  \/ \E f \in Files : FreshnessCheck(s, f)
  \/ RereadApproval(s)
  \/ \E f \in Files : VerifyPayload(s, f)
  \/ \E f \in Files : WriteFile(s, f)
  \/ \E p \in Patches : SweepList(s, p)
  \/ DeletePatchTicket(s)

DeciderStep(d) ==
  \E p \in Patches : ApprovePatchTicket(d, p) \/ RejectPatchTicket(d, p)

UpdateStep(x) == UpdateRead(x) \/ UpdateRename(x)

Environment ==
  \/ \E p \in Patches : GrowOlder(p)
  \/ \E x \in Procs : Crash(x)
  \/ \E f \in Files, c \in Content : EditFile(f, c)
  \/ \E p \in Patches, f \in Files, c \in Content : TamperPayload(p, f, c)

Next ==
  \/ \E s \in Servers : ServerStep(s)
  \/ \E d \in Deciders : DeciderStep(d)
  \/ \E x \in Procs : UpdateStep(x)
  \/ Environment

Spec == Init /\ [][Next]_vars

-----------------------------------------------------------------------------
(* Properties *)

ProcState ==
  [pc : PC, patch : Patches \cup {NoTicket}, snap : Ticket, todo : SUBSET Files,
   buf : [Files -> Content], upd : Update, current : Ticket]

Write == [patch : Patches, path : Files, content : Content]

\* The type of every variable, and that an operation which has left the
\* proposing stage is about a patch.
TypeOK ==
  /\ ticket \in [Patches -> Ticket \cup {NoTicket}]
  /\ payload \in [Patches -> [Files -> Content]]
  /\ file \in [Files -> Content]
  /\ age \in [Patches -> {"fresh", "day", "week"}]
  /\ proc \in [Procs -> ProcState]
  /\ shown \in [Patches -> Ticket \cup {NoTicket}]
  /\ approvedBy \in [Patches -> SUBSET Procs]
  /\ wrote \subseteq Write
  /\ \A x \in Procs : proc[x].pc \notin {"idle", "propose"} => proc[x].patch \in Patches

\* apply_patch writes nothing but what a reviewer was shown and somebody
\* approved: each write is of a path of the patch, of the very content the
\* proposed diff ends in, and after an approve of that patch succeeded.
\* Holds however sessions, deciders, crashes and sidecar edits interleave.
ApprovedDiffOnly ==
  \A w \in wrote :
    /\ approvedBy[w.patch] # {}
    /\ shown[w.patch] # NoTicket
    /\ w.path \in shown[w.patch].files
    /\ w.content = shown[w.patch].after[w.path]

\* A ticket says "applied" only if every file of the patch has been written,
\* wherever a session crashed between the renames and the last update.
AppliedIsComplete ==
  \A p \in Patches :
    ticket[p] # NoTicket /\ ticket[p].status = "applied" =>
      \A f \in ticket[p].files :
        [patch |-> p, path |-> f, content |-> ticket[p].after[f]] \in wrote

\* The diagram: a status of the three at the end of it never changes again.
TerminalIsFinal ==
  [][\A p \in Patches :
       ticket[p] # NoTicket /\ ticket[p].status \in Terminal /\ ticket'[p] # NoTicket
         => ticket'[p].status = ticket[p].status]_vars

\* What apply_patch overwrites is what the patch was made against: no file
\* that changed since propose_patch read it, by another patch, by a
\* half-finished apply or by the user, is ever overwritten.  For operations
\* and edits that do not overlap the freshness check guarantees it; the
\* comment over that check claims it without the proviso.
NoStaleWrite ==
  [][\A s \in Servers, f \in Files :
       proc[s].pc = "write" /\ proc'[s].todo # proc[s].todo /\ f \in proc[s].todo
       /\ file'[f] # file[f] => file[f] = proc[s].snap.before[f]]_vars

-----------------------------------------------------------------------------
(* Without overlap, the bridge implements the status diagram. *)

StatusOf(p) ==
  IF ticket[p] # NoTicket THEN ticket[p].status
  ELSE IF shown[p] = NoTicket THEN "none" ELSE "deleted"

DecisionOn(p) == IF ticket[p] = NoTicket THEN "pending" ELSE ticket[p].approval

Lifecycle == INSTANCE PatchLifecycle
  WITH status   <- [p \in Patches |-> StatusOf(p)],
       decision <- [p \in Patches |-> DecisionOn(p)]

\* Run one at a time, the operations take a patch through the status diagram
\* of PatchLifecycle and apply it only while its approval stands.
FollowsLifecycle == Lifecycle!Spec
=============================================================================
