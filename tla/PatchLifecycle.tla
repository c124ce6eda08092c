--------------------------- MODULE PatchLifecycle ---------------------------
(***************************************************************************)
(* What the patch store promises of one MCP patch ticket, seen from the    *)
(* outside: the status diagram of the bridge, with the human decision that *)
(* an apply needs.  A live ticket is decided, applied or expired; once it  *)
(* is applied, rejected or expired its status is final, and a patch is     *)
(* applied only while the decision that stands is an approval.             *)
(***************************************************************************)
CONSTANT Patches      \* the patch ids ever allocated

VARIABLES status,     \* status[p]: where patch p is in the diagram
          decision    \* decision[p]: the human decision that stands

lifecycleVars == <<status, decision>>

LiveStatus     == {"proposed", "awaiting_approval"}
TerminalStatus == {"applied", "rejected", "expired"}
Status         == LiveStatus \cup TerminalStatus \cup {"none", "deleted"}
Decision       == {"pending", "approved", "rejected"}

Init ==
  /\ status   = [p \in Patches |-> "none"]
  /\ decision = [p \in Patches |-> "pending"]

\* A single status edge of the diagram.
Edge(p, from, to) ==
  /\ status[p] \in from
  /\ status' = [status EXCEPT ![p] = to]

Propose(p) == Edge(p, {"none"}, "proposed") /\ UNCHANGED decision

AwaitApproval(p) == Edge(p, LiveStatus, "awaiting_approval") /\ UNCHANGED decision

Approve(p) ==
  /\ status[p] \in LiveStatus
  /\ decision' = [decision EXCEPT ![p] = "approved"]
  /\ UNCHANGED status

Reject(p) ==
  /\ Edge(p, LiveStatus, "rejected")
  /\ decision' = [decision EXCEPT ![p] = "rejected"]

Apply(p) ==
  /\ decision[p] = "approved"
  /\ Edge(p, LiveStatus, "applied")
  /\ UNCHANGED decision

Expire(p) == Edge(p, LiveStatus, "expired") /\ UNCHANGED decision

Delete(p) ==
  /\ Edge(p, TerminalStatus, "deleted")
  /\ decision' = [decision EXCEPT ![p] = "pending"]

Next ==
  \E p \in Patches :
    \/ Propose(p) \/ AwaitApproval(p) \/ Approve(p) \/ Reject(p)
    \/ Apply(p)   \/ Expire(p)        \/ Delete(p)

Spec == Init /\ [][Next]_lifecycleVars
=============================================================================
