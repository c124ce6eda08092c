--------------------------- MODULE MCPatchTickets ---------------------------
(* Instances of PatchTickets for TLC. *)
EXTENDS PatchTickets, TLC

CONSTANT f1

NoEdits   == {}
Deletions == {<<f1, Absent>>}   \* the user may delete f1

\* Patch ids, sessions and deciders are interchangeable; so are contents.
PatchSymmetry ==
  Permutations(Patches) \cup Permutations(Servers) \cup Permutations(Deciders)
    \cup Permutations(Contents)
=============================================================================
