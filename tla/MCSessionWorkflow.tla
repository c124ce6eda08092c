------------------------- MODULE MCSessionWorkflow --------------------------
(* Instances of SessionWorkflow for TLC. *)
EXTENDS SessionWorkflow, TLC

CONSTANTS pStrict, pBalanced   \* the two plugins of the larger instances

OneStrict == [p \in Plugins |-> "strict"]
BothGates == [p \in Plugins |-> IF p = pStrict THEN "strict" ELSE "balanced"]

\* Requests: every mode, or only executes over several files.
AllRequests == [mode : Modes, multiFile : BOOLEAN]
Executes    == {[mode |-> "execute", multiFile |-> TRUE]}
AllTargets  == States

\* Session ids and clients are interchangeable.
SessionSymmetry == Permutations(Sessions) \cup Permutations(Clients)
=============================================================================
