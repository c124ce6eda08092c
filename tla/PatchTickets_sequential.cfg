CONSTANTS
  Patches = {p1, p2}
  Files = {f1, f2}
  HighRisk = {f2}
  Contents = {c1}
  Servers = {s1}
  Deciders = {d1}
  Absent = Absent
  NoTicket = NoTicket
  Overlap = FALSE
  f1 = f1
  Edits <- Deletions
  Tampering = FALSE
SPECIFICATION Spec
INVARIANT AppliedIsComplete
 
PROPERTY FollowsLifecycle
SYMMETRY PatchSymmetry
