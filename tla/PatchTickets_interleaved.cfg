CONSTANTS
  Patches = {p1}
  Files = {f1}
  HighRisk = {}
  Contents = {c1, c2}
  Servers = {s1, s2}
  Deciders = {d1}
  Absent = Absent
  NoTicket = NoTicket
  Overlap = TRUE
  f1 = f1
  Edits <- NoEdits
  Tampering = TRUE
SPECIFICATION Spec
INVARIANT TypeOK
INVARIANT ApprovedDiffOnly
SYMMETRY PatchSymmetry
