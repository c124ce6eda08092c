CONSTANTS
  Sessions = {w1}
  pStrict = pStrict
  pBalanced = pBalanced
  Plugins = {pStrict}
  LevelOf <- OneStrict
  Clients = {c1, c2}
  None = None
  Torn = Torn
  Requests <- AllRequests
  Targets <- AllTargets
  Crashes = FALSE
SPECIFICATION Spec
INVARIANT StrictRefusesUnplanned
SYMMETRY SessionSymmetry
