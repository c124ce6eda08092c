CONSTANTS
  Sessions = {w1, w2}
  pStrict = pStrict
  pBalanced = pBalanced
  Plugins = {pStrict, pBalanced}
  LevelOf <- BothGates
  Clients = {c1, c2}
  None = None
  Torn = Torn
  Requests <- Executes
  Targets = {"planning", "implementing", "done"}
  Crashes = TRUE
  MAX_ATTACHMENTS = 1
  MaxTurns = 2
  MaxMessages = 3
  MaxFiles = 2
  MaxArtifacts = 2
  MaxCompares = 2
  MaxLoads = 1
SPECIFICATION PageSpec
INVARIANT TypeOK
INVARIANT StrictExecuteIsPlanned
INVARIANT OpenIsCurrent
 
 
INVARIANT CallsComeThrough
SYMMETRY SessionSymmetry
