CONSTANTS
  local = local
  flat = flat
  metered = metered
  cli = cli
  MaxLaunches = 3
  MaxId = 2
  MaxPages = 2
  MaxChunks = 1
  MaxQueue = 2
  None = None
  Callers = {c1, c2}
  Declared <- McDeclared
  Tier <- McTier
  Payment <- McPayment
  GoodAt <- McGoodAt
  NotGoodAt <- McNotGoodAt
  Disabled = {}
  Keyless = {}
  Probed = {local, cli}
  Served = {local, metered, cli}
  Native = {cli}
  Cost <- McCost
  Estimate <- McEstimate
  Cap <- McCap
  Limit = 2
  BlockAt = 2
  Downgrade = TRUE
  Quality = TRUE
  Ceiling = 2
  LocalMax = 50
  PrivateMax = 75
  Tasks <- McTasks
  Trigger = 2
  Target = 1
  MaxRequests = 2
SPECIFICATION CallSpec
SYMMETRY SameCallers
INVARIANT CallsAreLogged
INVARIANT OverrunIsBounded
INVARIANT WalkIsInOrder
INVARIANT ProvidersAreSound
INVARIANT AnswersAreOwn
CHECK_DEADLOCK FALSE
