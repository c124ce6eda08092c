CONSTANTS
  Runs = {r1, r2}
  None = None
  Inputs <- ThreeModes
  MaxTurns = 2
  MaxCalls = 2
  MaxNow = 2
  SameMs = FALSE
SPECIFICATION AgentSpec
INVARIANT ApprovedCallsOnly
INVARIANT RegistryIsExact
 
PROPERTY WokenByItsOwn
PROPERTY EveryWaitEnds
PROPERTY TimedCallsEnd
CHECK_DEADLOCK FALSE
