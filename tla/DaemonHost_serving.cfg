CONSTANTS
  Ops = {o1}
  MaxServers = 2
  MaxStreams = 2
  MaxBuilds = 2
  MaxSaved = 1
  None = None
  Outside = Outside
SPECIFICATION ServingSpec
 
 
PROPERTY CardIsCurrent
CHECK_DEADLOCK FALSE
