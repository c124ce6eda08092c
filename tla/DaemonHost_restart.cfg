CONSTANTS
  Ops = {o1, o2}
  MaxServers = 2
  MaxStreams = 2
  MaxBuilds = 1
  MaxSaved = 1
  None = None
  Outside = Outside
SPECIFICATION FairSpec
CHECK_DEADLOCK FALSE
PROPERTY RestartEnds
