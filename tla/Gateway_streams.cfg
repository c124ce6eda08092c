CONSTANTS
  Reqs = {1, 2}
  Inputs <- MCInputs
  Statuses = {200}
  HighWater = 2
  LogLimit = 1
  MaxAge = 0
  MinInput = 4
  HeadBytes = 2
  TailBytes = 2
  Overhead = 2
  Escapes = 2
  MaxChunks = 3
  MaxDay = 1
  None = None
SPECIFICATION FairSpec
INVARIANT LoggedOnceAsSeen
INVARIANT LogIsTrue
PROPERTY RequestsEnd
CHECK_DEADLOCK FALSE
