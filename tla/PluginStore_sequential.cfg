CONSTANTS
  Plugins = {p1, p2}
  Versions = {v1, v2}
  Tools = {t1}
  Bundled = {p1, p2}
  AutoEnabled = {p1}
  None = None
  Missing = Missing
  Torn = Torn
  Invalid = Invalid
  MaxStarts = 3
  MaxStops = 1
  Ports = {1, 2}
  Files = {fileA, fileB}
  Contents = {text1, text2}
  MaxAsks = 2
  MaxSaves = 1
  MaxClears = 1
  MaxKills = 1
  MaxLines = 5
  MaxItems = 2
  FrameCap = 1
  Absent = Absent
  Gone = Gone
  Versioned = {1, 2}
  MaxLength = 3
  Names = {1, 2, 3}
  HardMax = 2
  MaxAsked = 3
  MaxChanges = 2
  MaxReads = 3
SPECIFICATION WorkspaceSpec
INVARIANT TypeOK
INVARIANT RegisteredLoads
 
 
INVARIANT BootstrapIsComplete
 
INVARIANT DaemonIsRecorded
