CONSTANTS
  cloud = cloud
  local = local
  m1 = m1
  m2 = m2
  Ids = {cloud, local}
  Models = {m1, m2}
  Plugins = {g1, g2}
  Bundled <- OneBundled
  Discovered <- OneDiscovered
  DefaultOff = {cloud}
  Absent = Absent
  Null = Null
  Partial = Partial
  Missing = Missing
  Torn = Torn
  None = None
  MaxEdits = 2
  MaxChanges = 3
  MaxDeaths = 1
  MaxRequests = 3
  MaxOps = 2
  MaxCli = 2
  MaxUserEdits = 2
  Hosts = {"given", "fallback"}
  Installs <- AtMostOneModel
  ProbeTime = 1
  CacheTtl = 3
  NegativeTtl = 2
  MaxCalls = 3
  MaxClock = 5
SPECIFICATION FilesSpec
SYMMETRY SamePlugins
INVARIANT SwitchesStick
INVARIANT LoadSettles
 
INVARIANT ConnectedAsAsked
INVARIANT DiscoveryIsCurrent
