SPECIFICATION CrashFreeSpec
CONSTANTS
  h1 = h1
  h2 = h2
  c1 = c1
  c2 = c2
  a1 = a1
  a2 = a2
  f1 = f1
  f2 = f2
  wild = wild
  undotted = undotted
  partial = partial
  NoCid = NoCid
  Passes = {p1,p2}
  Hosts <- MCHosts
  Containers <- MCOneContainer
  HostOf <- MCOneHostOf
  Sites <- MCPairSite
  Forwards <- MCPairForward
  WildcardSites = {wild}
  UndottedSites = {undotted}
  DNSOptOut = {}
  IncompleteForwards = {partial}
  CaddyIPSet = TRUE
  HostsWithIP = {h1}
  ForeignRows <- MCForeign
  FirstUUID = 2
  Faults = {"del", "delRefused"}
  MaxChanges = 3
  MaxFailures = 1
  MaxCrashes = 0
INVARIANTS
  RecordedOnce
  LossesAreFailures
  PendingIsPublished
PROPERTIES
  SteadyContainersKeepRules
  StoppedAreCleaned
  ImplementsLedger
