SPECIFICATION HistorySpec
CONSTANTS
  u1 = u1
  u2 = u2
  s1 = s1
  s2 = s2
  a = a
  b = b
  broken = broken
  None = None
  Updates = {u1,u2}
  Servers = {s1}
  Caddyfiles = {a,b,broken}
  FirstCaddyfile = a
  Adaptable = {a,b}
  HangingServers = {}
  Prompt = FALSE
  MaxChanges = 1
  MaxFailures = 1
  MaxCrashes = 1
  MaxServerRestarts = 1
INVARIANTS
  TypeOK
  OnlyAdaptedConfigs
  NoStuckFlag
  OnePushAtATime
  RecordIsTrue
PROPERTIES
  ImplementsPushLedger
SYMMETRY UpdateSymmetry
CONSTRAINT OneFault
