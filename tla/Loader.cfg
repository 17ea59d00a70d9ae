SPECIFICATION MCSpec
CONSTANTS
  u1 = u1
  u2 = u2
  s1 = s1
  s2 = s2
  a = a
  b = b
  broken = broken
  None = None
  Empty = Empty
  Mixed = Mixed
  MaxDiskFailures = 1
  Updates = {u1,u2}
  Servers = {s1,s2}
  Caddyfiles = {a,b,broken}
  FirstCaddyfile = a
  Adaptable = {a,b}
  HangingServers = {s1}
  Prompt = TRUE
  MaxChanges = 1
  MaxFailures = 1
  MaxCrashes = 1
  MaxServerRestarts = 0
INVARIANTS
  AutosaveIsWhole
PROPERTIES
  AutosaveFollows
  GatewayFollows
  Converges
