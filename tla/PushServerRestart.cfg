SPECIFICATION HistoryFairSpec
CONSTANTS
  u1 = u1
  u2 = u2
  s1 = s1
  s2 = s2
  a = a
  b = b
  broken = broken
  None = None
  Updates = {u1,u2}
  Servers = {s1}
  Caddyfiles = {a,b}
  FirstCaddyfile = a
  Adaptable = {a,b}
  HangingServers = {}
  Prompt = TRUE
  MaxChanges = 0
  MaxFailures = 0
  MaxCrashes = 0
  MaxServerRestarts = 1
PROPERTIES
  Converges
