SPECIFICATION FairSpec
CONSTANTS
  m = m
  w = w
  Instances = {m, w}
  Texts <- MCTexts
  Labelled = {m, w}
  Settings <- MCSettings
  Interfaces <- MCInterfaces
  Networks <- MCNetworks
  RemoteLabels <- MCRemoteLabels
  EnvFiles <- MCEnvFiles
  Usable = {"s1", "s2", "r1", "r3"}
  Admins <- MCAdmins
  MaxChanges = 1
  MaxFailures = 1
  MaxCrashes = 1
INVARIANTS
  TypeOK
  ClientsMatchOptions
  ListenersInRange
  ConfiguredStaysReachable
PROPERTIES
  DocumentedSetupsWork
CHECK_DEADLOCK FALSE
