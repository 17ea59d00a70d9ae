SPECIFICATION MCSpec
CONSTANTS
  u1 = u1
  u2 = u2
  c1 = c1
  c2 = c2
  s1 = s1
  t1 = t1
  k1 = k1
  k2 = k2
  shared = shared
  mesh = mesh
  None = None
  NClients = 2
  Updates = {u1, u2}
  Containers = {c1, c2}
  Services = {s1}
  Tasks = {t1}
  Configs = {k1, k2}
  ClientOf <- MCClientOf
  ServiceOf <- MCServiceOf
  Networks = {shared, mesh}
  RoutingMesh = {mesh}
  NetworksOf <- MCNetworksOf
  LabelledNetwork <- MCLabelledNetwork
  BrokenLabels = {k2}
  ControlledServers = {c2, s1}
  ControllerNetworks = {shared}
  ManualNetworks = TRUE
  OwnClient = 1
  ProxyServiceTasks = TRUE
  CacheInterval = 0
  MaxChanges = 1
  MaxFailures = 1
INVARIANTS
  TypeOK
  NoGhosts
  SteadyContainersAreServed
  UndisturbedAreExact
PROPERTIES
  KnownNetworksStay
  Converges
