SPECIFICATION FairSpec
CONSTANTS
  u1 = u1
  u2 = u2
  Off = Off
  NClients = 2
  Updates = {u1,u2}
  EventThrottleInterval = 2
  PollingInterval = 3
INVARIANTS
  TypeOK
  OwedIsImminent
  TimerIsKept
PROPERTIES
  EveryChangeIsRead
