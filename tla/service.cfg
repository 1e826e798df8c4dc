SPECIFICATION AllSpec
CONSTANTS
  Conns = {1, 2, 3}
  NoConn = 0
  Setups <- AllSetups
  MaxHalfOpen = 2
\* a script that has ended, and a server that has ended, take no further step
CHECK_DEADLOCK FALSE
INVARIANTS
  HalfOpenExact
  TicketsHonoured
PROPERTIES
  SilentGiveWay
  ServiceScriptsEnd
