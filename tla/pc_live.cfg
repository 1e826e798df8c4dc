SPECIFICATION FairSpec
CONSTANTS
  c1 = c1
  c2 = c2
  NoClient = NoClient
  Clients = {c1, c2}
  MaxClients = 1
  ExitWhenEmpty = TRUE
  Grace = FALSE
  StopTimeout = TRUE
  Killable = {c1}
\* the program ends, or waits for clients that do not come
CHECK_DEADLOCK FALSE
PROPERTIES
  ExitDelivered
  PlaceFreed
  ShutdownReturns
  DrainedEnds
  EmptyEnds
