SPECIFICATION Spec
CONSTANTS
  c1 = c1
  c2 = c2
  NoClient = NoClient
  Clients = {c1, c2}
  MaxClients = 1
  ExitWhenEmpty = TRUE
  Grace = TRUE
  StopTimeout = TRUE
  Killable = {c1, c2}
SYMMETRY Symmetry
\* the program ends, or waits for clients that do not come
CHECK_DEADLOCK FALSE
INVARIANTS
  TypeOK
  CapacityHeld
  NoForgottenChild
  CodeKnown
  SupervisorAwake
  EmptyNoticed
PROPERTIES
  FreshGrace
