SPECIFICATION FairSpec
CONSTANTS
  c1 = c1
  c2 = c2
  NoClient = NoClient
  Clients = {c1, c2}
  Tickets = {"rw"}
  HelloDims <- OneShape
  SpawnDims <- Spawn
  Writable = TRUE
  AllWrite = FALSE
  Cap = 2
  OutputSize = 1
  WelcomeSize = 1
  MaxChunks = 2
  MaxResizes = 0
\* clients may all leave and the PTY fall silent: the hub then idles
CHECK_DEADLOCK FALSE
PROPERTIES
  GateReopens
  Delivered
  OrderedSpec
