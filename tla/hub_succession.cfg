SPECIFICATION Spec
CONSTANTS
  c1 = c1
  c2 = c2
  c3 = c3
  NoClient = NoClient
  Clients = {c1, c2, c3}
  Tickets = {"ro", "rw"}
  HelloDims <- OneShape
  SpawnDims <- Spawn
  Writable = TRUE
  AllWrite = FALSE
  Cap = 2
  OutputSize = 1
  WelcomeSize = 1
  MaxChunks = 1
  MaxResizes = 0
SYMMETRY Symmetry
\* clients may all leave and the PTY fall silent: the hub then idles
CHECK_DEADLOCK FALSE
INVARIANTS
  SingleWriter
  NoVacantOwner
PROPERTIES
  FifoSuccession
