SPECIFICATION Spec
CONSTANTS
  c1 = c1
  c2 = c2
  NoClient = NoClient
  Clients = {c1, c2}
  Tickets = {"rw"}
  HelloDims <- TwoShapes
  SpawnDims <- Spawn
  Writable = TRUE
  AllWrite = FALSE
  Cap = 2
  OutputSize = 1
  WelcomeSize = 1
  MaxChunks = 3
  MaxResizes = 1
SYMMETRY Symmetry
\* clients may all leave and the PTY fall silent: the hub then idles
CHECK_DEADLOCK FALSE
INVARIANTS
  StreamExact
