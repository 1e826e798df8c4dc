SPECIFICATION Spec
CONSTANTS
  c1 = c1
  c2 = c2
  NoClient = NoClient
  Clients = {c1, c2}
  Tickets = {"ro", "rw"}
  HelloDims <- TwoShapes
  SpawnDims <- Spawn
  Writable = TRUE
  AllWrite = TRUE
  Cap = 2
  OutputSize = 1
  WelcomeSize = 1
  MaxChunks = 2
  MaxResizes = 1
SYMMETRY Symmetry
\* clients may all leave and the PTY fall silent: the hub then idles
CHECK_DEADLOCK FALSE
INVARIANTS
  TypeOK
  NoLostWakeup
  CreditIsRepaid
  WelcomeConverges
  NoGhostMember
  SpectatorStreamExact
PROPERTIES
  KickSparesLastWriter
