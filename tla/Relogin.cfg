SPECIFICATION Spec
CONSTANTS
  c1 = c1
  c2 = c2
  u1 = u1
  u2 = u2
  None = None
  Clients = {c1, c2}
  Users <- OneUser
  UserOf <- Twins
  MaxFrames = 2
  MaxImage = 1
  LateWrites = {"sent", "reset", "sigpipe"}
  DiskMayFail = TRUE
CHECK_DEADLOCK FALSE
INVARIANTS
  IInv
  EmptyWakeMeansHangup
  ErasesItsOwnEntries
  SemaphoresLive
  QueuesLive
  OneSessionPerUser
PROPERTIES
  LogoutIsLast
  Implements
