SPECIFICATION Spec
CONSTANTS
  c1 = c1
  c2 = c2
  u1 = u1
  u2 = u2
  None = None
  Clients = {c1}
  Users <- OneUser
  UserOf <- Alone
  MaxFrames = 2
  MaxImage = 2
  LateWrites = {"sent"}
  DiskMayFail = FALSE
CHECK_DEADLOCK FALSE
INVARIANTS
  ChildMatchesItsFrame
