SPECIFICATION FairSpec
CONSTANTS
  c1 = c1
  c2 = c2
  u1 = u1
  u2 = u2
  None = None
  Clients = {c1, c2}
  Users <- TwoUsers
  UserOf <- Strangers
  MaxFrames = 1
  MaxImage = 1
  LateWrites = {"sent"}
  DiskMayFail = FALSE
CHECK_DEADLOCK FALSE

  
PROPERTIES
  FramesServed
  HangupFreesUser
