SPECIFICATION FairSpec
CONSTANTS
  s1 = s1
  s2 = s2
  None = None
  Sessions = {s1, s2}
  FramesOf <- OneEach
  MaxPending = 1
  MaxReplays = 1
  Lossy = TRUE
CHECK_DEADLOCK FALSE
INVARIANTS
  QueuedFramesHandedOver
  ForeignResultsOnlyWithoutPort
  LogoutMeansHangup
  OneResultPerEmission
PROPERTIES
  HangupLogsOut
  
