SPECIFICATION FairSpec
CONSTANTS
  MaxFrames = 2
  SizeOf <- Sizes
  SizePerTime = 1
  MaxResults = 2
  PeerMayFail = TRUE
CHECK_DEADLOCK FALSE
INVARIANTS
  FramesNotMixed
  AnswersInStep
  DrawnResultIsOne
  
PROPERTIES
  EveryFrameSent
