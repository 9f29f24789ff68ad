SPECIFICATION FairSpec
CONSTANTS
  Chunk = 2
  Sizes = {2, 3}
  MaxFrames = 2
CHECK_DEADLOCK FALSE
INVARIANTS
  
  OwnResult
PROPERTIES
  
  CloseLogsOut
