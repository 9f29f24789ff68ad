SPECIFICATION Spec
CONSTANTS
  MaxPictures = 3
  MaxRows = 2
  Databases <- SomeDatabases
  Older <- SomeOlder
  Missing <- NoPicture
  MaxGood = 3
  Share <- SomeShare
  CountsDeployed = TRUE
  MayKill = TRUE
CHECK_DEADLOCK FALSE
INVARIANTS
  FilesAgree
  ShiftedCounts
  MatchInBounds
  BestPictureWins
