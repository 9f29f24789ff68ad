SPECIFICATION Spec
CONSTANTS
  MaxPictures = 2
  MaxRows = 2
  Databases <- GoodDatabases
  Older <- NoOlder
  Missing <- NoPicture
  MaxGood = 2
  Share <- SomeShare
  CountsDeployed = FALSE
  MayKill = FALSE
CHECK_DEADLOCK FALSE
INVARIANTS
  TwoFilesSuffice
