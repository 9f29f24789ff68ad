SPECIFICATION FairSpec
CONSTANTS
  None = None
  Starters = {p1, p2, p3}
  Lossy = TRUE
CHECK_DEADLOCK FALSE
INVARIANTS
  ResultKept
  PrintsResults
PROPERTIES
  AckReturns
  ResultComes
