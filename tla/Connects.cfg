SPECIFICATION FairSpec
CONSTANTS
  t1 = t1
  t2 = t2
  t3 = t3
  NoThread = NoThread
  Threads = {t1, t3}
  ProcessOf <- TwoProcesses
  Processes = 2
  MaxSockets = 2
  MaxMsgs = 3
  Lossy = FALSE
CHECK_DEADLOCK FALSE
PROPERTIES
  ConnectReturns
  CloseEndsThread
  NoGaps
