SPECIFICATION Spec
CONSTANTS
  t1 = t1
  t2 = t2
  t3 = t3
  NoThread = NoThread
  Threads = {t1, t2, t3}
  ProcessOf <- TwoProcesses
  Processes = 2
  MaxSockets = 3
  MaxMsgs = 1
  Lossy = TRUE
CHECK_DEADLOCK FALSE
INVARIANTS
  TypeOK
  OneOwner
PROPERTIES
  AnswersArrive
