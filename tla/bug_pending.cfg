SPECIFICATION FairSpec
CONSTANTS
  f1 = f1
  f2 = f2
  m1 = m1
  m2 = m2
  TurnLength = 5
  NoMessage = nm
  Flushers = {f1}
  Messages = {m1}
  Scripts <- OneTurn
  MaxHandlers = 1
  BatchSize = 2
  InsertSize = 2
  TrimMaxLen = 4
  Faults = {"insert"}
  MaxFaults = 1
PROPERTIES PendingRetried
CHECK_DEADLOCK FALSE
