SPECIFICATION Spec
CONSTANTS
  f1 = f1
  f2 = f2
  m1 = m1
  m2 = m2
  TurnLength = 5
  NoMessage = nm
  Flushers = {f1, f2}
  Messages = {m1}
  Scripts <- AnyScripts
  MaxHandlers = 1
  BatchSize = 2
  InsertSize = 1
  TrimMaxLen = 2
  Faults = {"crash", "lookup", "insert", "redis", "publish", "expire", "idle", "scan"}
  MaxFaults = 1
INVARIANTS AtMostOnce
PROPERTIES AckAfterInsert ImplementsJournal
CHECK_DEADLOCK FALSE
