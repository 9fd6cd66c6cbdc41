SPECIFICATION FairSpec
CONSTANTS
  f1 = f1
  f2 = f2
  m1 = m1
  m2 = m2
  TurnLength = 4
  NoMessage = nm
  Flushers = {f1}
  Messages = {m1, m2}
  Scripts <- TurnScripts
  MaxHandlers = 1
  BatchSize = 2
  InsertSize = 1
  TrimMaxLen = 3
  Faults = {"crash", "lookup", "insert", "expire"}
  MaxFaults = 1
INVARIANTS NoSpuriousRecovery InsertedInOrder RecoveredWhole RecoveredOnce
PROPERTIES TurnKept
CHECK_DEADLOCK FALSE
