SPECIFICATION FairSpec
CONSTANTS
  f1 = f1
  f2 = f2
  m1 = m1
  m2 = m2
  TurnLength = 5
  NoMessage = nm
  Flushers = {f1, f2}
  Messages = {m1}
  Scripts <- AnyScripts
  MaxHandlers = 2
  BatchSize = 2
  InsertSize = 1
  TrimMaxLen = 4
  Faults = {"publish", "ambiguous", "expire"}
  MaxFaults = 1
PROPERTIES EventuallyStored
