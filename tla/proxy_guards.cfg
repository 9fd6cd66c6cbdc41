\* Five requests, one of them a tool call, one failure; or two instances of the API, one failure.
SPECIFICATION GuardsSpec
CONSTANTS
  i1 = i1  i2 = i2
  Instances = {i1, i2}
  MemTTL = 2
  HardExpiry = 3
  RedisTTL = 3
  Latency = 1
  Faults = {"redis", "kms", "db", "lost"}
  MaxFaults = 1
  r1 = r1  r2 = r2  r3 = r3  r4 = r4  r5 = r5
  t1 = t1  t2 = t2
  c = c
  Requests = {r1, r2, r3, r4, r5}
  Tools = {r4}
  TokenOf <- MCTokenOf
  Credential = c
  Capped = {t1, c}
  Refilled = {t1, c}
  Remaining <- One
  RefillAmount <- Two
  MaxIntervals = 2
  CapFaults = {"redis", "db", "reply"}
  MaxCapFaults = 1
SYMMETRY Alike
INVARIANTS BoundedStaleness ClearedEverywhere ServedWithinCap RejectedPaysNothing
CHECK_DEADLOCK FALSE
