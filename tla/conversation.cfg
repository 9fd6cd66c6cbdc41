SPECIFICATION Spec
CONSTANTS
  Responses = {r1}
  Tools = {t1}
  Bash = {t1}
  Limit = 3
  Results = {"ok", "exit"}
  Keep = 2
  Batch = 3
  MaxEvents = 4
  MaxRedelivered = 1
  MaxTokens = 2
  MaxSends = 1
CHECK_DEADLOCK FALSE
INVARIANTS
  ShownOnce
  NothingSkipped
  SpinnerTrue
  CompletedNotBlank
  CardsAgree
  ResolvedShown
