\* Two requests, one restart.
SPECIFICATION Spec
CONSTANTS
  r1 = r1
  r2 = r2
  Requests = {r1, r2}
  Cost <- MCCost
  Weight <- MCWeight
  MaxTokens = 2
  Total = 2
  MaxExternal = 1
  Window = 0
  MaxAge = 0
  Interval = 1
  MaxFactor = 2
  Readers = {updater}
  Updater = updater
  MaxNow = 1
  MaxRestarts = 1
CHECK_DEADLOCK FALSE
INVARIANTS TypeOK CountedOnce FreshUsageKept
PROPERTIES LowerBoundExplained BoundUnlearned
