\* Two clients at a time, an OAuth account and one with a key, two flows.
SPECIFICATION Spec
SYMMETRY Interchangeable
CONSTANTS
  Clients = {c1, c2}
  Ids = {i1, i2}
  OAuthIds = {i1}
  Names <- MCNames
  Fold <- MCFold
  Sessions = {s1, s2}
  TTL = 1
  None = None
  Unborn = Unborn
  Gone = Gone
  MaxNow = 2
CHECK_DEADLOCK FALSE
INVARIANTS TypeOK SessionUsedOnce NamesakesExplained
