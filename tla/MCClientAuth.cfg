SPECIFICATION Spec
CONSTANTS
  k1 = k1
  k2 = k2
  Tasks = {t1, t2}
  Keys = {k1, k2}
  Scope <- MCScope
  NoCredential = none
  DashboardPassword = pw
  Requests <- MCRequests
  Deployments <- MCDeployments
  KeyTTL = 2
  NegativeTTL = 1
  EnabledTTL = 1
  MaxEntries = 1
  Window = 2
  Limit = 1
  Slack = 1
  MaxNow = 3
  MaxEdits = 1
SYMMETRY Symmetry
CHECK_DEADLOCK FALSE
INVARIANTS TypeOK RevocationTakesEffect RefusalsHaveACause OpenOnlyWhenKeyless RpmHolds
