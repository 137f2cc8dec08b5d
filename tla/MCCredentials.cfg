\* One account, its requests, the usage poller and re-authentication.
CONSTANTS
    Accounts = {a1}
    Tasks = {t1}
    SafetyWindow = 0
    Backoff = 1
    CleanupInterval = 1
    FailureTTL = 2
    MaxRetries = 1
    CacheTTL = 1
    TokenLife = 1
    MaxTime = 1
    MaxIssued = 3
    MaxClears = 1
    Regimes = {"rotating"}
    Free = Free
SPECIFICATION CredSpec
INVARIANTS CredTypeOK RowTokenAccounted
PROPERTIES WipeOnlyIfStale RegressionExplained
CHECK_DEADLOCK TRUE
