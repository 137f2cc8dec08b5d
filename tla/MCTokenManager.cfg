\* Two concurrent requests for one OAuth account, with one re-authentication.
CONSTANTS
    Accounts = {a1}
    Tasks = {t1, t2}
    SafetyWindow = 1
    Backoff = 2
    CleanupInterval = 1
    FailureTTL = 2
    MaxRetries = 2
    CacheTTL = 1
    TokenLife = 2
    MaxTime = 3
    MaxIssued = 3
    MaxClears = 1
    Free = Free
SPECIFICATION Spec
SYMMETRY TaskSymmetry
INVARIANTS TypeOK RefreshesSerialised RotationReachesRow TokenOutlivesWait
PROPERTIES BackoffNotExtended RowNeverRegresses
\* The model stops where its bounds do: the time is used up and the account in
\* back-off (Explored).
CHECK_DEADLOCK FALSE
