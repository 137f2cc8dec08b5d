\* Two requests under fairness; smaller than MCTokenManager, no symmetry.
CONSTANTS
    Accounts = {a1}
    Tasks = {t1, t2}
    SafetyWindow = 0
    Backoff = 1
    CleanupInterval = 1
    FailureTTL = 1
    MaxRetries = 1
    CacheTTL = 1
    TokenLife = 1
    MaxTime = 1
    MaxIssued = 2
    MaxClears = 1
    Free = Free
SPECIFICATION FairSpec
PROPERTY EveryCallEnds
\* The model stops where its bounds do: the time is used up and the account in
\* back-off (Explored).
CHECK_DEADLOCK FALSE
