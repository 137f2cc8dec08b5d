SPECIFICATION Spec
CONSTANTS
    N = 3
    Requests = {r1, r2}
    Scenes <- MCScenes
    UsageLevels <- MCUsage
    Metas <- MCMetas
    Changing = {1}
    MaxAttempts = 2
    SessionDuration = 2
    CacheTTL = 1
    Debounce = 0
    Window = 0
    Limit = 0
    Wrap = 6
PROPERTIES
    OneResetPerWindow
CHECK_DEADLOCK FALSE
