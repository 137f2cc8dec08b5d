\* Two accounts, a window of two ticks, one write of an answer under way.
CONSTANTS
    N = 2
    Interval = 1
    MaxBackoff = 2
    Window = 2
    Limit = 1
    MaxRestarts = 1
    Used = {1}
    MaxLate = 1
SPECIFICATION Spec
INVARIANT TypeOK
PROPERTIES QuietWithinWindow DueAreAsked
CHECK_DEADLOCK TRUE
