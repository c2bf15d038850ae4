CONSTANTS
    v1 = v1
    v2 = v2
    SubIntrs <- Handlers
    Alarms = {x, y}
    VTimers = {}
    SYSTIMER0 = SYSTIMER0
    SYSTIMER1 = SYSTIMER1
    NoHandler = NoHandler
    MaxPending = 4
    ReleasesItself = FALSE
    CancelsLate = TRUE
SPECIFICATION Spec
INVARIANT OnlyDeletedIgnored
