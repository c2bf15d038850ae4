CONSTANTS
    v1 = v1
    v2 = v2
    SubIntrs <- Handlers
    Alarms = {x, y}
    VTimers = {v, w}
    SYSTIMER0 = SYSTIMER0
    SYSTIMER1 = SYSTIMER1
    NoHandler = NoHandler
    MaxPending = 3
    ReleasesItself = FALSE
    CancelsLate = FALSE
SPECIFICATION Spec
INVARIANTS FrontIsRunning TimersInStep NoTimerForgotten NoInterruptStranded
