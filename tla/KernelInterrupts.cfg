CONSTANTS
    main = main
    a = a
    Threads = {main, a}
    Idle0 = idle0
    Idle1 = idle1
    NoThread = NoThread
    Objects = {}
    UserPriorities = 2
    Root = main
    InitialPriority <- ThreadPriorities
    MaxWakeups = 1
    MaxTimers = 2
    CarelessGuest = FALSE
    MaxPending = 2
    MaxAhead = 2
    CarelessHandler = FALSE
SPECIFICATION FairInterruptSpec
INVARIANTS ReadyListSound NoReadyThreadLost OneRunner WaitersAreListed TimedWaitHasTimer SwitchesBack
PROPERTIES PicksBest PreemptedGoesFirst SuspendedUntilResumed HandlerStaysCurrent DelayEnds
