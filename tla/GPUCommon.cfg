CONSTANTS
    t = t
    NoList = NoList
    DisplayListMaxCount = 2
    Threads = {t}
    Stalls = {0, 2}
    Programs <- ListPrograms
    SeparateThread = {TRUE}
    NewSdk = FALSE
    Careless = {}
    MaxQueued = 1
SPECIFICATION Spec
INVARIANTS CurrentListInStep NoListStranded WaitersAreServed
PROPERTIES NoInterruptOfOldList SuspendedUntilHandled
