CONSTANTS
    NUM_QUEUES = 3
    INITIAL_CAPACITY = 2
    Threads = {t1, t2}
    NoThread = NoThread
    MaxEntries = 3
    AllocOutcomes = {TRUE}
SYMMETRY Symmetry
SPECIFICATION Spec
INVARIANTS RoomAtBothEnds
PROPERTIES ImplementsReadyQueues
