CONSTANTS
    main = main
    a = a
    b = b
    x = x
    y = y
    Threads = {main, a, b}
    Idle0 = idle0
    Idle1 = idle1
    NoThread = NoThread
    Objects = {o}
    UserPriorities = 2
    Root = main
    InitialPriority <- ThreadPriorities
    MaxWakeups = 0
    MaxTimers = 1
    CarelessGuest = FALSE
    Kinds = {"sema", "eventflag", "mutex", "lwmutex", "mbx", "msgpipe", "fpl", "vpl"}
    MaxCount = 2
    Guests = {{"timeouts", "release", "refer", "rotate", "suspend", "overtaking"}, {"refer", "cancel", "end", "priorities"}}
    InitCount = 0
    SemaAttributes = {"fifo", "priority"}
    Patterns <- TwoBits
    Conditions <- BothAndAny
    MutexAttributes = {{}, {"priority", "recursive"}}
    Packets = {0, 1, 2}
    NoPacket = NoPacket
    PacketPriority <- NumberPriority
    BufferSizes = {0, 2}
    MessageSizes = {1, 2}
    VplAttributes = {"fifo", "priority"}
SPECIFICATION ObjectsSpec
SYMMETRY Alike
INVARIANTS ListsInStep NothingServableWaits HeldLocksInStep RingIsWhole TimedWaitsEnd GrantedOwnsUnlessEnds
PROPERTIES BestIsServed GrantsAreKept
