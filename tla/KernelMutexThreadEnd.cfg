CONSTANTS
    main = main
    a = a
    b = b
    x = x
    y = y
    Threads = {main, a}
    Idle0 = idle0
    Idle1 = idle1
    NoThread = NoThread
    Objects = {m1, m2, m3}
    UserPriorities = 2
    Root = main
    InitialPriority <- ThreadPriorities
    MaxWakeups = 0
    MaxTimers = 1
    CarelessGuest = FALSE
    Kinds = {"mutex"}
    MaxCount = 1
    Guests = {{"end", "delay"}}
    InitCount = 0
    SemaAttributes = {"fifo", "priority"}
    Patterns <- TwoBits
    Conditions <- BothAndAny
    MutexAttributes = {{}}
    Packets = {0, 1}
    NoPacket = NoPacket
    PacketPriority <- NumberPriority
    BufferSizes = {0, 1}
    MessageSizes = {1}
    VplAttributes = {"fifo"}
SPECIFICATION ObjectsSpec
INVARIANTS GrantedOwns
