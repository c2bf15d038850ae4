CONSTANTS
    vblank = vblank
    sync = sync
    Kinds = {vblank, sync}
    Vblank = vblank
    Period = 2
    Delays = {0, 1}
    Blocks = {1, 2}
    InitialSlice = 1
    MaxSlice = 3
    EmptySlice = 3
    IntRange = 8
    IdlesLate = FALSE
    SavesPosted = FALSE
    MaxTime = 3
    MaxEvents = 3
    MaxDepth = 3
SPECIFICATION Spec
INVARIANTS NoPostedEventStranded
PROPERTIES SliceEndsInTime KeepsPromise
