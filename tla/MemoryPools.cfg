CONSTANTS
    RangeStart = 8
    RangeEnd = 72
    Grain = 8
    WordSize = 65536
    Sizes = {0, 1, 16, 20}
    Grains = {8, 16}
    Positions = {8, 24, 40}
    VplSizes = {1, 8, 9, 17}
    Requests <- SmallRequests
SPECIFICATION Spec
INVARIANT PoolIsWhole
PROPERTY ImplementsMemoryBlocks
VIEW Memory
