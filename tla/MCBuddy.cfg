SPECIFICATION LowSpec
CONSTANTS
    W = 9
    Depth = 5
    Start = 32
    FreeRegions <- Regions
    LeafJunk <- Junk
    Counts = {0, 1, 2, 4, 8, 32, 33}
INVARIANTS TreeConsistent AllocComplete CallersApart NothingLost
PROPERTY ImplementsPageAlloc
CHECK_DEADLOCK FALSE
