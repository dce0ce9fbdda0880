SPECIFICATION SetupFairSpec
CONSTANTS
    Maps <- AnyMaps
    ManagedPages = 8
    LowEnd = 2
    PageSize = 4
    LowManagerSize = 3
    ZoneManagerSize = 2
    Junk <- AnyJunk
INVARIANTS InsideOwnZone FreeMemoryKept ManagersSafe
PROPERTY Terminates
CHECK_DEADLOCK FALSE
