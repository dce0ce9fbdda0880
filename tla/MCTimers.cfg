SPECIFICATION FairSpec
CONSTANTS
    HpetMax = 3
    LapicMax = 3
    Quanta = {1, 3}
    TickBound = 1
INVARIANTS WaitsSound
PROPERTY WaitReturns
