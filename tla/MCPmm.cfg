SPECIFICATION FairSpec
CONSTANTS
    CPUs = {c1}
    zoneCount = 2
    ZonePages = 4
    LowPages = 2
    PAGE_SIZE = 4
    Counts = {0, 1, 2, 3}
    Starts = {0, 3}
    LowStart = 2
    Figures = {0, 2}
    HeldBound = 2
    Drift = 1
INVARIANTS PmmInv TotalsAddUp AccountsBalance QuietMeansUnlocked
PROPERTY FreeReturns
CHECK_DEADLOCK FALSE
