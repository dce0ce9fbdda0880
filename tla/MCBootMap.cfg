SPECIFICATION Spec
CONSTANTS
    Disks <- MCDisks
    Directories <- MCDirectories
    ModeLists <- MCModes
    CoreCounts = {0, 2}
    Images <- MCImages
    Machines <- MCMachines
    PageBytes = 4
    StackBytes = 2
    TssBytes = 1
    GdtEntryBytes = 1
    HeaderBytes = 2
    ReadsFail = FALSE
    Width = 5
    EntrySize = 3
    ScreenPage = 60
    Events = 1
    Xsdts <- MCXsdts
    CounterValues = 5
INVARIANT
    KernelSeesAll
CHECK_DEADLOCK FALSE
