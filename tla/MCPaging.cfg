SPECIFICATION Spec
CONSTANTS
    Width = 2
    TableFrames = {2, 3, 4, 5, 6, 7, 8}
    PML4Table = 2
    Offset = 12
    Handed <- MCHanded
    FlagSets <- MCFlagSets
    Extents = {1, 2}
    VPages <- MCVPages
    PFrames = {0}
INVARIANTS
    TablesSound
    NeverAWrongFrame

    
CHECK_DEADLOCK FALSE
