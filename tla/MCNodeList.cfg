SPECIFICATION Spec
CONSTANTS
    Pages <- Frames
    PerPage = 2
INVARIANT
    ChainsExact
PROPERTY
    DestroyReturnsAll
CHECK_DEADLOCK FALSE
