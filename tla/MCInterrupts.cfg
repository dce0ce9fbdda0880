SPECIFICATION Spec
CONSTANTS
    Levels = 2
    Slots = 3
    ISACount = 1
    Gsis = {0, 1, 2}
    Madts <- OneIoApic
    Lapics = {0, 1}
    Priorities = {0, 1}
    Flags <- LevelTriggered
INVARIANTS RoutesSound
PROPERTY NoHandlerReplaced
