SPECIFICATION Spec
CONSTANTS
    W = 8
    Width = 30
    Height = 48
    StepX = 10
    StepY = 16
    BufferLength = 14
    Sampled = {0, 37, 200}
    Gate = 7
    Alignments = {0, 1, 2, 3, 4, 5, 6, 7}
    Chars <- AllChars
    Colours <- AllChars
    StringArgument <- TwoLetters
    Programs <- Calls
    Handlers <- HandlerCalls
    Interrupts = 2
INVARIANTS
    BufferInOrder
    HelpersCorrect
    NumbersFormatted
    ShownAsWritten
CHECK_DEADLOCK FALSE
