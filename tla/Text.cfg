SPECIFICATION MCSpec
CONSTANTS
    Sizes = {1, 4, 6}
    Lengths = {0, 1, 2, 5}
    MaxLength = 10
    BufferSize = 3
    NEWLINE = 10
    NUL = 0
    Texts <- MCTexts
    MaxFile = 6
INVARIANTS
    InsideUpToHalfAgain
    CloneIsIndependent
    EveryFieldIsFound
    FitsUpToTwice
    LinesAreTheFiles
    NumbersKeepTheirValue
    
CHECK_DEADLOCK FALSE
