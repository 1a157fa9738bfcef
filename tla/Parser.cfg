\* Every way to write a line, and every line of a few pieces.
SPECIFICATION FairSpec
CONSTANTS
    ProgramLinesLength = 2
    MaxPieces = 4
    Contents <- MCContents
    Styles <- MCStyles
    Files <- MCFiles
INVARIANTS
    LinesUnderstood
    NothingInvented
PROPERTIES
    Termination
