\* All symbol definitions are said to be known after the first pass.
SPECIFICATION Spec
CONSTANTS
    MaxLines = 2
    Names <- MCNames
    Programs <- SymbolPrograms
INVARIANTS
    LabelsDefined
