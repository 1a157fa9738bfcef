\* Adding a symbol is said to fail when the symbol exists.
SPECIFICATION Spec
CONSTANTS
    MaxLines = 2
    Names <- MCNames
    Programs <- SymbolPrograms
INVARIANTS
    NamesUnique
