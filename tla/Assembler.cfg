\* Sections, sizes, labels, relocations, symbols, errors and termination over
\* every program of the two menus.
SPECIFICATION FairSpec
CONSTANTS
    MaxLines = 4
    Names <- MCNames
    Programs <- MCPrograms
INVARIANTS
    TypeOK
    PassesAgree
    ExactSizes
    ObjectReadsBack
    ObjectWellFormed
    LabelsAddressItems
    RelocsMatchOperands
    VerdictMatchesProgram
    GlobalsAreDeclared
PROPERTIES
    ImplementsLayout
    IndexesStable
    Termination
