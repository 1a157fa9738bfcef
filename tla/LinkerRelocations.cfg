\* The merge is said to update the indexes of relocations.
SPECIFICATION Spec
CONSTANTS
    MaxFiles = 2
    Names <- MCNames
    Inputs <- MCInputs
INVARIANTS
    RelocsKeepTarget
