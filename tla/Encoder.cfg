\* Every mnemonic with every pair of arguments of a menu.
SPECIFICATION Spec
CONSTANTS
    Half = 16
    InstructionLines <- MCLines
INVARIANTS
    OperandsSurvive
    ConstantsWhole
CHECK_DEADLOCK FALSE
