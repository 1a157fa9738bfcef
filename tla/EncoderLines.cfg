\* Each instruction is said to be compiled: three kinds of lines are not.
SPECIFICATION Spec
CONSTANTS
    Half = 16
    InstructionLines <- MCLines
INVARIANT
    LinesCompiled
CHECK_DEADLOCK FALSE
