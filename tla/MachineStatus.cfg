\* The same programs against the comment on returning.
SPECIFICATION Spec
CONSTANTS
    Half = 256
    IoSize = 4
    InputPort = 1
    OutputPort = 2
    Characters <- MCCharacters
    MaxTicks = 3
    StackWords = 12
    Garbage = {0, 16384}
    Images <- MCImages
INVARIANTS
    StatusRestored
