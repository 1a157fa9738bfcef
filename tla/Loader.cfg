\* Placement, patching and boot over every script and context of the menus.
SPECIFICATION Spec
CONSTANTS
    Half = 256
    IvtEntries = 2
    MemorySize = 64
    MaxScript = 5
    Commands <- MCCommands
INVARIANTS
    TypeOK
    SectionsIntact
    AlignedSections
    OperandsReachItems
    BootReachesMain
