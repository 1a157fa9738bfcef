\* Every session of up to three runs of nas on two files, then a link.
SPECIFICATION ToolchainSpec
CONSTANTS
    Names <- MCNames
    Programs <- MCPrograms
    Sources <- MCSources
    MaxRuns = 3
INVARIANTS
    LinkedFromSources
    OperandsReachDefinitions
