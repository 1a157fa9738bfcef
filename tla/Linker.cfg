\* Merging and resolution over every command line of the menu.
SPECIFICATION FairSpec
CONSTANTS
    MaxFiles = 3
    Names <- MCNames
    Inputs <- MCInputs
INVARIANTS
    TypeOK
    SectionsFit
    SymbolsFollowSections
    RelocsFollowText
    LinkVerdict
    GlobalsAgree
PROPERTIES
    Termination
    ImplementsBinding
