SPECIFICATION FairSpec

CONSTANTS
    Binaries <- MCBinaries
    SlotBase = 6
    Pad      = 4
    MaxOut   = 4

INVARIANTS
    TypeOK
    EmittedOnce
    JumpsHaveLabels
    SlotsKept

PROPERTIES
    Termination
    ImplementsDisassembly
