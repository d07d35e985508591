SPECIFICATION FairSpec

CONSTANTS
    Binaries <- TrailingBinaries
    SlotBase = 6
    Pad      = 4
    MaxOut   = 4

INVARIANT NoTrailingProgram
