SPECIFICATION Spec

CONSTANTS
    ByteBase    = 4
    ConstNames <- MCConstNames
    Values     <- MCValues
    FuncNames  <- MCFuncNames
    VarNames   <- MCVarNames
    Signatures <- MCSignatures
    Labels     <- MCLabels
    UsedOps    <- Mnemonics
    MaxCalls    = 5

CONSTRAINT Vocabulary

INVARIANTS
    TypeOK
    InstructionsIntact
    JumpsReachLabels
    CallsReachFunctions
    PanicJustified
    PushedValues
    SlotsInFrame
