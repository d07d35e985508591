SPECIFICATION FairSpec

CONSTANTS
    Main       <- MCMain
    UserMain   <- MCUserMain
    ObjRef     <- MCObjRef
    Idents     <- MCIdents
    Bodies     <- MCBodies
    ConstNames <- MCConstNames
    MaxDecls   = 4

INVARIANTS
    TypeOK
    WalkClosed
    KeptFunctions
    OrderKept
    KeptConstants
    PruneTransparent
    CallsResolve

PROPERTIES
    VisitOnce
    Termination
    ImplementsTreeShaking
