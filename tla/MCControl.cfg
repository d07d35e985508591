SPECIFICATION Spec

CONSTANTS
    WordBits  = 3
    ImmMax    = 1
    Constants <- MCConstants
    Arity     <- MCArity
    ObjRef    = 99
    Answers   = {0, 1}
    MaxLog    = 2
    Inputs    <- FewInputs
    Garbage   = {0}
    Programs  <- ControlPrograms

INVARIANTS
    StackBalanced
    JumpsResolve

PROPERTIES
    ImplementsSource
