SPECIFICATION Spec

CONSTANTS
    WordBits  = 4
    ImmMax    = 3
    Constants <- MCConstants
    Arity     <- MCArity
    ObjRef    = 999
    Answers   <- MCAnswers
    Inputs    <- AnyWord
    Garbage   <- MCGarbage
    MaxLog    = 4
    Programs  <- ValuePrograms

INVARIANTS
    TypeOK
    StackBalanced

PROPERTIES
    ImplementsSource
