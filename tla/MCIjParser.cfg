SPECIFICATION Spec

\* The parser ends.
CHECK_DEADLOCK FALSE

CONSTANTS
    Sources  <- MCSources
    Root      = "root"
    I8_MAX    = 127
    INT32_MAX = 32767
    LONG_MAX  = 70000

INVARIANTS
    TreeIsProgram
    ReadInPlace
    NothingLost

PROPERTIES
    Termination
