SPECIFICATION Spec

\* The reader ends.
CHECK_DEADLOCK FALSE

CONSTANTS
    Scripts  <- MCScripts
    I8_MAX    = 3
    INT32_MAX = 15
    LONG_MAX  = 40

INVARIANTS
    TypeOK
    RoundTrip
    NeverMisread
