SPECIFICATION Spec

CONSTANTS
    Functions <- MCFunctions
    Main       = "main"
    Identifiers <- MCIdentifiers
    Numbers   <- MCNumbers
    Sites     <- MCSites
    MaxFrames  = 3
    MaxStack   = 3
    MaxWords   = 18

INVARIANTS
    RuntimeKept

PROPERTIES
    ImplementsFrames
