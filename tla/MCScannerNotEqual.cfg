CONSTANTS
    Length = 4
    Texts <- Comparisons
    keywords <- MCkeywords
    Letters <- MCLetters
    HexLetters <- MCHexLetters
    Digits <- MCDigits
    MaxBuilder = 10
SPECIFICATION Spec
INVARIANT OperatorsScan
CHECK_DEADLOCK FALSE
