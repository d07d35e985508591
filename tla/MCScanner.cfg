CONSTANTS
    Length = 4
    Texts <- MCTexts
    keywords <- MCkeywords
    Letters <- MCLetters
    HexLetters <- MCHexLetters
    Digits <- MCDigits
    MaxBuilder = 10
SPECIFICATION Spec
INVARIANTS ScansLanguage
PROPERTIES Termination
CHECK_DEADLOCK FALSE
