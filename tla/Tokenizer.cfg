SPECIFICATION FairSpec
CONSTANTS
    Letters <- MCLetters
    Exponents = {"e"}
    Digits <- MCDigits
    Spacing <- MCSpacing
    Keywords <- MCKeywords
    BoolLiterals <- MCBoolLiterals
    Texts <- MCTexts
    MaxEOF = 2
INVARIANTS
    TypeOK
    LocationsConsistent
    TokensTileCode
    MaximalMunch
    PanicsHaveACause
    IndentStackIncreasing
    DepthFollowsIndentation
PROPERTIES
    EventuallyEOF
    ImplementsBlockStructure
