SPECIFICATION Spec
CONSTANTS
    Letters <- MCLetters
    Exponents = {"e"}
    Digits <- MCDigits
    Spacing <- MCSpacing
    Keywords <- MCKeywords
    BoolLiterals <- MCBoolLiterals
    Texts <- LayoutTexts
    MaxEOF = 2
INVARIANT
    BlankLinesKeepBlocks
