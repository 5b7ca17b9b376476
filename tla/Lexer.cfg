CONSTANTS
    Letters <- MCLetters
    Digits <- MCDigits
    Marks <- MCMarks
    KeywordNames <- MCKeywords
    Texts <- MCTexts
    MaxDepth = 2
SPECIFICATION LexSpec
INVARIANTS SubstitutionExact LineExact
PROPERTY LexEnds
CHECK_DEADLOCK FALSE
