\* Every short text, with a buffer that grows by two.
CONSTANTS
    Newline = "n"
    GrowRate = 2
    Char <- Chars
    Texts <- ShortTexts
SPECIFICATION FairSpec
CHECK_DEADLOCK FALSE
INVARIANTS WritesInside NothingLost
PROPERTIES Ends
