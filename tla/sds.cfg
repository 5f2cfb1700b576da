\* Strings of three characters at most in blocks of at most nine bytes; texts
\* of four characters.
CONSTANTS
    Nul = "NUL"
    Unset = Unset
    NoStr = NoStr
    Char <- Letters
    Text <- ShortTexts
    Pairs <- Tables
    MaxLen = 3
    MaxPrealloc = 2
    NoArgs = NoArgs
    Blank <- Spaces
    Stop <- Spaces
    Escape <- Escapes
    Printable <- PrintableLetters
    ByteOf <- Codes
    FirstBuffer = 2
    LongMax = 127
    Symbol <- AllSymbols
    Letter <- AllLetters
    TextLen = 4
    Separators <- NotEmpty
SPECIFICATION SdsSpec
INVARIANTS TypeOK StringKept GrowthPromised CutsPromised WritesWhole ArgsReadBack PartsJoinBack
