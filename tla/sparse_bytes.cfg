\* One sparse object of eleven registers in bytes of four bits, and dumps cut
\* short; a string never gets more room than is asked for.
CONSTANTS
    Nul = 0
    Unset = 99
    MaxPrealloc = 0
    Registers = 11
    RegisterMax = 3
    SparseValMaxValue = 2
    SparseValMaxLen = 4
    SparseZeroMaxLen = 4
    HdrSize = 1
    SparseMaxBytes = 7
    Elements <- SmallElements
    Loaded <- CutStreams
SPECIFICATION Spec
INVARIANTS TypeOK StringKept SumOfRegisters BytesCanonical
PROPERTIES ImplementsObject
