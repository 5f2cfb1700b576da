\* Two handles, the bytes of one stored, damaged and loaded again, with their
\* history: HLLObject against SketchBank when calls fail.
CONSTANTS
    Registers = 2
    SparseValMaxValue = 1
    SparseValMaxLen = 2
    SparseZeroMaxLen = 1
    h1 = h1
    h2 = h2
    Handle <- TwoHandles
    Elements <- TwoElements
    RegisterMax = 2
    HdrSize = 2
    DenseSize = 5
    SparseMaxBytes = 4
    Estimate <- MCEstimate
    MaxArgs = 1
    MaxBatch = 1
    Dumpable = {h1}
    Lossy = TRUE
SPECIFICATION SpecH
INVARIANTS TypeOK CacheCoherent
PROPERTIES ImplementsBank FailureChangesNothing DamageIsPermanent
