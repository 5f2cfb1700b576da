\* A sketch and an object loaded from its dump, which may be damaged.
CONSTANTS
    Registers = 2
    SparseValMaxValue = 2
    SparseValMaxLen = 2
    SparseZeroMaxLen = 1
    RegisterMax = 3
    HdrSize = 2
    DenseSize = 5
    SparseMaxBytes = 5
    Elements <- MCElements
    Estimate <- MCEstimate
    Element <- MCElement
    NotHll = NotHll
    Nul = Nul
    r1 = r1
    r2 = r2
    r3 = r3
    o1 = o1
    o2 = o2
    Handle = {r1, r2}
    Object = {o1, o2}
    Inputs <- OneLongString
    MaxArgs = 1
    MaxDepth = 1
    Dumpable = {r1}
    Lossy = TRUE
SPECIFICATION Spec
CHECK_DEADLOCK FALSE
INVARIANTS TypeOK SketchOfAdds
PROPERTIES SketchesGrow LeaksOnlyInFailedMerges
