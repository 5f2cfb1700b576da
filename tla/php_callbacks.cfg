\* Two sketches, adds inside the conversions of other adds.
CONSTANTS
    Registers = 2
    SparseValMaxValue = 2
    SparseValMaxLen = 2
    SparseZeroMaxLen = 1
    RegisterMax = 3
    HdrSize = 2
    DenseSize = 5
    SparseMaxBytes = 5
    Elements <- MCElements
    Estimate <- MCEstimate
    Element <- MCElement
    NotHll = NotHll
    Nul = Nul
    r1 = r1
    r2 = r2
    r3 = r3
    o1 = o1
    o2 = o2
    Handle = {r1, r2}
    Object = {o1}
    Inputs <- WithObjects
    MaxArgs = 2
    MaxDepth = 2
    Dumpable = {}
    Lossy = FALSE
SYMMETRY HandleSymmetry
SPECIFICATION Spec
CHECK_DEADLOCK FALSE
INVARIANTS SketchOfAdds CachesCoherent
