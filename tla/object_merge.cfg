\* Two handles, batches, merges and merged counts, with their history, on five
\* registers where streams merge, split and outgrow the limit.
CONSTANTS
    Registers = 5
    SparseValMaxValue = 1
    SparseValMaxLen = 2
    SparseZeroMaxLen = 1
    h1 = h1
    h2 = h2
    Handle <- TwoHandles
    Elements <- SomeElements
    RegisterMax = 2
    HdrSize = 2
    DenseSize = 5
    SparseMaxBytes = 6
    Estimate <- MCEstimate
    MaxArgs = 2
    MaxBatch = 2
    Dumpable = {}
    Lossy = FALSE
SYMMETRY HandleSymmetry
SPECIFICATION SpecH
INVARIANTS RegistersAreSketch StreamsComplete SparseWithinLimit NeverAborts
PROPERTIES CountsAreOfUnion RegistersGrow AddReportsChange
