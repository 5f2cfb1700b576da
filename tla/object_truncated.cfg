\* One handle whose bytes are stored and cut short.
CONSTANTS
    Registers = 3
    SparseValMaxValue = 2
    SparseValMaxLen = 2
    SparseZeroMaxLen = 1
    h1 = h1
    h2 = h2
    Handle = {h1}
    Elements <- FewElements
    RegisterMax = 3
    HdrSize = 2
    DenseSize = 5
    SparseMaxBytes = 5
    Estimate <- MCEstimate
    MaxArgs = 1
    MaxBatch = 1
    Dumpable = {h1}
    Lossy = TRUE
SPECIFICATION SpecH
PROPERTIES InvalidAddReported
