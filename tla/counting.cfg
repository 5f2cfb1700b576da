\* Sixteen registers of six bits: a turn of hllDenseSum's unrolled loop.
CONSTANTS
    Registers = 16
    Bits = 6
    Inputs <- Patterns
    MaxSet = 2
    t1 = t1
    t2 = t2
    Thread <- TwoThreads
SPECIFICATION CountSpec
SYMMETRY ThreadSymmetry
INVARIANTS TypeOK PackedArray CountsAgree
