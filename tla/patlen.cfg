\* Every hash of 9 bits.
CONSTANTS
    W = 9
    P = 3
    RegisterBits = 3
SPECIFICATION PatLenSpec
CHECK_DEADLOCK FALSE
INVARIANTS PatLenTypeOK PatternRight CountFitsRegister
PROPERTIES Terminates
