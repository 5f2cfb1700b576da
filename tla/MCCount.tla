------------------------------ MODULE MCCount ------------------------------
(* Instances of HLLCount for TLC. *)
EXTENDS HLLCount, TLC

\* No bit, one end, alternating bits both ways, all bits.
Patterns == {0, 1, 21, 42, 63}

CONSTANTS t1, t2
TwoThreads == {t1, t2}
ThreadSymmetry == Permutations(TwoThreads)
=============================================================================
