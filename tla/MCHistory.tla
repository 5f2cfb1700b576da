------------------------------ MODULE MCHistory ------------------------------
(* Instances of HLLHistory for TLC. *)
EXTENDS HLLHistory, TLC

CONSTANTS h1, h2

TwoHandles == {h1, h2}
HandleSymmetry == Permutations(TwoHandles)

MCEstimate(regs) ==
    MapThenFoldSet(+, 0, LAMBDA i : regs[i] * (RegisterMax + 1)^i,
                   LAMBDA T : CHOOSE i \in T : TRUE, Index)

\* Registers 0 and 1 may share an opcode, a pattern for register 0 needs the
\* dense encoding, register 3 splits the zeros into four opcodes.
SomeElements == {[idx |-> 0, pat |-> 1], [idx |-> 1, pat |-> 1],
                 [idx |-> 0, pat |-> 2], [idx |-> 3, pat |-> 1]}

\* One element for each of two registers; the second forces a promotion.
TwoElements == {[idx |-> 0, pat |-> 1], [idx |-> 1, pat |-> 2]}

\* Every pattern of register 0, the longer ones of the others.
FewElements == {e \in [idx : Index, pat : 1 .. 3] : e.idx = 0 \/ e.pat >= 2}
=============================================================================
