------------------------------ MODULE MCBytes ------------------------------
(* Instances of HLLSparseBytes for TLC. *)
EXTENDS BytesRefinement

\* Patterns that a VAL opcode holds, and one it does not.
SmallElements ==
    [idx : Index, pat : {1}] \cup [idx : {5}, pat : {2, 3}]

\* Dumps that have lost their last opcodes, with and without a cached
\* cardinality, the last one all of them.
CutStreams ==
    {<<0>>,
     <<8>> \o ValOf(1, 2) \o ValOf(2, 1) \o ZeroOf(4)}
=============================================================================
