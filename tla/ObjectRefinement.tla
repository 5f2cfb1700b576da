-------------------------- MODULE ObjectRefinement --------------------------
(***************************************************************************)
(* HLLObject implements SketchBank: the encoding, the opcode stream, the   *)
(* sds length, the promotions and the cached cardinality cannot be seen    *)
(* through the answers.                                                    *)
(***************************************************************************)
EXTENDS HLLObject

\* What a client knows of an object.
SketchOf(o) ==
    CASE o.enc = "none" -> [st |-> "absent"]
      [] o.enc = "junk" -> [st |-> "refused"]
      [] Readable(o)    -> [st |-> "live", regs |-> RegsOf(o)]
      [] OTHER          -> [st |-> "broken", count |-> o.card]

Bank == INSTANCE SketchBank WITH
    bank <- [h \in Handle |-> SketchOf(objs[h])],
    kept <- SketchOf(stored)

\* Every behaviour of the objects is one of a bank of sketches: sparse and
\* dense objects answer alike, a promotion is invisible, a cached count is
\* the count that would be computed, and an object cut short by the storage
\* only ever answers with the count it carried.
ImplementsBank == Bank!BankSpec
=============================================================================
