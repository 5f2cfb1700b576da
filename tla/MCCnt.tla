------------------------------- MODULE MCCnt -------------------------------
(* Instances of HllCnt for TLC. *)
EXTENDS HllCnt

Chars == {"a", "b", Newline}

\* Every text of up to six characters.
ShortTexts == BoundedSeq(Chars, 6)
=============================================================================
