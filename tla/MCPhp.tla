------------------------------- MODULE MCPhp -------------------------------
(* Instances of PhpHll for TLC. *)
EXTENDS PhpHll, FiniteSetsExt

CONSTANTS r1, r2, r3, o1, o2

HandleSymmetry == Permutations(Handle)
ObjectSymmetry == Permutations(Object) \cup HandleSymmetry

MCEstimate(regs) ==
    MapThenFoldSet(+, 0, LAMBDA i : regs[i] * (RegisterMax + 1)^i,
                   LAMBDA T : CHOOSE i \in T : TRUE, 0 .. Registers - 1)

\* The hash: "" and "a" share a register, "b" needs the dense encoding.
MCElement(s) ==
    CASE s = <<>> -> [idx |-> 0, pat |-> 1]
      [] s = <<"a">> -> [idx |-> 0, pat |-> 2]
      [] s = <<"b">> -> [idx |-> 1, pat |-> 3]
      [] OTHER -> [idx |-> 1, pat |-> 1]

MCElements == {MCElement(s) : s \in {<<>>, <<"a">>, <<"b">>, <<"c">>}}

\* One string at a time.
OneString == {<<Scalar(<<"a">>)>>, <<Scalar(<<"b">>)>>}

\* Only a string that promotes.
OneLongString == {<<Scalar(<<"b">>)>>}

\* Arrays with objects to convert, and values that cannot be converted.
WithObjects == {<<Scalar(<<"a">>)>>,
                <<Scalar(<<"b">>), Stringable(<<"a">>)>>,
                <<Scalar(<<"b">>), Opaque>>}

\* Strings that end in a NUL, or are nothing else.
WithNuls == {<<Scalar(<<>>)>>, <<Scalar(<<Nul>>)>>, <<Scalar(<<"a", Nul>>)>>}
=============================================================================
