------------------------------- MODULE MCSds -------------------------------
(* Instances of SdsString and SdsText for TLC. *)
EXTENDS SdsString, SdsText, TLC

Letters == {Nul, "a", "A"}
UpTo(set, n) == UNION {[1 .. k -> set] : k \in 0 .. n}
ShortTexts == UpTo(Letters, 2)

\* tolower, toupper, and a table that names a character twice.
Tables == {[from |-> <<"A">>, to |-> <<"a">>], [from |-> <<"a">>, to |-> <<"A">>],
           [from |-> <<"a", "a", Nul>>, to |-> <<Nul, "A", "a">>]}

\* Newline and bell have letters; "a" is a letter and a digit.  Of the bytes
\* that the digits "0" and "a" write, only these four exist.
Escapes == ("newline" :> "n") @@ ("bell" :> "a")
Codes == (<<"0", "0">> :> Nul) @@ (<<"0", "a">> :> "newline")
            @@ (<<"a", "0">> :> "\\xa0") @@ (<<"a", "a">> :> "\\xaa")
PrintableLetters == {"n", "x", "0", "a", "\\", "\"", "'", " "}
AllLetters == PrintableLetters \cup {Nul, "newline", "bell", "\\xaa"}
AllSymbols == AllLetters \cup {"\\xa0"}
NotEmpty == UpTo({"a", "\\", "\"", Nul}, 2) \ {<<>>}
Spaces == {" ", "newline"}

\* A client of the strings, and a client that only gives texts and numbers.
SdsInit == Init /\ GivenInit
SdsNext ==
    \/ GivenInit /\ Next /\ UNCHANGED givenVars
    \/ Init /\ GivenNext /\ UNCHANGED vars
SdsSpec == SdsInit /\ [][SdsNext]_<<vars, givenVars>>
=============================================================================
