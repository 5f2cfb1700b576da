------------------------------- MODULE HllCnt -------------------------------
(***************************************************************************)
(* The command line counter, hllcnt.c, with readln of utils.c: characters  *)
(* are read into a buffer that grows, and every line that readln returns   *)
(* is added to a sketch, until it returns 0.                               *)
(*                                                                         *)
(* One step is one turn of readln's loop or one turn of main's.  The       *)
(* sketch is the sequence of the lines it was given.                       *)
(***************************************************************************)
EXTENDS Integers, Sequences, SequencesExt

CONSTANTS
    Char,       \* characters
    Texts,      \* the inputs: sequences of characters
    Newline,    \* '\n', the delimiter
    GrowRate    \* growrate

ASSUME GrowRateAssumption == GrowRate \in Nat \ {0}
ASSUME TextsAssumption == Texts \subseteq Seq(Char)

VARIABLES
    text,      \* the whole input
    input,     \* what is left of it
    buffer,    \* buffer[0 .. pos-1]; pos is its length
    bufsize,   \* bytes allocated for it
    pc,        \* "reading" in readln's loop, "line" behind it, "done"
    eof,       \* feof(stream)
    failing,   \* reads of the stream fail: a directory, a disk error
    added      \* the lines given to pfAdd

cntVars == <<text, input, buffer, bufsize, pc, eof, failing, added>>

Init ==
    /\ text \in Texts
    /\ input = text
    /\ buffer = <<>>
    /\ bufsize = GrowRate
    /\ pc = "reading"
    /\ eof = FALSE
    /\ failing = FALSE
    /\ added = <<>>

\* Mistake: the buffer grows one character too late.
GrownLate(size, pos) == IF pos > size THEN size + GrowRate ELSE size

Grown(size, pos) == IF pos = size THEN size + GrowRate ELSE size

\* getc gives a character.
ReadChar ==
    /\ pc = "reading" /\ ~failing /\ input # <<>>
    /\ buffer' = Append(buffer, Head(input))
    /\ input' = Tail(input)
    /\ bufsize' = Grown(bufsize, Len(buffer'))
    /\ pc' = IF Head(input) = Newline THEN "line" ELSE "reading"
    /\ UNCHANGED <<text, eof, failing, added>>

\* Mistake: only the delimiter ends the loop.
ReadEofGoesOn ==
    /\ pc = "reading" /\ ~failing /\ input = <<>>
    /\ eof' = TRUE
    /\ UNCHANGED <<text, input, buffer, bufsize, failing, added, pc>>

\* Mistake: what was read before the end is forgotten.
ReadEofForgets ==
    /\ pc = "reading" /\ ~failing /\ input = <<>>
    /\ eof' = TRUE
    /\ pc' = "line"
    /\ buffer' = <<>>
    /\ UNCHANGED <<text, input, bufsize, failing, added>>

\* getc gives EOF at the end of the input.
ReadEof ==
    /\ pc = "reading" /\ ~failing /\ input = <<>>
    /\ eof' = TRUE
    /\ pc' = "line"
    /\ UNCHANGED <<text, input, buffer, bufsize, failing, added>>

\* Mistake: any EOF ends the line.
ReadErrorEnds ==
    /\ pc = "reading" /\ failing
    /\ pc' = "line"
    /\ UNCHANGED <<text, input, buffer, bufsize, eof, failing, added>>

\* getc gives EOF because a read failed, which does not set feof: unless the
\* end was met before, the loop goes on.
ReadError ==
    /\ pc = "reading" /\ failing
    /\ pc' = IF eof THEN "line" ELSE "reading"
    /\ UNCHANGED <<text, input, buffer, bufsize, eof, failing, added>>

\* Mistake: the delimiter stays.
WholeBuffer(s) == s

\* The last character is overwritten, whatever it is.
Chopped(s) == IF s = <<>> THEN s ELSE Front(s)

\* readln has returned: main adds the line, or stops at the first empty one.
AddLine ==
    /\ pc = "line"
    /\ IF Chopped(buffer) # <<>>
       THEN /\ added' = Append(added, Chopped(buffer))
            /\ pc' = "reading"
       ELSE /\ pc' = "done"
            /\ UNCHANGED added
    /\ buffer' = <<>>
    /\ UNCHANGED <<text, input, bufsize, eof, failing>>

\* The stream's reads begin or cease to fail.
Fault ==
    /\ pc = "reading"
    /\ failing' = ~failing
    /\ UNCHANGED <<text, input, buffer, bufsize, pc, eof, added>>

Turn == ReadChar \/ ReadEof \/ ReadError \/ AddLine

Next == Turn \/ Fault

Spec == Init /\ [][Next]_cntVars

\* The program runs; nothing is promised of the stream's faults.
FairSpec == Spec /\ WF_cntVars(Turn)

-----------------------------------------------------------------------------
\* readln writes inside its buffer: the next character and the '\0' behind
\* the last one, on lines that end just before, at or after a growth.
WritesInside == pc # "done" => Len(buffer) < bufsize

Terminated(lines) == FlattenSeq([i \in DOMAIN lines |-> Append(lines[i], Newline)])

\* Until the end of the input is met, the lines added, each with its newline,
\* the buffer and the rest of the input make up the input: no character is
\* lost, repeated or kept from one line to the next, whichever reads fail.
WholeSoFar == Terminated(added) \o buffer \o input = text

\* When the counter ends, either the end of the input ended it, and all of the
\* input was added but, perhaps, its last character; or an empty line did, and
\* what follows that line was not added.
AllButTheEnd ==
    LET t == Terminated(added)
    IN  IF eof THEN Front(text) \in {t, Front(t)} ELSE text = t \o <<Newline>> \o input

NothingLost ==
    /\ ~eof /\ pc # "done" => WholeSoFar
    /\ pc = "done" => AllButTheEnd

\* The counter ends on every input, with or without a last newline, when reads
\* do not fail for ever.  When they do, readln never returns.
Ends == <>[]~failing => <>(pc = "done")
=============================================================================
