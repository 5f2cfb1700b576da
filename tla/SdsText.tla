------------------------------ MODULE SdsText ------------------------------
(***************************************************************************)
(* The functions of sds.c that write and read text: sdscatvprintf,         *)
(* sdscatrepr and sdssplitargs, sdssplitlen and sdsjoinsds,                *)
(* sdsfromlonglong.  They are functions of sequences of characters: the    *)
(* bytes of the strings that they build with sdscatlen are in SdsString.   *)
(***************************************************************************)
EXTENDS Sds

CONSTANTS
    NoArgs,        \* the NULL that sdssplitargs returns
    Blank,         \* the characters of isspace
    Stop,          \* those of them that end an argument outside quotes
    Escape,        \* the letter after the backslash, for \n \r \t \a \b
    Printable,     \* those that sdscatrepr writes as they are
    ByteOf,        \* the character of two hexadecimal digits after \x
    FirstBuffer,   \* the first size that sdscatvprintf tries
    LongMax,       \* the greatest long long
    Symbol,        \* the characters
    Letter,        \* bound: those of the texts
    TextLen,       \* bound: the length of a text
    Separators     \* bound: the separators, not empty

ASSUME TextAssumption ==
    /\ FirstBuffer \in Nat \ {0, 1} /\ LongMax \in Nat
    /\ Letter \cup {Nul, "\\", "\"", "'", "x", " "} \subseteq Symbol
    /\ \A sep \in Separators : sep \in Seq(Letter) /\ sep # <<>>

\* No two characters have the same letter after a backslash, none has the one
\* that another meaning has there, and what has no letter and cannot be
\* printed has digits.
ASSUME TablesAssumption ==
    /\ Nul \notin {"\\", "\"", "x", " "} \cup Printable
    /\ \A c \in DOMAIN Escape :
         c \in Symbol /\ Escape[c] \in Symbol \ {Nul, "\\", "\"", "x"}
    /\ \A c, d \in DOMAIN Escape : Escape[c] = Escape[d] => c = d
    /\ \A h \in DOMAIN ByteOf : h \in Symbol \X Symbol /\ ByteOf[h] \in Symbol
    /\ \A c \in Letter : c \in {"\\", "\""} \cup DOMAIN Escape \cup Printable
                                \cup {ByteOf[h] : h \in DOMAIN ByteOf}
    /\ " " \in Blank /\ "\"" \notin Blank \cup Stop

VARIABLES
    given,   \* the text that the client gives to the functions
    value    \* the long long that it gives to sdsfromlonglong

givenVars == <<given, value>>

-----------------------------------------------------------------------------
(* sdscatvprintf: t is what the format makes, cut where the buffer ends.   *)

InBuffer(t, n) == SubSeq(t, 1, Min({Len(t), n - 1}))

\* Mistake: the buffer's last byte, which is always NUL, is looked at.
ProbeLast(t, n) == IF n \in DOMAIN InBuffer(t, n) THEN t[n] ELSE Nul

\* buf[buflen-2], set to NUL before vsnprintf.
Probe(t, n) == IF n - 1 \in DOMAIN t THEN t[n - 1] ELSE Nul

Printed(t) ==
    LET try[n \in Nat] ==
            IF Probe(t, n) # Nul THEN try[2 * n] ELSE CString(InBuffer(t, n))
    IN  try[FirstBuffer]

-----------------------------------------------------------------------------
(* sdscatrepr.                                                             *)

\* Mistake: the quotes inside are not escaped.
ReprCharBare(c) ==
    IF c = "\\" THEN <<"\\", c>>
    ELSE IF c \in DOMAIN Escape THEN <<"\\", Escape[c]>>
    ELSE IF c \in Printable THEN <<c>>
    ELSE <<"\\", "x">> \o (CHOOSE h \in DOMAIN ByteOf : ByteOf[h] = c)

ReprChar(c) ==
    IF c \in {"\\", "\""} THEN <<"\\", c>>
    ELSE IF c \in DOMAIN Escape THEN <<"\\", Escape[c]>>
    ELSE IF c \in Printable THEN <<c>>
    ELSE <<"\\", "x">> \o (CHOOSE h \in DOMAIN ByteOf : ByteOf[h] = c)

Repr(v) ==
    LET tail[i \in 1 .. Len(v) + 1] ==
            IF i > Len(v) THEN <<"\"">> ELSE ReprChar(v[i]) \o tail[i + 1]
    IN  <<"\"">> \o tail[1]

-----------------------------------------------------------------------------
(* sdssplitargs.                                                           *)

Unescaped(c) ==
    IF \E e \in DOMAIN Escape : Escape[e] = c
    THEN CHOOSE e \in DOMAIN Escape : Escape[e] = c ELSE c

\* *p; the line ends with a terminator.
CharAt(line, p) == IF p \in DOMAIN line THEN line[p] ELSE Nul

\* A quote at the place p closes an argument only before a blank or the end.
Closes(line, p) == CharAt(line, p + 1) \in Blank \cup {Nul}

\* The character that an escape inside double quotes stands for, and how many
\* it takes.
Escaped(line, p) ==
    LET c   == CharAt(line, p + 1)
        hex == <<CharAt(line, p + 2), CharAt(line, p + 3)>>
    IN  IF c = "x" /\ hex \in DOMAIN ByteOf THEN [char |-> ByteOf[hex], size |-> 4]
        ELSE [char |-> Unescaped(c), size |-> 2]

\* The loop's variables; "mode" is "blank" between arguments, "plain" or the
\* quote inside one.
Quotes == {"\"", "'"}
Modes == {"blank", "plain"} \cup Quotes
Parse == [p : Nat, mode : Modes, current : Seq(Symbol), vector : Seq(Seq(Symbol))]

Parsing(p, mode, current, vector) ==
    [p |-> p, mode |-> mode, current |-> current, vector |-> vector]

\* The end of the line, and a closing quote that something follows.
Ends(line, st) ==
    \/ CharAt(line, st.p) = Nul
    \/ st.mode \in Quotes /\ CharAt(line, st.p) = st.mode /\ ~Closes(line, st.p)

Result(st) ==
    IF st.mode = "blank" THEN st.vector
    ELSE IF st.mode = "plain" THEN Append(st.vector, st.current)
    ELSE NoArgs

\* "n" characters of the line are left behind, in another mode.
Moved(st, n, mode) == Parsing(st.p + n, mode, st.current, st.vector)

\* They add one to the argument.
Taken(st, n, c) == Parsing(st.p + n, st.mode, Append(st.current, c), st.vector)

\* The argument is complete.
Done(st) == Parsing(st.p + 1, "blank", <<>>, Append(st.vector, st.current))

SkipBlank(line, st) ==
    IF CharAt(line, st.p) \in Blank THEN Moved(st, 1, "blank") ELSE Moved(st, 0, "plain")

TakePlain(line, st) ==
    LET c == CharAt(line, st.p)
    IN  IF c \in Stop THEN Done(st)
        ELSE IF c \in Quotes THEN Moved(st, 1, c)
        ELSE Taken(st, 1, c)

TakeQuoted(line, st) ==
    LET c == CharAt(line, st.p)
        d == CharAt(line, st.p + 1)
        e == Escaped(line, st.p)
    IN  IF st.mode = "\"" /\ c = "\\" /\ d # Nul THEN Taken(st, e.size, e.char)
        ELSE IF st.mode = "'" /\ c = "\\" /\ d = "'" THEN Taken(st, 2, d)
        ELSE IF c = st.mode THEN Done(st)
        ELSE Taken(st, 1, c)

ParseTurn(line, st) ==
    IF st.mode = "blank" THEN SkipBlank(line, st)
    ELSE IF st.mode = "plain" THEN TakePlain(line, st)
    ELSE TakeQuoted(line, st)

SplitArgs(line) ==
    LET args[st \in Parse] ==
            IF Ends(line, st) THEN Result(st) ELSE args[ParseTurn(line, st)]
    IN  args[Parsing(1, "blank", <<>>, <<>>)]

-----------------------------------------------------------------------------
(* sdssplitlen and sdsjoinsds.                                             *)

IsAt(v, sep, j) == SubSeq(v, j, j + Len(sep) - 1) = sep

\* The place of the search, and where the part that it is in starts.
Search == [j : Nat, start : Nat]
At(j, start) == [j |-> j, start |-> start]

Over(v, sep, at) == at.j + Len(sep) - 1 > Len(v)

\* Mistake: the search goes on inside the separator.
SkipOne(sep, at) == At(at.j + 1, at.j + Len(sep))

\* A part ends at the separator, which is skipped.
SkipSep(sep, at) == At(at.j + Len(sep), at.j + Len(sep))

Split(v, sep) ==
    LET tokens[at \in Search] ==
            IF Over(v, sep, at) THEN <<SubSeq(v, at.start, Len(v))>>
            ELSE IF IsAt(v, sep, at.j)
                 THEN <<SubSeq(v, at.start, at.j - 1)>> \o tokens[SkipSep(sep, at)]
            ELSE tokens[At(at.j + 1, at.start)]
    IN  IF v = <<>> THEN <<>> ELSE tokens[At(1, 1)]

Join(tokens, sep) ==
    LET join[j \in 1 .. Len(tokens) + 1] ==
            IF j > Len(tokens) THEN <<>>
            ELSE IF j = Len(tokens) THEN tokens[j]
            ELSE tokens[j] \o sep \o join[j + 1]
    IN  join[1]

-----------------------------------------------------------------------------
(* sdsfromlonglong.                                                        *)

Digits == <<"0", "1", "2", "3", "4", "5", "6", "7", "8", "9">>

\* Mistake: "while" for "do", so that zero has no digit.
DecimalWhile(v) ==
    LET digits[n \in 0 .. v] ==
            IF n = 0 THEN <<>> ELSE Append(digits[n \div 10], Digits[(n % 10) + 1])
    IN  digits[v]

Decimal(v) ==
    LET digits[n \in 0 .. v] ==
            IF n < 10 THEN <<Digits[n + 1]>>
            ELSE Append(digits[n \div 10], Digits[(n % 10) + 1])
    IN  digits[v]

Least == -LongMax - 1

\* What v may be: the number is negated as a long long, before it is kept
\* without a sign, and for the least one that overflows: v is then anything.
Magnitudes(number) ==
    IF number = Least THEN 0 .. 2 * LongMax + 1
    ELSE IF number < 0 THEN {-number} ELSE {number}

\* The texts that it may make.
FromLongLong(number) ==
    {(IF number < 0 THEN <<"-">> ELSE <<>>) \o Decimal(v) : v \in Magnitudes(number)}

-----------------------------------------------------------------------------
(* The client makes up a text, a character at a time, or a number.         *)

GivenInit == given = <<>> /\ value = 0

GiveNothing == given' = <<>> /\ value' = 0

GiveText ==
    /\ value = 0 /\ Len(given) < TextLen
    /\ \E c \in Letter : given' = Append(given, c)
    /\ UNCHANGED value

GiveNumber ==
    /\ given = <<>>
    /\ value' \in Least .. LongMax
    /\ UNCHANGED given

GivenNext == GiveNothing \/ GiveText \/ GiveNumber

GivenSpec == GivenInit /\ [][GivenNext]_givenVars

-----------------------------------------------------------------------------
\* What the digits are read as.
DigitValue(c) == CHOOSE n \in 0 .. 9 : Digits[n + 1] = c

ReadNumber(d) ==
    LET read[k \in 0 .. Len(d)] ==
            IF k = 0 THEN 0 ELSE 10 * read[k - 1] + DigitValue(d[k])
    IN  read[Len(d)]

\* d is at least one digit, and n is what they are read as.
IsDecimal(d, n) == d # <<>> /\ ReadNumber(d) = n

\* sdscatvprintf appends all that the format makes, up to a NUL, whatever the
\* buffer, and sdsfromlonglong makes the digits of the number, for every long
\* long whose negation is one.
WritesWhole ==
    /\ Printed(given) = CString(given)
    /\ value # Least => \A d \in FromLongLong(value) :
         IF value < 0 THEN d[1] = "-" /\ IsDecimal(Tail(d), -value)
         ELSE IsDecimal(d, value)

\* "sdscatrepr() is able to convert back a string into a quoted string in the
\* same format sdssplitargs() is able to parse": what is parsed is the string,
\* alone and before another one.
ArgsReadBack ==
    /\ SplitArgs(Repr(given)) = <<given>>
    /\ \A v \in Separators : SplitArgs(Repr(given) \o <<" ">> \o Repr(v)) = <<given, v>>

\* The parts of a text, joined by the separator that split it, are the text,
\* and the separator is in none of them.
PartsJoinBack ==
    \A sep \in Separators :
        LET parts == Split(given, sep)
        IN  /\ Join(parts, sep) = given
            /\ \A k \in DOMAIN parts : \A j \in 1 .. Len(parts[k]) - Len(sep) + 1 :
                 ~IsAt(parts[k], sep, j)
=============================================================================
