----------------------------- MODULE SdsString -----------------------------
(***************************************************************************)
(* The functions of sds.c that make and change a string, called in any     *)
(* order by a client with one string.  The client may also write to the    *)
(* string by itself, as their comments say: to a character of it, or after *)
(* its end into the room that sdsMakeRoomFor made, before sdsIncrLen.      *)
(***************************************************************************)
EXTENDS Sds

CONSTANTS
    NoStr,    \* NULL
    Char,     \* the characters
    Text,     \* bound: the sequences that are passed to the functions
    Pairs,    \* bound: the tables from, to of sdsmapchars, tolower, toupper
    MaxLen    \* bound: the length of a string

ASSUME StringAssumption ==
    /\ Nul \in Char /\ Text \subseteq Seq(Char) /\ MaxLen \in Nat
    /\ \A p \in Pairs : /\ p.from \in Seq(Char) /\ p.to \in Seq(Char)
                        /\ Len(p.from) = Len(p.to)

VARIABLES
    str,      \* the string
    room,     \* what sdsMakeRoomFor was asked for, less what was used since
    staged    \* what the client wrote after the end

vars == <<str, room, staged>>

-----------------------------------------------------------------------------
(* The functions.                                                          *)

\* strlen(s): it does not stop at the length of the header.
Strlen(s) == CLength(Bytes(s, 0, s.alloc))

UpdateLen(s) ==
    LET reallen == Strlen(s)
    IN  Header(s, reallen, s.free + (s.len - reallen))

ClearString(s) ==
    Store(Header(s, 0, s.free + s.len), 0, <<Nul>>)

RemoveFreeSpace(s) == Header(Realloc(s, s.len + 1), s.len, 0)

\* Mistake: the last byte of the new part is not cleared.
GrowZeroShort(s, len) ==
    LET r == MakeRoomFor(s, len - s.len)
    IN  IF len =< s.len THEN s
        ELSE Header(Store(r, s.len, Zeros(len - s.len)), len, r.len + r.free - len)

\* Mistake: only the terminator is stored.
GrowZeroDirty(s, len) ==
    LET r == MakeRoomFor(s, len - s.len)
    IN  IF len =< s.len THEN s
        ELSE Header(Store(r, len, Zeros(1)), len, r.len + r.free - len)

GrowZero(s, len) ==
    LET r == MakeRoomFor(s, len - s.len)
    IN  IF len =< s.len THEN s
        ELSE Header(Store(r, s.len, Zeros(len - s.len + 1)), len, r.len + r.free - len)

CatLen(s, t) ==
    LET r == MakeRoomFor(s, Len(t))
        w == Header(Store(r, s.len, t), s.len + Len(t), r.free - Len(t))
    IN  Store(w, w.len, <<Nul>>)

\* Mistake: the free space is what was free, as in sdscatlen.
CpyLenFree(s, t) ==
    LET r == IF s.free + s.len < Len(t) THEN MakeRoomFor(s, Len(t) - s.len) ELSE s
    IN  Header(Store(r, 0, Append(t, Nul)), Len(t), r.free)

CpyLen(s, t) ==
    LET r == IF s.free + s.len < Len(t) THEN MakeRoomFor(s, Len(t) - s.len) ELSE s
    IN  Header(Store(r, 0, Append(t, Nul)), Len(t), r.free + r.len - Len(t))

\* The string becomes its n bytes from the place "from".
Cut(s, from, n) ==
    LET moved == IF from # 0 THEN Move(s, 0, from, n) ELSE s
    IN  Header(Store(moved, n, <<Nul>>), n, s.free + (s.len - n))

\* The two scans stop at characters outside the set; strchr finds NUL too.
TrimFrom(s, set) == Min({s.len} \cup {i \in Span(0, s.len) : s.buf[i] \notin set})
TrimTo(s, set) ==
    IF s.len = 0 THEN -1
    ELSE Max({0} \cup {i \in Span(0, s.len) : s.buf[i] \notin set})

\* Mistake: the two pointers are compared without the case that they met.
TrimMeeting(s, set) ==
    LET sp == TrimFrom(s, set)
        ep == TrimTo(s, set)
    IN  Cut(s, sp, IF sp >= ep THEN 0 ELSE ep - sp + 1)

Trim(s, set) ==
    LET sp == TrimFrom(s, set)
        ep == TrimTo(s, set)
    IN  Cut(s, sp, IF sp > ep THEN 0 ELSE ep - sp + 1)

\* A negative index counts from the end, and no further than the start.
Indexed(i, len) == IF i >= 0 THEN i ELSE IF len + i < 0 THEN 0 ELSE len + i

\* Mistake: the last character is not part of the range.
KeepRangeOpen(s, start, end) ==
    LET from == Indexed(start, s.len)
        to == Indexed(end, s.len)
    IN  IF s.len = 0 THEN s
        ELSE IF from > to \/ from >= s.len THEN Cut(s, 0, 0)
        ELSE Cut(s, from, (IF to >= s.len THEN s.len ELSE to) - from)

KeepRange(s, start, end) ==
    LET from == Indexed(start, s.len)
        to == Indexed(end, s.len)
    IN  IF s.len = 0 THEN s
        ELSE IF from > to \/ from >= s.len THEN Cut(s, 0, 0)
        ELSE Cut(s, from, (IF to >= s.len THEN s.len - 1 ELSE to) - from + 1)

\* sdsmapchars: the first place of the character in "from".
Mapped(p, c) ==
    LET places == {i \in DOMAIN p.from : p.from[i] = c}
    IN  IF places = {} THEN c ELSE p.to[Min(places)]

MapChars(s, p) ==
    [s EXCEPT !.buf = [i \in DOMAIN @ |->
                          IF i \in Span(0, s.len) THEN Mapped(p, @[i]) ELSE @[i]]]

-----------------------------------------------------------------------------
Init == str = NoStr /\ room = 0 /\ staged = <<>>

\* A call that returns the string s.
Returns(s) ==
    /\ staged = <<>> /\ s.len =< MaxLen
    /\ str' = s /\ room' = 0 /\ UNCHANGED staged

New(v) == str = NoStr /\ Returns(NewLen(v))                \* sdsnewlen, sdsempty
NewC(v) == str = NoStr /\ Returns(NewLen(CString(v)))      \* sdsnew
Calloc(n) == str = NoStr /\ Returns(NewZeros(n))           \* sdsnewlen(NULL, n)

Free ==
    /\ str # NoStr /\ staged = <<>>
    /\ str' = NoStr /\ room' = 0 /\ UNCHANGED staged

Dup == str # NoStr /\ Returns(NewLen(Content(str)))        \* and sdsfree(str)

Change ==
    /\ str # NoStr
    /\ \/ Returns(UpdateLen(str))
       \/ Returns(ClearString(str))
       \/ Returns(RemoveFreeSpace(str))
       \/ \E n \in 0 .. MaxLen : Returns(GrowZero(str, n))
       \/ \E t \in Text : Returns(CatLen(str, t)) \/ Returns(CatLen(str, CString(t)))
       \/ \E t \in Text : Returns(CpyLen(str, t)) \/ Returns(CpyLen(str, CString(t)))
       \/ \E t \in Text : Returns(Trim(str, {t[i] : i \in DOMAIN CString(t)} \cup {Nul}))
       \/ \E start, end \in -(MaxLen + 1) .. MaxLen : Returns(KeepRange(str, start, end))
       \/ \E p \in Pairs : Returns(MapChars(str, p))

\* s[i] = c
Poke(i, c) == i < str.len /\ Returns(Store(str, i, <<c>>))

\* Memory for n characters after the end.
MakeRoom(n) ==
    /\ staged = <<>>
    /\ str' = MakeRoomFor(str, n) /\ room' = n /\ UNCHANGED staged

\* The client writes there: the terminator of the string is gone for now.
Stage(t) ==
    /\ staged = <<>> /\ t # <<>> /\ Len(t) =< room
    /\ str' = Store(str, str.len, t) /\ staged' = t /\ UNCHANGED room

\* It adds what it wrote, or a part of it, or cuts the string on the right.
Incr(n) ==
    /\ n \in -str.len .. Len(staged) /\ str.len + n =< MaxLen
    /\ IncrAllowed(str, n)
    /\ str' = IncrLen(str, n) /\ room' = room - n /\ staged' = <<>>

Next ==
    \/ \E v \in Text : New(v) \/ NewC(v)
    \/ \E n \in 0 .. MaxLen : Calloc(n)
    \/ Free \/ Dup \/ Change
    \/ /\ str # NoStr
       /\ \/ \E i \in 0 .. MaxLen - 1, c \in Char : Poke(i, c)
          \/ \E n \in 0 .. MaxLen : MakeRoom(n)
          \/ \E t \in Text : Stage(t)
          \/ \E n \in -MaxLen .. MaxLen : Incr(n)

Spec == Init /\ [][Next]_vars

-----------------------------------------------------------------------------
TypeOK ==
    /\ \/ str = NoStr
       \/ /\ str.len \in Nat /\ str.free \in Int /\ str.alloc \in Nat \ {0}
          /\ Content(str) \in Seq(Char)
    /\ room \in Nat /\ staged \in Seq(Char)

\* After any calls the header describes the block, which holds the string, the
\* free space and a terminator: sdsAllocSize adds them up and every later call
\* counts on them.  No byte was stored outside the block, "the string is always
\* null-terminated", but while the client writes, and what it writes into the
\* room it was given is free space: the assertions of sdsIncrLen hold.
StringKept ==
    str # NoStr =>
        /\ HeaderOK(str) /\ Inside(str)
        /\ staged = <<>> => Terminated(str)
        /\ Len(staged) =< room /\ room =< str.free


(* What the calls promise of the characters, whatever lies in the free     *)
(* space from before.                                                      *)

Ready == str # NoStr /\ staged = <<>>

\* Growing by zeros, appending and overwriting put the new characters where
\* they belong and keep the old ones; asking for room and giving it back are
\* not seen; sdsIncrLen adds the characters that the client wrote, no others.
GrowthPromised ==
    str # NoStr =>
        LET text == Content(str)
        IN  /\ \A n \in 0 .. Len(staged) :
                 Content(IncrLen(str, n)) = text \o SubSeq(staged, 1, n)
            /\ \A t \in Text : /\ Content(CatLen(str, t)) = text \o t
                              /\ Content(CpyLen(str, t)) = t
            /\ \A n \in 0 .. MaxLen :
                 /\ Content(GrowZero(str, n)) = text \o Zeros(Max({0, n - Len(text)}))
                 /\ Content(MakeRoomFor(str, n)) = text
            /\ Content(RemoveFreeSpace(str)) = text

\* sdstrim keeps what is between the first and the last character that is
\* neither in the set nor NUL, sdsrange both ends of the range and what is
\* between them, sdsupdatelen what is before the first NUL, and sdsIncrLen
\* with a negative number all but as many characters.
CutsPromised ==
    Ready =>
        LET text == Content(str)
            Kept(set) == {i \in DOMAIN text : text[i] \notin set}
        IN  /\ \A set \in SUBSET Char : Nul \in set =>
                 Content(Trim(str, set)) =
                    IF Kept(set) = {} THEN <<>>
                    ELSE SubSeq(text, Min(Kept(set)), Max(Kept(set)))
            /\ \A start, end \in -(MaxLen + 1) .. MaxLen :
                 Content(KeepRange(str, start, end)) =
                    LET place(i) == IF i >= 0 THEN i ELSE Max({0, Len(text) + i})
                    IN  SubSeq(text, place(start) + 1, Min({Len(text), place(end) + 1}))
            /\ Content(UpdateLen(str)) = CString(text)
            /\ Content(ClearString(str)) = <<>>
            /\ \A n \in 0 .. Len(text) :
                 Content(IncrLen(str, -n)) = SubSeq(text, 1, Len(text) - n)
=============================================================================
