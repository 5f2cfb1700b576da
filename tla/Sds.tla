-------------------------------- MODULE Sds --------------------------------
(***************************************************************************)
(* The dynamic strings of sds.c, byte by byte.  A string is its header     *)
(* (len, free), the size of the block that malloc gave behind the header   *)
(* (alloc) and the bytes of that block.  The header and the block are kept *)
(* apart: that one describes the other is what the functions have to get   *)
(* right.  A store outside the block adds the address to the domain of     *)
(* "buf", where it can be seen.                                            *)
(***************************************************************************)
EXTENDS Integers, Sequences, FiniteSetsExt

CONSTANTS
    Nul,         \* the terminator
    Unset,       \* what memory nobody has written to holds
    MaxPrealloc  \* SDS_MAX_PREALLOC

ASSUME SdsAssumption == MaxPrealloc \in Nat

Str(len, free, alloc, buf) ==
    [len |-> len, free |-> free, alloc |-> alloc, buf |-> buf]

\* Another length and free space in the header of the same block.
Header(s, len, free) == Str(len, free, s.alloc, s.buf)

-----------------------------------------------------------------------------
(* The C library.                                                          *)

Span(at, n) == at .. at + n - 1

Bytes(s, at, n) == [j \in 1 .. n |-> s.buf[at + j - 1]]

\* memcpy, or single stores, of the sequence t at s + at.
Store(s, at, t) ==
    [s EXCEPT !.buf =
        [i \in DOMAIN s.buf \cup Span(at, Len(t)) |->
            IF i \in Span(at, Len(t)) THEN t[i - at + 1] ELSE s.buf[i]]]

\* memmove within the string.
Move(s, to, from, n) == Store(s, to, Bytes(s, from, n))

Realloc(s, n) ==
    Str(s.len, s.free, n,
        [i \in Span(0, n) |-> IF i \in DOMAIN s.buf THEN s.buf[i] ELSE Unset])

Zeros(n) == [j \in 1 .. n |-> Nul]

-----------------------------------------------------------------------------
(* sds.c.                                                                  *)

Content(s) == Bytes(s, 0, s.len)

\* The length strlen finds: up to the first NUL.
CLength(v) == Min({n \in 0 .. Len(v) : n = Len(v) \/ v[n + 1] = Nul})

CString(v) == SubSeq(v, 1, CLength(v))

\* sdsnewlen, with a source: malloc, memcpy and the terminator.
NewLen(v) ==
    Store(Str(Len(v), 0, Len(v) + 1, [i \in 0 .. Len(v) |-> Unset]),
          0, Append(v, Nul))

\* sdsnewlen(NULL, n): calloc.
NewZeros(n) == Str(n, 0, n + 1, [i \in 0 .. n |-> Nul])

\* Twice the needed length, or a fixed amount more.
Preallocated(n) == IF n < MaxPrealloc THEN 2 * n ELSE n + MaxPrealloc

\* Mistake: no byte for the terminator.
MakeRoomForTight(s, addlen) ==
    LET newlen == Preallocated(s.len + addlen)
    IN  IF s.free >= addlen THEN s
        ELSE Header(Realloc(s, newlen), s.len, newlen - s.len)

\* Mistake: the room is asked for once and never checked against what is free.
MakeRoomForOnce(s, addlen) ==
    IF s.free > 0 THEN s
    ELSE LET newlen == Preallocated(s.len + addlen)
         IN  Header(Realloc(s, newlen + 1), s.len, newlen - s.len)

MakeRoomFor(s, addlen) ==
    LET newlen == Preallocated(s.len + addlen)
    IN  IF s.free >= addlen THEN s
        ELSE Header(Realloc(s, newlen + 1), s.len, newlen - s.len)

\* Mistake: the terminator is stored at the old end.
IncrLenOldEnd(s, incr) ==
    Store(Header(s, s.len + incr, s.free - incr), s.len, <<Nul>>)

\* sdsIncrLen; its assertion is IncrAllowed.
IncrLen(s, incr) ==
    Store(Header(s, s.len + incr, s.free - incr), s.len + incr, <<Nul>>)

IncrAllowed(s, incr) == s.free >= incr

-----------------------------------------------------------------------------
(* What holds of every string at all times.                                *)

\* Nothing was stored outside the block.
Inside(s) == DOMAIN s.buf = Span(0, s.alloc)

\* The header describes the block: the string, the free space, a terminator.
HeaderOK(s) ==
    /\ s.len \in Nat /\ s.free \in Nat
    /\ s.alloc = s.len + s.free + 1

\* "The string is always null-terminated."
Terminated(s) == s.buf[s.len] = Nul
=============================================================================
