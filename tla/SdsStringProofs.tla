-------------------------- MODULE SdsStringProofs --------------------------
(* Theorems about SdsString, for strings and texts of any length and any      *)
(* preallocation: the header stays true to the block, no byte is stored       *)
(* outside of it, the terminator is where the length says, and the functions  *)
(* do to the characters what their comments promise.                          *)
EXTENDS SdsString, SequenceTheorems, WellFoundedInduction, TLAPS

-----------------------------------------------------------------------------
(* Least and greatest numbers.                                             *)

LEMMA MinIs ==
  ASSUME NEW T \in SUBSET Int, NEW m \in T, \A y \in T : m =< y
  PROVE  Min(T) = m
<1> DEFINE x == Min(T)
<1>1. x \in T /\ \A y \in T : x =< y
  BY DEF Min
<1> HIDE DEF x
<1>2. x \in Int /\ m \in Int /\ x =< m /\ m =< x
  BY <1>1
<1> QED
  BY <1>2 DEF x

LEMMA MaxIs ==
  ASSUME NEW T \in SUBSET Int, NEW m \in T, \A y \in T : m >= y
  PROVE  Max(T) = m
<1> DEFINE x == Max(T)
<1>1. x \in T /\ \A y \in T : x >= y
  BY DEF Max
<1> HIDE DEF x
<1>2. x \in Int /\ m \in Int /\ x >= m /\ m >= x
  BY <1>1
<1> QED
  BY <1>2 DEF x

LEMMA MinExists ==
  ASSUME NEW T \in SUBSET Nat, T # {}
  PROVE  Min(T) \in T /\ \A y \in T : Min(T) =< y
<1>0. T \subseteq Nat
  OBVIOUS
<1>1. PICK m \in T : \A y \in T : ~ (<<y, m>> \in OpToRel(<, Nat))
  BY <1>0, NatLessThanWellFounded, WFMin
<1>2. \A y \in T : m =< y
  <2>1. \A y \in T : ~(y < m)
    BY <1>0, <1>1 DEF OpToRel
  <2> QED
    BY <1>0, <2>1
<1>3. Min(T) = m
  BY <1>2, MinIs
<1> QED
  BY <1>2, <1>3

LEMMA MaxExists ==
  ASSUME NEW N \in Nat, NEW T \in SUBSET (0 .. N), T # {}
  PROVE  Max(T) \in T /\ \A y \in T : Max(T) >= y
<1> DEFINE D == {N - x : x \in T}
           d == Min(D)
<1>1. D \in SUBSET Nat /\ D # {}
  OBVIOUS
<1>2. d \in D /\ \A y \in D : d =< y
  BY <1>1, MinExists
<1> HIDE DEF d
<1>3. PICK m \in T : d = N - m
  BY <1>2
<1>4. \A y \in T : m >= y
  <2> SUFFICES ASSUME NEW y \in T PROVE m >= y
    OBVIOUS
  <2>1. d =< N - y
    BY <1>2
  <2> QED
    BY <1>3, <2>1
<1>5. T \in SUBSET Int
  OBVIOUS
<1>6. Max(T) = m
  BY <1>4, <1>5, MaxIs
<1> QED
  BY <1>4, <1>6

-----------------------------------------------------------------------------
(* The block and its bytes.                                                *)

\* A header and a block with all its bytes and no others.
Block(s) ==
  /\ s = Str(s.len, s.free, s.alloc, s.buf)
  /\ s.alloc \in Nat
  /\ s.buf = [i \in Span(0, s.alloc) |-> s.buf[i]]

\* The header describes the block, and the string consists of characters.
Fit(s) ==
  /\ Block(s) /\ HeaderOK(s)
  /\ \A i \in 0 .. s.len - 1 : s.buf[i] \in Char

Whole(s) == Fit(s) /\ Terminated(s)

LEMMA StrFields ==
  ASSUME NEW len, NEW free, NEW alloc, NEW buf
  PROVE  LET r == Str(len, free, alloc, buf)
         IN  r.len = len /\ r.free = free /\ r.alloc = alloc /\ r.buf = buf
  BY DEF Str

LEMMA HeaderFacts ==
  ASSUME NEW s, Block(s), NEW len, NEW free
  PROVE  LET r == Header(s, len, free)
         IN  /\ Block(r) /\ r.len = len /\ r.free = free
             /\ r.alloc = s.alloc /\ r.buf = s.buf
<1> DEFINE r == Header(s, len, free)
<1>1. r.len = len /\ r.free = free /\ r.alloc = s.alloc /\ r.buf = s.buf
  BY DEF Header, Str
<1>2. r = Str(r.len, r.free, r.alloc, r.buf)
  BY <1>1 DEF Header
<1> HIDE DEF r
<1>3. Block(r)
  BY <1>1, <1>2 DEF Block
<1> QED
  BY <1>1, <1>3 DEF r

\* memcpy inside the block: the n bytes of t, and the others.
LEMMA StoreFacts ==
  ASSUME NEW s, Block(s), NEW at \in Nat, NEW t, NEW n \in Nat, Len(t) = n,
         at + n =< s.alloc
  PROVE  LET r == Store(s, at, t)
         IN  /\ Block(r) /\ r.len = s.len /\ r.free = s.free /\ r.alloc = s.alloc
             /\ \A j \in 1 .. n : r.buf[at + j - 1] = t[j]
             /\ \A i \in 0 .. s.alloc - 1 : i < at \/ i >= at + n => r.buf[i] = s.buf[i]
<1> DEFINE D == DOMAIN s.buf \cup Span(at, Len(t))
           b == [i \in D |-> IF i \in Span(at, Len(t)) THEN t[i - at + 1] ELSE s.buf[i]]
           r == Store(s, at, t)
<1>1. r = Str(s.len, s.free, s.alloc, b)
  BY DEF Block, Store, Str
<1>2. D = 0 .. s.alloc - 1 /\ Span(0, s.alloc) = 0 .. s.alloc - 1 /\ s.alloc \in Nat
  <2>1. DOMAIN s.buf = Span(0, s.alloc) /\ Span(0, s.alloc) = 0 .. s.alloc - 1
    BY DEF Block, Span
  <2>2. Span(at, n) \subseteq Span(0, s.alloc)
    BY DEF Block, Span
  <2> QED
    BY <2>1, <2>2 DEF Block
<1>3. \A i \in D : b[i] = IF i \in Span(at, n) THEN t[i - at + 1] ELSE s.buf[i]
  OBVIOUS
<1>4. b = [i \in D |-> b[i]]
  OBVIOUS
<1> HIDE DEF b, D, r
<1>5. \A j \in 1 .. n : b[at + j - 1] = t[j]
  <2> SUFFICES ASSUME NEW j \in 1 .. n PROVE b[at + j - 1] = t[j]
    OBVIOUS
  <2>1. /\ at + j - 1 \in D /\ at + j - 1 \in Span(at, n)
        /\ (at + j - 1) - at + 1 = j
    BY <1>2 DEF Span
  <2> QED
    BY <1>3, <2>1
<1>6. \A i \in 0 .. s.alloc - 1 : i < at \/ i >= at + n => b[i] = s.buf[i]
  <2> SUFFICES ASSUME NEW i \in 0 .. s.alloc - 1, i < at \/ i >= at + n
               PROVE  b[i] = s.buf[i]
    OBVIOUS
  <2>1. i \in D /\ i \notin Span(at, n)
    BY <1>2 DEF Span
  <2> QED
    BY <1>3, <2>1
<1>7. r.len = s.len /\ r.free = s.free /\ r.alloc = s.alloc /\ r.buf = b
  BY <1>1 DEF Str
<1>8. Block(r)
  BY <1>1, <1>2, <1>4, <1>7 DEF Block
<1> QED
  BY <1>5, <1>6, <1>7, <1>8 DEF r

\* The same at the front of the block.
LEMMA StoreFront ==
  ASSUME NEW s, Block(s), NEW t, NEW n \in Nat, Len(t) = n, n =< s.alloc
  PROVE  LET r == Store(s, 0, t)
         IN  /\ Block(r) /\ r.len = s.len /\ r.free = s.free /\ r.alloc = s.alloc
             /\ \A j \in 1 .. n : r.buf[j - 1] = t[j]
<1> DEFINE at == 0
           r == Store(s, at, t)
<1>0. \A j \in 1 .. n : at + j - 1 = j - 1
  OBVIOUS
<1>1. at \in Nat /\ at + n =< s.alloc
  BY DEF Block
<1> HIDE DEF at
<1>2. /\ Block(r) /\ r.len = s.len /\ r.free = s.free /\ r.alloc = s.alloc
      /\ \A j \in 1 .. n : r.buf[at + j - 1] = t[j]
  BY <1>1, StoreFacts
<1> HIDE DEF r
<1>3. \A j \in 1 .. n : r.buf[j - 1] = t[j]
  BY <1>0, <1>2
<1> QED
  BY <1>2, <1>3 DEF r, at

\* realloc keeps the bytes that there is room for.
LEMMA ReallocFacts ==
  ASSUME NEW s, Block(s), NEW n \in Nat
  PROVE  LET r == Realloc(s, n)
         IN  /\ Block(r) /\ r.len = s.len /\ r.free = s.free /\ r.alloc = n
             /\ \A i \in 0 .. n - 1 : i < s.alloc => r.buf[i] = s.buf[i]
<1> DEFINE D == Span(0, n)
           b == [i \in D |-> IF i \in DOMAIN s.buf THEN s.buf[i] ELSE Unset]
           r == Realloc(s, n)
<1>1. r = Str(s.len, s.free, n, b)
  BY DEF Realloc
<1>2. b = [i \in D |-> b[i]]
  OBVIOUS
<1>3. \A i \in D : i \in DOMAIN s.buf => b[i] = s.buf[i]
  OBVIOUS
<1>4. \A i \in 0 .. n - 1 : i \in D
  BY DEF Span
<1>5. \A i \in 0 .. n - 1 : i < s.alloc => i \in DOMAIN s.buf
  <2>1. DOMAIN s.buf = Span(0, s.alloc) /\ s.alloc \in Nat
    BY DEF Block
  <2> QED
    BY <2>1 DEF Span
<1> HIDE DEF b, r
<1>6. r.len = s.len /\ r.free = s.free /\ r.alloc = n /\ r.buf = b
  BY <1>1 DEF Str
<1>7. Block(r)
  BY <1>1, <1>2, <1>6 DEF Block
<1> HIDE DEF D
<1> QED
  BY <1>3, <1>4, <1>5, <1>6, <1>7 DEF r

LEMMA HeaderNumbers ==
  ASSUME NEW s, Fit(s)
  PROVE  /\ Block(s) /\ s.len \in Nat /\ s.free \in Nat /\ s.alloc \in Nat
         /\ s.alloc = s.len + s.free + 1
  BY DEF Fit, Block, HeaderOK

\* sdsMakeRoomFor: the string stays, and so do the bytes behind it.
LEMMA MakeRoomFacts ==
  ASSUME NEW s, Fit(s), NEW n \in Int
  PROVE  LET r == MakeRoomFor(s, n)
         IN  /\ Fit(r) /\ r.len = s.len /\ r.free >= n /\ r.alloc >= s.alloc
             /\ \A i \in 0 .. s.alloc - 1 : r.buf[i] = s.buf[i]
<1>0. /\ Block(s) /\ s.len \in Nat /\ s.free \in Nat /\ s.alloc \in Nat
      /\ s.alloc = s.len + s.free + 1
  BY HeaderNumbers
<1>1. CASE s.free >= n
  BY <1>0, <1>1 DEF MakeRoomFor
<1>2. CASE ~(s.free >= n)
  <2> DEFINE newlen == Preallocated(s.len + n)
             size == newlen + 1
             q == Realloc(s, size)
             r == Header(q, s.len, newlen - s.len)
  <2>1. newlen \in Nat /\ newlen >= s.len + n
    BY <1>0, <1>2, SdsAssumption DEF Preallocated
  <2>2. MakeRoomFor(s, n) = r
    BY <1>2 DEF MakeRoomFor
  <2> HIDE DEF newlen
  <2>3. /\ Block(q) /\ q.alloc = size
        /\ \A i \in 0 .. size - 1 : i < s.alloc => q.buf[i] = s.buf[i]
    <3>1. size \in Nat
      BY <2>1
    <3> HIDE DEF size
    <3> QED
      BY <1>0, <3>1, ReallocFacts
  <2>4. /\ Block(r) /\ r.len = s.len /\ r.free = newlen - s.len
        /\ r.alloc = size /\ r.buf = q.buf
    BY <2>3, HeaderFacts
  <2> HIDE DEF q, r
  <2>5. /\ HeaderOK(r) /\ r.free >= n /\ r.alloc >= s.alloc
        /\ \A i \in 0 .. s.alloc - 1 : r.buf[i] = s.buf[i]
    BY <1>0, <1>2, <2>1, <2>3, <2>4 DEF HeaderOK
  <2>6. \A i \in 0 .. r.len - 1 : r.buf[i] \in Char
    BY <1>0, <2>4, <2>5 DEF Fit
  <2> QED
    BY <2>2, <2>4, <2>5, <2>6 DEF Fit
<1> QED
  BY <1>1, <1>2

\* The characters of a string.
LEMMA ContentFacts ==
  ASSUME NEW s, Fit(s)
  PROVE  /\ Content(s) \in Seq(Char) /\ Len(Content(s)) = s.len
         /\ \A i \in 1 .. s.len : Content(s)[i] = s.buf[i - 1]
<1>1. s.len \in Nat
  BY HeaderNumbers
<1>2. Content(s) = [j \in 1 .. s.len |-> s.buf[j - 1]]
  BY <1>1 DEF Content, Bytes
<1>3. \A j \in 1 .. s.len : s.buf[j - 1] \in Char
  BY <1>1 DEF Fit
<1> DEFINE v == Content(s)
<1>4. v \in [1 .. s.len -> Char] /\ \A i \in 1 .. s.len : v[i] = s.buf[i - 1]
  BY <1>2, <1>3
<1> HIDE DEF v
<1>5. v \in Seq(Char)
  BY <1>1, <1>4
<1>6. Len(v) = s.len
  BY <1>1, <1>4
<1> QED
  BY <1>4, <1>5, <1>6 DEF v

LEMMA ContentIs ==
  ASSUME NEW s, Fit(s), NEW v \in Seq(Char), Len(v) = s.len,
         \A i \in 1 .. s.len : s.buf[i - 1] = v[i]
  PROVE  Content(s) = v
  BY ContentFacts, SeqEqual

-----------------------------------------------------------------------------
(* The functions of the library: each leaves a whole string, and this is   *)
(* what is in it.                                                          *)

LEMMA ZerosFacts ==
  ASSUME NEW n \in Nat
  PROVE  /\ Zeros(n) \in Seq(Char) /\ Len(Zeros(n)) = n
         /\ \A i \in 1 .. n : Zeros(n)[i] = Nul
<1> DEFINE v == Zeros(n)
<1>1. v \in [1 .. n -> Char] /\ \A i \in 1 .. n : v[i] = Nul
  BY StringAssumption DEF Zeros
<1> HIDE DEF v
<1>2. v \in Seq(Char)
  BY <1>1
<1>3. Len(v) = n
  BY <1>1
<1> QED
  BY <1>1, <1>2, <1>3 DEF v

\* A store of the terminator.
LEMMA NulFacts ==
  ASSUME NEW s, Block(s), NEW at \in Nat, at < s.alloc
  PROVE  LET r == Store(s, at, <<Nul>>)
         IN  /\ Block(r) /\ r.len = s.len /\ r.free = s.free /\ r.alloc = s.alloc
             /\ \A i \in 0 .. s.alloc - 1 : r.buf[i] = IF i = at THEN Nul ELSE s.buf[i]
<1> DEFINE t == <<Nul>>
           n == 1
           r == Store(s, at, t)
<1>0. Len(t) = n /\ n \in Nat
  OBVIOUS
<1>1. n = 1 /\ t[1] = Nul
  OBVIOUS
<1>2. s.alloc \in Nat
  BY DEF Block
<1> HIDE DEF t, n
<1>3. /\ Block(r) /\ r.len = s.len /\ r.free = s.free /\ r.alloc = s.alloc
      /\ \A j \in 1 .. n : r.buf[at + j - 1] = t[j]
      /\ \A i \in 0 .. s.alloc - 1 : i < at \/ i >= at + n => r.buf[i] = s.buf[i]
  <2>1. at + n =< s.alloc
    BY <1>1, <1>2
  <2> QED
    BY <1>0, <2>1, StoreFacts
<1> HIDE DEF r
<1>4. r.buf[at] = Nul
  <2>1. 1 \in 1 .. n /\ at + 1 - 1 = at
    BY <1>1
  <2> QED
    BY <1>1, <1>3, <2>1
<1>5. \A i \in 0 .. s.alloc - 1 : i # at => i < at \/ i >= at + n
  BY <1>1, <1>2
<1> QED
  BY <1>3, <1>4, <1>5 DEF r, t

\* sdsIncrLen takes n bytes after the end, or cuts -n off the end.
LEMMA IncrFacts ==
  ASSUME NEW s, Fit(s), NEW n \in Int, s.len + n >= 0, n =< s.free,
         \A i \in s.len .. s.len + n - 1 : s.buf[i] \in Char
  PROVE  LET r == IncrLen(s, n)
         IN  /\ Whole(r) /\ r.len = s.len + n /\ r.free = s.free - n
             /\ \A i \in 0 .. s.len + n - 1 : r.buf[i] = s.buf[i]
<1> DEFINE m == s.len + n
           h == Header(s, m, s.free - n)
           r == Store(h, m, <<Nul>>)
<1>1. /\ Block(s) /\ s.len \in Nat /\ s.free \in Nat /\ s.alloc \in Nat
      /\ s.alloc = s.len + s.free + 1 /\ \A i \in 0 .. s.len - 1 : s.buf[i] \in Char
  BY HeaderNumbers DEF Fit
<1>2. m \in Nat /\ m < s.alloc
  BY <1>1
<1>3. /\ Block(h) /\ h.len = m /\ h.free = s.free - n /\ h.alloc = s.alloc
      /\ h.buf = s.buf
  BY <1>1, HeaderFacts
<1> HIDE DEF h
<1>4. /\ Block(r) /\ r.len = m /\ r.free = s.free - n /\ r.alloc = s.alloc
      /\ \A i \in 0 .. s.alloc - 1 : r.buf[i] = IF i = m THEN Nul ELSE s.buf[i]
  BY <1>2, <1>3, NulFacts
<1>5. IncrLen(s, n) = r
  BY DEF IncrLen, h
<1> HIDE DEF r
<1>6. /\ HeaderOK(r) /\ r.buf[m] = Nul
      /\ \A i \in 0 .. m - 1 : r.buf[i] = s.buf[i]
  BY <1>1, <1>2, <1>4 DEF HeaderOK
<1>7. \A i \in 0 .. m - 1 : r.buf[i] \in Char
  BY <1>1, <1>6
<1>8. Whole(r)
  BY <1>4, <1>6, <1>7 DEF Whole, Fit, Terminated
<1>9. /\ Whole(r) /\ r.len = s.len + n /\ r.free = s.free - n
      /\ \A i \in 0 .. s.len + n - 1 : r.buf[i] = s.buf[i]
  BY <1>1, <1>4, <1>6, <1>8
<1> QED
  BY <1>5, <1>9

\* sdsnewlen.
LEMMA NewLenFacts ==
  ASSUME NEW v \in Seq(Char)
  PROVE  Whole(NewLen(v)) /\ NewLen(v).len = Len(v) /\ Content(NewLen(v)) = v
<1> DEFINE n == Len(v)
           size == n + 1
           b == [i \in 0 .. n |-> Unset]
           s == Str(n, 0, size, b)
           t == Append(v, Nul)
           r == Store(s, 0, t)
<1>1. n \in Nat /\ size \in Nat
  BY LenProperties
<1>2. s.len = n /\ s.free = 0 /\ s.alloc = size /\ s.buf = b
  BY StrFields
<1>3. Block(s)
  <2>1. Span(0, size) = 0 .. n
    BY <1>1 DEF Span
  <2>2. b = [i \in Span(0, size) |-> b[i]]
    BY <2>1
  <2> HIDE DEF b, size
  <2> QED
    BY <1>1, <1>2, <2>2 DEF Block
<1>4. Len(t) = size /\ t[size] = Nul /\ \A i \in 1 .. n : t[i] = v[i]
  BY StringAssumption, AppendProperties
<1> HIDE DEF t, s
<1>5. /\ Block(r) /\ r.len = n /\ r.free = 0 /\ r.alloc = size
      /\ \A i \in 1 .. size : r.buf[i - 1] = t[i]
  <2>1. size =< s.alloc
    BY <1>1, <1>2
  <2> HIDE DEF size
  <2> QED
    BY <1>1, <1>2, <1>3, <1>4, <2>1, StoreFront
<1>6. NewLen(v) = r
  BY DEF NewLen, s, t
<1> HIDE DEF r
<1>7. HeaderOK(r) /\ r.buf[n] = Nul /\ \A i \in 1 .. n : r.buf[i - 1] = v[i]
  <2>1. \A i \in 1 .. size : r.buf[i - 1] = t[i]
    BY <1>1, <1>5
  <2>2. HeaderOK(r)
    BY <1>1, <1>5 DEF HeaderOK
  <2>3. size \in 1 .. size /\ size - 1 = n
    BY <1>1
  <2>4. r.buf[n] = Nul
    BY <1>4, <2>1, <2>3
  <2> QED
    BY <1>1, <1>4, <2>1, <2>2, <2>4
<1>8. \A i \in 0 .. r.len - 1 : r.buf[i] \in Char
  <2> SUFFICES ASSUME NEW i \in 0 .. n - 1 PROVE r.buf[i] \in Char
    BY <1>5
  <2>1. i + 1 \in 1 .. n /\ (i + 1) - 1 = i
    BY <1>1
  <2> QED
    BY <1>7, <2>1, ElementOfSeq
<1>9. Whole(r)
  BY <1>5, <1>7, <1>8 DEF Whole, Fit, Terminated
<1> QED
  BY <1>5, <1>6, <1>7, <1>9, ContentIs DEF Whole

\* sdsnewlen of no bytes given.
LEMMA NewZerosFacts ==
  ASSUME NEW n \in Nat
  PROVE  Whole(NewZeros(n)) /\ NewZeros(n).len = n
<1> DEFINE size == n + 1
           b == [i \in 0 .. n |-> Nul]
           s == Str(n, 0, size, b)
<1>1. s.len = n /\ s.free = 0 /\ s.alloc = size /\ s.buf = b
  BY StrFields
<1>2. \A i \in 0 .. n : b[i] = Nul
  OBVIOUS
<1>3. b = [i \in Span(0, size) |-> b[i]]
  BY DEF Span
<1>4. NewZeros(n) = s
  BY DEF NewZeros
<1> HIDE DEF b
<1>5. Block(s)
  BY <1>1, <1>3 DEF Block
<1> HIDE DEF s
<1>6. Fit(s) /\ Terminated(s)
  BY <1>1, <1>2, <1>5, StringAssumption DEF Fit, HeaderOK, Terminated
<1> QED
  BY <1>1, <1>4, <1>6 DEF Whole

\* strlen counts up to the first NUL, or to the end of what it is given.
LEMMA CLengthFacts ==
  ASSUME NEW v, NEW n \in Nat, Len(v) = n
  PROVE  /\ CLength(v) \in 0 .. n
         /\ \A i \in 1 .. CLength(v) : v[i] # Nul
         /\ CLength(v) = n \/ v[CLength(v) + 1] = Nul
<1> DEFINE T == {k \in 0 .. n : k = n \/ v[k + 1] = Nul}
           m == Min(T)
<1>1. n \in T /\ T \in SUBSET Nat
  OBVIOUS
<1>2. m \in T /\ \A y \in T : m =< y
  BY <1>1, MinExists
<1> HIDE DEF m
<1>3. \A i \in 1 .. m : v[i] # Nul
  <2> SUFFICES ASSUME NEW i \in 1 .. m, v[i] = Nul PROVE FALSE
    OBVIOUS
  <2>1. m \in 0 .. n
    BY <1>2
  <2>2. i - 1 \in 0 .. n /\ (i - 1) + 1 = i /\ ~(m =< i - 1)
    BY <2>1
  <2>3. i - 1 \in T
    BY <2>2
  <2> QED
    BY <1>2, <2>2, <2>3
<1>4. CLength(v) = m
  BY DEF CLength, m
<1> QED
  BY <1>2, <1>3, <1>4

LEMMA CLengthIs ==
  ASSUME NEW v, NEW n \in Nat, Len(v) = n, NEW k \in 0 .. n,
         \A i \in 1 .. k : v[i] # Nul, k = n \/ v[k + 1] = Nul
  PROVE  CLength(v) = k
<1> DEFINE m == CLength(v)
<1>1. /\ m \in 0 .. n /\ \A i \in 1 .. m : v[i] # Nul
      /\ m = n \/ v[m + 1] = Nul
  BY CLengthFacts
<1> HIDE DEF m
<1>2. ~(m < k)
  <2> SUFFICES ASSUME m < k PROVE FALSE
    OBVIOUS
  <2>1. m + 1 \in 1 .. k /\ m # n
    BY <1>1
  <2> QED
    BY <1>1, <2>1
<1>3. ~(k < m)
  <2> SUFFICES ASSUME k < m PROVE FALSE
    OBVIOUS
  <2>1. k + 1 \in 1 .. m /\ k # n
    BY <1>1
  <2> QED
    BY <1>1, <2>1
<1>4. m = k
  BY <1>1, <1>2, <1>3
<1> QED
  BY <1>4 DEF m

LEMMA CStringFacts ==
  ASSUME NEW v \in Seq(Char)
  PROVE  /\ CString(v) \in Seq(Char) /\ Len(CString(v)) = CLength(v)
         /\ \A i \in 1 .. CLength(v) : CString(v)[i] = v[i]
<1> DEFINE k == CLength(v)
<1>1. Len(v) \in Nat
  BY LenProperties
<1>2. k \in 0 .. Len(v)
  BY <1>1, CLengthFacts
<1> HIDE DEF k
<1>3. \A i \in 1 .. k : v[i] \in Char
  BY <1>1, <1>2, ElementOfSeq
<1>4. /\ SubSeq(v, 1, k) \in Seq(Char)
      /\ Len(SubSeq(v, 1, k)) = IF 1 =< k THEN k - 1 + 1 ELSE 0
      /\ \A i \in 1 .. k - 1 + 1 : SubSeq(v, 1, k)[i] = v[1 + i - 1]
  BY <1>1, <1>2, <1>3, SubSeqProperties
<1>5. Len(SubSeq(v, 1, k)) = k /\ \A i \in 1 .. k : SubSeq(v, 1, k)[i] = v[i]
  BY <1>1, <1>2, <1>4
<1> QED
  BY <1>4, <1>5 DEF CString, k

\* sdsupdatelen: the string ends at its first NUL.
LEMMA UpdateLenFacts ==
  ASSUME NEW s, Whole(s)
  PROVE  Whole(UpdateLen(s)) /\ Content(UpdateLen(s)) = CString(Content(s))
<1> DEFINE b == Bytes(s, 0, s.alloc)
           k == Strlen(s)
           r == Header(s, k, s.free + (s.len - k))
           text == Content(s)
<1>1. /\ Fit(s) /\ Block(s) /\ s.len \in Nat /\ s.free \in Nat /\ s.alloc \in Nat
      /\ s.alloc = s.len + s.free + 1 /\ s.buf[s.len] = Nul
      /\ \A i \in 0 .. s.len - 1 : s.buf[i] \in Char
  BY HeaderNumbers DEF Whole, Fit, Terminated
<1>2. Len(b) = s.alloc /\ \A i \in 1 .. s.alloc : b[i] = s.buf[i - 1]
  <2>1. b = [j \in 1 .. s.alloc |-> s.buf[0 + j - 1]]
    BY DEF Bytes
  <2> QED
    BY <1>1, <2>1
<1>3. k = CLength(b)
  BY DEF Strlen
<1> HIDE DEF b, k
<1>4. /\ k \in 0 .. s.alloc /\ \A i \in 1 .. k : b[i] # Nul
      /\ k = s.alloc \/ b[k + 1] = Nul
  BY <1>1, <1>2, <1>3, CLengthFacts
<1>5. k =< s.len
  <2> SUFFICES ASSUME s.len < k PROVE FALSE
    BY <1>1, <1>4
  <2>1. s.len + 1 \in 1 .. k /\ s.len + 1 \in 1 .. s.alloc /\ (s.len + 1) - 1 = s.len
    BY <1>1, <1>4
  <2> QED
    BY <1>1, <1>2, <1>4, <2>1
<1>6. k \in Nat /\ s.buf[k] = Nul
  <2>1. k + 1 \in 1 .. s.alloc /\ (k + 1) - 1 = k /\ k # s.alloc
    BY <1>1, <1>4, <1>5
  <2> QED
    BY <1>2, <1>4, <2>1
<1>7. \A i \in 1 .. k : i \in 1 .. s.alloc
  BY <1>1, <1>4
<1>8. /\ Block(r) /\ r.len = k /\ r.free = s.free + (s.len - k)
      /\ r.alloc = s.alloc /\ r.buf = s.buf
  BY <1>1, HeaderFacts
<1>9. UpdateLen(s) = r
  BY DEF UpdateLen, k
<1> HIDE DEF r
<1>10. Whole(r)
  BY <1>1, <1>5, <1>6, <1>8 DEF Whole, Fit, HeaderOK, Terminated
<1>11. /\ text \in Seq(Char) /\ Len(text) = s.len
       /\ \A i \in 1 .. s.len : text[i] = s.buf[i - 1]
  BY <1>1, ContentFacts
<1> HIDE DEF text
<1>12. CLength(text) = k
  <2>1. k \in 0 .. s.len
    BY <1>5, <1>6
  <2>2. \A i \in 1 .. k : text[i] # Nul
    <3> SUFFICES ASSUME NEW i \in 1 .. k PROVE text[i] # Nul
      OBVIOUS
    <3>1. i \in 1 .. s.len /\ i \in 1 .. s.alloc
      BY <1>1, <1>5, <1>6
    <3> QED
      BY <1>2, <1>4, <1>11, <3>1
  <2>3. k = s.len \/ text[k + 1] = Nul
    <3>1. k # s.len => k + 1 \in 1 .. s.len /\ (k + 1) - 1 = k
      BY <1>1, <1>5, <1>6
    <3> QED
      BY <1>6, <1>11, <3>1
  <2> QED
    BY <1>1, <1>11, <2>1, <2>2, <2>3, CLengthIs
<1>13. \A i \in 1 .. r.len : r.buf[i - 1] = CString(text)[i]
  <2> SUFFICES ASSUME NEW i \in 1 .. k PROVE s.buf[i - 1] = CString(text)[i]
    BY <1>8
  <2>1. i \in 1 .. s.len
    BY <1>1, <1>5, <1>6
  <2> QED
    BY <1>11, <1>12, <2>1, CStringFacts
<1>14. Content(r) = CString(text)
  <2>1. CString(text) \in Seq(Char) /\ Len(CString(text)) = r.len
    BY <1>8, <1>11, <1>12, CStringFacts
  <2>2. Fit(r)
    BY <1>10 DEF Whole
  <2> QED
    BY <1>13, <2>1, <2>2, ContentIs
<1> QED
  BY <1>9, <1>10, <1>14 DEF text

\* What is known of a string that one of the functions is given.
LEMMA WholeFacts ==
  ASSUME NEW s, Whole(s)
  PROVE  /\ Fit(s) /\ Block(s) /\ s.len \in Nat /\ s.free \in Nat /\ s.alloc \in Nat
         /\ s.alloc = s.len + s.free + 1 /\ s.buf[s.len] = Nul
         /\ \A i \in 0 .. s.len - 1 : s.buf[i] \in Char
  BY HeaderNumbers DEF Whole, Fit, Terminated

\* A block of characters, written into a header of the right length, is whole.
LEMMA WholeIs ==
  ASSUME NEW r, Block(r), r.len \in Nat, r.free \in Nat, r.alloc = r.len + r.free + 1,
         NEW v \in Seq(Char), Len(v) = r.len, \A i \in 1 .. r.len : r.buf[i - 1] = v[i],
         r.buf[r.len] = Nul
  PROVE  Whole(r) /\ Content(r) = v
<1>1. \A i \in 0 .. r.len - 1 : r.buf[i] \in Char
  <2> SUFFICES ASSUME NEW i \in 0 .. r.len - 1 PROVE r.buf[i] \in Char
    OBVIOUS
  <2>1. i + 1 \in 1 .. r.len /\ (i + 1) - 1 = i
    OBVIOUS
  <2> QED
    BY <2>1, ElementOfSeq
<1>2. Whole(r)
  BY <1>1 DEF Whole, Fit, HeaderOK, Terminated
<1> QED
  BY <1>2, ContentIs DEF Whole

\* The bytes of v lie in the block, from a place on.
Holds(s, at, v) == \A j \in 1 .. Len(v) : s.buf[at + j - 1] = v[j]

\* The same of two parts.
LEMMA JoinIs ==
  ASSUME NEW r, Block(r), HeaderOK(r), Terminated(r),
         NEW a \in Seq(Char), NEW b \in Seq(Char), r.len = Len(a) + Len(b),
         Holds(r, 0, a), Holds(r, Len(a), b)
  PROVE  Whole(r) /\ Content(r) = a \o b
<1> DEFINE v == a \o b
           m == Len(a)
           n == Len(b)
<1>0. m \in Nat /\ n \in Nat
  BY LenProperties
<1>1. /\ v \in Seq(Char) /\ Len(v) = m + n
      /\ \A i \in 1 .. m + n : v[i] = IF i <= m THEN a[i] ELSE b[i - m]
  BY ConcatProperties
<1>2. /\ r.len \in Nat /\ r.free \in Nat /\ r.alloc = r.len + r.free + 1
      /\ r.buf[r.len] = Nul /\ r.len = m + n
  BY DEF HeaderOK, Terminated
<1>3. /\ \A i \in 1 .. m : r.buf[0 + i - 1] = a[i]
      /\ \A j \in 1 .. n : r.buf[m + j - 1] = b[j]
  BY DEF Holds
<1> HIDE DEF v, m, n
<1>4. ASSUME NEW i \in 1 .. r.len PROVE r.buf[i - 1] = v[i]
  <2>1. CASE i <= m
    <3>1. i \in 1 .. m /\ v[i] = a[i] /\ 0 + i - 1 = i - 1
      BY <1>0, <1>1, <1>2, <2>1
    <3> QED
      BY <1>3, <3>1
  <2>2. CASE ~(i <= m)
    <3> DEFINE j == i - m
    <3>1. j \in 1 .. n /\ v[i] = b[j] /\ m + j - 1 = i - 1
      BY <1>0, <1>1, <1>2, <2>2
    <3> HIDE DEF j
    <3> QED
      BY <1>3, <3>1
  <2> QED
    BY <2>1, <2>2
<1>5. Len(v) = r.len
  BY <1>1, <1>2
<1>6. Whole(r) /\ Content(r) = v
  BY <1>1, <1>2, <1>4, <1>5, WholeIs
<1> QED
  BY <1>6 DEF v

LEMMA ClearFacts ==
  ASSUME NEW s, Whole(s)
  PROVE  Whole(ClearString(s)) /\ Content(ClearString(s)) = <<>>
<1> DEFINE h == Header(s, 0, s.free + s.len)
           r == Store(h, 0, <<Nul>>)
           v == <<>>
<1>1. /\ Block(s) /\ s.len \in Nat /\ s.free \in Nat /\ s.alloc \in Nat
      /\ s.alloc = s.len + s.free + 1
  BY WholeFacts
<1>2. Block(h) /\ h.len = 0 /\ h.free = s.free + s.len /\ h.alloc = s.alloc
  BY <1>1, HeaderFacts
<1>3. ClearString(s) = r
  BY DEF ClearString
<1> HIDE DEF h
<1>4. 0 \in Nat /\ 0 < h.alloc
  BY <1>1, <1>2
<1>5. /\ Block(r) /\ r.len = 0 /\ r.free = s.free + s.len /\ r.alloc = s.alloc
      /\ r.buf[0] = Nul
  BY <1>1, <1>2, <1>4, NulFacts
<1>6. v \in Seq(Char) /\ Len(v) = 0
  OBVIOUS
<1> HIDE DEF r, v
<1>7. /\ r.len \in Nat /\ r.free \in Nat /\ r.alloc = r.len + r.free + 1
      /\ \A i \in 1 .. r.len : r.buf[i - 1] = v[i]
      /\ r.buf[r.len] = Nul /\ Len(v) = r.len
  BY <1>1, <1>5, <1>6
<1>8. Whole(r) /\ Content(r) = v
  BY <1>5, <1>6, <1>7, WholeIs
<1> QED
  BY <1>3, <1>8 DEF v

LEMMA RemoveFreeSpaceFacts ==
  ASSUME NEW s, Fit(s)
  PROVE  LET r == RemoveFreeSpace(s)
         IN  /\ Fit(r) /\ (Terminated(s) => Whole(r)) /\ Content(r) = Content(s)
<1> DEFINE size == s.len + 1
           q == Realloc(s, size)
           r == Header(q, s.len, 0)
<1>1. /\ Block(s) /\ s.len \in Nat /\ s.free \in Nat /\ s.alloc \in Nat
      /\ s.alloc = s.len + s.free + 1 /\ \A i \in 0 .. s.len - 1 : s.buf[i] \in Char
  BY HeaderNumbers DEF Fit
<1>2. /\ Block(q) /\ q.alloc = size
      /\ \A i \in 0 .. size - 1 : i < s.alloc => q.buf[i] = s.buf[i]
  <2>1. size \in Nat
    BY <1>1
  <2> HIDE DEF size
  <2> QED
    BY <1>1, <2>1, ReallocFacts
<1> HIDE DEF q
<1>3. Block(r) /\ r.len = s.len /\ r.free = 0 /\ r.alloc = size /\ r.buf = q.buf
  BY <1>2, HeaderFacts
<1>4. RemoveFreeSpace(s) = r
  BY DEF RemoveFreeSpace, q
<1> HIDE DEF r
<1>5. \A i \in 0 .. s.len : r.buf[i] = s.buf[i]
  BY <1>1, <1>2, <1>3
<1>6. Fit(r)
  BY <1>1, <1>3, <1>5 DEF Fit, HeaderOK
<1>7. Terminated(s) => Whole(r)
  BY <1>1, <1>3, <1>5, <1>6 DEF Terminated, Whole
<1>8. Content(r) = Content(s)
  <2> DEFINE v == Content(s)
  <2>1. /\ v \in Seq(Char) /\ Len(v) = s.len
        /\ \A i \in 1 .. s.len : v[i] = s.buf[i - 1]
    BY ContentFacts
  <2> HIDE DEF v
  <2>2. \A i \in 1 .. s.len : i - 1 \in 0 .. s.len
    BY <1>1
  <2>3. Content(r) = v
    BY <1>3, <1>5, <1>6, <2>1, <2>2, ContentIs
  <2> QED
    BY <2>3 DEF v
<1> QED
  BY <1>4, <1>6, <1>7, <1>8

\* sdsgrowzero: the new characters are NUL.
LEMMA GrowZeroFacts ==
  ASSUME NEW s, Fit(s), NEW n \in Nat, s.len < n
  PROVE  LET r == GrowZero(s, n)
         IN  Whole(r) /\ Content(r) = Content(s) \o Zeros(n - s.len)
<1> DEFINE l == s.len
           k == n - s.len
           m == n - s.len + 1
           z == Zeros(m)
           q == MakeRoomFor(s, k)
           w == Store(q, l, z)
           r == Header(w, n, q.len + q.free - n)
           a == Content(s)
           b == Zeros(k)
<1>0. l \in Nat /\ k \in Int /\ k \in Nat /\ m \in Nat
  BY HeaderNumbers
<1>a. l = s.len
  OBVIOUS
<1>1. /\ l \in Nat /\ s.alloc = l + s.free + 1 /\ s.free \in Nat
      /\ k \in Nat /\ m \in Nat /\ m = k + 1 /\ l + k = n /\ l = s.len
  BY HeaderNumbers
<1>2. GrowZero(s, n) = r
  BY <1>1 DEF GrowZero
<1>3. Content(s) \o Zeros(n - s.len) = a \o b
  OBVIOUS
<1> HIDE DEF k, m, l
<1>4. /\ Fit(q) /\ q.len = l /\ q.free >= k
      /\ \A i \in 0 .. s.alloc - 1 : q.buf[i] = s.buf[i]
  BY <1>0, <1>a, MakeRoomFacts
<1>5. Len(z) = m /\ \A i \in 1 .. m : z[i] = Nul
  BY <1>1, ZerosFacts
<1>6. b \in Seq(Char) /\ Len(b) = k /\ \A i \in 1 .. k : b[i] = Nul
  BY <1>1, ZerosFacts
<1>7. a \in Seq(Char) /\ Len(a) = l /\ \A i \in 1 .. l : a[i] = s.buf[i - 1]
  BY <1>1, ContentFacts
<1> HIDE DEF q, z, a, b
<1>8. Block(q) /\ q.alloc = q.len + q.free + 1 /\ q.free \in Nat /\ q.alloc \in Nat
  BY <1>4, HeaderNumbers
<1>9. /\ Block(w) /\ w.alloc = q.alloc
      /\ \A j \in 1 .. m : w.buf[l + j - 1] = z[j]
      /\ \A i \in 0 .. q.alloc - 1 : i < l \/ i >= l + m => w.buf[i] = q.buf[i]
  <2>1. l + m =< q.alloc
    BY <1>1, <1>4, <1>8
  <2> QED
    BY <1>0, <1>5, <1>8, <2>1, StoreFacts
<1> HIDE DEF w
<1>10. /\ Block(r) /\ r.len = n /\ r.free = q.len + q.free - n /\ r.alloc = q.alloc
       /\ r.buf = w.buf
  BY <1>9, HeaderFacts
<1> HIDE DEF r
<1>11. \A i \in 1 .. l : r.buf[i - 1] = a[i]
  <2> SUFFICES ASSUME NEW i \in 1 .. l PROVE w.buf[i - 1] = a[i]
    BY <1>10
  <2>1. i - 1 \in 0 .. q.alloc - 1 /\ i - 1 < l /\ i - 1 \in 0 .. s.alloc - 1
    BY <1>1, <1>4, <1>8
  <2> QED
    BY <1>4, <1>7, <1>9, <2>1
<1>12. \A j \in 1 .. k : r.buf[l + j - 1] = b[j]
  <2>1. \A j \in 1 .. k : j \in 1 .. m
    BY <1>1
  <2> QED
    BY <1>5, <1>6, <1>9, <1>10, <2>1
<1>13. r.buf[r.len] = Nul
  <2>1. m \in 1 .. m /\ l + m - 1 = n
    BY <1>1
  <2> QED
    BY <1>5, <1>9, <1>10, <2>1
<1>14. /\ Block(r) /\ r.len \in Nat /\ r.free \in Nat
       /\ r.alloc = r.len + r.free + 1 /\ r.len = l + k
  BY <1>1, <1>4, <1>8, <1>10
<1>15. HeaderOK(r) /\ Terminated(r)
  BY <1>13, <1>14 DEF HeaderOK, Terminated
<1>16. Holds(r, 0, a) /\ Holds(r, Len(a), b)
  <2>1. \A i \in 1 .. l : 0 + i - 1 = i - 1
    BY <1>0
  <2>2. Holds(r, 0, a)
    BY <1>7, <1>11, <2>1 DEF Holds
  <2>3. Holds(r, Len(a), b)
    BY <1>6, <1>7, <1>12 DEF Holds
  <2> QED
    BY <2>2, <2>3
<1>17. r.len = Len(a) + Len(b)
  BY <1>6, <1>7, <1>14
<1>18. Whole(r) /\ Content(r) = a \o b
  BY <1>6, <1>7, <1>14, <1>15, <1>16, <1>17, JoinIs
<1> QED
  BY <1>2, <1>3, <1>18

LEMMA HoldsKept ==
  ASSUME NEW r, NEW s, NEW at \in Nat, NEW v, NEW n \in Nat, Len(v) = n, Holds(s, at, v),
         \A i \in at .. at + n - 1 : r.buf[i] = s.buf[i]
  PROVE  Holds(r, at, v)
<1> SUFFICES ASSUME NEW j \in 1 .. n PROVE r.buf[at + j - 1] = v[j]
  BY DEF Holds
<1>1. at + j - 1 \in at .. at + n - 1
  OBVIOUS
<1> QED
  BY <1>1 DEF Holds

LEMMA ContentHeld ==
  ASSUME NEW s, Fit(s)
  PROVE  /\ Content(s) \in Seq(Char) /\ Len(Content(s)) = s.len
         /\ Holds(s, 0, Content(s))
<1> DEFINE v == Content(s)
<1>1. /\ v \in Seq(Char) /\ Len(v) = s.len
      /\ \A i \in 1 .. s.len : v[i] = s.buf[i - 1]
  BY ContentFacts
<1>2. s.len \in Nat
  BY HeaderNumbers
<1> HIDE DEF v
<1>3. \A i \in 1 .. s.len : 0 + i - 1 = i - 1
  BY <1>2
<1>4. Holds(s, 0, v)
  BY <1>1, <1>3 DEF Holds
<1> QED
  BY <1>1, <1>4 DEF v

\* sdscatlen.
LEMMA CatLenFacts ==
  ASSUME NEW s, Fit(s), NEW t \in Seq(Char)
  PROVE  LET r == CatLen(s, t)
         IN  Whole(r) /\ Content(r) = Content(s) \o t
<1> DEFINE l == s.len
           k == Len(t)
           n == s.len + Len(t)
           q == MakeRoomFor(s, k)
           p == Store(q, l, t)
           w == Header(p, n, q.free - k)
           r == Store(w, n, <<Nul>>)
           a == Content(s)
<1>0. l \in Nat /\ k \in Nat /\ k \in Int /\ n \in Nat /\ Len(t) = k
  BY HeaderNumbers, LenProperties
<1>1. l = s.len
  OBVIOUS
<1>2. n = l + k
  OBVIOUS
<1>3. w.len = n
  BY DEF Header, Str
<1>4. CatLen(s, t) = r
  BY <1>3 DEF CatLen
<1> HIDE DEF l, k, n
<1>5. /\ Fit(q) /\ q.len = l /\ q.free >= k /\ q.alloc >= s.alloc
      /\ \A i \in 0 .. s.alloc - 1 : q.buf[i] = s.buf[i]
  BY <1>0, <1>1, MakeRoomFacts
<1>6. a \in Seq(Char) /\ Len(a) = l /\ Holds(s, 0, a)
  BY <1>1, ContentHeld
<1>7. s.alloc = l + s.free + 1 /\ s.free \in Nat /\ s.alloc \in Nat
  BY <1>1, HeaderNumbers
<1> HIDE DEF q, a
<1>8. Block(q) /\ q.alloc = q.len + q.free + 1 /\ q.free \in Nat /\ q.alloc \in Nat
  BY <1>5, HeaderNumbers
<1>9. /\ Block(p) /\ p.alloc = q.alloc
      /\ \A j \in 1 .. k : p.buf[l + j - 1] = t[j]
      /\ \A i \in 0 .. q.alloc - 1 : i < l \/ i >= l + k => p.buf[i] = q.buf[i]
  <2>1. l + k =< q.alloc
    BY <1>0, <1>5, <1>8
  <2> QED
    BY <1>0, <1>8, <2>1, StoreFacts
<1> HIDE DEF p
<1>10. /\ Block(w) /\ w.len = n /\ w.free = q.free - k /\ w.alloc = q.alloc
       /\ w.buf = p.buf
  BY <1>9, HeaderFacts
<1> HIDE DEF w
<1>11. /\ Block(r) /\ r.len = n /\ r.free = q.free - k /\ r.alloc = q.alloc
       /\ \A i \in 0 .. q.alloc - 1 : r.buf[i] = IF i = n THEN Nul ELSE p.buf[i]
  <2>1. n < w.alloc
    BY <1>0, <1>2, <1>5, <1>8, <1>10
  <2> QED
    BY <1>0, <1>10, <2>1, NulFacts
<1> HIDE DEF r
<1>12. HeaderOK(r) /\ Terminated(r)
  <2>1. n \in 0 .. q.alloc - 1
    BY <1>0, <1>2, <1>5, <1>8
  <2>2. r.buf[n] = Nul
    BY <1>11, <2>1
  <2>3. q.free - k \in Nat /\ q.alloc = n + (q.free - k) + 1
    BY <1>0, <1>2, <1>5, <1>8
  <2> QED
    BY <1>0, <1>11, <2>2, <2>3 DEF HeaderOK, Terminated
<1>13. Holds(r, 0, a)
  <2>1. ASSUME NEW i \in 0 .. 0 + l - 1 PROVE r.buf[i] = s.buf[i]
    <3>a. i \in Nat /\ i < l
      BY <1>0
    <3>b. l < q.alloc /\ l < s.alloc /\ l =< n
      BY <1>0, <1>2, <1>5, <1>7, <1>8
    <3>1. i \in 0 .. q.alloc - 1 /\ i \in 0 .. s.alloc - 1 /\ i < l /\ i # n
      BY <1>0, <1>7, <1>8, <3>a, <3>b
    <3>2. r.buf[i] = p.buf[i]
      BY <1>11, <3>1
    <3>3. p.buf[i] = q.buf[i]
      BY <1>9, <3>1
    <3> QED
      BY <1>5, <3>1, <3>2, <3>3
  <2>2. 0 \in Nat
    OBVIOUS
  <2> QED
    BY <1>0, <1>6, <2>1, <2>2, HoldsKept
<1>14. Holds(r, Len(a), t)
  <2>1. Holds(p, l, t)
    BY <1>0, <1>9 DEF Holds
  <2>2. ASSUME NEW i \in l .. l + k - 1 PROVE r.buf[i] = p.buf[i]
    <3>1. i \in 0 .. q.alloc - 1 /\ i # n
      BY <1>0, <1>2, <1>5, <1>8
    <3> QED
      BY <1>11, <3>1
  <2> QED
    BY <1>0, <1>6, <2>1, <2>2, HoldsKept
<1>15. r.len = Len(a) + Len(t)
  BY <1>0, <1>2, <1>6, <1>11
<1>16. Whole(r) /\ Content(r) = a \o t
  BY <1>6, <1>11, <1>12, <1>13, <1>14, <1>15, JoinIs
<1> QED
  BY <1>4, <1>16 DEF a

\* sdscpylen: the room is made only when the whole block is too small.
LEMMA CpyLenFacts ==
  ASSUME NEW s, Fit(s), NEW t \in Seq(Char)
  PROVE  Whole(CpyLen(s, t)) /\ Content(CpyLen(s, t)) = t
<1> DEFINE k == Len(t)
           d == k - s.len
           m == k + 1
           z == Append(t, Nul)
           q == IF s.free + s.len < k THEN MakeRoomFor(s, d) ELSE s
           p == Store(q, 0, z)
           r == Header(p, k, q.free + q.len - k)
<1>0. k \in Nat /\ d \in Int /\ m \in Nat /\ s.len \in Nat /\ s.free \in Nat
  BY HeaderNumbers, LenProperties
<1>1. CpyLen(s, t) = r
  BY DEF CpyLen
<1>2. Len(z) = m /\ z[m] = Nul /\ \A i \in 1 .. k : z[i] = t[i]
  BY StringAssumption, AppendProperties
<1>3. d = k - s.len /\ m = k + 1 /\ Len(t) = k
  OBVIOUS
<1> HIDE DEF k, d, m, z
<1>4. Fit(q) /\ q.len = s.len /\ q.len + q.free >= k
  <2>1. CASE s.free + s.len < k
    <3>1. q = MakeRoomFor(s, d)
      BY <2>1
    <3> HIDE DEF q
    <3>2. Fit(q) /\ q.len = s.len /\ q.free >= d
      BY <1>0, <3>1, MakeRoomFacts
    <3>3. q.free \in Nat /\ q.len \in Nat
      BY <3>2, HeaderNumbers
    <3> QED
      BY <1>0, <1>3, <3>2, <3>3
  <2>2. CASE ~(s.free + s.len < k)
    BY <1>0, <2>2
  <2> QED
    BY <2>1, <2>2
<1> HIDE DEF q
<1>5. Block(q) /\ q.alloc = q.len + q.free + 1 /\ q.free \in Nat /\ q.alloc \in Nat
  BY <1>4, HeaderNumbers
<1>6. /\ Block(p) /\ p.alloc = q.alloc
      /\ \A j \in 1 .. m : p.buf[j - 1] = z[j]
  <2>1. m =< q.alloc
    BY <1>0, <1>3, <1>4, <1>5
  <2> QED
    BY <1>0, <1>2, <1>5, <2>1, StoreFront
<1> HIDE DEF p
<1>7. /\ Block(r) /\ r.len = k /\ r.free = q.free + q.len - k /\ r.alloc = q.alloc
      /\ r.buf = p.buf
  BY <1>6, HeaderFacts
<1> HIDE DEF r
<1>8. r.buf[k] = Nul
  <2>1. m \in 1 .. m /\ m - 1 = k
    BY <1>0, <1>3
  <2> QED
    BY <1>2, <1>6, <1>7, <2>1
<1>9. \A i \in 1 .. r.len : r.buf[i - 1] = t[i]
  <2> SUFFICES ASSUME NEW i \in 1 .. k PROVE r.buf[i - 1] = t[i]
    BY <1>7
  <2>1. i \in 1 .. m
    BY <1>0, <1>3
  <2> QED
    BY <1>2, <1>6, <1>7, <2>1
<1>10. /\ Block(r) /\ r.len \in Nat /\ r.free \in Nat /\ r.alloc = r.len + r.free + 1
       /\ Len(t) = r.len /\ r.buf[r.len] = Nul
  BY <1>0, <1>3, <1>4, <1>5, <1>7, <1>8
<1> QED
  BY <1>1, <1>9, <1>10, WholeIs

-----------------------------------------------------------------------------
(* The functions that cut.                                                 *)

LEMMA PartFacts ==
  ASSUME NEW v \in Seq(Char), NEW a \in Nat, NEW n \in Nat, a + n =< Len(v)
  PROVE  LET w == SubSeq(v, a + 1, a + n)
         IN  w \in Seq(Char) /\ Len(w) = n /\ \A i \in 1 .. n : w[i] = v[a + i]
<1> DEFINE b == a + 1
           c == a + n
           w == SubSeq(v, b, c)
<1>0. Len(v) \in Nat /\ b \in Int /\ c \in Int
  BY LenProperties
<1>1. b = a + 1 /\ c = a + n
  OBVIOUS
<1> HIDE DEF b, c
<1>2. \A i \in b .. c : v[i] \in Char
  <2> SUFFICES ASSUME NEW i \in b .. c PROVE v[i] \in Char
    OBVIOUS
  <2>1. i \in 1 .. Len(v)
    BY <1>0, <1>1
  <2> QED
    BY <2>1, ElementOfSeq
<1>3. /\ w \in Seq(Char) /\ Len(w) = IF b <= c THEN c - b + 1 ELSE 0
      /\ \A i \in 1 .. c - b + 1 : w[i] = v[b + i - 1]
  BY <1>0, <1>2, SubSeqProperties
<1> HIDE DEF w
<1>4. Len(w) = n
  BY <1>0, <1>1, <1>3
<1>5. ASSUME NEW i \in 1 .. n PROVE w[i] = v[a + i]
  <2>1. i \in 1 .. c - b + 1 /\ b + i - 1 = a + i
    BY <1>0, <1>1
  <2> QED
    BY <1>3, <2>1
<1> QED
  BY <1>3, <1>4, <1>5 DEF w, b, c

\* What sdstrim and sdsrange do: a part is moved to the front and ended.
LEMMA CutFacts ==
  ASSUME NEW s, Whole(s), NEW from \in Nat, NEW n \in Nat, from + n =< s.len
  PROVE  LET r == Cut(s, from, n)
         IN  Whole(r) /\ Content(r) = SubSeq(Content(s), from + 1, from + n)
<1> DEFINE b == Bytes(s, from, n)
           q == IF from # 0 THEN Move(s, 0, from, n) ELSE s
           p == Store(q, n, <<Nul>>)
           f == s.free + (s.len - n)
           r == Header(p, n, f)
           a == Content(s)
           v == SubSeq(a, from + 1, from + n)
<1>0. /\ Fit(s) /\ Block(s) /\ s.len \in Nat /\ s.free \in Nat /\ s.alloc \in Nat
      /\ s.alloc = s.len + s.free + 1
  BY WholeFacts
<1>1. Cut(s, from, n) = r
  BY DEF Cut
<1>2. a \in Seq(Char) /\ Len(a) = s.len /\ \A i \in 1 .. s.len : a[i] = s.buf[i - 1]
  BY <1>0, ContentFacts
<1> HIDE DEF a
<1>3. v \in Seq(Char) /\ Len(v) = n /\ \A i \in 1 .. n : v[i] = a[from + i]
  <2>1. a \in Seq(Char) /\ from + n =< Len(a)
    BY <1>2
  <2> QED
    BY <2>1, PartFacts
<1> HIDE DEF v
<1>4. Len(b) = n /\ \A i \in 1 .. n : b[i] = s.buf[from + i - 1]
  BY DEF Bytes
<1> HIDE DEF b
<1>5. /\ Block(q) /\ q.alloc = s.alloc
      /\ \A i \in 1 .. n : q.buf[i - 1] = s.buf[from + i - 1]
  <2>1. CASE from # 0
    <3>1. q = Store(s, 0, b)
      BY <2>1 DEF Move, b
    <3>2. n =< s.alloc
      BY <1>0
    <3> HIDE DEF q
    <3>3. /\ Block(q) /\ q.alloc = s.alloc
          /\ \A i \in 1 .. n : q.buf[i - 1] = b[i]
      <4>1. Block(s) /\ Len(b) = n
        BY <1>0, <1>4
      <4> QED
        BY <3>1, <3>2, <4>1, StoreFront
    <3> QED
      BY <1>4, <3>3
  <2>2. CASE from = 0
    <3>1. \A i \in 1 .. n : from + i - 1 = i - 1
      BY <2>2
    <3> QED
      BY <1>0, <2>2, <3>1
  <2> QED
    BY <2>1, <2>2
<1> HIDE DEF q
<1>6. /\ Block(p) /\ p.alloc = s.alloc
      /\ \A i \in 0 .. s.alloc - 1 : p.buf[i] = IF i = n THEN Nul ELSE q.buf[i]
  <2>1. n < q.alloc
    BY <1>0, <1>5
  <2> QED
    BY <1>5, <2>1, NulFacts
<1> HIDE DEF p
<1>7. /\ Block(r) /\ r.len = n /\ r.free = f /\ r.alloc = s.alloc /\ r.buf = p.buf
  BY <1>6, HeaderFacts
<1> HIDE DEF r
<1>8. n \in 0 .. s.alloc - 1 /\ r.buf[n] = Nul
  <2>1. n \in 0 .. s.alloc - 1
    BY <1>0
  <2> QED
    BY <1>6, <1>7, <2>1
<1>9. ASSUME NEW i \in 1 .. r.len PROVE r.buf[i - 1] = v[i]
  <2>1. /\ i \in 1 .. n /\ i - 1 \in 0 .. s.alloc - 1 /\ i - 1 # n
        /\ from + i \in 1 .. s.len /\ (from + i) - 1 = from + i - 1
    BY <1>0, <1>7
  <2>2. r.buf[i - 1] = s.buf[from + i - 1]
    BY <1>5, <1>6, <1>7, <2>1
  <2>3. v[i] = s.buf[(from + i) - 1]
    BY <1>2, <1>3, <2>1
  <2> QED
    BY <2>1, <2>2, <2>3
<1>10. /\ r.len \in Nat /\ r.free \in Nat /\ r.alloc = r.len + r.free + 1
       /\ Len(v) = r.len /\ r.buf[r.len] = Nul
  BY <1>0, <1>3, <1>7, <1>8
<1>11. Whole(r) /\ Content(r) = v
  BY <1>3, <1>7, <1>9, <1>10, WholeIs
<1> QED
  BY <1>1, <1>11 DEF v, a

\* The characters outside the set that sdstrim is given.
Staying(s, set) == {i \in 1 .. s.len : Content(s)[i] \notin set}

\* sdstrim.
LEMMA TrimFacts ==
  ASSUME NEW s, Whole(s), NEW set
  PROVE  /\ Whole(Trim(s, set))
         /\ Content(Trim(s, set)) =
              IF Staying(s, set) = {} THEN <<>>
              ELSE SubSeq(Content(s), Min(Staying(s, set)), Max(Staying(s, set)))
<1> DEFINE text == Content(s)
           K == Staying(s, set)
           T == {i \in Span(0, s.len) : s.buf[i] \notin set}
           sp == TrimFrom(s, set)
           ep == TrimTo(s, set)
           r == Trim(s, set)
<1>0. Fit(s) /\ s.len \in Nat
  BY WholeFacts
<1>1. /\ text \in Seq(Char) /\ Len(text) = s.len
      /\ \A i \in 1 .. s.len : text[i] = s.buf[i - 1]
  BY <1>0, ContentFacts
<1>2. /\ T \in SUBSET (0 .. s.len - 1)
      /\ \A i \in T : i + 1 \in K
      /\ \A i \in K : i - 1 \in T
  <2>1. Span(0, s.len) = 0 .. s.len - 1
    BY <1>0 DEF Span
  <2>2. ASSUME NEW i \in T PROVE i + 1 \in K
    <3>1. i + 1 \in 1 .. s.len /\ (i + 1) - 1 = i
      BY <1>0, <2>1
    <3> QED
      BY <1>1, <3>1 DEF Staying
  <2>3. ASSUME NEW i \in K PROVE i - 1 \in T
    BY <1>0, <1>1, <2>1 DEF Staying
  <2> QED
    BY <2>1, <2>2, <2>3
<1>3. /\ sp = Min({s.len} \cup T)
      /\ ep = IF s.len = 0 THEN -1 ELSE Max({0} \cup T)
      /\ r = Cut(s, sp, IF sp > ep THEN 0 ELSE ep - sp + 1)
  BY DEF TrimFrom, TrimTo, Trim
<1>4. K \in SUBSET (0 .. s.len) /\ \A i \in K : i \in 1 .. s.len
  BY <1>0 DEF Staying
<1> HIDE DEF text, K, T, sp, ep, r
<1>5. CASE K = {}
  <2>1. T = {}
    BY <1>2, <1>5
  <2>2. sp = s.len
    <3>1. {s.len} \cup T = {s.len} /\ {s.len} \in SUBSET Int
      BY <1>0, <2>1
    <3>2. s.len \in {s.len} /\ \A y \in {s.len} : s.len =< y
      BY <1>0
    <3> QED
      BY <1>3, <3>1, <3>2, MinIs
  <2>3. ep < sp
    <3>1. CASE s.len = 0
      BY <1>0, <1>3, <2>2, <3>1
    <3>2. CASE s.len # 0
      <4>1. {0} \cup T = {0} /\ {0} \in SUBSET Int /\ 0 \in {0} /\ \A y \in {0} : 0 >= y
        BY <2>1
      <4>2. Max({0} \cup T) = 0
        BY <4>1, MaxIs
      <4>3. ep = 0
        BY <1>3, <3>2, <4>2
      <4> QED
        BY <1>0, <2>2, <3>2, <4>3
    <3> QED
      BY <3>1, <3>2
  <2>4. sp > ep
    <3>1. ep \in Int
      BY <1>0, <1>3, <2>1
    <3> QED
      BY <1>0, <2>2, <2>3
  <2>5. r = Cut(s, s.len, 0)
    BY <1>3, <2>2, <2>4
  <2>6. s.len + 0 =< s.len /\ 0 \in Nat
    BY <1>0
  <2>7. Whole(r) /\ Content(r) = SubSeq(text, s.len + 1, s.len + 0)
    BY <1>0, <2>5, <2>6, CutFacts DEF text
  <2>8. SubSeq(text, s.len + 1, s.len + 0) = <<>>
    <3>1. s.len + 1 \in Int /\ s.len + 0 \in Int /\ s.len + 0 < s.len + 1
      BY <1>0
    <3> QED
      BY <3>1, SubSeqEmpty
  <2> QED
    BY <1>5, <2>7, <2>8 DEF r, K, text
<1>6. CASE K # {}
  <2> DEFINE a == Min(K)
             b == Max(K)
             from == a - 1
             n == b - a + 1
  <2>1. a \in K /\ \A y \in K : a =< y
    <3>1. K \in SUBSET Nat
      BY <1>0, <1>4
    <3> QED
      BY <1>6, <3>1, MinExists
  <2>2. b \in K /\ \A y \in K : b >= y
    BY <1>0, <1>4, <1>6, MaxExists
  <2> HIDE DEF a, b
  <2>3. a \in 1 .. s.len /\ b \in 1 .. s.len /\ a =< b
    BY <1>4, <2>1, <2>2
  <2>4. sp = a - 1
    <3> DEFINE U == {s.len} \cup T
               m == a - 1
    <3>1. U \in SUBSET Int
      <4>1. T \in SUBSET Int /\ s.len \in Int
        BY <1>0, <1>2
      <4> QED
        BY <4>1
    <3>2. m \in U
      BY <1>2, <2>1
    <3>3. \A y \in U : m =< y
      <4>1. ASSUME NEW y \in T PROVE m =< y
        <5>1. y \in Int /\ a =< y + 1
          BY <1>2, <2>1
        <5> QED
          BY <1>0, <2>3, <5>1
      <4>2. m =< s.len
        BY <1>0, <2>3
      <4> QED
        BY <4>1, <4>2
    <3> HIDE DEF U, m
    <3>4. Min(U) = m
      BY <3>1, <3>2, <3>3, MinIs
    <3> QED
      BY <1>3, <3>4 DEF U, m
  <2>5. ep = b - 1
    <3> DEFINE U == {0} \cup T
               m == b - 1
    <3>1. U \in SUBSET Int
      BY <1>0, <1>2
    <3>2. m \in U
      BY <1>2, <2>2
    <3>3. \A y \in U : m >= y
      <4>1. ASSUME NEW y \in T PROVE m >= y
        <5>1. y \in Int /\ b >= y + 1
          BY <1>2, <2>2
        <5> QED
          BY <1>0, <2>3, <5>1
      <4>2. m >= 0
        BY <1>0, <2>3
      <4> QED
        BY <4>1, <4>2
    <3> HIDE DEF U, m
    <3>4. Max(U) = m
      BY <3>1, <3>2, <3>3, MaxIs
    <3>5. s.len # 0
      BY <1>0, <2>3
    <3> QED
      BY <1>3, <3>4, <3>5 DEF U, m
  <2>6. r = Cut(s, from, n)
    <3>1. ~(sp > ep) /\ ep - sp + 1 = n /\ sp = from
      BY <1>0, <2>3, <2>4, <2>5
    <3> QED
      BY <1>3, <3>1
  <2>7. /\ from \in Nat /\ n \in Nat /\ from + n =< s.len
        /\ from + 1 = a /\ from + n = b
    BY <1>0, <2>3
  <2> HIDE DEF from, n
  <2>8. Whole(r) /\ Content(r) = SubSeq(text, from + 1, from + n)
    <3>1. from \in Nat /\ n \in Nat /\ from + n =< s.len
      BY <2>7
    <3> QED
      BY <2>6, <3>1, CutFacts DEF text
  <2>9. Whole(r) /\ Content(r) = SubSeq(text, a, b)
    BY <2>7, <2>8
  <2> QED
    BY <1>6, <2>9 DEF r, K, text, a, b
<1> QED
  BY <1>5, <1>6

LEMMA IndexedFacts ==
  ASSUME NEW i \in Int, NEW len \in Nat
  PROVE  /\ Indexed(i, len) \in Nat
         /\ Indexed(i, len) = IF i >= 0 THEN i ELSE Max({0, len + i})
<1> DEFINE k == len + i
           U == {0, k}
<1>1. k \in Int /\ U \in SUBSET Int
  OBVIOUS
<1>2. CASE k < 0
  <2>1. 0 \in U /\ \A y \in U : 0 >= y
    BY <1>1, <1>2
  <2>2. Max(U) = 0
    BY <1>1, <2>1, MaxIs
  <2> QED
    BY <1>2, <2>2 DEF Indexed
<1>3. CASE ~(k < 0)
  <2>1. k \in U /\ \A y \in U : k >= y
    BY <1>1, <1>3
  <2> HIDE DEF k, U
  <2>2. Max(U) = k
    BY <1>1, <2>1, MaxIs
  <2> USE DEF k, U
  <2> QED
    BY <1>3, <2>2 DEF Indexed
<1> QED
  BY <1>2, <1>3

\* sdsrange.
LEMMA KeepRangeFacts ==
  ASSUME NEW s, Whole(s), NEW start \in Int, NEW end \in Int
  PROVE  LET from == Indexed(start, s.len)
             to == Indexed(end, s.len)
         IN  /\ Whole(KeepRange(s, start, end))
             /\ Content(KeepRange(s, start, end)) =
                  SubSeq(Content(s), from + 1, Min({s.len, to + 1}))
<1> DEFINE from == Indexed(start, s.len)
           to == Indexed(end, s.len)
           text == Content(s)
           r == KeepRange(s, start, end)
           up == Min({s.len, to + 1})
           last == IF to >= s.len THEN s.len - 1 ELSE to
           n == last - from + 1
<1>0. Fit(s) /\ s.len \in Nat
  BY WholeFacts
<1>1. from \in Nat /\ to \in Nat
  BY <1>0, IndexedFacts
<1>2. r = IF s.len = 0 THEN s
          ELSE IF from > to \/ from >= s.len THEN Cut(s, 0, 0)
          ELSE Cut(s, from, n)
  BY DEF KeepRange
<1>3. text \in Seq(Char) /\ Len(text) = s.len
  BY <1>0, ContentFacts
<1> HIDE DEF from, to, text, r
<1>4. up = last + 1
  <2> DEFINE U == {s.len, to + 1}
             m == last + 1
  <2>1. U \in SUBSET Int /\ m \in U /\ \A y \in U : m =< y
    BY <1>0, <1>1
  <2> HIDE DEF U, m
  <2>2. Min(U) = m
    BY <2>1, MinIs
  <2> QED
    BY <2>2 DEF U, m
<1>5. last \in Int
  BY <1>0, <1>1
<1> HIDE DEF up
<1>6. CASE s.len = 0
  <2>1. text = <<>>
    BY <1>3, <1>6, EmptySeq
  <2>2. r = s
    BY <1>2, <1>6
  <2>3. SubSeq(text, from + 1, up) = <<>>
    <3>1. from + 1 \in Int /\ up \in Int /\ up < from + 1
      BY <1>0, <1>1, <1>4, <1>6
    <3> QED
      BY <3>1, SubSeqEmpty
  <2> QED
    BY <2>1, <2>2, <2>3 DEF r, text, up, from, to
<1>7. CASE s.len # 0 /\ (from > to \/ from >= s.len)
  <2>1. r = Cut(s, 0, 0)
    BY <1>2, <1>7
  <2>2. SubSeq(text, from + 1, up) = <<>>
    <3>1. from + 1 \in Int /\ up \in Int /\ up < from + 1
      BY <1>0, <1>1, <1>4, <1>7
    <3> QED
      BY <3>1, SubSeqEmpty
  <2>3. 0 \in Nat /\ 0 + 0 =< s.len
    BY <1>0
  <2>4. Whole(r) /\ Content(r) = SubSeq(text, 0 + 1, 0 + 0)
    BY <2>1, <2>3, CutFacts DEF text
  <2>5. SubSeq(text, 0 + 1, 0 + 0) = <<>>
    <3>1. 0 + 1 \in Int /\ 0 + 0 \in Int /\ 0 + 0 < 0 + 1
      OBVIOUS
    <3> QED
      BY <3>1, SubSeqEmpty
  <2> QED
    BY <2>2, <2>4, <2>5 DEF r, text, up, from, to
<1>8. CASE s.len # 0 /\ ~(from > to \/ from >= s.len)
  <2>1. r = Cut(s, from, n)
    BY <1>2, <1>8
  <2>2. n \in Nat /\ from + n =< s.len /\ from + n = up
    BY <1>0, <1>1, <1>4, <1>8
  <2> HIDE DEF n
  <2>3. Whole(r) /\ Content(r) = SubSeq(text, from + 1, from + n)
    <3>1. from \in Nat /\ n \in Nat /\ from + n =< s.len
      BY <1>1, <2>2
    <3> QED
      BY <2>1, <3>1, CutFacts DEF text
  <2>4. Whole(r) /\ Content(r) = SubSeq(text, from + 1, up)
    BY <2>2, <2>3
  <2> QED
    BY <2>4 DEF r, text, up, from, to
<1> QED
  BY <1>6, <1>7, <1>8

-----------------------------------------------------------------------------
(* The functions that change characters, and the client's own stores.      *)

LEMMA MappedFacts ==
  ASSUME NEW p \in Pairs, NEW c \in Char
  PROVE  Mapped(p, c) \in Char
<1> DEFINE P == {i \in DOMAIN p.from : p.from[i] = c}
           k == Min(P)
<1>1. p.from \in Seq(Char) /\ p.to \in Seq(Char) /\ Len(p.from) = Len(p.to)
  BY StringAssumption
<1>2. DOMAIN p.from = 1 .. Len(p.to) /\ Len(p.to) \in Nat
  BY <1>1, LenProperties
<1>3. Mapped(p, c) = IF P = {} THEN c ELSE p.to[k]
  BY DEF Mapped
<1>4. P # {} => k \in 1 .. Len(p.to)
  <2> SUFFICES ASSUME P # {} PROVE k \in 1 .. Len(p.to)
    OBVIOUS
  <2>1. P \in SUBSET Nat /\ P \subseteq 1 .. Len(p.to)
    BY <1>2
  <2> HIDE DEF P
  <2>2. k \in P
    BY <2>1, MinExists
  <2> QED
    BY <2>1, <2>2
<1> HIDE DEF P, k
<1>5. P # {} => p.to[k] \in Char
  BY <1>1, <1>4, ElementOfSeq
<1> QED
  BY <1>3, <1>5

\* sdsmapchars, sdstolower, sdstoupper.
LEMMA MapCharsFacts ==
  ASSUME NEW s, Whole(s), NEW p \in Pairs
  PROVE  Whole(MapChars(s, p))
<1> DEFINE D == DOMAIN s.buf
           b == [i \in D |-> IF i \in Span(0, s.len) THEN Mapped(p, s.buf[i]) ELSE s.buf[i]]
           r == MapChars(s, p)
<1>0. /\ Fit(s) /\ Block(s) /\ s.len \in Nat /\ s.free \in Nat /\ s.alloc \in Nat
      /\ s.alloc = s.len + s.free + 1 /\ s.buf[s.len] = Nul
      /\ \A i \in 0 .. s.len - 1 : s.buf[i] \in Char
  BY WholeFacts
<1>1. r = Str(s.len, s.free, s.alloc, b)
  BY <1>0 DEF Block, MapChars, Str
<1>2. /\ b = [i \in D |-> b[i]]
      /\ \A i \in D : b[i] = IF i \in Span(0, s.len) THEN Mapped(p, s.buf[i]) ELSE s.buf[i]
  OBVIOUS
<1>3. D = Span(0, s.alloc)
  BY <1>0 DEF Block
<1> HIDE DEF b, D, r
<1>4. r.len = s.len /\ r.free = s.free /\ r.alloc = s.alloc /\ r.buf = b
  BY <1>1 DEF Str
<1>5. Block(r)
  BY <1>0, <1>1, <1>2, <1>3, <1>4 DEF Block
<1>6. s.len \in D /\ s.len \notin Span(0, s.len)
  BY <1>0, <1>3 DEF Span
<1>7. Terminated(r)
  BY <1>0, <1>2, <1>4, <1>6 DEF Terminated
<1>8. ASSUME NEW i \in 0 .. s.len - 1 PROVE b[i] \in Char
  <2>1. i \in D /\ i \in Span(0, s.len)
    BY <1>0, <1>3 DEF Span
  <2>2. b[i] = Mapped(p, s.buf[i])
    BY <1>2, <2>1
  <2> QED
    BY <1>0, <2>2, MappedFacts
<1>9. HeaderOK(r)
  BY <1>0, <1>4 DEF HeaderOK
<1>10. Whole(r)
  BY <1>4, <1>5, <1>7, <1>8, <1>9 DEF Whole, Fit
<1> QED
  BY <1>10 DEF r

\* Memory for n characters, asked for when nothing is staged.
LEMMA RoomFacts ==
  ASSUME NEW s, Whole(s), NEW n \in Nat
  PROVE  Whole(MakeRoomFor(s, n)) /\ n =< MakeRoomFor(s, n).free
<1> DEFINE r == MakeRoomFor(s, n)
<1>0. /\ Fit(s) /\ s.len \in Nat /\ s.free \in Nat /\ s.alloc \in Nat
      /\ s.alloc = s.len + s.free + 1 /\ s.buf[s.len] = Nul
  BY WholeFacts
<1>1. /\ Fit(r) /\ r.len = s.len /\ r.free >= n
      /\ \A i \in 0 .. s.alloc - 1 : r.buf[i] = s.buf[i]
  <2>1. n \in Int
    OBVIOUS
  <2> QED
    BY <1>0, <2>1, MakeRoomFacts
<1>2. r.free \in Nat
  BY <1>1, HeaderNumbers
<1> HIDE DEF r
<1>3. s.len \in 0 .. s.alloc - 1
  BY <1>0
<1>4. Whole(r)
  BY <1>0, <1>1, <1>3 DEF Whole, Terminated
<1>5. n =< r.free
  BY <1>1, <1>2
<1> QED
  BY <1>4, <1>5 DEF r

LEMMA PokeFacts ==
  ASSUME NEW s, Whole(s), NEW i \in Nat, i < s.len, NEW c \in Char
  PROVE  Whole(Store(s, i, <<c>>))
<1> DEFINE t == <<c>>
           n == 1
           r == Store(s, i, t)
<1>0. /\ Fit(s) /\ Block(s) /\ s.len \in Nat /\ s.free \in Nat /\ s.alloc \in Nat
      /\ s.alloc = s.len + s.free + 1 /\ s.buf[s.len] = Nul
      /\ \A j \in 0 .. s.len - 1 : s.buf[j] \in Char
  BY WholeFacts
<1>1. Len(t) = n /\ n \in Nat
  OBVIOUS
<1>2. n = 1 /\ t[1] = c
  OBVIOUS
<1> HIDE DEF n, t
<1>3. /\ Block(r) /\ r.len = s.len /\ r.free = s.free /\ r.alloc = s.alloc
      /\ \A j \in 1 .. n : r.buf[i + j - 1] = t[j]
      /\ \A j \in 0 .. s.alloc - 1 : j < i \/ j >= i + n => r.buf[j] = s.buf[j]
  <2>1. i + n =< s.alloc /\ Block(s)
    BY <1>0, <1>2
  <2> QED
    BY <1>1, <2>1, StoreFacts
<1> HIDE DEF r
<1>4. r.buf[i] = c
  <2>1. 1 \in 1 .. n /\ i + 1 - 1 = i
    BY <1>2
  <2> QED
    BY <1>2, <1>3, <2>1
<1>5. ASSUME NEW j \in 0 .. s.len, j # i PROVE r.buf[j] = s.buf[j]
  <2>1. j \in 0 .. s.alloc - 1 /\ (j < i \/ j >= i + n)
    BY <1>0, <1>2, <1>5
  <2> QED
    BY <1>3, <2>1
<1>6. ASSUME NEW j \in 0 .. s.len - 1 PROVE r.buf[j] \in Char
  <2>1. CASE j = i
    BY <1>4, <2>1
  <2>2. CASE j # i
    <3>1. j \in 0 .. s.len
      BY <1>0
    <3> QED
      BY <1>0, <1>5, <2>2, <3>1
  <2> QED
    BY <2>1, <2>2
<1>7. Terminated(r)
  <2>1. s.len \in 0 .. s.len /\ s.len # i
    BY <1>0
  <2> QED
    BY <1>0, <1>3, <1>5, <2>1 DEF Terminated
<1>8. HeaderOK(r)
  BY <1>0, <1>3 DEF HeaderOK
<1>9. Whole(r)
  BY <1>3, <1>6, <1>7, <1>8 DEF Whole, Fit
<1> QED
  BY <1>9 DEF r, t

\* What the client stages is after the end, in the free space.
LEMMA StageFacts ==
  ASSUME NEW s, Fit(s), NEW t \in Seq(Char), Len(t) =< s.free
  PROVE  LET r == Store(s, s.len, t)
         IN  Fit(r) /\ r.len = s.len /\ r.free = s.free /\ Holds(r, r.len, t)
<1> DEFINE l == s.len
           n == Len(t)
           r == Store(s, l, t)
<1>0. /\ Block(s) /\ s.len \in Nat /\ s.free \in Nat /\ s.alloc \in Nat
      /\ s.alloc = s.len + s.free + 1 /\ \A j \in 0 .. s.len - 1 : s.buf[j] \in Char
  BY HeaderNumbers DEF Fit
<1>1. n \in Nat /\ l \in Nat /\ Block(s) /\ Len(t) = n /\ l + n =< s.alloc
  BY <1>0, LenProperties
<1>2. l = s.len
  OBVIOUS
<1> HIDE DEF l, n
<1>3. /\ Block(r) /\ r.len = s.len /\ r.free = s.free /\ r.alloc = s.alloc
      /\ \A j \in 1 .. n : r.buf[l + j - 1] = t[j]
      /\ \A j \in 0 .. s.alloc - 1 : j < l \/ j >= l + n => r.buf[j] = s.buf[j]
  BY <1>1, StoreFacts
<1> HIDE DEF r
<1>4. Holds(r, l, t)
  BY <1>1, <1>3 DEF Holds
<1>5. HeaderOK(r)
  BY <1>0, <1>3 DEF HeaderOK
<1>6. ASSUME NEW j \in 0 .. s.len - 1 PROVE r.buf[j] \in Char
  <2>1. j \in 0 .. s.alloc - 1 /\ j < l
    BY <1>0, <1>2
  <2> QED
    BY <1>0, <1>3, <2>1
<1>7. Fit(r)
  BY <1>3, <1>5, <1>6 DEF Fit
<1> QED
  BY <1>2, <1>3, <1>4, <1>7 DEF r, l

-----------------------------------------------------------------------------
(* The invariant.  What the client staged lies after the end, where the    *)
(* terminator was: sdsIncrLen finds characters there.                      *)

StrOK ==
  str # NoStr =>
    /\ Fit(str)
    /\ staged = <<>> => Terminated(str)
    /\ Len(staged) =< room /\ room =< str.free
    /\ Holds(str, str.len, staged)

Inv == room \in Nat /\ staged \in Seq(Char) /\ StrOK

\* A call leaves a whole string, and nothing staged.
LEMMA ReturnsKeep ==
  ASSUME Inv, NEW s, Whole(s), Returns(s)
  PROVE  Inv'
<1>1. str' = s /\ room' = 0 /\ staged' = <<>>
  BY DEF Returns
<1>2. Len(<<>>) = 0 /\ <<>> \in Seq(Char)
  BY EmptySeq
<1>3. Fit(s) /\ Terminated(s) /\ s.free \in Nat
  BY WholeFacts DEF Whole
<1>4. Holds(s, s.len, <<>>)
  BY <1>2 DEF Holds
<1>5. Fit(str') /\ Terminated(str') /\ Holds(str', str'.len, <<>>) /\ 0 =< str'.free
  BY <1>1, <1>3, <1>4
<1>6. Len(staged') = 0 /\ staged' \in Seq(Char) /\ room' \in Nat
  BY <1>1, <1>2
<1>7. StrOK'
  BY <1>1, <1>5, <1>6 DEF StrOK
<1> QED
  BY <1>6, <1>7 DEF Inv

LEMMA WholeString ==
  ASSUME Inv, str # NoStr, staged = <<>>
  PROVE  Whole(str)
  BY DEF Inv, StrOK, Whole

LEMMA FitString ==
  ASSUME Inv, str # NoStr
  PROVE  Fit(str)
  BY DEF Inv, StrOK

LEMMA TextFacts ==
  ASSUME NEW t \in Text
  PROVE  t \in Seq(Char) /\ CString(t) \in Seq(Char)
  BY StringAssumption, CStringFacts

LEMMA ChangeKeeps ==
  ASSUME Inv, Change
  PROVE  Inv'
<1>0. /\ str # NoStr
      /\ \/ Returns(UpdateLen(str))
         \/ Returns(ClearString(str))
         \/ Returns(RemoveFreeSpace(str))
         \/ \E n \in 0 .. MaxLen : Returns(GrowZero(str, n))
         \/ \E t \in Text : Returns(CatLen(str, t)) \/ Returns(CatLen(str, CString(t)))
         \/ \E t \in Text : Returns(CpyLen(str, t)) \/ Returns(CpyLen(str, CString(t)))
         \/ \E set : Returns(Trim(str, set))
         \/ \E start, end \in Int : Returns(KeepRange(str, start, end))
         \/ \E p \in Pairs : Returns(MapChars(str, p))
  <2>1. -(MaxLen + 1) .. MaxLen \subseteq Int
    BY StringAssumption
  <2> QED
    BY <2>1 DEF Change
<1>1. staged = <<>>
  BY <1>0 DEF Returns
<1>2. Whole(str) /\ Fit(str) /\ Terminated(str)
  BY <1>0, <1>1, WholeString DEF Whole
<1>3. CASE Returns(UpdateLen(str))
  BY <1>2, <1>3, UpdateLenFacts, ReturnsKeep
<1>4. CASE Returns(ClearString(str))
  BY <1>2, <1>4, ClearFacts, ReturnsKeep
<1>5. CASE Returns(RemoveFreeSpace(str))
  BY <1>2, <1>5, RemoveFreeSpaceFacts, ReturnsKeep
<1>6. ASSUME NEW n \in 0 .. MaxLen, Returns(GrowZero(str, n)) PROVE Inv'
  <2>1. Whole(GrowZero(str, n))
    <3>1. CASE n =< str.len
      BY <1>2, <3>1 DEF GrowZero
    <3>2. CASE ~(n =< str.len)
      <4>1. str.len \in Nat /\ n \in Nat /\ str.len < n
        BY <1>2, <3>2, WholeFacts, StringAssumption
      <4> QED
        BY <1>2, <4>1, GrowZeroFacts
    <3> QED
      BY <3>1, <3>2
  <2> QED
    BY <1>6, <2>1, ReturnsKeep
<1>7. ASSUME NEW t \in Text, Returns(CatLen(str, t)) \/ Returns(CatLen(str, CString(t)))
      PROVE  Inv'
  BY <1>2, <1>7, TextFacts, CatLenFacts, ReturnsKeep
<1>8. ASSUME NEW t \in Text, Returns(CpyLen(str, t)) \/ Returns(CpyLen(str, CString(t)))
      PROVE  Inv'
  BY <1>2, <1>8, TextFacts, CpyLenFacts, ReturnsKeep
<1>9. ASSUME NEW set, Returns(Trim(str, set)) PROVE Inv'
  BY <1>2, <1>9, TrimFacts, ReturnsKeep
<1>10. ASSUME NEW start \in Int, NEW end \in Int, Returns(KeepRange(str, start, end))
       PROVE  Inv'
  BY <1>2, <1>10, KeepRangeFacts, ReturnsKeep
<1>11. ASSUME NEW p \in Pairs, Returns(MapChars(str, p)) PROVE Inv'
  BY <1>2, <1>11, MapCharsFacts, ReturnsKeep
<1> QED
  BY <1>0, <1>3, <1>4, <1>5, <1>6, <1>7, <1>8, <1>9, <1>10, <1>11

LEMMA StageKeeps ==
  ASSUME Inv, str # NoStr, NEW t \in Text, Stage(t)
  PROVE  Inv'
<1> DEFINE r == Store(str, str.len, t)
<1>1. /\ staged = <<>> /\ t # <<>> /\ Len(t) =< room
      /\ str' = r /\ staged' = t /\ room' = room
  BY DEF Stage
<1>2. room \in Nat /\ room =< str.free /\ Fit(str)
  BY DEF Inv, StrOK
<1>3. t \in Seq(Char) /\ Len(t) \in Nat /\ str.free \in Nat
  BY <1>2, TextFacts, LenProperties, HeaderNumbers
<1>4. Len(t) =< str.free
  BY <1>1, <1>2, <1>3
<1>5. Fit(r) /\ r.free = str.free /\ Holds(r, r.len, t)
  BY <1>2, <1>3, <1>4, StageFacts
<1> HIDE DEF r
<1>6. StrOK'
  BY <1>1, <1>2, <1>5 DEF StrOK
<1> QED
  BY <1>1, <1>2, <1>3, <1>6 DEF Inv

\* The bytes that sdsIncrLen takes are characters.
LEMMA StagedFacts ==
  ASSUME Inv, str # NoStr, NEW n \in Int, n =< Len(staged)
  PROVE  \A i \in str.len .. str.len + n - 1 : str.buf[i] \in Char
<1>1. /\ staged \in Seq(Char) /\ Len(staged) \in Nat /\ str.len \in Nat
      /\ \A j \in 1 .. Len(staged) : str.buf[str.len + j - 1] = staged[j]
  BY FitString, HeaderNumbers, LenProperties DEF Inv, StrOK, Holds
<1> SUFFICES ASSUME NEW i \in str.len .. str.len + n - 1 PROVE str.buf[i] \in Char
  OBVIOUS
<1> DEFINE j == i - str.len + 1
<1>2. j \in 1 .. Len(staged) /\ str.len + j - 1 = i
  BY <1>1
<1> HIDE DEF j
<1>3. str.buf[i] = staged[j]
  BY <1>1, <1>2
<1> QED
  BY <1>1, <1>2, <1>3, ElementOfSeq

LEMMA IncrKeeps ==
  ASSUME Inv, str # NoStr, NEW n \in Int, Incr(n)
  PROVE  Inv'
<1> DEFINE r == IncrLen(str, n)
<1>1. /\ n \in -str.len .. Len(staged) /\ str.free >= n
      /\ str' = r /\ room' = room - n /\ staged' = <<>>
  BY DEF Incr, IncrAllowed
<1>2. /\ room \in Nat /\ room =< str.free /\ Len(staged) =< room /\ Fit(str)
      /\ staged \in Seq(Char)
  BY DEF Inv, StrOK
<1>3. Len(staged) \in Nat /\ str.len \in Nat /\ str.free \in Nat
  BY <1>2, LenProperties, HeaderNumbers
<1>4. n =< Len(staged) /\ str.len + n >= 0 /\ n =< str.free
  BY <1>1, <1>3
<1>5. \A i \in str.len .. str.len + n - 1 : str.buf[i] \in Char
  BY <1>4, StagedFacts
<1>6. Whole(r) /\ r.free = str.free - n
  BY <1>2, <1>4, <1>5, IncrFacts
<1> HIDE DEF r
<1>7. Fit(r) /\ Terminated(r)
  BY <1>6 DEF Whole
<1>8. room' \in Nat /\ room' =< r.free
  BY <1>1, <1>2, <1>3, <1>4, <1>6
<1>9. staged' \in Seq(Char) /\ Len(staged') = 0 /\ Holds(r, r.len, staged')
  BY <1>1, EmptySeq DEF Holds
<1>10. StrOK'
  BY <1>1, <1>7, <1>8, <1>9 DEF StrOK
<1> QED
  BY <1>8, <1>9, <1>10 DEF Inv

LEMMA NextKeeps ==
  ASSUME Inv, [Next]_vars
  PROVE  Inv'
<1>1. ASSUME NEW v \in Text, New(v) \/ NewC(v) PROVE Inv'
  BY <1>1, TextFacts, NewLenFacts, ReturnsKeep DEF New, NewC
<1>2. ASSUME NEW n \in 0 .. MaxLen, Calloc(n) PROVE Inv'
  <2>1. n \in Nat
    BY StringAssumption
  <2> QED
    BY <1>2, <2>1, NewZerosFacts, ReturnsKeep DEF Calloc
<1>3. CASE Free
  <2>1. str' = NoStr /\ room' = 0 /\ staged' = staged
    BY <1>3 DEF Free
  <2> QED
    BY <2>1 DEF Inv, StrOK
<1>4. CASE Dup
  <2>1. str # NoStr /\ Returns(NewLen(Content(str)))
    BY <1>4 DEF Dup
  <2>2. Content(str) \in Seq(Char)
    BY <2>1, FitString, ContentFacts
  <2> QED
    BY <2>1, <2>2, NewLenFacts, ReturnsKeep
<1>5. CASE Change
  BY <1>5, ChangeKeeps
<1>6. ASSUME str # NoStr, NEW i \in 0 .. MaxLen - 1, NEW c \in Char, Poke(i, c)
      PROVE  Inv'
  <2>1. i \in Nat /\ i < str.len /\ staged = <<>> /\ Returns(Store(str, i, <<c>>))
    BY <1>6, StringAssumption DEF Poke, Returns
  <2>2. Whole(Store(str, i, <<c>>))
    BY <1>6, <2>1, WholeString, PokeFacts
  <2> QED
    BY <2>1, <2>2, ReturnsKeep
<1>7. ASSUME str # NoStr, NEW n \in 0 .. MaxLen, MakeRoom(n) PROVE Inv'
  <2> DEFINE r == MakeRoomFor(str, n)
  <2>1. staged = <<>> /\ str' = r /\ room' = n /\ staged' = <<>> /\ n \in Nat
    BY <1>7, StringAssumption DEF MakeRoom
  <2>2. Whole(r) /\ n =< r.free
    BY <1>7, <2>1, WholeString, RoomFacts
  <2> HIDE DEF r
  <2>3. Len(staged') = 0 /\ staged' \in Seq(Char) /\ Holds(r, r.len, staged')
    BY <2>1, EmptySeq DEF Holds
  <2>4. StrOK'
    BY <2>1, <2>2, <2>3 DEF StrOK, Whole
  <2> QED
    BY <2>1, <2>3, <2>4 DEF Inv
<1>8. ASSUME str # NoStr, NEW t \in Text, Stage(t) PROVE Inv'
  BY <1>8, StageKeeps
<1>9. ASSUME str # NoStr, NEW n \in -MaxLen .. MaxLen, Incr(n) PROVE Inv'
  <2>1. n \in Int
    BY StringAssumption
  <2> QED
    BY <1>9, <2>1, IncrKeeps
<1>10. CASE UNCHANGED vars
  BY <1>10 DEF vars, Inv, StrOK
<1> QED
  BY <1>1, <1>2, <1>3, <1>4, <1>5, <1>6, <1>7, <1>8, <1>9, <1>10 DEF Next

LEMMA InitHolds ==
  ASSUME Init
  PROVE  Inv
  BY EmptySeq DEF Init, Inv, StrOK

\* Every reachable state satisfies the invariant.
THEOREM InvariantHolds == Spec => []Inv
  BY InitHolds, NextKeeps, PTL DEF Spec

-----------------------------------------------------------------------------
(* What the invariant says of the promises.                                *)

LEMMA TypeFollows ==
  ASSUME Inv
  PROVE  TypeOK
<1>1. ASSUME str # NoStr
      PROVE  /\ str.len \in Nat /\ str.free \in Int /\ str.alloc \in Nat \ {0}
             /\ Content(str) \in Seq(Char)
  <2>1. Fit(str)
    BY <1>1, FitString
  <2>2. /\ str.len \in Nat /\ str.free \in Nat /\ str.alloc \in Nat
        /\ str.alloc = str.len + str.free + 1
    BY <2>1, HeaderNumbers
  <2> QED
    BY <2>1, <2>2, ContentFacts
<1> QED
  BY <1>1 DEF TypeOK, Inv

LEMMA KeptFollows ==
  ASSUME Inv
  PROVE  StringKept
  BY DEF Inv, StrOK, StringKept, Fit, Block, Inside

\* sdsIncrLen adds the characters that were written after the end.
LEMMA IncrAppends ==
  ASSUME Inv, str # NoStr, NEW n \in 0 .. Len(staged)
  PROVE  Content(IncrLen(str, n)) = Content(str) \o SubSeq(staged, 1, n)
<1> DEFINE r == IncrLen(str, n)
           a == Content(str)
           b == SubSeq(staged, 1, n)
           l == str.len
<1>1. /\ Fit(str) /\ staged \in Seq(Char) /\ Len(staged) =< room /\ room =< str.free
      /\ room \in Nat /\ Holds(str, l, staged)
  BY DEF Inv, StrOK
<1>2. l \in Nat /\ str.free \in Nat /\ Len(staged) \in Nat
  BY <1>1, HeaderNumbers, LenProperties
<1>3. n \in Nat /\ n \in Int /\ n =< Len(staged) /\ l + n >= 0 /\ n =< str.free
  BY <1>1, <1>2
<1>4. /\ Whole(r) /\ r.len = l + n
      /\ \A i \in 0 .. l + n - 1 : r.buf[i] = str.buf[i]
  <2>1. \A i \in l .. l + n - 1 : str.buf[i] \in Char
    BY <1>3, StagedFacts
  <2> QED
    BY <1>1, <1>3, <2>1, IncrFacts
<1>5. a \in Seq(Char) /\ Len(a) = l /\ Holds(str, 0, a)
  BY <1>1, ContentHeld
<1>6. b \in Seq(Char) /\ Len(b) = n /\ \A i \in 1 .. n : b[i] = staged[i]
  <2> DEFINE w == SubSeq(staged, 0 + 1, 0 + n)
  <2>1. 0 \in Nat /\ 0 + n =< Len(staged)
    BY <1>2, <1>3
  <2>2. w \in Seq(Char) /\ Len(w) = n /\ \A i \in 1 .. n : w[i] = staged[0 + i]
    BY <1>1, <1>3, <2>1, PartFacts
  <2>3. w = b
    BY <1>3
  <2>4. \A i \in 1 .. n : 0 + i = i
    OBVIOUS
  <2> HIDE DEF w
  <2> QED
    BY <2>2, <2>3, <2>4
<1> HIDE DEF r, a, b, l
<1>7. Holds(r, 0, a)
  <2>1. \A i \in 0 .. 0 + l - 1 : r.buf[i] = str.buf[i]
    BY <1>2, <1>3, <1>4
  <2>2. 0 \in Nat
    OBVIOUS
  <2> QED
    BY <1>2, <1>5, <2>1, <2>2, HoldsKept
<1>8. Holds(r, Len(a), b)
  <2>1. Holds(str, l, b)
    <3>1. \A i \in 1 .. n : i \in 1 .. Len(staged)
      BY <1>2, <1>3
    <3> QED
      BY <1>1, <1>6, <3>1 DEF Holds
  <2>2. \A i \in l .. l + n - 1 : r.buf[i] = str.buf[i]
    BY <1>2, <1>3, <1>4
  <2> QED
    BY <1>2, <1>3, <1>5, <1>6, <2>1, <2>2, HoldsKept
<1>9. r.len = Len(a) + Len(b)
  BY <1>4, <1>5, <1>6
<1>10. Block(r) /\ HeaderOK(r) /\ Terminated(r)
  BY <1>4 DEF Whole, Fit
<1>11. Content(r) = a \o b
  BY <1>5, <1>6, <1>7, <1>8, <1>9, <1>10, JoinIs
<1> QED
  BY <1>11 DEF r, a, b

\* sdsgrowzero to a length that may be smaller than it is.
LEMMA GrowZeroPads ==
  ASSUME NEW s, Fit(s), NEW n \in Nat
  PROVE  Content(GrowZero(s, n)) = Content(s) \o Zeros(Max({0, n - Len(Content(s))}))
<1>1. s.len \in Nat /\ Len(Content(s)) = s.len /\ Content(s) \in Seq(Char)
  BY HeaderNumbers, ContentFacts
<1>2. CASE n =< s.len
  <2>1. GrowZero(s, n) = s
    BY <1>2 DEF GrowZero
  <2>2. Max({0, n - s.len}) = 0
    <3>1. /\ {0, n - s.len} \in SUBSET Int /\ 0 \in {0, n - s.len}
          /\ \A y \in {0, n - s.len} : 0 >= y
      BY <1>1, <1>2
    <3> QED
      BY <3>1, MaxIs
  <2>3. Zeros(0) = <<>>
    BY ZerosFacts, EmptySeq
  <2> QED
    BY <1>1, <2>1, <2>2, <2>3, ConcatEmptySeq
<1>3. CASE ~(n =< s.len)
  <2> DEFINE d == n - s.len
  <2>1. Max({0, d}) = d
    <3>1. {0, d} \in SUBSET Int /\ d \in {0, d} /\ \A y \in {0, d} : d >= y
      BY <1>1, <1>3
    <3> HIDE DEF d
    <3> QED
      BY <3>1, MaxIs
  <2>2. Content(GrowZero(s, n)) = Content(s) \o Zeros(d)
    BY <1>1, <1>3, GrowZeroFacts
  <2> QED
    BY <1>1, <2>1, <2>2
<1> QED
  BY <1>2, <1>3

LEMMA MakeRoomKeepsText ==
  ASSUME NEW s, Fit(s), NEW n \in Int
  PROVE  Content(MakeRoomFor(s, n)) = Content(s)
<1> DEFINE r == MakeRoomFor(s, n)
           v == Content(s)
<1>1. /\ Fit(r) /\ r.len = s.len
      /\ \A i \in 0 .. s.alloc - 1 : r.buf[i] = s.buf[i]
  BY MakeRoomFacts
<1>2. /\ v \in Seq(Char) /\ Len(v) = s.len
      /\ \A i \in 1 .. s.len : v[i] = s.buf[i - 1]
  BY ContentFacts
<1>3. s.len \in Nat /\ s.free \in Nat /\ s.alloc = s.len + s.free + 1
  BY HeaderNumbers
<1> HIDE DEF r, v
<1>4. \A i \in 1 .. r.len : r.buf[i - 1] = v[i]
  <2> SUFFICES ASSUME NEW i \in 1 .. s.len PROVE r.buf[i - 1] = v[i]
    BY <1>1
  <2>1. i - 1 \in 0 .. s.alloc - 1
    BY <1>3
  <2> QED
    BY <1>1, <1>2, <2>1
<1>5. Content(r) = v
  BY <1>1, <1>2, <1>4, ContentIs
<1> QED
  BY <1>5 DEF r, v

LEMMA GrowthFollows ==
  ASSUME Inv
  PROVE  GrowthPromised
<1> SUFFICES ASSUME str # NoStr
             PROVE  /\ \A n \in 0 .. Len(staged) :
                         Content(IncrLen(str, n)) = Content(str) \o SubSeq(staged, 1, n)
                    /\ \A t \in Text : /\ Content(CatLen(str, t)) = Content(str) \o t
                                      /\ Content(CpyLen(str, t)) = t
                    /\ \A n \in 0 .. MaxLen :
                         /\ Content(GrowZero(str, n)) =
                              Content(str) \o Zeros(Max({0, n - Len(Content(str))}))
                         /\ Content(MakeRoomFor(str, n)) = Content(str)
                    /\ Content(RemoveFreeSpace(str)) = Content(str)
  BY DEF GrowthPromised
<1>1. Fit(str)
  BY FitString
<1>2. ASSUME NEW n \in 0 .. Len(staged)
      PROVE  Content(IncrLen(str, n)) = Content(str) \o SubSeq(staged, 1, n)
  BY IncrAppends
<1>3. ASSUME NEW t \in Text
      PROVE  Content(CatLen(str, t)) = Content(str) \o t /\ Content(CpyLen(str, t)) = t
  BY <1>1, TextFacts, CatLenFacts, CpyLenFacts
<1>4. ASSUME NEW n \in 0 .. MaxLen
      PROVE  /\ Content(GrowZero(str, n)) =
                  Content(str) \o Zeros(Max({0, n - Len(Content(str))}))
             /\ Content(MakeRoomFor(str, n)) = Content(str)
  <2>1. n \in Nat /\ n \in Int
    BY StringAssumption
  <2> QED
    BY <1>1, <2>1, GrowZeroPads, MakeRoomKeepsText
<1>5. Content(RemoveFreeSpace(str)) = Content(str)
  BY <1>1, RemoveFreeSpaceFacts
<1> QED
  BY <1>2, <1>3, <1>4, <1>5

\* sdsIncrLen with a negative number cuts on the right.
LEMMA IncrCuts ==
  ASSUME NEW s, Whole(s), NEW n \in 0 .. s.len
  PROVE  Content(IncrLen(s, -n)) = SubSeq(Content(s), 1, s.len - n)
<1> DEFINE m == -n
           k == s.len - n
           r == IncrLen(s, m)
           a == Content(s)
           v == SubSeq(a, 0 + 1, 0 + k)
<1>0. /\ Fit(s) /\ s.len \in Nat /\ s.free \in Nat
      /\ \A i \in 0 .. s.len - 1 : s.buf[i] \in Char
  BY WholeFacts
<1>1. /\ m \in Int /\ k \in Nat /\ s.len + m = k /\ s.len + m >= 0 /\ m =< s.free
      /\ k =< s.len
  BY <1>0
<1> HIDE DEF m
<1>2. Whole(r) /\ r.len = k /\ \A i \in 0 .. k - 1 : r.buf[i] = s.buf[i]
  <2>1. \A i \in s.len .. s.len + m - 1 : s.buf[i] \in Char
    BY <1>0, <1>1 DEF m
  <2>2. /\ Whole(r) /\ r.len = s.len + m
        /\ \A i \in 0 .. s.len + m - 1 : r.buf[i] = s.buf[i]
    <3>1. m \in Int /\ s.len + m >= 0 /\ m =< s.free
      BY <1>1
    <3> QED
      BY <1>0, <2>1, <3>1, IncrFacts
  <2>3. s.len + m = k
    BY <1>1
  <2>4. \A i \in 0 .. k - 1 : i \in 0 .. s.len + m - 1
    BY <1>0, <1>1
  <2> HIDE DEF r, k
  <2>5. \A i \in 0 .. k - 1 : r.buf[i] = s.buf[i]
    BY <2>2, <2>4
  <2>6. r.len = k
    BY <2>2, <2>3
  <2> QED
    BY <2>2, <2>5, <2>6
<1>3. a \in Seq(Char) /\ Len(a) = s.len /\ \A i \in 1 .. s.len : a[i] = s.buf[i - 1]
  BY <1>0, ContentFacts
<1>4. v = SubSeq(a, 1, k)
  BY <1>1
<1> HIDE DEF a, k
<1>5. v \in Seq(Char) /\ Len(v) = k /\ \A i \in 1 .. k : v[i] = a[0 + i]
  <2>1. 0 \in Nat /\ 0 + k =< Len(a)
    BY <1>1, <1>3
  <2> QED
    BY <1>1, <1>3, <2>1, PartFacts
<1> HIDE DEF r, v
<1>6. \A i \in 1 .. r.len : r.buf[i - 1] = v[i]
  <2> SUFFICES ASSUME NEW i \in 1 .. k PROVE r.buf[i - 1] = v[i]
    BY <1>2
  <2>1. i - 1 \in 0 .. k - 1 /\ i \in 1 .. s.len /\ 0 + i = i
    BY <1>0, <1>1
  <2> QED
    BY <1>2, <1>3, <1>5, <2>1
<1>7. Content(r) = v
  <2>1. Fit(r)
    BY <1>2 DEF Whole
  <2> QED
    BY <1>2, <1>5, <1>6, <2>1, ContentIs
<1> QED
  BY <1>4, <1>7 DEF r, m, a, k

LEMMA CutsFollow ==
  ASSUME Inv
  PROVE  CutsPromised
<1> DEFINE text == Content(str)
           Kept(set) == {i \in DOMAIN text : text[i] \notin set}
           place(i) == IF i >= 0 THEN i ELSE Max({0, Len(text) + i})
<1> SUFFICES ASSUME str # NoStr, staged = <<>>
             PROVE  /\ \A set \in SUBSET Char : Nul \in set =>
                         Content(Trim(str, set)) =
                            IF Kept(set) = {} THEN <<>>
                            ELSE SubSeq(text, Min(Kept(set)), Max(Kept(set)))
                    /\ \A start, end \in -(MaxLen + 1) .. MaxLen :
                         Content(KeepRange(str, start, end)) =
                            SubSeq(text, place(start) + 1, Min({Len(text), place(end) + 1}))
                    /\ Content(UpdateLen(str)) = CString(text)
                    /\ Content(ClearString(str)) = <<>>
                    /\ \A n \in 0 .. Len(text) :
                         Content(IncrLen(str, -n)) = SubSeq(text, 1, Len(text) - n)
  BY DEF CutsPromised, Ready
<1>1. Whole(str) /\ Fit(str) /\ str.len \in Nat
  BY WholeString, WholeFacts
<1>2. Len(text) = str.len /\ DOMAIN text = 1 .. str.len
  BY <1>1, ContentFacts, LenProperties
<1>3. ASSUME NEW set
      PROVE  Content(Trim(str, set)) =
                IF Kept(set) = {} THEN <<>>
                ELSE SubSeq(text, Min(Kept(set)), Max(Kept(set)))
  <2> DEFINE K == Staying(str, set)
  <2>1. Kept(set) = K
    BY <1>2 DEF Staying
  <2>2. Content(Trim(str, set)) = IF K = {} THEN <<>> ELSE SubSeq(text, Min(K), Max(K))
    BY <1>1, TrimFacts
  <2> QED
    BY <2>1, <2>2
<1>4. ASSUME NEW start \in -(MaxLen + 1) .. MaxLen, NEW end \in -(MaxLen + 1) .. MaxLen
      PROVE  Content(KeepRange(str, start, end)) =
                SubSeq(text, place(start) + 1, Min({Len(text), place(end) + 1}))
  <2>1. start \in Int /\ end \in Int
    BY StringAssumption
  <2> DEFINE from == Indexed(start, str.len)
             to == Indexed(end, str.len)
  <2>2. from = place(start) /\ to = place(end)
    BY <1>1, <1>2, <2>1, IndexedFacts
  <2>3. Content(KeepRange(str, start, end)) = SubSeq(text, from + 1, Min({str.len, to + 1}))
    BY <1>1, <2>1, KeepRangeFacts
  <2> HIDE DEF from, to, text
  <2> QED
    BY <1>2, <2>2, <2>3
<1>5. Content(UpdateLen(str)) = CString(text) /\ Content(ClearString(str)) = <<>>
  BY <1>1, UpdateLenFacts, ClearFacts
<1>6. ASSUME NEW n \in 0 .. Len(text)
      PROVE  Content(IncrLen(str, -n)) = SubSeq(text, 1, Len(text) - n)
  BY <1>1, <1>2, IncrCuts
<1> QED
  BY <1>3, <1>4, <1>5, <1>6

-----------------------------------------------------------------------------
\* The values are of the types that the declarations of sds.h give them.
THEOREM TypeCorrect == Spec => []TypeOK
  BY InvariantHolds, TypeFollows, PTL

\* After any calls the header describes the block, no byte was stored outside
\* of it, and the string is null-terminated, but for what a client stages.
THEOREM BlocksAreKept == Spec => []StringKept
  BY InvariantHolds, KeptFollows, PTL

\* Growing puts the new characters where they belong and keeps the old ones.
THEOREM GrowthKeepsText == Spec => []GrowthPromised
  BY InvariantHolds, GrowthFollows, PTL

\* Cutting keeps the part of the string that the call names.
THEOREM CutsKeepTheirPart == Spec => []CutsPromised
  BY InvariantHolds, CutsFollow, PTL
=============================================================================
