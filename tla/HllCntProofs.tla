---------------------------- MODULE HllCntProofs ----------------------------
(***************************************************************************)
(* readln never writes outside its buffer and no character is lost, for    *)
(* every input, every growth rate and whichever reads fail.                *)
(***************************************************************************)
EXTENDS HllCnt, TLAPS, SequenceTheorems, NaturalsInduction, WellFoundedInduction

\* What the steps read: the characters are characters and the buffer's room
\* is one more than what it holds, before and after a growth.
Room ==
    /\ input \in Seq(Char)
    /\ buffer \in Seq(Char)
    /\ bufsize \in Nat
    /\ Len(buffer) < bufsize

LEMMA InitRoom == Init => Room
BY GrowRateAssumption, TextsAssumption DEF Init, Room

LEMMA ReadCharRoom == Room /\ ReadChar => Room'
<1> SUFFICES ASSUME Room, ReadChar PROVE Room'
    OBVIOUS
<1>1. input' \in Seq(Char) /\ Head(input) \in Char
    BY DEF Room, ReadChar
<1>2. buffer' \in Seq(Char) /\ Len(buffer') = Len(buffer) + 1
    BY <1>1 DEF Room, ReadChar
<1>3. bufsize' \in Nat /\ Len(buffer') < bufsize'
    <2>1. bufsize' = IF Len(buffer') = bufsize THEN bufsize + GrowRate ELSE bufsize
        BY DEF ReadChar, Grown
    <2>2. Len(buffer) \in Nat /\ bufsize \in Nat /\ Len(buffer) < bufsize
        BY DEF Room
    <2> QED BY <1>2, <2>1, <2>2, GrowRateAssumption
<1> QED BY <1>1, <1>2, <1>3 DEF Room

LEMMA AddLineRoom == Room /\ AddLine => Room'
<1> SUFFICES ASSUME Room, AddLine PROVE Room'
    OBVIOUS
<1>1. buffer' = <<>> /\ input' = input /\ bufsize' = bufsize
    BY DEF AddLine
<1>2. Len(buffer) \in Nat
    BY DEF Room
<1> QED BY <1>1, <1>2 DEF Room

LEMMA NextRoom == Room /\ [Next]_cntVars => Room'
<1> SUFFICES ASSUME Room, [Next]_cntVars PROVE Room'
    OBVIOUS
<1>1. CASE ReadChar
    BY <1>1, ReadCharRoom
<1>2. CASE ReadEof
    BY <1>2 DEF ReadEof, Room
<1>3. CASE ReadError
    BY <1>3 DEF ReadError, Room
<1>4. CASE AddLine
    BY <1>4, AddLineRoom
<1>5. CASE Fault
    BY <1>5 DEF Fault, Room
<1>6. CASE UNCHANGED cntVars
    BY <1>6 DEF cntVars, Room
<1> QED BY <1>1, <1>2, <1>3, <1>4, <1>5, <1>6 DEF Next, Turn

\* The counter writes its characters and the '\0' behind them inside the
\* buffer (utils.c:15-27), whatever it reads.
THEOREM NeverWritesOutside == Spec => []WritesInside
<1>1. Room => WritesInside
    BY DEF Room, WritesInside
<1> QED BY <1>1, InitRoom, NextRoom, PTL DEF Spec

-----------------------------------------------------------------------------
(* Flattening one sequence more.                                           *)

\* Induction up to N, over a set of numbers.
LEMMA UpTo ==
  ASSUME NEW N \in Nat, NEW G, 1 \in G, \A n \in G : n < N => n + 1 \in G
  PROVE  1 .. N \subseteq G
<1> DEFINE D == (1 .. N) \ G
<1>1. SUFFICES ASSUME D # {} PROVE FALSE
  OBVIOUS
<1>2. D \subseteq Nat
  OBVIOUS
<1> HIDE DEF D
<1>3. PICK d \in D : \A y \in D : ~(<<y, d>> \in OpToRel(<, Nat))
  BY <1>1, <1>2, NatLessThanWellFounded, WFMin
<1>4. \A y \in D : ~(y < d)
  BY <1>2, <1>3 DEF OpToRel
<1>5. d \in 1 .. N /\ d \notin G
  BY DEF D
<1>6. d # 1
  BY <1>5
<1>7. d - 1 \in 1 .. N /\ d - 1 < d /\ d - 1 < N
  BY <1>5, <1>6
<1>8. d - 1 \in G
  BY <1>4, <1>7 DEF D
<1>9. d - 1 + 1 \in G
  BY <1>7, <1>8
<1> QED
  BY <1>5, <1>9

\* f is the function that flattening the first n of seqs defines.
Flat(f, seqs, n) ==
  f = [i \in 1 .. n |-> IF i = 1 THEN seqs[i] ELSE f[i - 1] \o seqs[i]]

LEMMA FlatStep ==
  ASSUME NEW n \in Nat, NEW s, NEW f, Flat(f, s, n)
  PROVE  \A i \in 1 .. n : i < n => f[i + 1] = f[i] \o s[i + 1]
<1> SUFFICES ASSUME NEW i \in 1 .. n, i < n PROVE f[i + 1] = f[i] \o s[i + 1]
  OBVIOUS
<1> DEFINE j == i + 1
<1>1. j \in 1 .. n /\ j # 1 /\ j - 1 = i
  OBVIOUS
<1> HIDE DEF j
<1>2. f[j] = f[j - 1] \o s[j]
  BY <1>1 DEF Flat
<1> QED
  BY <1>1, <1>2 DEF j

\* What is flattened of the sequences that begin in the same way.
LEMMA FlatExtends ==
  ASSUME NEW n \in Nat, NEW s, NEW t, NEW f, Flat(f, s, n),
         \A i \in 1 .. n : s[i] = t[i],
         NEW e, e = IF n = 0 THEN t[1] ELSE f[n] \o t[n + 1]
  PROVE  Flat([i \in 1 .. n + 1 |-> IF i = n + 1 THEN e ELSE f[i]], t, n + 1)
<1> DEFINE g == [i \in 1 .. n + 1 |-> IF i = n + 1 THEN e ELSE f[i]]
<1>1. ASSUME NEW i \in 1 .. n + 1
      PROVE  g[i] = IF i = 1 THEN t[i] ELSE g[i - 1] \o t[i]
  <2>1. CASE i = n + 1
    <3>1. CASE n = 0
      BY <2>1, <3>1
    <3>2. CASE n # 0
      <4>1. i # 1 /\ i - 1 = n /\ n \in 1 .. n + 1 /\ n # n + 1
        BY <2>1, <3>2
      <4>2. g[n] = f[n]
        BY <4>1
      <4>3. g[i] = f[n] \o t[i]
        BY <2>1, <3>2
      <4> QED
        BY <4>1, <4>2, <4>3
    <3> QED
      BY <3>1, <3>2
  <2>2. CASE i # n + 1
    <3>1. i \in 1 .. n /\ g[i] = f[i] /\ s[i] = t[i]
      BY <2>2
    <3>2. f[i] = IF i = 1 THEN s[i] ELSE f[i - 1] \o s[i]
      BY <3>1 DEF Flat
    <3>3. CASE i = 1
      BY <3>1, <3>2, <3>3
    <3>4. CASE i # 1
      <4>1. i - 1 \in 1 .. n + 1 /\ i - 1 # n + 1
        BY <3>1, <3>4
      <4>2. g[i - 1] = f[i - 1]
        BY <4>1
      <4> QED
        BY <3>1, <3>2, <3>4, <4>2
    <3> QED
      BY <3>3, <3>4
  <2> QED
    BY <2>1, <2>2
<1>2. g = [i \in 1 .. n + 1 |-> g[i]]
  OBVIOUS
<1> HIDE DEF g
<1>3. Flat(g, t, n + 1)
  BY <1>1, <1>2 DEF Flat
<1> QED
  BY <1>3 DEF g

LEMMA FlatExists ==
  ASSUME NEW s, NEW n \in Nat \ {0}
  PROVE  \E f : Flat(f, s, n)
<1> DEFINE G == {m \in Nat : \E f : Flat(f, s, m)}
<1>0. 0 \in G
  <2>1. Flat([i \in 1 .. 0 |-> s[i]], s, 0)
    BY DEF Flat
  <2> QED
    BY <2>1
<1>1. ASSUME NEW m \in G PROVE m + 1 \in G
  <2>1. PICK f : Flat(f, s, m)
    OBVIOUS
  <2>2. \E g : Flat(g, s, m + 1)
    BY <2>1, FlatExtends
  <2> QED
    BY <2>2
<1>2. 0 + 1 \in G
  BY <1>0, <1>1
<1> HIDE DEF G
<1>3. 1 .. n \subseteq G
  BY <1>1, <1>2, UpTo
<1> QED
  BY <1>3 DEF G

\* There is only one.
LEMMA FlatUnique ==
  ASSUME NEW n \in Nat, NEW m \in Nat, n <= m, NEW s, NEW t, NEW f, NEW g,
         Flat(f, s, n), Flat(g, t, m), \A i \in 1 .. n : s[i] = t[i]
  PROVE  \A i \in 1 .. n : f[i] = g[i]
<1> DEFINE G == {i \in Nat : i \in 1 .. n => f[i] = g[i]}
<1>1. 1 \in G
  BY DEF Flat
<1>4. \A i \in 1 .. n : i < n => f[i + 1] = f[i] \o s[i + 1]
  BY FlatStep
<1>5. \A i \in 1 .. m : i < m => g[i + 1] = g[i] \o t[i + 1]
  BY FlatStep
<1>2. ASSUME NEW i \in G, i < n PROVE i + 1 \in G
  <2>1. CASE i = 0
    BY <1>1, <2>1
  <2>2. CASE i # 0
    <3>1. i \in Nat /\ i \in 1 .. n /\ i + 1 \in 1 .. n /\ i \in 1 .. m /\ i < m
      BY <1>2, <2>2
    <3>2. f[i + 1] = f[i] \o s[i + 1]
      BY <1>2, <1>4, <3>1
    <3>3. g[i + 1] = g[i] \o t[i + 1]
      BY <1>5, <3>1
    <3>4. f[i] = g[i] /\ s[i + 1] = t[i + 1]
      BY <3>1
    <3>5. f[i + 1] = g[i + 1]
      BY <3>2, <3>3, <3>4
    <3> QED
      BY <3>1, <3>5
  <2> QED
    BY <2>1, <2>2
<1> HIDE DEF G
<1>3. 1 .. n \subseteq G
  BY <1>1, <1>2, UpTo
<1> QED
  BY <1>3 DEF G

\* FlattenSeq by that function.
LEMMA FlattenIs ==
  ASSUME NEW s, Len(s) \in Nat \ {0}
  PROVE  \E f : Flat(f, s, Len(s)) /\ FlattenSeq(s) = f[Len(s)]
<1> DEFINE f == CHOOSE g : Flat(g, s, Len(s))
<1>1. Flat(f, s, Len(s))
  BY FlatExists
<1>2. FlattenSeq(s) = f[Len(s)]
  BY DEF FlattenSeq, Flat
<1> QED
  BY <1>1, <1>2

\* The end of what is flattened is the last of the sequences.
LEMMA FlattenAppend ==
  ASSUME NEW C, NEW s \in Seq(Seq(C)), NEW e \in Seq(C)
  PROVE  FlattenSeq(Append(s, e)) = FlattenSeq(s) \o e
<1> DEFINE n == Len(s)
           t == Append(s, e)
<1>1. n \in Nat /\ Len(t) = n + 1 /\ t[n + 1] = e /\ \A i \in 1 .. n : s[i] = t[i]
  OBVIOUS
<1> HIDE DEF t
<1>2. PICK g : Flat(g, t, n + 1) /\ FlattenSeq(t) = g[n + 1]
  <2>1. Len(t) \in Nat \ {0}
    BY <1>1
  <2> QED
    BY <1>1, <2>1, FlattenIs
<1>3. CASE n = 0
  <2>1. g[1] = t[1] /\ t[1] = e
    BY <1>1, <1>2, <1>3 DEF Flat
  <2>2. FlattenSeq(s) = << >> /\ s = << >>
    BY <1>3 DEF FlattenSeq
  <2>3. << >> \o e = e
    BY ConcatEmptySeq
  <2> QED
    BY <1>2, <1>3, <2>1, <2>2, <2>3 DEF t
<1>4. CASE n # 0
  <2>1. PICK f : Flat(f, s, n) /\ FlattenSeq(s) = f[n]
    BY <1>1, <1>4, FlattenIs
  <2>2. n <= n + 1 /\ n + 1 \in Nat /\ n \in 1 .. n
    BY <1>1, <1>4
  <2> DEFINE m == n + 1
  <2>3. \A i \in 1 .. n : f[i] = g[i]
    <3>1. n \in Nat /\ m \in Nat /\ n <= m /\ Flat(g, t, m) /\ Flat(f, s, n)
      BY <1>1, <1>2, <2>1
    <3>2. \A i \in 1 .. n : s[i] = t[i]
      BY <1>1
    <3> HIDE DEF m, n
    <3> QED
      BY <3>1, <3>2, FlatUnique
  <2>4. m \in Nat /\ n \in 1 .. m /\ n < m /\ Flat(g, t, m)
    BY <1>1, <1>2, <1>4
  <2>5. g[n + 1] = g[n] \o t[n + 1]
    <3>1. \A i \in 1 .. m : i < m => g[i + 1] = g[i] \o t[i + 1]
      <4> HIDE DEF m
      <4> QED
        BY <2>4, FlatStep
    <3> QED
      BY <2>4, <3>1
  <2> QED
    BY <1>1, <1>2, <2>1, <2>2, <2>3, <2>5 DEF t
<1> QED
  BY <1>3, <1>4

\* And it is a sequence of the same things.
LEMMA FlattenTyped ==
  ASSUME NEW C, NEW s \in Seq(Seq(C))
  PROVE  FlattenSeq(s) \in Seq(C)
<1> DEFINE n == Len(s)
<1>1. n \in Nat
  OBVIOUS
<1>2. CASE n = 0
  BY <1>2 DEF FlattenSeq
<1>3. CASE n # 0
  <2>1. PICK f : Flat(f, s, n) /\ FlattenSeq(s) = f[n]
    BY <1>1, <1>3, FlattenIs
  <2> DEFINE G == {i \in Nat : i \in 1 .. n => f[i] \in Seq(C)}
  <2>2. \A i \in 1 .. n : s[i] \in Seq(C)
    OBVIOUS
  <2> HIDE DEF n
  <2>3. 1 \in G
    BY <2>1, <2>2 DEF Flat
  <2>4. ASSUME NEW i \in G, i < n PROVE i + 1 \in G
    <3>1. CASE i = 0
      BY <2>3, <3>1
    <3>2. CASE i # 0
      <4>1. i \in 1 .. n /\ i + 1 \in 1 .. n /\ f[i] \in Seq(C)
        BY <1>1, <2>4, <3>2 DEF G
      <4>2. f[i + 1] = f[i] \o s[i + 1]
        <5>1. \A k \in 1 .. n : k < n => f[k + 1] = f[k] \o s[k + 1]
          BY <1>1, <2>1, FlatStep
        <5> QED
          BY <2>4, <4>1, <5>1
      <4>3. f[i + 1] \in Seq(C)
        BY <2>2, <4>1, <4>2, ConcatProperties
      <4> QED
        BY <4>1, <4>3
    <3> QED
      BY <3>1, <3>2
  <2> HIDE DEF G
  <2>5. 1 .. n \subseteq G
    BY <1>1, <2>3, <2>4, UpTo
  <2>6. f[n] \in Seq(C)
    BY <1>1, <1>3, <2>5 DEF G
  <2> QED
    BY <2>1, <2>6
<1> QED
  BY <1>1, <1>2, <1>3

-----------------------------------------------------------------------------
(* No character is lost.                                                   *)

\* What a text is made of.
Letter == Char \cup {Newline}

\* Until the end of the input is met, what was read and what was not make up
\* the text; a line that is complete ends with the delimiter, so that chopping
\* it and terminating it again gives it back.  After it, either that still
\* holds or the last line was added without its last character.
AtEof ==
    /\ eof => input = << >>
    /\ eof /\ pc # "done" =>
         WholeSoFar \/ (buffer = << >> /\ Front(text) = Front(Terminated(added)))

Kept ==
    /\ text \in Seq(Letter) /\ input \in Seq(Letter) /\ buffer \in Seq(Letter)
    /\ added \in Seq(Seq(Letter))
    /\ ~eof /\ pc = "line" => buffer # << >> /\ buffer[Len(buffer)] = Newline
    /\ AtEof
    /\ NothingLost

\* A sequence without its last element, and with it again.
LEMMA FrontTyped ==
  ASSUME NEW D, NEW s \in Seq(D), s # << >>
  PROVE  Front(s) \in Seq(D) /\ Append(Front(s), s[Len(s)]) = s
<1>1. Len(s) \in Nat \ {0} /\ \A i \in 1 .. Len(s) : s[i] \in D
  OBVIOUS
<1> DEFINE n == Len(s) - 1
           f == Front(s)
<1>2. n \in Nat /\ n + 1 = Len(s)
  BY <1>1
<1>3. f = SubSeq(s, 1, n)
  BY DEF Front
<1>4. f \in Seq(D) /\ Len(f) = n /\ \A i \in 1 .. n : f[i] = s[i]
  <2> HIDE DEF n, f
  <2>1. \A i \in 1 .. n : s[i] \in D
    BY <1>1, <1>2
  <2> QED
    BY <1>2, <1>3, <2>1
<1> HIDE DEF n, f
<1> DEFINE l == s[Len(s)]
           t == Append(f, l)
<1>5. l \in D
  BY <1>1
<1> HIDE DEF l
<1>6. t \in Seq(D) /\ Len(t) = n + 1
  BY <1>2, <1>4, <1>5
<1>7. ASSUME NEW i \in 1 .. n + 1 PROVE t[i] = s[i]
  <2>1. CASE i = n + 1
    BY <1>2, <1>4, <1>5, <2>1 DEF l
  <2>2. CASE i # n + 1
    <3>1. i \in 1 .. n
      BY <1>2, <2>2
    <3>2. t[i] = f[i]
      BY <1>2, <1>4, <1>5, <3>1
    <3> QED
      BY <1>4, <3>1, <3>2
  <2> QED
    BY <2>1, <2>2
<1> HIDE DEF t
<1>8. t = s
  BY <1>2, <1>6, <1>7, SeqEqual
<1> QED
  BY <1>4, <1>8 DEF t, l, f

\* One line more.
LEMMA TerminatedAppend ==
  ASSUME NEW lines \in Seq(Seq(Letter)), NEW line \in Seq(Letter)
  PROVE  /\ Terminated(lines) \in Seq(Letter)
         /\ Terminated(Append(lines, line)) = Terminated(lines) \o Append(line, Newline)
<1> DEFINE n == Len(lines)
           t == Append(lines, line)
           s == [i \in 1 .. n |-> Append(lines[i], Newline)]
           e == Append(line, Newline)
<1>1. n \in Nat /\ DOMAIN lines = 1 .. n /\ Newline \in Letter
  BY DEF Letter
<1>2. \A i \in 1 .. n : Append(lines[i], Newline) \in Seq(Letter)
  <2>1. \A i \in 1 .. n : lines[i] \in Seq(Letter)
    OBVIOUS
  <2> QED
    BY <1>1, <2>1
<1>3. s \in Seq(Seq(Letter)) /\ e \in Seq(Letter) /\ Len(s) = n
  BY <1>1, <1>2
<1>4. Terminated(lines) = FlattenSeq(s)
  BY <1>1 DEF Terminated
<1>5. Len(t) = n + 1 /\ DOMAIN t = 1 .. n + 1 /\ t[n + 1] = line
      /\ \A i \in 1 .. n : t[i] = lines[i]
  OBVIOUS
<1>6. [i \in DOMAIN t |-> Append(t[i], Newline)] = Append(s, e)
  <2> DEFINE u == [i \in DOMAIN t |-> Append(t[i], Newline)]
             w == Append(s, e)
  <2>1. u = [i \in 1 .. n + 1 |-> u[i]]
    BY <1>5
  <2>2. w = [i \in 1 .. n + 1 |-> w[i]]
    BY <1>3
  <2>3. ASSUME NEW i \in 1 .. n + 1 PROVE u[i] = w[i]
    <3>1. CASE i = n + 1
      <4>1. u[i] = e
        BY <1>5, <3>1
      <4>2. w[i] = e
        BY <1>1, <1>3, <3>1
      <4> QED
        BY <4>1, <4>2
    <3>2. CASE i # n + 1
      <4>1. i \in 1 .. n
        BY <1>1, <3>2
      <4>2. u[i] = Append(lines[i], Newline)
        BY <1>5, <4>1
      <4>3. w[i] = s[i]
        BY <1>3, <4>1
      <4> QED
        BY <4>1, <4>2, <4>3
    <3> QED
      BY <3>1, <3>2
  <2> HIDE DEF u, w, n
  <2>4. u = w
    BY <2>1, <2>2, <2>3
  <2> QED
    BY <2>4 DEF u, w
<1>7. Terminated(t) = FlattenSeq(Append(s, e))
  BY <1>6 DEF Terminated
<1> HIDE DEF s, e, t, n
<1>8. FlattenSeq(s) \in Seq(Letter) /\ FlattenSeq(Append(s, e)) = FlattenSeq(s) \o e
  BY <1>3, FlattenTyped, FlattenAppend
<1> QED
  BY <1>4, <1>7, <1>8 DEF e, t

LEMMA InitKept == Init => Kept
<1> SUFFICES ASSUME Init PROVE Kept
  OBVIOUS
<1>1. text \in Seq(Letter)
  BY TextsAssumption, SeqMonotonic DEF Init, Letter
<1>2. Terminated(<< >>) = << >>
  BY DEF Terminated, FlattenSeq
<1>3. Terminated(added) \o buffer \o input = text
  <2>1. << >> \o << >> \o text = text
    BY <1>1, ConcatEmptySeq, EmptySeq
  <2> QED
    BY <1>2, <2>1 DEF Init
<1> QED
  BY <1>1, <1>3, EmptySeq DEF Init, Kept, AtEof, NothingLost, WholeSoFar

\* Concatenation under a name of its own, which the provers do not look into.
Cat(s, t) == s \o t

LEMMA CatAssociative ==
  ASSUME NEW S
  PROVE  \A s, t, u \in Seq(S) : Cat(Cat(s, t), u) = Cat(s, Cat(t, u))
BY ConcatAssociative DEF Cat

\* The first part of the rest may be put behind what comes before.
LEMMA Shift ==
  ASSUME NEW S, NEW s \in Seq(S), NEW t \in Seq(S), NEW d \in Seq(S), NEW r \in Seq(S),
         NEW x \in Seq(S), NEW y \in Seq(S), x = Cat(t, d), y = Cat(d, r)
  PROVE  Cat(Cat(s, x), r) = Cat(Cat(s, t), y)
<1>1. Cat(Cat(s, x), r) = Cat(s, Cat(x, r))
  BY CatAssociative
<1>2. Cat(Cat(t, d), r) = Cat(t, Cat(d, r))
  BY CatAssociative
<1>3. Cat(Cat(s, t), y) = Cat(s, Cat(t, y))
  BY CatAssociative
<1> QED
  BY <1>1, <1>2, <1>3

LEMMA ReadCharKept == Kept /\ ReadChar => Kept'
<1> SUFFICES ASSUME Kept, ReadChar PROVE Kept'
  OBVIOUS
<1> DEFINE c == Head(input)
           rest == Tail(input)
<1>1. /\ input \in Seq(Letter) /\ input # << >> /\ buffer \in Seq(Letter) /\ added \in Seq(Seq(Letter))
      /\ buffer' = Append(buffer, c) /\ input' = rest
  BY DEF Kept, ReadChar
<1>2. c \in Letter /\ rest \in Seq(Letter)
  BY <1>1
<1>3. input = <<c>> \o rest
  BY <1>1
<1> HIDE DEF c, rest
<1>4. Append(buffer, c) = buffer \o <<c>>
  BY <1>1, <1>2
<1>5. Terminated(added) \in Seq(Letter) /\ <<c>> \in Seq(Letter)
  BY <1>1, <1>2, TerminatedAppend
<1>6. Terminated(added) \o buffer' \o input' = Terminated(added) \o buffer \o input
  <2> DEFINE T == Terminated(added)
             d == <<c>>
             x == buffer'
             y == input
             r == input'
  <2>1. T \in Seq(Letter) /\ d \in Seq(Letter) /\ buffer \in Seq(Letter)
    BY <1>1, <1>2, <1>5
  <2>2. x \in Seq(Letter) /\ y \in Seq(Letter) /\ r \in Seq(Letter)
    BY <1>1, <1>2
  <2>3. x = Cat(buffer, d) /\ y = Cat(d, r)
    BY <1>1, <1>3, <1>4 DEF Cat
  <2> HIDE DEF T, d, x, y, r
  <2>4. Cat(Cat(T, x), r) = Cat(Cat(T, buffer), y)
    BY <2>1, <2>2, <2>3, Shift
  <2> QED
    BY <2>4 DEF T, x, y, r, Cat
<1>7. buffer' \in Seq(Letter) /\ buffer'[Len(buffer')] = c /\ buffer' # << >>
  BY <1>1, <1>2
<1>8. pc' = "line" => c = Newline
  BY DEF ReadChar, c
<1>9. ~eof /\ eof' = eof /\ pc' # "done"
  BY <1>1 DEF Kept, AtEof, ReadChar
<1>10. NothingLost'
  BY <1>6, <1>9 DEF Kept, ReadChar, NothingLost, WholeSoFar
<1>11. AtEof'
  BY <1>9 DEF AtEof
<1> QED
  BY <1>1, <1>2, <1>7, <1>8, <1>9, <1>10, <1>11 DEF Kept, ReadChar

\* What stands before the last of a sequence.
LEMMA FrontOf ==
  ASSUME NEW S, NEW s \in Seq(S), NEW t \in Seq(S), NEW c \in S
  PROVE  Front(Cat(s, Append(t, c))) = Cat(s, t)
<1> DEFINE n == Len(s) + Len(t)
           u == Cat(s, Append(t, c))
           v == Cat(s, t)
           f == Front(u)
<1>1. /\ v \in Seq(S) /\ Len(v) = n /\ n \in Nat
      /\ \A i \in 1 .. n : v[i] = IF i <= Len(s) THEN s[i] ELSE t[i - Len(s)]
  BY DEF Cat
<1>2. /\ u \in Seq(S) /\ Len(u) = n + 1
      /\ \A i \in 1 .. n : u[i] = IF i <= Len(s) THEN s[i] ELSE t[i - Len(s)]
  BY DEF Cat
<1> HIDE DEF u, v, n
<1>3. f = SubSeq(u, 1, n)
  BY <1>1, <1>2 DEF Front
<1>4. f \in Seq(S) /\ Len(f) = n /\ \A i \in 1 .. n : f[i] = u[i]
  <2> HIDE DEF f
  <2>1. \A i \in 1 .. n : u[i] \in S
    BY <1>1, <1>2
  <2> QED
    BY <1>1, <1>2, <1>3, <2>1
<1> HIDE DEF f
<1>5. f = v
  BY <1>1, <1>2, <1>4, SeqEqual
<1> QED
  BY <1>5 DEF f, u, v

LEMMA AddLineKept == Kept /\ AddLine => Kept'
<1> SUFFICES ASSUME Kept, AddLine PROVE Kept'
  OBVIOUS
<1>1. /\ buffer' = << >> /\ buffer' \in Seq(Letter) /\ input' = input /\ text' = text /\ eof' = eof
      /\ buffer \in Seq(Letter) /\ added \in Seq(Seq(Letter)) /\ pc' # "line"
  BY EmptySeq DEF Kept, AddLine
<1>2. Chopped(buffer) \in Seq(Letter)
  BY <1>1, FrontTyped DEF Chopped
<1>3. added' \in Seq(Seq(Letter))
  <2>1. Append(added, Chopped(buffer)) \in Seq(Seq(Letter))
    BY <1>1, <1>2
  <2>2. added' = added \/ added' = Append(added, Chopped(buffer))
    BY DEF AddLine
  <2> QED
    BY <1>1, <2>1, <2>2
<1>4. ASSUME ~eof, pc' # "done" PROVE Terminated(added') \o buffer' \o input' = text'
  <2>1. /\ buffer # << >> /\ buffer[Len(buffer)] = Newline
        /\ Terminated(added) \o buffer \o input = text
    BY <1>4 DEF Kept, NothingLost, WholeSoFar, AddLine
  <2>2. added' = Append(added, Front(buffer)) /\ Front(buffer) \in Seq(Letter)
    BY <1>2, <1>4, <2>1 DEF AddLine, Chopped
  <2>3. Append(Front(buffer), Newline) = buffer
    BY <1>1, <2>1, FrontTyped
  <2>4. Terminated(added') = Terminated(added) \o buffer /\ Terminated(added) \in Seq(Letter)
    BY <1>1, <2>2, <2>3, TerminatedAppend
  <2>5. Terminated(added') \o << >> = Terminated(added')
    BY <1>3, TerminatedAppend, ConcatEmptySeq, <1>1
  <2> QED
    BY <1>1, <2>1, <2>4, <2>5
<1> DEFINE T == Terminated(added)
           l == buffer[Len(buffer)]
<1>5. T \in Seq(Letter)
  BY <1>1, TerminatedAppend
<1>6. buffer # << >> => /\ Front(buffer) \in Seq(Letter) /\ l \in Letter
                       /\ buffer = Append(Front(buffer), l)
  BY <1>1, FrontTyped
<1>7. ASSUME eof, WholeSoFar, buffer # << >>
      PROVE  Front(text) = Cat(T, Front(buffer))
  <2>1. input = << >>
    BY <1>7 DEF Kept, AtEof
  <2>2. text = Cat(T, buffer)
    <3>1. T \o buffer \in Seq(Letter)
      BY <1>1, <1>5
    <3>2. T \o buffer \o << >> = T \o buffer
      BY <3>1, ConcatEmptySeq
    <3> QED
      BY <1>7, <2>1, <3>2 DEF WholeSoFar, Cat
  <2> HIDE DEF T, l
  <2>3. Front(Cat(T, Append(Front(buffer), l))) = Cat(T, Front(buffer))
    BY <1>5, <1>6, <1>7, FrontOf
  <2> QED
    BY <1>6, <1>7, <2>2, <2>3
<1>8. ASSUME eof, pc' # "done" PROVE Front(text') = Front(Terminated(added'))
  <2>1. buffer # << >> /\ added' = Append(added, Front(buffer))
    BY <1>8 DEF AddLine, Chopped
  <2>2. WholeSoFar
    BY <1>8, <2>1 DEF Kept, AtEof, AddLine
  <2>3. Terminated(added') = Cat(T, Append(Front(buffer), Newline))
    BY <1>1, <1>6, <2>1, TerminatedAppend DEF Cat
  <2>4. Front(Terminated(added')) = Cat(T, Front(buffer))
    <3>1. Newline \in Letter
      BY DEF Letter
    <3> HIDE DEF T
    <3> QED
      BY <1>5, <1>6, <2>1, <2>3, <3>1, FrontOf
  <2>5. Front(text) = Cat(T, Front(buffer))
    BY <1>7, <1>8, <2>1, <2>2
  <2> QED
    BY <1>1, <2>4, <2>5
<1>9. ASSUME pc' = "done" PROVE added' = added /\ (buffer # << >> => Front(buffer) = << >>)
  BY <1>9 DEF AddLine, Chopped
<1>10. ASSUME eof, pc' = "done" PROVE Front(text') \in {T, Front(T)}
  <2>1. CASE WholeSoFar /\ buffer # << >>
    <3>1. Cat(T, << >>) = T
      BY <1>5, ConcatEmptySeq DEF Cat
    <3> QED
      BY <1>1, <1>7, <1>9, <1>10, <2>1, <3>1
  <2>2. CASE WholeSoFar /\ buffer = << >>
    <3>1. input = << >>
      BY <1>10 DEF Kept, AtEof
    <3>2. T \o << >> \o << >> = T
      BY <1>5, ConcatEmptySeq
    <3>3. text = T
      BY <2>2, <3>1, <3>2 DEF WholeSoFar
    <3> QED
      BY <1>1, <3>3
  <2>3. CASE buffer = << >> /\ Front(text) = Front(T)
    BY <1>1, <2>3
  <2> QED
    BY <1>10, <2>1, <2>2, <2>3 DEF Kept, AtEof, AddLine
<1>11. ASSUME ~eof, pc' = "done" PROVE text' = Terminated(added') \o <<Newline>> \o input'
  <2>1. buffer # << >> /\ l = Newline /\ T \o buffer \o input = text
    BY <1>11 DEF Kept, NothingLost, WholeSoFar, AddLine
  <2>2. Append(<< >>, Newline) = <<Newline>>
    OBVIOUS
  <2>3. buffer = <<Newline>>
    BY <1>6, <1>9, <1>11, <2>1, <2>2
  <2> QED
    BY <1>1, <1>9, <1>11, <2>1, <2>3
<1>12. AllButTheEnd' \/ pc' # "done"
  BY <1>1, <1>9, <1>10, <1>11 DEF AllButTheEnd
<1>13. NothingLost'
  BY <1>1, <1>4, <1>12 DEF NothingLost, WholeSoFar
<1>14. AtEof'
  BY <1>1, <1>8 DEF Kept, AtEof
<1> HIDE DEF T, l
<1> QED
  BY <1>1, <1>3, <1>13, <1>14 DEF Kept

LEMMA ReadEofKept == Kept /\ ReadEof => Kept'
<1> SUFFICES ASSUME Kept, ReadEof PROVE Kept'
  OBVIOUS
<1>1. /\ pc = "reading" /\ pc' = "line" /\ eof' /\ input = << >>
      /\ UNCHANGED <<text, input, buffer, added>>
  BY DEF ReadEof
<1>2. WholeSoFar \/ (buffer = << >> /\ Front(text) = Front(Terminated(added)))
  BY <1>1 DEF Kept, AtEof, NothingLost
<1>3. AtEof'
  BY <1>1, <1>2 DEF AtEof, WholeSoFar
<1>4. NothingLost'
  BY <1>1 DEF NothingLost
<1> QED
  BY <1>1, <1>3, <1>4 DEF Kept

\* Where only the stream changes, or the loop ends behind the end.
LEMMA SameKept ==
  ASSUME Kept, UNCHANGED <<text, input, buffer, eof, added>>,
         pc' = pc \/ (eof /\ pc = "reading" /\ pc' = "line")
  PROVE  Kept'
<1>1. WholeSoFar' = WholeSoFar
  BY DEF WholeSoFar
<1>2. AtEof'
  BY <1>1 DEF Kept, AtEof
<1>3. NothingLost'
  BY <1>1 DEF Kept, NothingLost, AllButTheEnd
<1> QED
  BY <1>2, <1>3 DEF Kept

LEMMA NextKept == Kept /\ [Next]_cntVars => Kept'
<1> SUFFICES ASSUME Kept, [Next]_cntVars PROVE Kept'
  OBVIOUS
<1>1. CASE ReadChar
  BY <1>1, ReadCharKept
<1>2. CASE ReadEof
  BY <1>2, ReadEofKept
<1>3. CASE ReadError
  BY <1>3, SameKept DEF ReadError
<1>4. CASE AddLine
  BY <1>4, AddLineKept
<1>5. CASE Fault
  BY <1>5, SameKept DEF Fault
<1>6. CASE UNCHANGED cntVars
  BY <1>6, SameKept DEF cntVars
<1> QED
  BY <1>1, <1>2, <1>3, <1>4, <1>5, <1>6 DEF Next, Turn

\* The lines that hllcnt.c:17-21 adds are those of the input, whole and in
\* order, whatever the growths of the buffer and the failures of reads in
\* between, up to the empty line or the last character that is not counted.
THEOREM NothingIsLost == Spec => []NothingLost
<1>1. Kept => NothingLost
  BY DEF Kept
<1> QED
  BY <1>1, InitKept, NextKept, PTL DEF Spec
=============================================================================
