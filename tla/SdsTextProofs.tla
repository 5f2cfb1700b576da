--------------------------- MODULE SdsTextProofs ---------------------------
(***************************************************************************)
(* What sds.c writes is read back: sdscatvprintf and sdsfromlonglong write *)
(* all of their text, sdssplitargs reads what sdscatrepr writes, and the   *)
(* parts of sdssplitlen, joined, are the text.                             *)
(***************************************************************************)
EXTENDS SdsText, SequenceTheorems, WellFoundedInduction, TLAPS

LEMMA MinIs ==
  ASSUME NEW T \in SUBSET Int, NEW m \in T, \A y \in T : m =< y
  PROVE  Min(T) = m
<1> DEFINE x == Min(T)
<1>1. x \in T /\ \A y \in T : x =< y
  BY DEF Min
<1> HIDE DEF x
<1>2. x \in Int /\ m \in Int /\ x =< m /\ m =< x
  BY <1>1
<1> QED
  BY <1>2 DEF x

LEMMA MinExists ==
  ASSUME NEW T \in SUBSET Nat, T # {}
  PROVE  Min(T) \in T /\ \A y \in T : Min(T) =< y
<1>0. T \subseteq Nat
  OBVIOUS
<1>1. PICK m \in T : \A y \in T : ~ (<<y, m>> \in OpToRel(<, Nat))
  BY <1>0, NatLessThanWellFounded, WFMin
<1>2. \A y \in T : m =< y
  <2>1. \A y \in T : ~(y < m)
    BY <1>0, <1>1 DEF OpToRel
  <2> QED
    BY <1>0, <2>1
<1>3. Min(T) = m
  BY <1>2, MinIs
<1> QED
  BY <1>2, <1>3

\* STRIP-ABOVE

LEMMA SizesAre == FirstBuffer \in Nat \ {0, 1} /\ LongMax \in Nat
BY TextAssumption, Zenon

-----------------------------------------------------------------------------
(* Recursive functions over texts.  A call of "f" at a place in S depends  *)
(* on the one at the next place, whose measure is less.                    *)

LEMMA UpTo ==
  ASSUME NEW N \in Nat, NEW G \in SUBSET (0 .. N), 0 \in G,
         \A n \in G : n < N => n + 1 \in G
  PROVE  N \in G
<1> DEFINE T == {n \in 0 .. N : n \notin G}
           m == Min(T)
<1>1. SUFFICES ASSUME N \notin G PROVE FALSE
  OBVIOUS
<1>2. T \in SUBSET Nat /\ T # {}
  BY <1>1
<1>3. m \in T /\ \A y \in T : m <= y
  BY <1>2, MinExists
<1> HIDE DEF m
<1>4. m \in 1 .. N
  BY <1>3
<1>5. m - 1 \in G
  BY <1>3, <1>4
<1>6. m - 1 < N /\ m - 1 + 1 = m
  BY <1>4
<1>7. m \in G
  BY <1>5, <1>6
<1> QED
  BY <1>3, <1>7

\* The places with a next one, and how far each is from the end.
Descends(D, S, nx, M, N) ==
  /\ S \subseteq D /\ N \in Nat
  /\ \A x \in D : M[x] \in 0 .. N
  /\ \A x \in S : nx[x] \in D /\ M[nx[x]] < M[x]

\* f is the function with this equation.
Recurs(f, D, S, nx, base, step) ==
  \A x \in D : f[x] = IF x \in S THEN step[<<x, f[nx[x]]>>] ELSE base[x]

LEMMA RecursionExists ==
  ASSUME NEW D, NEW S, NEW nx, NEW M, NEW N, Descends(D, S, nx, M, N),
         NEW V, NEW base \in [D -> V], NEW step \in [D \X V -> V]
  PROVE  \E f \in [D -> V] : Recurs(f, D, S, nx, base, step)
<1> DEFINE P(n) == {x \in D : M[x] <= n}
           Step(f, x) == IF x \in S THEN step[<<x, f[nx[x]]>>] ELSE base[x]
           Fine(f, n) == f \in [P(n) -> V] /\ \A x \in P(n) : f[x] = Step(f, x)
           G == {n \in 0 .. N : \E f : Fine(f, n)}
<1>0. /\ N \in Nat /\ \A x \in D : M[x] \in Int /\ 0 <= M[x] /\ M[x] <= N
      /\ \A x \in S : x \in D /\ nx[x] \in D /\ M[nx[x]] < M[x]
  BY DEF Descends
<1>1. 0 \in G
  <2> DEFINE f == [x \in P(0) |-> base[x]]
  <2>1. \A x \in P(0) : x \in D /\ x \notin S
    BY <1>0
  <2>2. f \in [P(0) -> V]
    BY <2>1
  <2>3. Fine(f, 0)
    BY <2>1, <2>2
  <2> HIDE DEF f, Fine
  <2>4. 0 \in 0 .. N
    BY <1>0
  <2>5. \E g : Fine(g, 0)
    BY <2>3
  <2> QED
    BY <2>4, <2>5
<1>2. ASSUME NEW n \in G, n < N PROVE n + 1 \in G
  <2>0. n \in Nat /\ n + 1 \in 0 .. N
    BY <1>0, <1>2
  <2>1. PICK f : Fine(f, n)
    OBVIOUS
  <2> DEFINE g == [x \in P(n + 1) |-> Step(f, x)]
  <2>2. P(n) \subseteq P(n + 1)
    BY <1>0, <2>0
  <2>3. ASSUME NEW x \in P(n + 1), x \in S PROVE nx[x] \in P(n)
    BY <1>0, <2>0, <2>3
  <2>4. \A x \in P(n) : g[x] = f[x]
    BY <2>1, <2>2
  <2>5. ASSUME NEW x \in P(n + 1) PROVE g[x] \in V /\ g[x] = Step(g, x)
    <3>1. CASE x \notin S
      BY <3>1
    <3>2. CASE x \in S
      <4>1. nx[x] \in P(n)
        BY <2>3, <3>2
      <4>2. f[nx[x]] \in V /\ g[nx[x]] = f[nx[x]]
        BY <2>1, <2>4, <4>1
      <4>3. <<x, f[nx[x]]>> \in D \X V
        BY <4>2
      <4> QED
        BY <3>2, <4>2, <4>3
    <3> QED
      BY <3>1, <3>2
  <2>6. g \in [P(n + 1) -> V]
    BY <2>5
  <2>7. Fine(g, n + 1)
    BY <2>5, <2>6
  <2> QED
    BY <2>0, <2>7
<1>3. N \in G
  <2>1. G \in SUBSET (0 .. N)
    OBVIOUS
  <2> HIDE DEF G
  <2> QED
    BY <1>0, <1>1, <1>2, <2>1, UpTo
<1>4. PICK f : Fine(f, N)
  BY <1>3
<1>5. P(N) = D
  BY <1>0
<1> QED
  BY <1>4, <1>5 DEF Recurs

LEMMA RecursionInduction ==
  ASSUME NEW D, NEW S, NEW nx, NEW M, NEW N, Descends(D, S, nx, M, N),
         NEW Q,
         \A x \in D : (x \in S => nx[x] \in Q) => x \in Q
  PROVE  \A x \in D : x \in Q
<1> DEFINE G == {n \in 0 .. N : \A x \in D : M[x] <= n => x \in Q}
<1>0. /\ N \in Nat /\ \A x \in D : M[x] \in Int /\ 0 <= M[x] /\ M[x] <= N
      /\ \A x \in S : x \in D /\ nx[x] \in D /\ M[nx[x]] < M[x]
  BY DEF Descends
<1>1. 0 \in G
  <2>1. ASSUME NEW x \in D, M[x] <= 0 PROVE x \in Q
    BY <1>0, <2>1
  <2> QED
    BY <1>0, <2>1
<1>2. ASSUME NEW n \in G, n < N PROVE n + 1 \in G
  <2>1. n \in Nat /\ n + 1 \in 0 .. N
    BY <1>0, <1>2
  <2>2. ASSUME NEW x \in D, M[x] <= n + 1 PROVE x \in Q
    <3>1. CASE x \in S
      <4>1. nx[x] \in D /\ M[nx[x]] <= n
        BY <1>0, <2>1, <2>2, <3>1
      <4>2. nx[x] \in Q
        BY <4>1
      <4> QED
        BY <4>2
    <3>2. CASE x \notin S
      BY <3>2
    <3> QED
      BY <3>1, <3>2
  <2> QED
    BY <2>1, <2>2
<1>3. N \in G
  <2>1. G \in SUBSET (0 .. N)
    OBVIOUS
  <2> HIDE DEF G
  <2> QED
    BY <1>0, <1>1, <1>2, <2>1, UpTo
<1> QED
  BY <1>0, <1>3

-----------------------------------------------------------------------------
(* sdssplitlen and sdsjoinsds.                                             *)

\* The function of Split.
TokensOf(v, sep) ==
  CHOOSE tokens : tokens = [at \in Search |->
      IF Over(v, sep, at) THEN <<SubSeq(v, at.start, Len(v))>>
      ELSE IF IsAt(v, sep, at.j)
           THEN <<SubSeq(v, at.start, at.j - 1)>> \o tokens[SkipSep(sep, at)]
      ELSE tokens[At(at.j + 1, at.start)]]

LEMMA SplitUnfolds ==
  ASSUME NEW v, NEW sep
  PROVE  Split(v, sep) = IF v = <<>> THEN <<>> ELSE TokensOf(v, sep)[At(1, 1)]
BY Zenon DEF Split, TokensOf

\* The searches that go on, the next one and how far they are from the end.
Searching(v, sep) == {at \in Search : ~Over(v, sep, at)}
NextSearch(v, sep) ==
  [at \in Search |-> IF IsAt(v, sep, at.j) THEN SkipSep(sep, at) ELSE At(at.j + 1, at.start)]
ToSearch(v) == [at \in Search |-> IF at.j <= Len(v) + 1 THEN Len(v) + 2 - at.j ELSE 0]

LEMMA SearchDescends ==
  ASSUME NEW C, NEW v \in Seq(C), NEW sep \in Seq(C), sep # <<>>
  PROVE  Descends(Search, Searching(v, sep), NextSearch(v, sep), ToSearch(v), Len(v) + 2)
<1>0. Len(v) \in Nat /\ Len(sep) \in Nat \ {0}
  BY EmptySeq
<1>1. \A at \in Search : ToSearch(v)[at] \in 0 .. Len(v) + 2
  BY <1>0 DEF Search, ToSearch
<1>2. ASSUME NEW at \in Searching(v, sep)
      PROVE  NextSearch(v, sep)[at] \in Search
             /\ ToSearch(v)[NextSearch(v, sep)[at]] < ToSearch(v)[at]
  <2> DEFINE nx == NextSearch(v, sep)[at]
  <2>0. at \in Search /\ at.j \in Nat /\ at.start \in Nat /\ at.j + Len(sep) - 1 <= Len(v)
    BY <1>0 DEF Searching, Search, Over
  <2>1. nx \in Search /\ nx.j > at.j
    <3>1. CASE IsAt(v, sep, at.j)
      <4>1. nx = At(at.j + Len(sep), at.j + Len(sep))
        BY <2>0, <3>1 DEF NextSearch, SkipSep
      <4> QED
        BY <1>0, <2>0, <4>1 DEF At, Search
    <3>2. CASE ~IsAt(v, sep, at.j)
      <4>1. nx = At(at.j + 1, at.start)
        BY <2>0, <3>2 DEF NextSearch
      <4> QED
        BY <1>0, <2>0, <4>1 DEF At, Search
    <3> QED
      BY <3>1, <3>2
  <2> HIDE DEF nx
  <2>2. nx.j \in Nat
    BY <2>1 DEF Search
  <2>3. ToSearch(v)[nx] < ToSearch(v)[at]
    BY <1>0, <2>0, <2>1, <2>2 DEF ToSearch
  <2> QED
    BY <2>1, <2>3 DEF nx
<1>3. Searching(v, sep) \subseteq Search
  BY DEF Searching
<1> QED
  BY <1>0, <1>1, <1>2, <1>3 DEF Descends

\* The tokens follow from those of the next search.
LEMMA TokensRecur ==
  ASSUME NEW C, NEW v \in Seq(C), NEW sep \in Seq(C), sep # <<>>, NEW at \in Search
  PROVE  TokensOf(v, sep)[at] =
           IF Over(v, sep, at) THEN <<SubSeq(v, at.start, Len(v))>>
           ELSE IF IsAt(v, sep, at.j)
                THEN <<SubSeq(v, at.start, at.j - 1)>> \o TokensOf(v, sep)[SkipSep(sep, at)]
           ELSE TokensOf(v, sep)[At(at.j + 1, at.start)]
<1> DEFINE W == {SubSeq(v, a.start, a.j - 1) : a \in Search}
                  \cup {SubSeq(v, a.start, Len(v)) : a \in Search}
           V == Seq(W)
           base == [a \in Search |-> <<SubSeq(v, a.start, Len(v))>>]
           step == [x \in Search \X V |->
                      IF IsAt(v, sep, x[1].j) THEN <<SubSeq(v, x[1].start, x[1].j - 1)>> \o x[2]
                      ELSE x[2]]
           Step(f, a) ==
             IF Over(v, sep, a) THEN <<SubSeq(v, a.start, Len(v))>>
             ELSE IF IsAt(v, sep, a.j)
                  THEN <<SubSeq(v, a.start, a.j - 1)>> \o f[SkipSep(sep, a)]
             ELSE f[At(a.j + 1, a.start)]
<1>1. base \in [Search -> V]
  <2>1. ASSUME NEW a \in Search PROVE <<SubSeq(v, a.start, Len(v))>> \in Seq(W)
    <3>1. SubSeq(v, a.start, Len(v)) \in W
      OBVIOUS
    <3> HIDE DEF W
    <3> QED
      BY <3>1
  <2> QED
    BY <2>1
<1>2. step \in [Search \X V -> V]
  <2>1. ASSUME NEW x \in Search \X V
        PROVE  x[2] \in V /\ <<SubSeq(v, x[1].start, x[1].j - 1)>> \o x[2] \in V
    <3>1. SubSeq(v, x[1].start, x[1].j - 1) \in W /\ x[2] \in Seq(W)
      OBVIOUS
    <3> HIDE DEF W
    <3> QED
      BY <3>1
  <2> QED
    BY <2>1
<1>3. PICK f \in [Search -> V] :
        Recurs(f, Search, Searching(v, sep), NextSearch(v, sep), base, step)
  <2> HIDE DEF V, base, step
  <2> QED
    BY <1>1, <1>2, SearchDescends, RecursionExists
<1>4. ASSUME NEW a \in Search PROVE f[a] = Step(f, a)
  <2>1. f[a] = IF a \in Searching(v, sep) THEN step[<<a, f[NextSearch(v, sep)[a]]>>] ELSE base[a]
    BY <1>3 DEF Recurs
  <2>2. CASE Over(v, sep, a)
    BY <2>1, <2>2 DEF Searching
  <2>3. CASE ~Over(v, sep, a)
    <3>1. a \in Searching(v, sep) /\ NextSearch(v, sep)[a] \in Search
      BY <2>3, SearchDescends DEF Searching, Descends
    <3>2. <<a, f[NextSearch(v, sep)[a]]>> \in Search \X V
      BY <3>1
    <3>3. step[<<a, f[NextSearch(v, sep)[a]]>>] =
            IF IsAt(v, sep, a.j) THEN <<SubSeq(v, a.start, a.j - 1)>> \o f[NextSearch(v, sep)[a]]
            ELSE f[NextSearch(v, sep)[a]]
      BY <3>2
    <3>4. NextSearch(v, sep)[a] = IF IsAt(v, sep, a.j) THEN SkipSep(sep, a) ELSE At(a.j + 1, a.start)
      BY DEF NextSearch
    <3> QED
      BY <2>1, <2>3, <3>1, <3>3, <3>4
  <2> QED
    BY <2>2, <2>3
<1>5. f = [a \in Search |-> Step(f, a)]
  <2> HIDE DEF Step, V
  <2> QED
    BY <1>4
<1>6. TokensOf(v, sep) = [a \in Search |-> Step(TokensOf(v, sep), a)]
  <2> HIDE DEF V, base, step
  <2> QED
    BY <1>5, Zenon DEF TokensOf
<1> QED
  BY <1>6

\* One turn of Join, and its function.
Glued(x, sep, y) == x \o sep \o y

JoinOf(tokens, sep) ==
  CHOOSE join : join = [j \in 1 .. Len(tokens) + 1 |->
      IF j > Len(tokens) THEN <<>>
      ELSE IF j = Len(tokens) THEN tokens[j]
      ELSE Glued(tokens[j], sep, join[j + 1])]

LEMMA JoinUnfolds ==
  ASSUME NEW tokens, NEW sep
  PROVE  Join(tokens, sep) = JoinOf(tokens, sep)[1]
BY Zenon DEF Join, JoinOf, Glued

\* The places of a sequence of n, and how far they are from its end.
NextPlace(n) == [j \in 1 .. n + 1 |-> j + 1]
ToPlace(n) == [j \in 1 .. n + 1 |-> n + 1 - j]

LEMMA PlaceDescends ==
  ASSUME NEW n \in Nat, NEW S \in SUBSET (1 .. n)
  PROVE  Descends(1 .. n + 1, S, NextPlace(n), ToPlace(n), n)
BY DEF Descends, NextPlace, ToPlace

LEMMA PlaceInduction ==
  ASSUME NEW n \in Nat, NEW Q \in SUBSET (1 .. n + 1),
         \A j \in 1 .. n + 1 : (j = n + 1 \/ j + 1 \in Q) => j \in Q
  PROVE  \A j \in 1 .. n + 1 : j \in Q
<1> DEFINE G == {k \in 0 .. n : \A j \in 1 .. n + 1 : n + 1 - k =< j => j \in Q}
<1>1. 0 \in G
  OBVIOUS
<1>2. ASSUME NEW k \in G, k < n PROVE k + 1 \in G
  <2>1. ASSUME NEW j \in 1 .. n + 1, n + 1 - (k + 1) =< j PROVE j \in Q
    <3>1. j = n + 1 \/ (j + 1 \in 1 .. n + 1 /\ n + 1 - k =< j + 1)
      BY <2>1
    <3> QED
      BY <3>1
  <2> QED
    BY <1>2, <2>1
<1>3. n \in G
  <2>1. G \in SUBSET (0 .. n)
    OBVIOUS
  <2> HIDE DEF G
  <2> QED
    BY <1>1, <1>2, <2>1, UpTo
<1> QED
  BY <1>3

LEMMA JoinRecurs ==
  ASSUME NEW C, NEW tokens \in Seq(Seq(C)), NEW sep \in Seq(C)
  PROVE  /\ JoinOf(tokens, sep) \in [1 .. Len(tokens) + 1 -> Seq(C)]
         /\ \A j \in 1 .. Len(tokens) + 1 :
              JoinOf(tokens, sep)[j] =
                IF j > Len(tokens) THEN <<>>
                ELSE IF j = Len(tokens) THEN tokens[j]
                ELSE Glued(tokens[j], sep, JoinOf(tokens, sep)[j + 1])
<1> DEFINE n == Len(tokens)
           D == 1 .. n + 1
           V == Seq(C)
           base == [j \in D |-> IF j > n THEN <<>> ELSE tokens[j]]
           step == [x \in D \X V |-> IF x[1] < n THEN Glued(tokens[x[1]], sep, x[2]) ELSE <<>>]
           Step(f, j) == IF j > n THEN <<>> ELSE IF j = n THEN tokens[j]
                         ELSE Glued(tokens[j], sep, f[j + 1])
<1>0. n \in Nat /\ \A j \in 1 .. n : tokens[j] \in V
  OBVIOUS
<1>1. base \in [D -> V]
  <2>1. ASSUME NEW j \in D PROVE (IF j > n THEN <<>> ELSE tokens[j]) \in V
    <3>1. CASE j > n
      BY <3>1
    <3>2. CASE ~(j > n)
      BY <1>0, <3>2
    <3> QED
      BY <3>1, <3>2
  <2> HIDE DEF V
  <2> QED
    BY <2>1
<1>2. step \in [D \X V -> V]
  <2>1. ASSUME NEW x \in D \X V
        PROVE  (IF x[1] < n THEN Glued(tokens[x[1]], sep, x[2]) ELSE <<>>) \in V
    <3>1. CASE x[1] < n
      <4>1. tokens[x[1]] \in V /\ x[2] \in V /\ sep \in V
        BY <1>0, <3>1
      <4>2. Glued(tokens[x[1]], sep, x[2]) \in V
        BY <4>1 DEF Glued
      <4> QED
        BY <3>1, <4>2
    <3>2. CASE ~(x[1] < n)
      BY <3>2
    <3> QED
      BY <3>1, <3>2
  <2> HIDE DEF V
  <2> QED
    BY <2>1
<1> DEFINE S == 1 .. n - 1
<1>3. PICK f \in [D -> V] : Recurs(f, D, S, NextPlace(n), base, step)
  <2>1. Descends(D, S, NextPlace(n), ToPlace(n), n)
    <3>1. S \in SUBSET (1 .. n)
      BY <1>0
    <3> HIDE DEF S, n
    <3> QED
      BY <1>0, <3>1, PlaceDescends
  <2> HIDE DEF D, S, V, base, step, n
  <2> QED
    BY <1>1, <1>2, <2>1, RecursionExists
<1>4. ASSUME NEW j \in D PROVE f[j] = Step(f, j)
  <2>1. f[j] = IF j \in S THEN step[<<j, f[NextPlace(n)[j]]>>] ELSE base[j]
    BY <1>3 DEF Recurs
  <2>2. CASE j < n
    <3>1. j \in S /\ NextPlace(n)[j] = j + 1 /\ j + 1 \in D
      BY <1>0, <2>2 DEF NextPlace
    <3>2. <<j, f[j + 1]>> \in D \X V
      BY <3>1
    <3>3. step[<<j, f[j + 1]>>] = Glued(tokens[j], sep, f[j + 1])
      BY <2>2, <3>2
    <3>4. f[j] = Glued(tokens[j], sep, f[j + 1])
      <4> HIDE DEF step, D, S, V, base
      <4> QED
        BY <2>1, <3>1, <3>3
    <3>5. ~(j > n) /\ j # n
      BY <1>0, <2>2
    <3> QED
      BY <3>4, <3>5
  <2>3. CASE ~(j < n)
    <3>1. j \notin S
      BY <1>0, <2>3
    <3> QED
      BY <1>0, <2>1, <2>3, <3>1
  <2> QED
    BY <2>2, <2>3
<1>5. f = [j \in D |-> Step(f, j)]
  <2> HIDE DEF Step, V, D
  <2> QED
    BY <1>4
<1>6. JoinOf(tokens, sep) = f \/ JoinOf(tokens, sep) = [j \in D |-> Step(JoinOf(tokens, sep), j)]
  <2> HIDE DEF V, base, step
  <2> QED
    BY <1>5, Zenon DEF JoinOf
<1>7. JoinOf(tokens, sep) = [j \in D |-> Step(JoinOf(tokens, sep), j)]
  <2> HIDE DEF Step, V, D
  <2> QED
    BY <1>5, <1>6
<1> DEFINE g == JoinOf(tokens, sep)
<1>8. \A j \in D : g[j] = Step(g, j)
  <2> HIDE DEF Step, D
  <2> QED
    BY <1>7
<1> HIDE DEF g
<1>11. \A j \in D : /\ j > n => g[j] = <<>>
                    /\ j = n => g[j] = tokens[j]
                    /\ j < n => g[j] = Glued(tokens[j], sep, g[j + 1])
  <2> HIDE DEF n
  <2> QED
    BY <1>0, <1>8
<1>9. \A j \in D : g[j] \in V
  <2> DEFINE Q == {j \in D : g[j] \in V}
  <2>1. ASSUME NEW j \in D, j = n + 1 \/ j + 1 \in Q PROVE g[j] \in V
    <3>0. j \in Int /\ 1 =< j /\ j =< n + 1
      OBVIOUS
    <3>1. j > n => g[j] \in V
      <4>1. <<>> \in V
        OBVIOUS
      <4>2. j > n => g[j] = <<>>
        BY <1>11
      <4> HIDE DEF n, V
      <4> QED
        BY <4>1, <4>2
    <3>2. ASSUME j = n PROVE g[j] \in V
      <4>1. j \in 1 .. n
        BY <1>0, <3>0, <3>2
      <4>2. tokens[j] \in V
        BY <1>0, <4>1
      <4>3. g[j] = tokens[j]
        BY <1>11, <3>2
      <4> HIDE DEF n, V
      <4> QED
        BY <4>2, <4>3
    <3>3. ASSUME j < n PROVE g[j] \in V
      <4>1. g[j + 1] \in V
        BY <1>0, <2>1, <3>3
      <4>2. tokens[j] \in V
        BY <1>0, <3>0, <3>3
      <4>3. g[j] = Glued(tokens[j], sep, g[j + 1])
        BY <1>11, <3>3
      <4> DEFINE r == g[j + 1]
                 y == tokens[j]
      <4> HIDE DEF r, y
      <4>4. Glued(y, sep, r) \in V
        BY <4>1, <4>2 DEF Glued, r, y
      <4> QED
        BY <4>3, <4>4 DEF r, y
    <3> QED
      BY <1>0, <3>0, <3>1, <3>2, <3>3
  <2>2. \A j \in D : (j = n + 1 \/ j + 1 \in Q) => j \in Q
    BY <2>1
  <2>3. Q \in SUBSET (1 .. n + 1)
    OBVIOUS
  <2> HIDE DEF Q, n
  <2>4. \A j \in 1 .. n + 1 : j \in Q
    BY <1>0, <2>2, <2>3, PlaceInduction
  <2> QED
    BY <2>4 DEF Q
<1>10. g \in [D -> V]
  <2> HIDE DEF Step, V, D
  <2> QED
    BY <1>7, <1>9 DEF g
<1> QED
  BY <1>8, <1>10 DEF g

\* One more token in front.
LEMMA JoinMore ==
  ASSUME NEW C, NEW x \in Seq(C), NEW t \in Seq(Seq(C)), NEW sep \in Seq(C)
  PROVE  /\ Join(t, sep) \in Seq(C)
         /\ Join(<<x>> \o t, sep) = IF t = <<>> THEN x ELSE Glued(x, sep, Join(t, sep))
<1> DEFINE n == Len(t)
           u == <<x>> \o t
           f == JoinOf(t, sep)
           g == JoinOf(u, sep)
           D == 1 .. n + 1
           Q == {j \in D : g[j + 1] = f[j]}
<1>0. /\ n \in Nat /\ u \in Seq(Seq(C)) /\ Len(u) = n + 1 /\ u[1] = x
      /\ \A j \in 1 .. n : u[j + 1] = t[j] /\ t[j] \in Seq(C)
  OBVIOUS
<1>1. /\ f \in [1 .. n + 1 -> Seq(C)]
      /\ \A j \in 1 .. n + 1 :
           f[j] = IF j > n THEN <<>> ELSE IF j = n THEN t[j] ELSE Glued(t[j], sep, f[j + 1])
  BY JoinRecurs
<1>2. /\ g \in [1 .. n + 2 -> Seq(C)]
      /\ \A j \in 1 .. n + 2 :
           g[j] = IF j > n + 1 THEN <<>> ELSE IF j = n + 1 THEN u[j] ELSE Glued(u[j], sep, g[j + 1])
  <2>1. /\ g \in [1 .. Len(u) + 1 -> Seq(C)]
        /\ \A j \in 1 .. Len(u) + 1 :
           g[j] = IF j > Len(u) THEN <<>> ELSE IF j = Len(u) THEN u[j] ELSE Glued(u[j], sep, g[j + 1])
    <3> HIDE DEF u
    <3> QED
      BY <1>0, JoinRecurs
  <2>2. Len(u) = n + 1 /\ Len(u) + 1 = n + 2
    BY <1>0
  <2> HIDE DEF u, n, g
  <2> QED
    BY <2>1, <2>2
<1> HIDE DEF u, n, f, g
<1>11. \A j \in D : /\ j > n => f[j] = <<>>
                    /\ j = n => f[j] = t[j]
                    /\ j < n => f[j] = Glued(t[j], sep, f[j + 1])
  BY <1>0, <1>1, SMTT(30)
<1>12. \A j \in D : /\ j > n => g[j + 1] = <<>>
                    /\ j = n => g[j + 1] = u[j + 1]
                    /\ j < n => g[j + 1] = Glued(u[j + 1], sep, g[j + 2])
  <2> SUFFICES ASSUME NEW j \in D PROVE
                    /\ j > n => g[j + 1] = <<>>
                    /\ j = n => g[j + 1] = u[j + 1]
                    /\ j < n => g[j + 1] = Glued(u[j + 1], sep, g[j + 2])
    OBVIOUS
  <2> DEFINE k == j + 1
  <2>1. /\ k \in 1 .. n + 2 /\ (j > n <=> k > n + 1) /\ (j = n <=> k = n + 1) /\ k + 1 = j + 2
        /\ j < n => ~(k > n + 1) /\ k # n + 1
    BY <1>0
  <2>2. g[k] = IF k > n + 1 THEN <<>> ELSE IF k = n + 1 THEN u[k] ELSE Glued(u[k], sep, g[k + 1])
    <3> HIDE DEF k
    <3> QED
      BY <1>2, <2>1
  <2>3. j = n => ~(k > n + 1)
    BY <1>0
  <2> HIDE DEF k
  <2>4. g[k] = g[j + 1] /\ u[k] = u[j + 1]
    BY DEF k
  <2> QED
    BY <2>1, <2>2, <2>3, <2>4
<1>3. \A j \in D : j \in Q
  <2>1. ASSUME NEW j \in D, j = n + 1 \/ j + 1 \in Q PROVE g[j + 1] = f[j]
    <3>0. j \in Int /\ 1 =< j /\ j =< n + 1
      OBVIOUS
    <3>1. j > n => g[j + 1] = f[j]
      BY <1>11, <1>12
    <3>2. j = n => g[j + 1] = f[j]
      BY <1>0, <1>11, <1>12, <3>0
    <3>3. ASSUME j < n PROVE g[j + 1] = f[j]
      <4>1. j + 1 \in Q
        BY <1>0, <2>1, <3>3
      <4>2. g[(j + 1) + 1] = f[j + 1] /\ (j + 1) + 1 = j + 2
        BY <3>0, <4>1
      <4>3. u[j + 1] = t[j]
        BY <1>0, <3>0, <3>3
      <4>4. g[j + 1] = Glued(u[j + 1], sep, g[j + 2]) /\ f[j] = Glued(t[j], sep, f[j + 1])
        BY <1>11, <1>12, <3>3
      <4> QED
        BY <4>2, <4>3, <4>4
    <3> QED
      BY <1>0, <3>0, <3>1, <3>2, <3>3
  <2>2. \A j \in 1 .. n + 1 : (j = n + 1 \/ j + 1 \in Q) => j \in Q
    BY <2>1
  <2>3. Q \in SUBSET (1 .. n + 1)
    OBVIOUS
  <2> HIDE DEF Q
  <2> QED
    BY <1>0, <2>2, <2>3, PlaceInduction
<1>4. g[2] = f[1]
  <2>1. 1 \in Q
    BY <1>0, <1>3
  <2> QED
    BY <2>1
<1>5. Join(t, sep) = f[1] /\ Join(u, sep) = g[1]
  BY JoinUnfolds DEF f, g
<1>6. t = <<>> <=> n = 0
  BY EmptySeq DEF n
<1>7. Join(u, sep) = IF t = <<>> THEN x ELSE Glued(x, sep, Join(t, sep))
  <2>1. /\ n = 0 => g[1] = x
        /\ n # 0 => g[1] = Glued(x, sep, g[2])
    <3>1. g[1] = IF 1 > n + 1 THEN <<>> ELSE IF 1 = n + 1 THEN x ELSE Glued(x, sep, g[1 + 1])
      BY <1>0, <1>2
    <3> QED
      BY <1>0, <3>1
  <2> QED
    BY <2>1, <1>4, <1>5, <1>6
<1>8. Join(t, sep) \in Seq(C)
  BY <1>0, <1>1, <1>5
<1> QED
  BY <1>7, <1>8 DEF u

\* The separator is nowhere in a part.
Free(part, sep) == \A j \in 1 .. Len(part) - Len(sep) + 1 : ~IsAt(part, sep, j)

\* What the tokens of a search say of the text from where its part starts, when
\* the separator was not found between there and the place.
Found(v, sep, at) ==
  /\ 1 =< at.start /\ at.start =< at.j /\ at.j =< Len(v) + 1
  /\ \A k \in at.start .. at.j - 1 : ~IsAt(v, sep, k)

Joined(v, sep, C, at, tokens) ==
  /\ tokens \in Seq(Seq(C)) /\ tokens # <<>>
  /\ Join(tokens, sep) = SubSeq(v, at.start, Len(v))
  /\ \A k \in DOMAIN tokens : Free(tokens[k], sep)

LEMMA SubSeqIn ==
  ASSUME NEW C, NEW v \in Seq(C), NEW a \in Nat \ {0}, NEW b \in Int, b =< Len(v), a =< b + 1
  PROVE  /\ SubSeq(v, a, b) \in Seq(C) /\ Len(SubSeq(v, a, b)) = b - a + 1
         /\ \A i \in 1 .. b - a + 1 : SubSeq(v, a, b)[i] = v[a + i - 1]
BY SubSeqProperties

\* A place in a part is one in the text.
LEMMA PartPlace ==
  ASSUME NEW C, NEW v \in Seq(C), NEW sep \in Seq(C), sep # <<>>, NEW a \in Nat \ {0}, NEW b \in Int,
         b =< Len(v), a =< b + 1,
         NEW k \in 1 .. (b - a + 1) - Len(sep) + 1, IsAt(SubSeq(v, a, b), sep, k)
  PROVE  a + k - 1 + Len(sep) - 1 =< b /\ IsAt(v, sep, a + k - 1)
<1> DEFINE u == SubSeq(v, a, b)
           m == Len(sep)
           x == SubSeq(u, k, k + m - 1)
           y == SubSeq(v, a + k - 1, a + k - 1 + m - 1)
<1>0. m \in Nat \ {0} /\ Len(v) \in Nat
  BY EmptySeq
<1>1. u \in Seq(C) /\ Len(u) = b - a + 1 /\ \A i \in 1 .. b - a + 1 : u[i] = v[a + i - 1]
  BY SubSeqIn
<1> HIDE DEF u, m
<1>2. m = Len(sep)
  BY DEF m
<1>3. k \in Nat \ {0} /\ k + m - 1 =< b - a + 1
  BY <1>0, <1>2
<1>4. x \in Seq(C) /\ Len(x) = m /\ \A i \in 1 .. m : x[i] = u[k + i - 1]
  <2>1. /\ x \in Seq(C) /\ Len(x) = (k + m - 1) - k + 1
        /\ \A i \in 1 .. (k + m - 1) - k + 1 : x[i] = u[k + i - 1]
    <3> DEFINE e == k + m - 1
    <3>1. e \in Int /\ e =< Len(u) /\ k =< e + 1
      BY <1>0, <1>1, <1>3
    <3> HIDE DEF e
    <3> HIDE DEF x
    <3>2. /\ SubSeq(u, k, e) \in Seq(C) /\ Len(SubSeq(u, k, e)) = e - k + 1
          /\ \A i \in 1 .. e - k + 1 : SubSeq(u, k, e)[i] = u[k + i - 1]
      <4>1. u \in Seq(C) /\ k \in Nat \ {0}
        BY <1>1, <1>3
      <4> QED
        BY <3>1, <4>1, SubSeqIn
    <3> QED
      BY <3>2 DEF e, x
  <2>2. (k + m - 1) - k + 1 = m
    BY <1>0, <1>3
  <2> HIDE DEF x
  <2> QED
    BY <2>1, <2>2
<1>5. y \in Seq(C) /\ Len(y) = m /\ \A i \in 1 .. m : y[i] = v[a + k - 1 + i - 1]
  <2> DEFINE c == a + k - 1
             e == c + m - 1
  <2>1. c \in Nat \ {0} /\ e \in Int /\ e =< Len(v) /\ c =< e + 1 /\ e - c + 1 = m
    BY <1>0, <1>3
  <2> HIDE DEF c, e
  <2>2. /\ SubSeq(v, c, e) \in Seq(C) /\ Len(SubSeq(v, c, e)) = e - c + 1
        /\ \A i \in 1 .. e - c + 1 : SubSeq(v, c, e)[i] = v[c + i - 1]
    BY <2>1, SubSeqIn
  <2> QED
    BY <2>1, <2>2 DEF c, e
<1>6. x = sep
  BY <1>2 DEF IsAt, x, u, m
<1>7. \A i \in 1 .. m : x[i] = y[i]
  <2> SUFFICES ASSUME NEW i \in 1 .. m PROVE x[i] = y[i]
    OBVIOUS
  <2>1. k + i - 1 \in 1 .. b - a + 1 /\ a + (k + i - 1) - 1 = a + k - 1 + i - 1
    BY <1>0, <1>3
  <2>2. u[k + i - 1] = v[a + (k + i - 1) - 1]
    BY <1>1, <2>1
  <2> HIDE DEF x, y
  <2> QED
    BY <1>4, <1>5, <2>1, <2>2
<1>8. x = y
  <2> HIDE DEF x, y
  <2> QED
    BY <1>4, <1>5, <1>7, SeqEqual
<1>9. IsAt(v, sep, a + k - 1)
  BY <1>2, <1>6, <1>8 DEF IsAt
<1> QED
  BY <1>0, <1>2, <1>3, <1>9

\* The part that ends before the place is free of the separator.
LEMMA PartFree ==
  ASSUME NEW C, NEW v \in Seq(C), NEW sep \in Seq(C), sep # <<>>, NEW a \in Nat \ {0}, NEW b \in Int,
         b =< Len(v), a =< b + 1,
         \A k \in a .. b : k + Len(sep) - 1 =< b => ~IsAt(v, sep, k)
  PROVE  Free(SubSeq(v, a, b), sep)
<1>0. Len(sep) \in Nat \ {0} /\ Len(SubSeq(v, a, b)) = b - a + 1
  BY EmptySeq, SubSeqIn
<1>1. ASSUME NEW k \in 1 .. (b - a + 1) - Len(sep) + 1, IsAt(SubSeq(v, a, b), sep, k) PROVE FALSE
  <2>1. a + k - 1 + Len(sep) - 1 =< b /\ IsAt(v, sep, a + k - 1)
    BY <1>1, PartPlace
  <2>2. a + k - 1 \in a .. b
    BY <1>0, <2>1
  <2> QED
    BY <2>1, <2>2
<1> QED
  BY <1>0, <1>1 DEF Free

\* The text is cut before and after the separator.
LEMMA CutAt ==
  ASSUME NEW C, NEW v \in Seq(C), NEW sep \in Seq(C), NEW a \in Nat \ {0}, NEW j \in Nat,
         a =< j, j + Len(sep) - 1 =< Len(v), IsAt(v, sep, j)
  PROVE  Glued(SubSeq(v, a, j - 1), sep, SubSeq(v, j + Len(sep), Len(v))) = SubSeq(v, a, Len(v))
<1> DEFINE m == Len(sep)
           n == Len(v)
           x == SubSeq(v, a, j - 1)
           z == SubSeq(v, j + m, n)
           w == SubSeq(v, a, n)
           g == x \o sep \o z
<1>0. m \in Nat /\ n \in Nat /\ j + m - 1 =< n
  OBVIOUS
<1>1. x \in Seq(C) /\ Len(x) = j - a /\ \A i \in 1 .. j - a : x[i] = v[a + i - 1]
  <2> DEFINE b == j - 1
  <2>1. b \in Int /\ b =< n /\ a =< b + 1 /\ b - a + 1 = j - a
    BY <1>0
  <2> HIDE DEF b
  <2>2. /\ SubSeq(v, a, b) \in Seq(C) /\ Len(SubSeq(v, a, b)) = b - a + 1
        /\ \A i \in 1 .. b - a + 1 : SubSeq(v, a, b)[i] = v[a + i - 1]
    BY <2>1, SubSeqIn
  <2> QED
    BY <2>1, <2>2 DEF b
<1>2. z \in Seq(C) /\ Len(z) = n - j - m + 1 /\ \A i \in 1 .. n - j - m + 1 : z[i] = v[j + m + i - 1]
  <2> DEFINE c == j + m
  <2>1. c \in Nat \ {0} /\ n \in Int /\ n =< Len(v) /\ c =< n + 1 /\ n - c + 1 = n - j - m + 1
    BY <1>0
  <2> HIDE DEF c
  <2>2. /\ SubSeq(v, c, n) \in Seq(C) /\ Len(SubSeq(v, c, n)) = n - c + 1
        /\ \A i \in 1 .. n - c + 1 : SubSeq(v, c, n)[i] = v[c + i - 1]
    <3> HIDE DEF n
    <3> QED
      BY <2>1, SubSeqIn
  <2> QED
    BY <2>1, <2>2 DEF c
<1>3. w \in Seq(C) /\ Len(w) = n - a + 1 /\ \A i \in 1 .. n - a + 1 : w[i] = v[a + i - 1]
  <2>1. n \in Int /\ n =< Len(v) /\ a =< n + 1
    BY <1>0
  <2> HIDE DEF n
  <2> QED
    BY <2>1, SubSeqIn
<1>4. \A i \in 1 .. m : sep[i] = v[j + i - 1]
  <2> DEFINE e == j + m - 1
             y == SubSeq(v, j, e)
  <2>1. e \in Int /\ e =< Len(v) /\ j =< e + 1 /\ j \in Nat \ {0} /\ e - j + 1 = m
    BY <1>0
  <2>2. sep = y
    BY DEF IsAt
  <2> HIDE DEF e
  <2>3. \A i \in 1 .. e - j + 1 : y[i] = v[j + i - 1]
    BY <2>1, SubSeqIn
  <2> HIDE DEF y
  <2> QED
    BY <2>1, <2>2, <2>3
<1> HIDE DEF x, z, w, m, n
<1>5. m = Len(sep)
  BY DEF m
<1> DEFINE h == x \o sep
<1>6. /\ h \in Seq(C) /\ Len(h) = j - a + m
      /\ \A i \in 1 .. j - a + m : h[i] = IF i =< j - a THEN x[i] ELSE sep[i - (j - a)]
  <2>1. /\ h \in Seq(C) /\ Len(h) = Len(x) + Len(sep)
        /\ \A i \in 1 .. Len(x) + Len(sep) :
             h[i] = IF i =< Len(x) THEN x[i] ELSE sep[i - Len(x)]
    BY <1>1, ConcatProperties
  <2> HIDE DEF h
  <2> QED
    BY <1>1, <1>5, <2>1
<1>7. /\ h \o z \in Seq(C) /\ Len(h \o z) = n - a + 1
      /\ \A i \in 1 .. n - a + 1 : (h \o z)[i] = IF i =< j - a + m THEN h[i] ELSE z[i - (j - a + m)]
  <2>1. /\ h \o z \in Seq(C) /\ Len(h \o z) = Len(h) + Len(z)
        /\ \A i \in 1 .. Len(h) + Len(z) :
             (h \o z)[i] = IF i =< Len(h) THEN h[i] ELSE z[i - Len(h)]
    <3> HIDE DEF h
    <3> QED
      BY <1>2, <1>6, ConcatProperties
  <2>2. Len(h) + Len(z) = n - a + 1
    BY <1>0, <1>2, <1>6
  <2> HIDE DEF h
  <2> QED
    BY <1>6, <2>1, <2>2
<1>9. g = h \o z
  OBVIOUS
<1> HIDE DEF g, h
<1>10. \A i \in 1 .. n - a + 1 : g[i] = w[i]
  <2> SUFFICES ASSUME NEW i \in 1 .. n - a + 1 PROVE g[i] = w[i]
    OBVIOUS
  <2>0. w[i] = v[a + i - 1] /\ i \in Int /\ 1 =< i /\ i =< n - a + 1
    BY <1>0, <1>3
  <2>1. g[i] = IF i =< j - a + m THEN h[i] ELSE z[i - (j - a + m)]
    BY <1>7, <1>9
  <2>2. CASE i =< j - a
    <3>1. i \in 1 .. j - a /\ i \in 1 .. j - a + m /\ i =< j - a + m
      BY <1>0, <2>0, <2>2
    <3>2. h[i] = x[i]
      BY <1>6, <2>2, <3>1
    <3>3. x[i] = v[a + i - 1]
      BY <1>1, <3>1
    <3> QED
      BY <2>0, <2>1, <3>1, <3>2, <3>3
  <2>3. CASE j - a < i /\ i =< j - a + m
    <3> DEFINE k == i - (j - a)
    <3>1. k \in 1 .. m /\ j + k - 1 = a + i - 1 /\ i \in 1 .. j - a + m /\ ~(i =< j - a)
      BY <1>0, <2>0, <2>3
    <3>2. h[i] = sep[k]
      BY <1>6, <3>1
    <3> HIDE DEF k
    <3>3. sep[k] = v[j + k - 1]
      BY <1>4, <3>1
    <3> QED
      BY <2>0, <2>1, <2>3, <3>1, <3>2, <3>3
  <2>4. CASE j - a + m < i
    <3> DEFINE k == i - (j - a + m)
    <3>1. k \in 1 .. n - j - m + 1 /\ j + m + k - 1 = a + i - 1 /\ ~(i =< j - a + m)
      BY <1>0, <2>0, <2>4
    <3>2. g[i] = z[k]
      BY <2>1, <3>1
    <3> HIDE DEF k
    <3>3. z[k] = v[j + m + k - 1]
      BY <1>2, <3>1
    <3> QED
      BY <2>0, <3>1, <3>2, <3>3
  <2>5. i =< j - a \/ (j - a < i /\ i =< j - a + m) \/ j - a + m < i
    BY <1>0, <2>0
  <2> QED
    BY <2>2, <2>3, <2>4, <2>5
<1>11. g = w
  <2>1. g \in Seq(C) /\ Len(g) = n - a + 1
    BY <1>7, <1>9
  <2> QED
    BY <1>3, <1>10, <2>1, SeqEqual
<1> QED
  BY <1>11 DEF Glued, g, x, z, w, m, n

LEMMA JoinedLast ==
  ASSUME NEW C, NEW v \in Seq(C), NEW sep \in Seq(C), sep # <<>>, NEW at \in Search,
         Found(v, sep, at), Over(v, sep, at)
  PROVE  Joined(v, sep, C, at, <<SubSeq(v, at.start, Len(v))>>)
<1> DEFINE a == at.start
           n == Len(v)
           x == SubSeq(v, a, n)
<1>0. /\ a \in Nat \ {0} /\ n \in Int /\ n =< Len(v) /\ a =< n + 1 /\ at.j \in Nat
      /\ at.j + Len(sep) - 1 > n /\ Len(sep) \in Nat \ {0}
      /\ \A k \in a .. at.j - 1 : ~IsAt(v, sep, k)
  BY EmptySeq DEF Found, Search, Over
<1>1. x \in Seq(C)
  <2> HIDE DEF a, n
  <2> QED
    BY <1>0, SubSeqIn
<1>2. Free(x, sep)
  <2>1. ASSUME NEW k \in a .. n, k + Len(sep) - 1 =< n PROVE ~IsAt(v, sep, k)
    <3>1. k \in a .. at.j - 1
      BY <1>0, <2>1
    <3> QED
      BY <1>0, <3>1
  <2> HIDE DEF a, n
  <2> QED
    BY <1>0, <2>1, PartFree
<1> HIDE DEF x
<1>3. <<x>> \o <<>> = <<x>> /\ <<x>> \in Seq(Seq(C)) /\ <<>> \in Seq(Seq(C))
  BY <1>1
<1>4. Join(<<x>>, sep) = x
  BY <1>1, <1>3, JoinMore, ZenonT(30)
<1>5. DOMAIN <<x>> = {1} /\ <<x>>[1] = x /\ <<x>> # <<>>
  OBVIOUS
<1>6. Joined(v, sep, C, at, <<x>>)
  <2>1. Join(<<x>>, sep) = SubSeq(v, at.start, Len(v))
    BY <1>4 DEF x
  <2>2. \A k \in DOMAIN <<x>> : Free(<<x>>[k], sep)
    BY <1>2, <1>5
  <2> QED
    BY <1>3, <1>5, <2>1, <2>2 DEF Joined
<1> QED
  BY <1>6 DEF x

LEMMA JoinedFirst ==
  ASSUME NEW C, NEW v \in Seq(C), NEW sep \in Seq(C), sep # <<>>, NEW at \in Search,
         Found(v, sep, at), ~Over(v, sep, at), IsAt(v, sep, at.j),
         NEW t, Joined(v, sep, C, SkipSep(sep, at), t)
  PROVE  Joined(v, sep, C, at, <<SubSeq(v, at.start, at.j - 1)>> \o t)
<1> DEFINE a == at.start
           b == at.j - 1
           x == SubSeq(v, a, b)
           u == <<x>> \o t
<1>0. /\ a \in Nat \ {0} /\ b \in Int /\ b =< Len(v) /\ a =< b + 1 /\ at.j \in Nat
      /\ Len(sep) \in Nat \ {0} /\ at.j + Len(sep) - 1 =< Len(v) /\ a =< at.j
      /\ \A k \in a .. at.j - 1 : ~IsAt(v, sep, k)
  BY EmptySeq DEF Found, Search, Over
<1>1. x \in Seq(C)
  <2> HIDE DEF a, b
  <2> QED
    BY <1>0, SubSeqIn
<1>2. Free(x, sep)
  <2>1. \A k \in a .. b : k + Len(sep) - 1 =< b => ~IsAt(v, sep, k)
    BY <1>0
  <2> HIDE DEF a, b
  <2> QED
    BY <1>0, <2>1, PartFree
<1>3. /\ t \in Seq(Seq(C)) /\ t # <<>>
      /\ Join(t, sep) = SubSeq(v, at.j + Len(sep), Len(v))
      /\ \A k \in DOMAIN t : Free(t[k], sep)
  BY DEF Joined, SkipSep, At
<1>4. Join(u, sep) = SubSeq(v, a, Len(v))
  <2>1. Glued(SubSeq(v, a, at.j - 1), sep, SubSeq(v, at.j + Len(sep), Len(v))) = SubSeq(v, a, Len(v))
    <3> HIDE DEF a
    <3> QED
      BY <1>0, CutAt
  <2>2. Join(u, sep) = Glued(x, sep, Join(t, sep))
    <3> HIDE DEF x
    <3>1. /\ Join(t, sep) \in Seq(C)
          /\ Join(u, sep) = IF t = <<>> THEN x ELSE Glued(x, sep, Join(t, sep))
      <4>1. t \in Seq(Seq(C))
        BY <1>3
      <4> QED
        BY <1>1, <4>1, JoinMore
    <3> QED
      BY <1>3, <3>1
  <2> QED
    BY <1>3, <2>1, <2>2
<1> HIDE DEF x
<1>5. u \in Seq(Seq(C)) /\ u # <<>> /\ DOMAIN u = 1 .. Len(t) + 1 /\ u[1] = x
      /\ \A k \in DOMAIN t : u[k + 1] = t[k]
  BY <1>1, <1>3, SMTT(30)
<1>6. \A k \in DOMAIN u : Free(u[k], sep)
  <2> SUFFICES ASSUME NEW k \in DOMAIN u PROVE Free(u[k], sep)
    OBVIOUS
  <2>1. CASE k = 1
    BY <1>2, <1>5, <2>1
  <2>2. CASE k # 1
    <3>1. k - 1 \in DOMAIN t /\ (k - 1) + 1 = k
      BY <1>3, <1>5, <2>2
    <3> QED
      BY <1>3, <1>5, <3>1
  <2> QED
    BY <2>1, <2>2
<1> HIDE DEF u
<1>7. Joined(v, sep, C, at, u)
  BY <1>4, <1>5, <1>6 DEF Joined
<1> QED
  BY <1>7 DEF u, x

LEMMA TokensJoined ==
  ASSUME NEW C, NEW v \in Seq(C), NEW sep \in Seq(C), sep # <<>>
  PROVE  \A at \in Search : Found(v, sep, at) => Joined(v, sep, C, at, TokensOf(v, sep)[at])
<1> DEFINE t == TokensOf(v, sep)
           S == Searching(v, sep)
           nx == NextSearch(v, sep)
           M == ToSearch(v)
           N == Len(v) + 2
           Q == {at \in Search : Found(v, sep, at) => Joined(v, sep, C, at, t[at])}
<1>1. Descends(Search, S, nx, M, N)
  BY SearchDescends
<1>2. ASSUME NEW at \in Search, at \in S => nx[at] \in Q, Found(v, sep, at)
      PROVE  Joined(v, sep, C, at, t[at])
  <2>0. Len(sep) \in Nat \ {0} /\ Len(v) \in Nat /\ at.j \in Nat /\ at.start \in Nat
    BY EmptySeq DEF Search
  <2>1. t[at] = IF Over(v, sep, at) THEN <<SubSeq(v, at.start, Len(v))>>
                ELSE IF IsAt(v, sep, at.j)
                     THEN <<SubSeq(v, at.start, at.j - 1)>> \o t[SkipSep(sep, at)]
                ELSE t[At(at.j + 1, at.start)]
    BY TokensRecur
  <2> HIDE DEF t
  <2>2. CASE Over(v, sep, at)
    BY <1>2, <2>1, <2>2, JoinedLast
  <2>3. CASE ~Over(v, sep, at) /\ IsAt(v, sep, at.j)
    <3>1. nx[at] = SkipSep(sep, at) /\ at \in S
      BY <2>3 DEF NextSearch, Searching
    <3>2. Found(v, sep, SkipSep(sep, at))
      BY <1>2, <2>0, <2>3 DEF Found, SkipSep, At, Over
    <3>3. Joined(v, sep, C, SkipSep(sep, at), t[SkipSep(sep, at)])
      BY <1>2, <3>1, <3>2
    <3> QED
      BY <1>2, <2>1, <2>3, <3>3, JoinedFirst
  <2>4. CASE ~Over(v, sep, at) /\ ~IsAt(v, sep, at.j)
    <3> DEFINE nat == At(at.j + 1, at.start)
    <3>1. nx[at] = nat /\ at \in S
      BY <2>4 DEF NextSearch, Searching
    <3>2. nat.j = at.j + 1 /\ nat.start = at.start
      BY DEF At
    <3>3. Found(v, sep, nat)
      <4>1. /\ 1 =< at.start /\ at.start =< at.j /\ at.j + Len(sep) - 1 =< Len(v)
            /\ \A k \in at.start .. at.j - 1 : ~IsAt(v, sep, k)
        BY <1>2, <2>0, <2>4 DEF Found, Over
      <4> HIDE DEF nat
      <4>2. \A k \in nat.start .. nat.j - 1 : ~IsAt(v, sep, k)
        BY <2>0, <2>4, <3>2, <4>1
      <4> QED
        BY <2>0, <3>2, <4>1, <4>2 DEF Found
    <3>4. Joined(v, sep, C, nat, t[nat])
      BY <1>2, <3>1, <3>3
    <3>5. t[at] = t[nat]
      BY <2>1, <2>4
    <3> HIDE DEF nat
    <3> QED
      BY <3>2, <3>4, <3>5 DEF Joined
  <2> QED
    BY <2>2, <2>3, <2>4
<1>3. \A at \in Search : (at \in S => nx[at] \in Q) => at \in Q
  BY <1>2
<1> HIDE DEF Q, S, nx, M, N
<1>5. \A at \in Search : at \in Q
  BY <1>1, <1>3, RecursionInduction
<1> QED
  BY <1>5 DEF Q

\* The parts of one text at one separator.
LEMMA SplitJoins ==
  ASSUME NEW C, NEW v \in Seq(C), NEW sep \in Seq(C), sep # <<>>
  PROVE  LET parts == Split(v, sep)
         IN  /\ Join(parts, sep) = v
             /\ \A k \in DOMAIN parts : \A j \in 1 .. Len(parts[k]) - Len(sep) + 1 :
                  ~IsAt(parts[k], sep, j)
<1> DEFINE parts == Split(v, sep)
<1>0. parts = IF v = <<>> THEN <<>> ELSE TokensOf(v, sep)[At(1, 1)]
  BY SplitUnfolds
<1>1. CASE v = <<>>
  <2>1. parts = <<>> /\ <<>> \in Seq(Seq(C)) /\ Len(<<>>) = 0 /\ DOMAIN <<>> = {}
    BY <1>0, <1>1
  <2>2. Join(parts, sep) = JoinOf(parts, sep)[1]
    BY JoinUnfolds
  <2>3. JoinOf(<<>>, sep)[1] = <<>>
    <3> DEFINE e == <<>>
    <3>0. e \in Seq(Seq(C)) /\ Len(e) = 0 /\ 1 \in 1 .. Len(e) + 1 /\ 1 > Len(e)
      BY <2>1
    <3> HIDE DEF e
    <3>1. JoinOf(e, sep)[1] =
            IF 1 > Len(e) THEN <<>> ELSE IF 1 = Len(e) THEN e[1]
            ELSE Glued(e[1], sep, JoinOf(e, sep)[1 + 1])
      BY <3>0, JoinRecurs, ZenonT(30)
    <3> QED
      BY <3>0, <3>1 DEF e
  <2> QED
    BY <1>1, <2>1, <2>2, <2>3 DEF parts
<1>2. CASE v # <<>>
  <2>1. At(1, 1) \in Search
    BY DEF At, Search
  <2>2. Found(v, sep, At(1, 1))
    BY DEF At, Found
  <2>3. Joined(v, sep, C, At(1, 1), TokensOf(v, sep)[At(1, 1)])
    BY <2>1, <2>2, TokensJoined
  <2>4. parts = TokensOf(v, sep)[At(1, 1)]
    BY <1>0, <1>2
  <2>5. Joined(v, sep, C, At(1, 1), parts)
    BY <2>3, <2>4
  <2>6. SubSeq(v, At(1, 1).start, Len(v)) = v
    <3>1. At(1, 1).start = 1
      BY DEF At
    <3>2. SubSeq(v, 1, Len(v)) = v
      BY SubSeqFull
    <3> QED
      BY <3>1, <3>2
  <2> HIDE DEF parts
  <2>7. Join(parts, sep) = v /\ \A k \in DOMAIN parts : Free(parts[k], sep)
    BY <2>5, <2>6 DEF Joined
  <2> QED
    BY <2>7 DEF Free, parts
<1> QED
  BY <1>1, <1>2

\* What the client gives is made of the letters.
GivenTyped == given \in Seq(Letter) /\ value \in Least .. LongMax

LEMMA GivenIsTyped == GivenSpec => []GivenTyped
<1>1. GivenInit => GivenTyped
  BY SizesAre DEF GivenInit, GivenTyped, Least
<1>2. GivenTyped /\ [GivenNext]_givenVars => GivenTyped'
  <2> SUFFICES ASSUME GivenTyped, [GivenNext]_givenVars PROVE GivenTyped'
    OBVIOUS
  <2>1. CASE GiveNothing
    BY <2>1, SizesAre DEF GiveNothing, GivenTyped, Least
  <2>2. CASE GiveText
    BY <2>2 DEF GiveText, GivenTyped
  <2>3. CASE GiveNumber
    BY <2>3 DEF GiveNumber, GivenTyped
  <2>4. CASE UNCHANGED givenVars
    BY <2>4 DEF GivenTyped, givenVars
  <2> QED
    BY <2>1, <2>2, <2>3, <2>4 DEF GivenNext
<1> QED
  BY <1>1, <1>2, PTL DEF GivenSpec

\* For every text and every separator, the parts of sdssplitlen, joined by
\* sdsjoinsds, are the text, and the separator is in none of them.
THEOREM SplitsAndJoins == GivenSpec => []PartsJoinBack
<1>1. GivenTyped => PartsJoinBack
  <2> SUFFICES ASSUME GivenTyped PROVE PartsJoinBack
    OBVIOUS
  <2> SUFFICES ASSUME NEW sep \in Separators
               PROVE  LET parts == Split(given, sep)
                      IN  /\ Join(parts, sep) = given
                          /\ \A k \in DOMAIN parts : \A j \in 1 .. Len(parts[k]) - Len(sep) + 1 :
                               ~IsAt(parts[k], sep, j)
    BY Zenon DEF PartsJoinBack
  <2>1. given \in Seq(Letter) /\ sep \in Seq(Letter) /\ sep # <<>>
    BY TextAssumption DEF GivenTyped
  <2> QED
    BY <2>1, SplitJoins
<1> QED
  BY <1>1, GivenIsTyped, PTL

-----------------------------------------------------------------------------
(* sdsfromlonglong.                                                        *)

\* The digits.
Digit == {Digits[n + 1] : n \in 0 .. 9}

LEMMA DigitsAre ==
  ASSUME NEW n \in 0 .. 9
  PROVE  Digits[n + 1] \in Digit /\ DigitValue(Digits[n + 1]) = n
<1>1. \A m \in 0 .. 9 : Digits[m + 1] = Digits[n + 1] => m = n
  <2> SUFFICES ASSUME NEW m \in 0 .. 9, Digits[m + 1] = Digits[n + 1] PROVE m = n
    OBVIOUS
  <2>1. m \in {0, 1, 2, 3, 4, 5, 6, 7, 8, 9} /\ n \in {0, 1, 2, 3, 4, 5, 6, 7, 8, 9}
    OBVIOUS
  <2> QED
    BY <2>1 DEF Digits
<1> QED
  BY <1>1 DEF Digit, DigitValue

\* The function of ReadNumber.
ReadOf(d) ==
  CHOOSE read : read = [k \in 0 .. Len(d) |->
      IF k = 0 THEN 0 ELSE 10 * read[k - 1] + DigitValue(d[k])]

LEMMA ReadUnfolds ==
  ASSUME NEW d
  PROVE  ReadNumber(d) = ReadOf(d)[Len(d)]
BY Zenon DEF ReadNumber, ReadOf

LEMMA ReadRecurs ==
  ASSUME NEW d \in Seq(Digit)
  PROVE  /\ ReadOf(d)[0] = 0
         /\ \A k \in 1 .. Len(d) : ReadOf(d)[k] = 10 * ReadOf(d)[k - 1] + DigitValue(d[k])
         /\ \A k \in 0 .. Len(d) : ReadOf(d)[k] \in Nat
<1> DEFINE n == Len(d)
           D == 0 .. n
           S == 1 .. n
           nx == [k \in D |-> k - 1]
           M == [k \in D |-> k]
           base == [k \in D |-> 0]
           step == [x \in D \X Nat |-> IF x[1] = 0 THEN 0 ELSE 10 * x[2] + DigitValue(d[x[1]])]
           Step(f, k) == IF k = 0 THEN 0 ELSE 10 * f[k - 1] + DigitValue(d[k])
<1>0. n \in Nat /\ \A k \in S : DigitValue(d[k]) \in 0 .. 9
  <2>1. ASSUME NEW k \in S PROVE DigitValue(d[k]) \in 0 .. 9
    <3>1. PICK m \in 0 .. 9 : d[k] = Digits[m + 1]
      BY DEF Digit
    <3> QED
      BY <3>1, DigitsAre
  <2> QED
    BY <2>1
<1>1. Descends(D, S, nx, M, n)
  <2> HIDE DEF n
  <2> QED
    BY <1>0 DEF Descends
<1>2. step \in [D \X Nat -> Nat]
  <2>1. ASSUME NEW x \in D \X Nat
        PROVE  (IF x[1] = 0 THEN 0 ELSE 10 * x[2] + DigitValue(d[x[1]])) \in Nat
    <3>1. x[1] \in D /\ x[2] \in Nat
      OBVIOUS
    <3>2. x[1] # 0 => DigitValue(d[x[1]]) \in 0 .. 9
      BY <1>0, <3>1, SMTT(30)
    <3> HIDE DEF n
    <3> QED
      BY <3>1, <3>2
  <2> QED
    BY <2>1
<1>3. PICK f \in [D -> Nat] : Recurs(f, D, S, nx, base, step)
  <2>1. base \in [D -> Nat]
    OBVIOUS
  <2> HIDE DEF D, S, nx, M, n, base, step
  <2> QED
    BY <1>1, <1>2, <2>1, RecursionExists
<1>4. ASSUME NEW k \in D PROVE f[k] = Step(f, k)
  <2>1. f[k] = IF k \in S THEN step[<<k, f[nx[k]]>>] ELSE base[k]
    BY <1>3 DEF Recurs
  <2>2. CASE k = 0
    BY <1>0, <2>1, <2>2
  <2>3. CASE k # 0
    <3>1. k \in S /\ nx[k] = k - 1 /\ k - 1 \in D
      BY <1>0, <2>3
    <3>2. <<k, f[k - 1]>> \in D \X Nat
      BY <3>1
    <3>3. step[<<k, f[k - 1]>>] = 10 * f[k - 1] + DigitValue(d[k])
      BY <2>3, <3>2
    <3>4. f[k] = step[<<k, f[k - 1]>>]
      <4> HIDE DEF step, D, S, base, nx
      <4> QED
        BY <2>1, <3>1
    <3> QED
      BY <2>3, <3>3, <3>4
  <2> QED
    BY <2>2, <2>3
<1>5. f = [k \in D |-> Step(f, k)]
  <2> HIDE DEF Step, D
  <2> QED
    BY <1>4
<1> DEFINE g == ReadOf(d)
<1>6. g = [k \in D |-> Step(g, k)]
  BY <1>5, Zenon DEF ReadOf
<1> HIDE DEF g
<1>7. \A k \in D : g[k] = Step(g, k)
  <2> HIDE DEF Step, D
  <2> QED
    BY <1>6
<1>8. \A k \in D : g[k] \in Nat
  <2> DEFINE Q == {k \in D : g[k] \in Nat}
  <2>1. ASSUME NEW k \in D, k \in S => nx[k] \in Q PROVE k \in Q
    <3>1. CASE k = 0
      BY <1>7, <3>1
    <3>2. CASE k # 0
      <4>1. k \in S /\ nx[k] = k - 1
        BY <1>0, <3>2
      <4>2. g[k - 1] \in Nat /\ DigitValue(d[k]) \in 0 .. 9
        BY <1>0, <2>1, <4>1
      <4>3. g[k] = 10 * g[k - 1] + DigitValue(d[k])
        BY <1>7, <3>2
      <4>4. 10 * g[k - 1] + DigitValue(d[k]) \in Nat
        <5> DEFINE r == g[k - 1]
                   x == DigitValue(d[k])
        <5>1. r \in Nat /\ x \in 0 .. 9
          BY <4>2
        <5> HIDE DEF r, x
        <5> QED
          BY <5>1, SMTT(30) DEF r, x
      <4>5. g[k] \in Nat
        BY <4>3, <4>4
      <4> QED
        BY <4>5
    <3> QED
      BY <3>1, <3>2
  <2> HIDE DEF Q, D, S, nx, M, n
  <2>2. \A k \in D : k \in Q
    BY <1>1, <2>1, RecursionInduction
  <2> QED
    BY <2>2 DEF Q
<1>9. g[0] = 0
  BY <1>0, <1>7
<1>10. \A k \in 1 .. n : g[k] = 10 * g[k - 1] + DigitValue(d[k])
  <2> SUFFICES ASSUME NEW k \in 1 .. n PROVE g[k] = 10 * g[k - 1] + DigitValue(d[k])
    OBVIOUS
  <2>1. k \in D /\ k # 0
    BY <1>0
  <2> HIDE DEF D
  <2> QED
    BY <1>7, <2>1
<1> QED
  BY <1>8, <1>9, <1>10 DEF g

\* One more digit at the end.
LEMMA ReadMore ==
  ASSUME NEW d \in Seq(Digit), NEW c \in Digit
  PROVE  /\ ReadNumber(<<c>>) = DigitValue(c)
         /\ ReadNumber(Append(d, c)) = 10 * ReadNumber(d) + DigitValue(c)
         /\ ReadNumber(d) \in Nat
<1> DEFINE e == Append(d, c)
           n == Len(d)
           G == {k \in 0 .. n : ReadOf(e)[k] = ReadOf(d)[k]}
<1>0. n \in Nat /\ e \in Seq(Digit) /\ Len(e) = n + 1 /\ e[n + 1] = c /\ \A k \in 1 .. n : e[k] = d[k]
  OBVIOUS
<1>1. /\ ReadOf(e)[0] = 0
      /\ \A k \in 1 .. n + 1 : ReadOf(e)[k] = 10 * ReadOf(e)[k - 1] + DigitValue(e[k])
  <2> HIDE DEF e
  <2>1. /\ ReadOf(e)[0] = 0
        /\ \A k \in 1 .. Len(e) : ReadOf(e)[k] = 10 * ReadOf(e)[k - 1] + DigitValue(e[k])
    BY <1>0, ReadRecurs
  <2> QED
    BY <1>0, <2>1
<1>2. /\ ReadOf(d)[0] = 0
      /\ \A k \in 1 .. n : ReadOf(d)[k] = 10 * ReadOf(d)[k - 1] + DigitValue(d[k])
      /\ \A k \in 0 .. n : ReadOf(d)[k] \in Nat
  BY ReadRecurs
<1> HIDE DEF e, n
<1>3. n \in G
  <2>1. 0 \in G
    BY <1>0, <1>1, <1>2
  <2>2. ASSUME NEW k \in G, k < n PROVE k + 1 \in G
    <3> DEFINE j == k + 1
    <3>1. j \in 1 .. n /\ j \in 1 .. n + 1 /\ j - 1 = k /\ j \in 0 .. n
      BY <1>0, <2>2
    <3> HIDE DEF j
    <3>2. ReadOf(e)[k] = ReadOf(d)[k] /\ e[j] = d[j]
      BY <1>0, <3>1
    <3>3. ReadOf(e)[j] = 10 * ReadOf(e)[k] + DigitValue(e[j])
      BY <1>1, <3>1
    <3>4. ReadOf(d)[j] = 10 * ReadOf(d)[k] + DigitValue(d[j])
      BY <1>2, <3>1
    <3>5. j \in G
      BY <3>1, <3>2, <3>3, <3>4
    <3> QED
      BY <3>5 DEF j
  <2>3. G \in SUBSET (0 .. n)
    OBVIOUS
  <2> HIDE DEF G
  <2> QED
    BY <1>0, <2>1, <2>2, <2>3, UpTo
<1>4. ReadOf(e)[n + 1] = 10 * ReadOf(d)[n] + DigitValue(c)
  <2>1. n + 1 \in 1 .. n + 1 /\ (n + 1) - 1 = n
    BY <1>0
  <2> QED
    BY <1>0, <1>1, <1>3, <2>1
<1>5. ReadNumber(e) = ReadOf(e)[n + 1] /\ ReadNumber(d) = ReadOf(d)[n]
  <2>1. ReadNumber(e) = ReadOf(e)[Len(e)] /\ ReadNumber(d) = ReadOf(d)[Len(d)]
    BY ReadUnfolds
  <2> QED
    BY <1>0, <2>1 DEF n
<1>6. ReadNumber(<<c>>) = DigitValue(c)
  <2> DEFINE o == <<c>>
  <2>1. o \in Seq(Digit) /\ Len(o) = 1 /\ o[1] = c
    OBVIOUS
  <2>2. ReadNumber(o) = ReadOf(o)[Len(o)]
    BY ReadUnfolds
  <2> HIDE DEF o
  <2>3. ReadOf(o)[0] = 0 /\ ReadOf(o)[1] = 10 * ReadOf(o)[1 - 1] + DigitValue(o[1])
    BY <2>1, ReadRecurs
  <2>4. DigitValue(c) \in Int
    <3>1. PICK m \in 0 .. 9 : c = Digits[m + 1]
      BY DEF Digit
    <3> QED
      BY <3>1, DigitsAre
  <2>5. ReadNumber(o) = DigitValue(c)
    BY <2>1, <2>2, <2>3, <2>4
  <2> QED
    BY <2>5 DEF o
<1>7. ReadNumber(d) \in Nat
  BY <1>0, <1>2, <1>5
<1> QED
  BY <1>4, <1>5, <1>6, <1>7 DEF e

\* The function of Decimal.
DigitsOf(v) ==
  CHOOSE digits : digits = [n \in 0 .. v |->
      IF n < 10 THEN <<Digits[n + 1]>>
      ELSE Append(digits[n \div 10], Digits[(n % 10) + 1])]

LEMMA DecimalUnfolds ==
  ASSUME NEW v
  PROVE  Decimal(v) = DigitsOf(v)[v]
BY Zenon DEF Decimal, DigitsOf

LEMMA Tens ==
  ASSUME NEW n \in Nat
  PROVE  /\ n \div 10 \in Nat /\ n % 10 \in 0 .. 9 /\ n = 10 * (n \div 10) + (n % 10)
         /\ n >= 10 => n \div 10 < n
<1>1. n \div 10 \in Nat
  OBVIOUS
<1>2. n % 10 \in 0 .. 9
  OBVIOUS
<1>3. n = 10 * (n \div 10) + (n % 10)
  OBVIOUS
<1>4. n >= 10 => n \div 10 < n
  OBVIOUS
<1> QED
  BY <1>1, <1>2, <1>3, <1>4

LEMMA AppendedTo ==
  ASSUME NEW C, NEW s \in Seq(C), NEW c \in C
  PROVE  Append(s, c) # <<>>
<1>1. Len(Append(s, c)) = Len(s) + 1 /\ Len(s) \in Nat
  OBVIOUS
<1>2. Len(<<>>) = 0
  OBVIOUS
<1> QED
  BY <1>1, <1>2

\* What the digits of a number are read as.
LEMMA DecimalReads ==
  ASSUME NEW v \in Nat
  PROVE  Decimal(v) \in Seq(Digit) /\ IsDecimal(Decimal(v), v)
<1> DEFINE D == 0 .. v
           S == 10 .. v
           nx == [n \in D |-> n \div 10]
           M == [n \in D |-> n]
           V == Seq(Digit)
           base == [n \in D |-> IF n < 10 THEN <<Digits[n + 1]>> ELSE <<>>]
           step == [x \in D \X V |-> Append(x[2], Digits[(x[1] % 10) + 1])]
           Step(f, n) == IF n < 10 THEN <<Digits[n + 1]>>
                         ELSE Append(f[n \div 10], Digits[(n % 10) + 1])
           g == DigitsOf(v)
<1>1. Descends(D, S, nx, M, v)
  <2>1. \A n \in S : n \in D /\ nx[n] \in D /\ M[nx[n]] < M[n]
    <3> SUFFICES ASSUME NEW n \in S PROVE n \in D /\ nx[n] \in D /\ M[nx[n]] < M[n]
      OBVIOUS
    <3>1. n \in Nat /\ n \in D /\ n >= 10
      OBVIOUS
    <3>2. n \div 10 \in Nat /\ n \div 10 < n
      BY <3>1, Tens
    <3>3. n \div 10 \in D
      BY <3>1, <3>2
    <3> QED
      BY <3>1, <3>2, <3>3
  <2>2. \A n \in D : M[n] \in 0 .. v
    OBVIOUS
  <2> HIDE DEF nx, M
  <2> QED
    BY <2>1, <2>2 DEF Descends
<1>2. base \in [D -> V] /\ step \in [D \X V -> V]
  <2>1. ASSUME NEW n \in D PROVE (IF n < 10 THEN <<Digits[n + 1]>> ELSE <<>>) \in V
    <3>1. n < 10 => Digits[n + 1] \in Digit
      BY DigitsAre
    <3> HIDE DEF D
    <3> QED
      BY <3>1
  <2>2. ASSUME NEW x \in D \X V PROVE Append(x[2], Digits[(x[1] % 10) + 1]) \in V
    <3>1. x[1] \in Nat /\ x[2] \in V
      OBVIOUS
    <3>2. x[1] % 10 \in 0 .. 9
      BY <3>1, Tens
    <3>3. Digits[(x[1] % 10) + 1] \in Digit
      BY <3>2, DigitsAre
    <3> QED
      BY <3>1, <3>3
  <2> HIDE DEF V
  <2> QED
    BY <2>1, <2>2
<1>3. PICK f \in [D -> V] : Recurs(f, D, S, nx, base, step)
  <2> HIDE DEF D, S, nx, M, V, base, step
  <2> QED
    BY <1>1, <1>2, RecursionExists
<1>4. ASSUME NEW n \in D PROVE f[n] = Step(f, n)
  <2>1. f[n] = IF n \in S THEN step[<<n, f[nx[n]]>>] ELSE base[n]
    BY <1>3 DEF Recurs
  <2>2. CASE n < 10
    BY <2>1, <2>2
  <2>3. CASE n >= 10
    <3>1. n \in S /\ nx[n] \in D
      BY <1>1, <2>3 DEF Descends
    <3>2. <<n, f[nx[n]]>> \in D \X V
      BY <3>1
    <3>3. step[<<n, f[nx[n]]>>] = Append(f[nx[n]], Digits[(n % 10) + 1])
      BY <3>2
    <3>4. f[n] = step[<<n, f[nx[n]]>>]
      <4> HIDE DEF step, D, S, base, nx
      <4> QED
        BY <2>1, <3>1
    <3>5. nx[n] = n \div 10
      OBVIOUS
    <3>6. ~(n < 10)
      BY <2>3
    <3> QED
      BY <3>3, <3>4, <3>5, <3>6
  <2> QED
    BY <2>2, <2>3
<1>5. f = [n \in D |-> Step(f, n)]
  <2> HIDE DEF Step, D, V
  <2> QED
    BY <1>4
<1>6. g = [n \in D |-> Step(g, n)]
  BY <1>5, Zenon DEF DigitsOf
<1> HIDE DEF g
<1>7. \A n \in D : g[n] = Step(g, n)
  <2> HIDE DEF Step, D
  <2> QED
    BY <1>6
<1>8. \A n \in D : g[n] \in V /\ g[n] # <<>> /\ ReadNumber(g[n]) = n
  <2> DEFINE Q == {n \in D : g[n] \in V /\ g[n] # <<>> /\ ReadNumber(g[n]) = n}
  <2>1. ASSUME NEW n \in D, n \in S => nx[n] \in Q PROVE n \in Q
    <3>1. CASE n < 10
      <4>1. g[n] = <<Digits[n + 1]>>
        BY <1>7, <3>1
      <4>2. Digits[n + 1] \in Digit /\ DigitValue(Digits[n + 1]) = n
        <5>1. n \in 0 .. 9
          BY <3>1
        <5> QED
          BY <5>1, DigitsAre
      <4>3. <<>> \in Seq(Digit)
        OBVIOUS
      <4>4. ReadNumber(<<Digits[n + 1]>>) = n
        BY <4>2, <4>3, ReadMore
      <4>5. ReadNumber(g[n]) = n /\ g[n] \in V /\ g[n] # <<>>
        BY <4>1, <4>2, <4>4
      <4> HIDE DEF V, D
      <4> QED
        BY <4>5
    <3>2. CASE n >= 10
      <4> DEFINE q == n \div 10
                 r == n % 10
      <4>0. n \in Nat
        OBVIOUS
      <4>1. q \in Nat /\ r \in 0 .. 9 /\ n = 10 * q + r
        BY <4>0, Tens
      <4>2. n \in S /\ nx[n] = q
        BY <3>2
      <4>3. g[q] \in V /\ ReadNumber(g[q]) = q
        BY <2>1, <4>2
      <4>4. g[n] = Append(g[q], Digits[r + 1])
        <5>1. ~(n < 10)
          BY <3>2
        <5>2. g[n] = Step(g, n)
          BY <1>7
        <5> QED
          BY <5>1, <5>2
      <4> HIDE DEF q, r
      <4>5. Digits[r + 1] \in Digit /\ DigitValue(Digits[r + 1]) = r
        BY <4>1, DigitsAre
      <4>6. ReadNumber(Append(g[q], Digits[r + 1])) = 10 * q + r
        BY <4>3, <4>5, ReadMore
      <4>7. ReadNumber(g[n]) = n
        BY <4>1, <4>4, <4>6
      <4>8. g[n] \in V
        BY <4>3, <4>4, <4>5
      <4>9. g[n] # <<>>
        <5>1. Append(g[q], Digits[r + 1]) # <<>>
          BY <4>3, <4>5, AppendedTo
        <5> QED
          BY <4>4, <5>1
      <4> HIDE DEF V, D
      <4> QED
        BY <4>7, <4>8, <4>9
    <3> QED
      BY <3>1, <3>2
  <2> HIDE DEF Q, D, S, nx, M
  <2>2. \A n \in D : n \in Q
    BY <1>1, <2>1, RecursionInduction
  <2> QED
    BY <2>2 DEF Q
<1>9. v \in D
  OBVIOUS
<1> QED
  BY <1>8, <1>9, DecimalUnfolds DEF g, IsDecimal

\* The sign in front of digits.
LEMMA Signed ==
  ASSUME NEW d \in Seq(Digit)
  PROVE  (<<"-">> \o d)[1] = "-" /\ Tail(<<"-">> \o d) = d
<1> DEFINE e == <<"-">> \o d
<1>1. <<"-">> \in Seq(Digit \cup {"-"}) /\ d \in Seq(Digit \cup {"-"})
  OBVIOUS
<1>2. e \in Seq(Digit \cup {"-"}) /\ Len(e) = Len(d) + 1 /\ e[1] = "-"
      /\ \A i \in 1 .. Len(d) : e[i + 1] = d[i]
  BY <1>1
<1> HIDE DEF e
<1>3. Tail(e) \in Seq(Digit \cup {"-"}) /\ Len(Tail(e)) = Len(d)
      /\ \A i \in 1 .. Len(d) : Tail(e)[i] = e[i + 1]
  BY <1>1, <1>2
<1>4. Tail(e) = d
  BY <1>1, <1>2, <1>3, SeqEqual
<1> QED
  BY <1>2, <1>4 DEF e

LEMMA FromLongLongReads ==
  ASSUME NEW n \in Least .. LongMax, n # Least, NEW d \in FromLongLong(n)
  PROVE  IF n < 0 THEN d[1] = "-" /\ IsDecimal(Tail(d), -n) ELSE IsDecimal(d, n)
<1>0. LongMax \in Nat /\ n \in Int
  BY SizesAre DEF Least
<1>1. PICK v \in Magnitudes(n) : d = (IF n < 0 THEN <<"-">> ELSE <<>>) \o Decimal(v)
  BY DEF FromLongLong
<1>2. CASE n < 0
  <2>1. v = -n
    BY <1>2 DEF Magnitudes
  <2>2. v \in Nat
    BY <1>0, <1>2, <2>1
  <2>3. Decimal(v) \in Seq(Digit) /\ IsDecimal(Decimal(v), v)
    BY <2>2, DecimalReads
  <2>4. d = <<"-">> \o Decimal(v)
    BY <1>1, <1>2
  <2>5. d[1] = "-" /\ Tail(d) = Decimal(v)
    BY <2>3, <2>4, Signed
  <2> QED
    BY <1>2, <2>1, <2>3, <2>5
<1>3. CASE ~(n < 0)
  <2>1. v = n
    BY <1>3 DEF Magnitudes
  <2>2. v \in Nat
    BY <1>0, <1>3, <2>1
  <2>3. Decimal(v) \in Seq(Digit) /\ IsDecimal(Decimal(v), v)
    BY <2>2, DecimalReads
  <2>4. <<>> \o Decimal(v) = Decimal(v)
    BY <2>3, ConcatEmptySeq
  <2>5. d = Decimal(v)
    BY <1>1, <1>3, <2>4
  <2> QED
    BY <1>3, <2>1, <2>3, <2>5
<1> QED
  BY <1>2, <1>3

-----------------------------------------------------------------------------
(* sdscatvprintf.                                                          *)

\* The length strlen finds in a sequence.
LEMMA CLengthIs ==
  ASSUME NEW C, NEW v \in Seq(C)
  PROVE  /\ CLength(v) \in 0 .. Len(v)
         /\ CLength(v) = Len(v) \/ v[CLength(v) + 1] = Nul
         /\ \A n \in 0 .. Len(v) : (n = Len(v) \/ v[n + 1] = Nul) => CLength(v) =< n
<1> DEFINE T == {n \in 0 .. Len(v) : n = Len(v) \/ v[n + 1] = Nul}
<1>1. T \in SUBSET Nat /\ Len(v) \in T
  OBVIOUS
<1>2. CLength(v) \in T /\ \A n \in T : CLength(v) =< n
  <2>1. CLength(v) = Min(T)
    BY DEF CLength
  <2> HIDE DEF T
  <2> QED
    BY <1>1, <2>1, MinExists
<1> QED
  BY <1>2

\* What comes after the first NUL does not matter.
LEMMA CStringCut ==
  ASSUME NEW C, NEW t \in Seq(C), NEW k \in 1 .. Len(t), t[k] = Nul
  PROVE  CString(SubSeq(t, 1, k)) = CString(t)
<1> DEFINE u == SubSeq(t, 1, k)
           c == CLength(t)
           m == CLength(u)
<1>0. Len(t) \in Nat /\ k \in Nat /\ k =< Len(t) /\ 1 =< k
  OBVIOUS
<1>1. u \in Seq(C) /\ Len(u) = k /\ \A i \in 1 .. k : u[i] = t[i]
  OBVIOUS
<1>2. /\ c \in 0 .. Len(t) /\ (c = Len(t) \/ t[c + 1] = Nul)
      /\ \A n \in 0 .. Len(t) : (n = Len(t) \/ t[n + 1] = Nul) => c =< n
  BY CLengthIs
<1>3. /\ m \in 0 .. k /\ (m = k \/ u[m + 1] = Nul)
      /\ \A n \in 0 .. k : (n = k \/ u[n + 1] = Nul) => m =< n
  <2> HIDE DEF u
  <2>1. /\ m \in 0 .. Len(u) /\ (m = Len(u) \/ u[m + 1] = Nul)
        /\ \A n \in 0 .. Len(u) : (n = Len(u) \/ u[n + 1] = Nul) => m =< n
    BY <1>1, CLengthIs
  <2> QED
    BY <1>1, <2>1
<1> HIDE DEF u, c, m
<1>4. c =< k - 1
  <2>1. k - 1 \in 0 .. Len(t) /\ (k - 1) + 1 = k
    BY <1>0
  <2> QED
    BY <1>2, <2>1
<1>5. m =< c
  <2>1. c \in 0 .. k /\ c + 1 \in 1 .. k /\ c # Len(t)
    BY <1>0, <1>2, <1>4
  <2>2. u[c + 1] = Nul
    BY <1>1, <1>2, <2>1
  <2> QED
    BY <1>3, <2>1, <2>2
<1>6. c =< m
  <2>1. m + 1 \in 1 .. k /\ m # k /\ m \in 0 .. Len(t)
    BY <1>0, <1>2, <1>3, <1>4, <1>5
  <2>2. t[m + 1] = Nul
    BY <1>1, <1>3, <2>1
  <2> QED
    BY <1>2, <2>1, <2>2
<1>7. m = c
  BY <1>2, <1>3, <1>5, <1>6
<1>8. SubSeq(u, 1, c) = SubSeq(t, 1, c)
  <2>1. c \in Int /\ c =< Len(u) /\ c =< Len(t) /\ 1 =< c + 1 /\ 1 \in Nat \ {0}
    BY <1>0, <1>1, <1>2, <1>4
  <2>2. /\ SubSeq(u, 1, c) \in Seq(C) /\ Len(SubSeq(u, 1, c)) = c - 1 + 1
        /\ \A i \in 1 .. c - 1 + 1 : SubSeq(u, 1, c)[i] = u[1 + i - 1]
    BY <1>1, <2>1, SubSeqIn
  <2>3. /\ SubSeq(t, 1, c) \in Seq(C) /\ Len(SubSeq(t, 1, c)) = c - 1 + 1
        /\ \A i \in 1 .. c - 1 + 1 : SubSeq(t, 1, c)[i] = t[1 + i - 1]
    BY <2>1, SubSeqIn
  <2>4. \A i \in 1 .. c - 1 + 1 : u[1 + i - 1] = t[1 + i - 1]
    BY <1>0, <1>1, <1>2, <1>4
  <2>5. \A i \in 1 .. Len(SubSeq(u, 1, c)) : SubSeq(u, 1, c)[i] = SubSeq(t, 1, c)[i]
    BY <2>2, <2>3, <2>4
  <2> QED
    BY <2>2, <2>3, <2>5, SeqEqual
<1> QED
  BY <1>7, <1>8 DEF CString, u, c, m

\* What the first buffer that is large enough holds.
LEMMA InBufferWhole ==
  ASSUME NEW C, NEW t \in Seq(C), NEW n \in Nat, n >= 2, Probe(t, n) = Nul
  PROVE  CString(InBuffer(t, n)) = CString(t)
<1> DEFINE T == {Len(t), n - 1}
<1>0. Len(t) \in Nat /\ DOMAIN t = 1 .. Len(t) /\ T \in SUBSET Int
  OBVIOUS
<1>1. CASE n - 1 =< Len(t)
  <2>1. n - 1 \in T /\ \A y \in T : n - 1 =< y
    BY <1>0, <1>1
  <2>2. Min(T) = n - 1
    <3> HIDE DEF T
    <3> QED
      BY <1>0, <2>1, MinIs
  <2>3. InBuffer(t, n) = SubSeq(t, 1, n - 1)
    BY <2>2 DEF InBuffer
  <2> DEFINE k == n - 1
  <2>4. k \in 1 .. Len(t) /\ k \in DOMAIN t
    BY <1>0, <1>1
  <2>5. t[k] = Nul
    BY <2>4 DEF Probe
  <2> HIDE DEF k
  <2>6. CString(SubSeq(t, 1, k)) = CString(t)
    BY <2>4, <2>5, CStringCut
  <2> QED
    BY <2>3, <2>6 DEF k
<1>2. CASE ~(n - 1 =< Len(t))
  <2>1. Len(t) \in T /\ \A y \in T : Len(t) =< y
    BY <1>0, <1>2
  <2>2. Min(T) = Len(t)
    <3> HIDE DEF T
    <3> QED
      BY <1>0, <2>1, MinIs
  <2>3. InBuffer(t, n) = SubSeq(t, 1, Len(t))
    BY <2>2 DEF InBuffer
  <2>4. InBuffer(t, n) = t
    BY <2>3, SubSeqFull
  <2> QED
    BY <2>4
<1> QED
  BY <1>1, <1>2

\* The function of Printed.
TryOf(t) ==
  CHOOSE try : try = [n \in Nat |->
      IF Probe(t, n) # Nul THEN try[2 * n] ELSE CString(InBuffer(t, n))]

LEMMA PrintedUnfolds ==
  ASSUME NEW t
  PROVE  Printed(t) = TryOf(t)[FirstBuffer]
BY Zenon DEF Printed, TryOf

\* The buffer doubles until what the format makes fits.
LEMMA PrintedWhole ==
  ASSUME NEW C, NEW t \in Seq(C)
  PROVE  Printed(t) = CString(t)
<1> DEFINE L == Len(t)
           S == {n \in Nat : Probe(t, n) # Nul}
           nx == [n \in Nat |-> 2 * n]
           M == [n \in Nat |-> IF n =< L + 1 THEN L + 2 - n ELSE 0]
           N == L + 2
           V == {CString(InBuffer(t, n)) : n \in Nat}
           base == [n \in Nat |-> CString(InBuffer(t, n))]
           step == [x \in Nat \X V |-> x[2]]
           Step(f, n) == IF Probe(t, n) # Nul THEN f[2 * n] ELSE CString(InBuffer(t, n))
           g == TryOf(t)
<1>0. L \in Nat /\ DOMAIN t = 1 .. L
  OBVIOUS
<1>1. Descends(Nat, S, nx, M, N)
  <2>1. ASSUME NEW n \in S PROVE n \in Nat /\ nx[n] \in Nat /\ M[nx[n]] < M[n]
    <3>1. n - 1 \in 1 .. L
      BY <1>0 DEF Probe
    <3> HIDE DEF L
    <3>2. n \in Nat /\ nx[n] = 2 * n /\ 2 * n \in Nat
      OBVIOUS
    <3>3. M[n] = L + 2 - n
      BY <1>0, <3>1, <3>2
    <3>4. M[2 * n] = IF 2 * n =< L + 1 THEN L + 2 - 2 * n ELSE 0
      BY <3>2
    <3> HIDE DEF M, nx
    <3> QED
      BY <1>0, <3>1, <3>2, <3>3, <3>4
  <2>2. \A n \in Nat : M[n] \in 0 .. N
    <3> HIDE DEF L
    <3> QED
      BY <1>0
  <2>3. N \in Nat /\ S \subseteq Nat
    BY <1>0
  <2> HIDE DEF S, nx, M, N
  <2> QED
    BY <2>1, <2>2, <2>3 DEF Descends
<1>2. base \in [Nat -> V] /\ step \in [Nat \X V -> V]
  OBVIOUS
<1>3. PICK f \in [Nat -> V] : Recurs(f, Nat, S, nx, base, step)
  <2> HIDE DEF S, nx, M, N, V, base, step
  <2> QED
    BY <1>1, <1>2, RecursionExists
<1>4. ASSUME NEW n \in Nat PROVE f[n] = Step(f, n)
  <2>1. f[n] = IF n \in S THEN step[<<n, f[nx[n]]>>] ELSE base[n]
    BY <1>3 DEF Recurs
  <2>2. nx[n] = 2 * n /\ 2 * n \in Nat
    OBVIOUS
  <2>3. step[<<n, f[2 * n]>>] = f[2 * n]
    <3> HIDE DEF V
    <3>1. <<n, f[2 * n]>> \in Nat \X V
      BY <2>2
    <3> QED
      BY <3>1
  <2>4. base[n] = CString(InBuffer(t, n))
    OBVIOUS
  <2> HIDE DEF step, base, nx
  <2> QED
    BY <2>1, <2>2, <2>3, <2>4
<1>5. f = [n \in Nat |-> Step(f, n)]
  <2> HIDE DEF Step, V
  <2> QED
    BY <1>4
<1>6. g = [n \in Nat |-> Step(g, n)]
  BY <1>5, Zenon DEF TryOf
<1> HIDE DEF g
<1>7. \A n \in Nat : g[n] = Step(g, n)
  <2> HIDE DEF Step
  <2> QED
    BY <1>6
<1>8. \A n \in Nat : n >= 2 => g[n] = CString(t)
  <2> DEFINE Q == {n \in Nat : n >= 2 => g[n] = CString(t)}
  <2>1. ASSUME NEW n \in Nat, n \in S => nx[n] \in Q PROVE n \in Q
    <3> SUFFICES ASSUME n >= 2 PROVE g[n] = CString(t)
      OBVIOUS
    <3>1. CASE Probe(t, n) # Nul
      <4>1. nx[n] \in Q /\ nx[n] = 2 * n /\ 2 * n >= 2
        BY <2>1, <3>1
      <4>2. g[2 * n] = CString(t)
        BY <4>1
      <4>3. g[n] = g[2 * n]
        BY <1>7, <3>1
      <4> QED
        BY <4>2, <4>3
    <3>2. CASE Probe(t, n) = Nul
      <4>1. g[n] = CString(InBuffer(t, n))
        BY <1>7, <3>2
      <4>2. CString(InBuffer(t, n)) = CString(t)
        BY <3>2, InBufferWhole
      <4> QED
        BY <4>1, <4>2
    <3> QED
      BY <3>1, <3>2
  <2> HIDE DEF Q, S, nx, M, N
  <2>2. \A n \in Nat : n \in Q
    <3> DEFINE D == Nat
    <3>1. Descends(D, S, nx, M, N) /\ \A n \in D : (n \in S => nx[n] \in Q) => n \in Q
      BY <1>1, <2>1
    <3> HIDE DEF D
    <3>2. \A n \in D : n \in Q
      BY <3>1, RecursionInduction
    <3> QED
      BY <3>2 DEF D
  <2> QED
    BY <2>2 DEF Q
<1>9. FirstBuffer \in Nat /\ FirstBuffer >= 2
  BY SizesAre
<1> QED
  BY <1>8, <1>9, PrintedUnfolds DEF g

\* sdscatvprintf appends its whole text, up to a NUL, whatever its first
\* buffer, and sdsfromlonglong the digits of every long long but the least,
\* whose negation is undefined.
THEOREM WritesAll == GivenSpec => []WritesWhole
<1>1. GivenTyped => WritesWhole
  <2> SUFFICES ASSUME GivenTyped PROVE WritesWhole
    OBVIOUS
  <2>1. Printed(given) = CString(given)
    BY PrintedWhole DEF GivenTyped
  <2>2. value # Least => \A d \in FromLongLong(value) :
         IF value < 0 THEN d[1] = "-" /\ IsDecimal(Tail(d), -value)
         ELSE IsDecimal(d, value)
    BY FromLongLongReads DEF GivenTyped
  <2> QED
    BY <2>1, <2>2, Zenon DEF WritesWhole
<1> QED
  BY <1>1, GivenIsTyped, PTL

-----------------------------------------------------------------------------
(* sdscatrepr.                                                             *)

LEMMA OneIs ==
  ASSUME NEW C, NEW a \in C
  PROVE  <<a>> \in Seq(C) /\ Len(<<a>>) = 1 /\ <<a>>[1] = a
OBVIOUS

LEMMA TwoAre ==
  ASSUME NEW C, NEW a \in C, NEW b \in C
  PROVE  <<a, b>> \in Seq(C) /\ Len(<<a, b>>) = 2 /\ <<a, b>>[1] = a /\ <<a, b>>[2] = b
OBVIOUS

LEMMA FourIs ==
  ASSUME NEW C, NEW a \in C, NEW b \in C, NEW c \in C, NEW d \in C
  PROVE  LET s == <<a, b, c, d>>
         IN  s \in Seq(C) /\ Len(s) = 4 /\ s[1] = a /\ s[2] = b /\ s[3] = c /\ s[4] = d
OBVIOUS

LEMMA SymbolsAre ==
  /\ "\\" \in Symbol /\ "\"" \in Symbol /\ "x" \in Symbol /\ " " \in Symbol
  /\ <<"\"">> \in Seq(Symbol) /\ Len(<<"\"">>) = 1 /\ <<>> \in Seq(Symbol)
<1>1. "\\" \in Symbol /\ "\"" \in Symbol /\ "x" \in Symbol /\ " " \in Symbol
  BY TextAssumption
<1>2. <<"\"">> \in Seq(Symbol) /\ Len(<<"\"">>) = 1
  BY <1>1, OneIs, Zenon
<1>3. <<>> \in Seq(Symbol)
  OBVIOUS
<1> QED
  BY <1>1, <1>2, <1>3, Zenon

LEMMA FourAre ==
  ASSUME NEW a, NEW b, NEW c, NEW d
  PROVE  <<a, b>> \o <<c, d>> = <<a, b, c, d>>
<1> DEFINE C == {a, b, c, d}
           x == <<a, b>> \o <<c, d>>
           y == <<a, b, c, d>>
<1>1. <<a, b>> \in Seq(C) /\ <<c, d>> \in Seq(C) /\ y \in Seq(C) /\ Len(y) = 4
  <2>1. a \in C /\ b \in C /\ c \in C /\ d \in C
    OBVIOUS
  <2> HIDE DEF C
  <2> QED
    BY <2>1
<1>2. x \in Seq(C) /\ Len(x) = 4 /\ \A i \in 1 .. 4 : x[i] = IF i =< 2 THEN <<a, b>>[i] ELSE <<c, d>>[i - 2]
  <2>1. Len(<<a, b>>) = 2 /\ Len(<<c, d>>) = 2
    OBVIOUS
  <2> HIDE DEF C
  <2> QED
    BY <1>1, <2>1, ConcatProperties
<1>3. x[1] = a /\ x[2] = b /\ x[3] = c /\ x[4] = d
  <2> HIDE DEF x
  <2> QED
    BY <1>2
<1>4. \A i \in 1 .. 4 : x[i] = y[i]
  <2>1. y[1] = a /\ y[2] = b /\ y[3] = c /\ y[4] = d
    OBVIOUS
  <2>2. \A i \in 1 .. 4 : i = 1 \/ i = 2 \/ i = 3 \/ i = 4
    OBVIOUS
  <2> HIDE DEF x, y
  <2> QED
    BY <1>3, <2>1, <2>2
<1>5. x = y
  <2> HIDE DEF x, y, C
  <2> QED
    BY <1>1, <1>2, <1>4, SeqEqual
<1> QED
  BY <1>5

\* What a character is written as, and where the branches are.
LEMMA ReprCharIs ==
  ASSUME NEW c \in Letter
  PROVE  /\ c \in Symbol
         /\ \/ /\ c \in {"\\", "\""}
               /\ ReprChar(c) = <<"\\", c>>
            \/ /\ c \notin {"\\", "\""} /\ c \in DOMAIN Escape
               /\ ReprChar(c) = <<"\\", Escape[c]>>
            \/ /\ c \notin {"\\", "\""} /\ c \in Printable
               /\ ReprChar(c) = <<c>>
            \/ \E a, b \in Symbol : /\ <<a, b>> \in DOMAIN ByteOf /\ ByteOf[<<a, b>>] = c
                                    /\ ReprChar(c) = <<"\\", "x", a, b>>
<1>0. c \in Symbol
  BY TextAssumption
<1>1. CASE c \in {"\\", "\""}
  BY <1>0, <1>1 DEF ReprChar
<1>2. CASE c \notin {"\\", "\""} /\ c \in DOMAIN Escape
  <2>1. ReprChar(c) = <<"\\", Escape[c]>>
    BY <1>2 DEF ReprChar
  <2> QED
    BY <1>0, <1>2, <2>1
<1>3. CASE c \notin {"\\", "\""} /\ c \notin DOMAIN Escape /\ c \in Printable
  <2>1. ReprChar(c) = <<c>>
    BY <1>3 DEF ReprChar
  <2> QED
    BY <1>0, <1>3, <2>1
<1>4. CASE c \notin {"\\", "\""} /\ c \notin DOMAIN Escape /\ c \notin Printable
  <2> DEFINE g == CHOOSE h \in DOMAIN ByteOf : ByteOf[h] = c
  <2>1. \E h \in DOMAIN ByteOf : ByteOf[h] = c
    BY <1>4, TablesAssumption
  <2>2. g \in DOMAIN ByteOf /\ ByteOf[g] = c
    BY <2>1
  <2>3. ReprChar(c) = <<"\\", "x">> \o g
    BY <1>4 DEF ReprChar
  <2> HIDE DEF g
  <2>4. g \in Symbol \X Symbol
    BY <2>2, TablesAssumption
  <2>5. PICK a \in Symbol, b \in Symbol : g = <<a, b>>
    BY <2>4
  <2>6. <<"\\", "x">> \o <<a, b>> = <<"\\", "x", a, b>>
    BY FourAre
  <2>7. ReprChar(c) = <<"\\", "x", a, b>>
    BY <2>3, <2>5, <2>6
  <2> QED
    BY <1>0, <2>2, <2>5, <2>7
<1> QED
  BY <1>1, <1>2, <1>3, <1>4

LEMMA ReprCharIn ==
  ASSUME NEW c \in Letter
  PROVE  ReprChar(c) \in Seq(Symbol) /\ Len(ReprChar(c)) \in 1 .. 4
<1>1. c \in DOMAIN Escape => Escape[c] \in Symbol
  BY TablesAssumption
<1>2. c \in Symbol /\ "\\" \in Symbol /\ "x" \in Symbol
  BY SymbolsAre, ReprCharIs
<1>3. \/ \E a \in Symbol : ReprChar(c) = <<a>>
      \/ \E a, b \in Symbol : ReprChar(c) = <<a, b>>
      \/ \E a, b, d, e \in Symbol : ReprChar(c) = <<a, b, d, e>>
  BY <1>1, <1>2, ReprCharIs, Zenon
<1>4. ASSUME NEW a \in Symbol, ReprChar(c) = <<a>>
      PROVE  ReprChar(c) \in Seq(Symbol) /\ Len(ReprChar(c)) \in 1 .. 4
  BY <1>4, OneIs
<1>5. ASSUME NEW a \in Symbol, NEW b \in Symbol, ReprChar(c) = <<a, b>>
      PROVE  ReprChar(c) \in Seq(Symbol) /\ Len(ReprChar(c)) \in 1 .. 4
  BY <1>5, TwoAre
<1>6. ASSUME NEW a \in Symbol, NEW b \in Symbol, NEW d \in Symbol, NEW e \in Symbol,
             ReprChar(c) = <<a, b, d, e>>
      PROVE  ReprChar(c) \in Seq(Symbol) /\ Len(ReprChar(c)) \in 1 .. 4
  BY <1>6, FourIs
<1> QED
  BY <1>3, <1>4, <1>5, <1>6

\* The function of Repr.
TailOf(v) ==
  CHOOSE tail : tail = [i \in 1 .. Len(v) + 1 |->
      IF i > Len(v) THEN <<"\"">> ELSE ReprChar(v[i]) \o tail[i + 1]]

LEMMA ReprUnfolds ==
  ASSUME NEW v
  PROVE  Repr(v) = <<"\"">> \o TailOf(v)[1]
BY Zenon DEF Repr, TailOf

LEMMA TailRecurs ==
  ASSUME NEW v \in Seq(Letter)
  PROVE  /\ TailOf(v)[Len(v) + 1] = <<"\"">>
         /\ \A i \in 1 .. Len(v) : TailOf(v)[i] = ReprChar(v[i]) \o TailOf(v)[i + 1]
         /\ \A i \in 1 .. Len(v) + 1 : TailOf(v)[i] \in Seq(Symbol)
<1> DEFINE n == Len(v)
           D == 1 .. n + 1
           S == 1 .. n
           V == Seq(Symbol)
           Front(i, s) == ReprChar(v[i]) \o s
           base == [i \in D |-> <<"\"">>]
           step == [x \in D \X V |-> IF x[1] > n THEN <<>> ELSE Front(x[1], x[2])]
           Step(f, i) == IF i > n THEN <<"\"">> ELSE Front(i, f[i + 1])
           g == TailOf(v)
<1>0. n \in Nat /\ \A i \in S : v[i] \in Letter
  OBVIOUS
<1>1. ASSUME NEW i \in S, NEW s \in V PROVE Front(i, s) \in V
  <2>1. ReprChar(v[i]) \in Seq(Symbol)
    BY <1>0, ReprCharIn
  <2> QED
    BY <2>1
<1> HIDE DEF Front
<1>2. base \in [D -> V] /\ step \in [D \X V -> V]
  <2>1. <<"\"">> \in V /\ <<>> \in V
    BY SymbolsAre
  <2>2. ASSUME NEW x \in D \X V PROVE (IF x[1] > n THEN <<>> ELSE Front(x[1], x[2])) \in V
    <3>1. x[1] \in D /\ x[2] \in V
      OBVIOUS
    <3>2. ~(x[1] > n) => x[1] \in S
      BY <1>0, <3>1
    <3> HIDE DEF V, D, S, n
    <3> QED
      BY <1>1, <2>1, <3>1, <3>2
  <2> HIDE DEF V
  <2> QED
    BY <2>1, <2>2
<1>3. PICK f \in [D -> V] : Recurs(f, D, S, NextPlace(n), base, step)
  <2>1. Descends(D, S, NextPlace(n), ToPlace(n), n)
    <3> HIDE DEF n
    <3> QED
      BY <1>0, PlaceDescends
  <2> HIDE DEF D, S, V, base, step, n
  <2> QED
    BY <1>2, <2>1, RecursionExists
<1>4. ASSUME NEW i \in D PROVE f[i] = Step(f, i)
  <2>1. f[i] = IF i \in S THEN step[<<i, f[NextPlace(n)[i]]>>] ELSE base[i]
    BY <1>3 DEF Recurs
  <2>2. CASE i > n
    <3>1. i \notin S
      BY <1>0, <2>2
    <3> DEFINE q == <<"\"">>
    <3> HIDE DEF q
    <3>2. base[i] = q
      BY DEF q
    <3>3. f[i] = q
      BY <2>1, <3>1, <3>2
    <3> QED
      BY <2>2, <3>3 DEF q
  <2>3. CASE ~(i > n)
    <3>1. i \in S /\ NextPlace(n)[i] = i + 1 /\ i + 1 \in D
      BY <1>0, <2>3 DEF NextPlace
    <3>2. <<i, f[i + 1]>> \in D \X V
      BY <3>1
    <3>3. step[<<i, f[i + 1]>>] = Front(i, f[i + 1])
      <4> HIDE DEF V, n
      <4> QED
        BY <2>3, <3>2
    <3>4. f[i] = step[<<i, f[i + 1]>>]
      <4> HIDE DEF step, D, S, base
      <4> QED
        BY <2>1, <3>1
    <3> QED
      BY <2>3, <3>3, <3>4
  <2> QED
    BY <2>2, <2>3
<1>5. f = [i \in D |-> Step(f, i)]
  <2> HIDE DEF Step, D, V
  <2> QED
    BY <1>4
<1>6. g = [i \in D |-> Step(g, i)]
  BY <1>5, Zenon DEF TailOf, Front
<1> HIDE DEF g
<1>7. \A i \in D : g[i] = Step(g, i)
  <2> HIDE DEF Step, D
  <2> QED
    BY <1>6
<1>8. g[n + 1] = <<"\"">> /\ \A i \in 1 .. n : g[i] = Front(i, g[i + 1])
  <2>1. n + 1 \in D /\ n + 1 > n
    BY <1>0
  <2>2. \A i \in 1 .. n : i \in D /\ ~(i > n)
    BY <1>0
  <2> HIDE DEF D
  <2> QED
    BY <1>7, <2>1, <2>2
<1>9. \A i \in D : g[i] \in V
  <2> DEFINE Q == {i \in D : g[i] \in V}
  <2>1. ASSUME NEW i \in D, i = n + 1 \/ i + 1 \in Q PROVE g[i] \in V
    <3>1. CASE i = n + 1
      <4>1. <<"\"">> \in V
        BY SymbolsAre
      <4> HIDE DEF V
      <4> QED
        BY <1>8, <3>1, <4>1
    <3>2. CASE i # n + 1
      <4>1. g[i + 1] \in V /\ i \in S
        BY <1>0, <2>1, <3>2
      <4>2. g[i] = Front(i, g[i + 1])
        BY <1>8, <4>1
      <4> HIDE DEF V, S
      <4> QED
        BY <1>1, <4>1, <4>2
    <3> QED
      BY <3>1, <3>2
  <2>2. \A i \in D : (i = n + 1 \/ i + 1 \in Q) => i \in Q
    BY <2>1
  <2>3. Q \in SUBSET (1 .. n + 1)
    OBVIOUS
  <2> HIDE DEF Q, n
  <2>4. \A i \in 1 .. n + 1 : i \in Q
    BY <1>0, <2>2, <2>3, PlaceInduction
  <2> QED
    BY <2>4 DEF Q
<1> QED
  BY <1>8, <1>9 DEF g, Front

LEMMA ReprIn ==
  ASSUME NEW v \in Seq(Letter)
  PROVE  Repr(v) \in Seq(Symbol) /\ Len(Repr(v)) = Len(TailOf(v)[1]) + 1 /\ Len(Repr(v)) >= 1
<1> DEFINE t == TailOf(v)[1]
<1>1. t \in Seq(Symbol)
  <2>1. 1 \in 1 .. Len(v) + 1
    OBVIOUS
  <2> QED
    BY <2>1, TailRecurs
<1>2. Repr(v) = <<"\"">> \o t
  BY ReprUnfolds
<1> HIDE DEF t
<1>3. <<"\"">> \o t \in Seq(Symbol) /\ Len(<<"\"">> \o t) = 1 + Len(t)
  BY <1>1, SymbolsAre, ConcatProperties
<1>4. Len(t) \in Nat
  BY <1>1
<1>5. Repr(v) \in Seq(Symbol) /\ Len(Repr(v)) = Len(t) + 1 /\ Len(Repr(v)) >= 1
  <2> DEFINE r == <<"\"">> \o t
  <2>1. r \in Seq(Symbol) /\ Len(r) = 1 + Len(t)
    BY <1>3
  <2>2. Repr(v) = r
    BY <1>2
  <2> HIDE DEF r
  <2> QED
    BY <1>4, <2>1, <2>2
<1> QED
  BY <1>5 DEF t

-----------------------------------------------------------------------------
(* sdssplitargs.                                                           *)

\* The characters s are at the place p of the line.
Reads(line, p, s) == \A k \in 1 .. Len(s) : CharAt(line, p + k - 1) = s[k]

LEMMA ReadsBoth ==
  ASSUME NEW line, NEW p \in Nat, NEW C, NEW a \in Seq(C), NEW b \in Seq(C), Reads(line, p, a \o b)
  PROVE  Reads(line, p, a) /\ Reads(line, p + Len(a), b)
<1> DEFINE m == Len(a)
           n == Len(b)
           s == a \o b
<1>1. /\ m \in Nat /\ n \in Nat /\ Len(s) = m + n
      /\ \A k \in 1 .. m + n : s[k] = IF k =< m THEN a[k] ELSE b[k - m]
  BY ConcatProperties
<1> HIDE DEF s
<1>2. \A k \in 1 .. m + n : CharAt(line, p + k - 1) = s[k]
  BY <1>1 DEF Reads, s
<1>3. \A k \in 1 .. m : CharAt(line, p + k - 1) = a[k]
  BY <1>1, <1>2
<1>4. \A k \in 1 .. n : CharAt(line, (p + m) + k - 1) = b[k]
  <2> SUFFICES ASSUME NEW k \in 1 .. n PROVE CharAt(line, (p + m) + k - 1) = b[k]
    OBVIOUS
  <2> DEFINE j == m + k
  <2>1. j \in 1 .. m + n /\ ~(j =< m) /\ j - m = k /\ p + j - 1 = (p + m) + k - 1
    BY <1>1
  <2> HIDE DEF j, m, n
  <2>2. s[j] = b[k]
    BY <1>1, <2>1
  <2>3. CharAt(line, p + j - 1) = s[j]
    BY <1>2, <2>1
  <2> QED
    BY <2>1, <2>2, <2>3
<1> QED
  BY <1>3, <1>4 DEF Reads

\* The function of SplitArgs.
ArgsOf(line) ==
  CHOOSE args : args = [st \in Parse |->
      IF Ends(line, st) THEN Result(st) ELSE args[ParseTurn(line, st)]]

LEMMA SplitArgsUnfolds ==
  ASSUME NEW line
  PROVE  SplitArgs(line) = ArgsOf(line)[Parsing(1, "blank", <<>>, <<>>)]
BY Zenon DEF SplitArgs, ArgsOf

LEMMA ParsingTyped ==
  ASSUME NEW p \in Nat, NEW mode \in Modes, NEW current \in Seq(Symbol), NEW vector \in Seq(Seq(Symbol))
  PROVE  Parsing(p, mode, current, vector) \in Parse
BY DEF Parsing, Parse

LEMMA ModesAre ==
  /\ "blank" \in Modes /\ "plain" \in Modes /\ "\"" \in Modes
  /\ Quotes \subseteq Modes /\ "\"" \in Quotes
  /\ "blank" \notin Quotes /\ "plain" \notin Quotes /\ "\"" # "blank" /\ "\"" # "plain"
BY DEF Modes, Quotes

LEMMA CharAtTyped ==
  ASSUME NEW line \in Seq(Symbol), NEW p
  PROVE  /\ CharAt(line, p) \in Symbol
         /\ CharAt(line, p) # Nul => p \in 1 .. Len(line)
<1>1. Nul \in Symbol
  BY TextAssumption
<1>2. DOMAIN line = 1 .. Len(line) /\ \A k \in DOMAIN line : line[k] \in Symbol
  OBVIOUS
<1> QED
  BY <1>1, <1>2 DEF CharAt

LEMMA EscapedTyped ==
  ASSUME NEW line \in Seq(Symbol), NEW p
  PROVE  Escaped(line, p).char \in Symbol /\ Escaped(line, p).size \in {2, 4}
<1> DEFINE c == CharAt(line, p + 1)
           hex == <<CharAt(line, p + 2), CharAt(line, p + 3)>>
<1>1. c \in Symbol
  BY CharAtTyped
<1>2. hex \in DOMAIN ByteOf => ByteOf[hex] \in Symbol
  BY TablesAssumption
<1>3. Unescaped(c) \in Symbol
  <2>1. CASE \E e \in DOMAIN Escape : Escape[e] = c
    <3> DEFINE g == CHOOSE e \in DOMAIN Escape : Escape[e] = c
    <3>1. g \in DOMAIN Escape
      BY <2>1
    <3>2. Unescaped(c) = g
      BY <2>1 DEF Unescaped
    <3> HIDE DEF g
    <3> QED
      BY <3>1, <3>2, TablesAssumption
  <2>2. CASE ~ \E e \in DOMAIN Escape : Escape[e] = c
    BY <1>1, <2>2 DEF Unescaped
  <2> QED
    BY <2>1, <2>2
<1>4. Escaped(line, p) = IF c = "x" /\ hex \in DOMAIN ByteOf THEN [char |-> ByteOf[hex], size |-> 4]
                         ELSE [char |-> Unescaped(c), size |-> 2]
  BY DEF Escaped
<1> HIDE DEF c, hex
<1> QED
  BY <1>2, <1>3, <1>4

LEMMA MovedTyped ==
  ASSUME NEW st \in Parse, NEW n \in Nat, NEW mode \in Modes, NEW c \in Symbol
  PROVE  /\ Moved(st, n, mode) \in Parse /\ Moved(st, n, mode).p = st.p + n
         /\ Moved(st, n, mode).mode = mode
         /\ Taken(st, n, c) \in Parse /\ Taken(st, n, c).p = st.p + n
<1>1. st.p \in Nat /\ st.mode \in Modes /\ st.current \in Seq(Symbol) /\ st.vector \in Seq(Seq(Symbol))
  BY DEF Parse
<1>2. st.p + n \in Nat /\ Append(st.current, c) \in Seq(Symbol)
  BY <1>1
<1>3. Moved(st, n, mode) \in Parse /\ Taken(st, n, c) \in Parse
  BY <1>1, <1>2, ParsingTyped DEF Moved, Taken
<1>4. /\ Moved(st, n, mode).p = st.p + n /\ Moved(st, n, mode).mode = mode
      /\ Taken(st, n, c).p = st.p + n
  BY DEF Moved, Taken, Parsing
<1> QED
  BY <1>3, <1>4

\* What a turn is: it goes on in the line, or from blanks to an argument.
LEMMA TurnTyped ==
  ASSUME NEW line \in Seq(Symbol), NEW st \in Parse, ~Ends(line, st)
  PROVE  /\ ParseTurn(line, st) \in Parse
         /\ \/ ParseTurn(line, st).p > st.p
            \/ /\ st.mode = "blank" /\ ParseTurn(line, st).mode = "plain"
               /\ ParseTurn(line, st).p = st.p
<1> DEFINE nx == ParseTurn(line, st)
           c == CharAt(line, st.p)
<1>0. /\ st = Parsing(st.p, st.mode, st.current, st.vector)
      /\ st.p \in Nat /\ st.mode \in Modes /\ st.current \in Seq(Symbol) /\ st.vector \in Seq(Seq(Symbol))
  BY DEF Parse, Parsing
<1>1. c \in Symbol
  BY CharAtTyped
<1>2. Done(st) \in Parse /\ Done(st).p > st.p
  <2>1. st.p + 1 \in Nat /\ <<>> \in Seq(Symbol) /\ Append(st.vector, st.current) \in Seq(Seq(Symbol))
    BY <1>0
  <2>2. Done(st) \in Parse
    BY <2>1, ModesAre, ParsingTyped DEF Done
  <2>3. Done(st).p = st.p + 1
    BY DEF Done, Parsing
  <2> QED
    BY <1>0, <2>2, <2>3
<1>3. ASSUME NEW n \in {1, 2, 4}, NEW x \in Symbol
      PROVE  Taken(st, n, x) \in Parse /\ Taken(st, n, x).p > st.p
  <2>1. n \in Nat /\ n > 0
    OBVIOUS
  <2>2. Taken(st, n, x) \in Parse /\ Taken(st, n, x).p = st.p + n
    BY <1>0, <2>1, MovedTyped, ZenonT(30)
  <2> QED
    BY <1>0, <2>1, <2>2
<1>4. CASE st.mode = "blank"
  <2>1. nx = IF c \in Blank THEN Moved(st, 1, "blank") ELSE Moved(st, 0, "plain")
    BY <1>4 DEF ParseTurn, SkipBlank
  <2>2. Moved(st, 1, "blank") \in Parse /\ Moved(st, 1, "blank").p = st.p + 1
    BY <1>1, ModesAre, MovedTyped, ZenonT(30)
  <2>3. /\ Moved(st, 0, "plain") \in Parse /\ Moved(st, 0, "plain").p = st.p + 0
        /\ Moved(st, 0, "plain").mode = "plain"
    BY <1>1, ModesAre, MovedTyped
  <2> HIDE DEF nx, c
  <2> QED
    BY <1>0, <1>4, <2>1, <2>2, <2>3 DEF nx
<1>5. CASE st.mode = "plain"
  <2>1. nx = IF c \in Stop THEN Done(st)
             ELSE IF c \in Quotes THEN Moved(st, 1, c)
             ELSE Taken(st, 1, c)
    BY <1>5 DEF ParseTurn, TakePlain
  <2>2. c \in Quotes => Moved(st, 1, c) \in Parse /\ Moved(st, 1, c).p = st.p + 1
    <3> HIDE DEF c
    <3>1. c \in Quotes => c \in Modes
      BY ModesAre
    <3> QED
      BY <1>1, <3>1, MovedTyped
  <2> HIDE DEF nx, c
  <2>3. nx \in Parse /\ nx.p > st.p
    BY <1>0, <1>1, <1>2, <1>3, <2>1, <2>2
  <2> QED
    BY <2>3 DEF nx
<1>6. CASE st.mode # "blank" /\ st.mode # "plain"
  <2> DEFINE e == Escaped(line, st.p)
             d == CharAt(line, st.p + 1)
  <2>1. nx = IF st.mode = "\"" /\ c = "\\" /\ d # Nul THEN Taken(st, e.size, e.char)
             ELSE IF st.mode = "'" /\ c = "\\" /\ d = "'" THEN Taken(st, 2, d)
             ELSE IF c = st.mode THEN Done(st)
             ELSE Taken(st, 1, c)
    BY <1>6 DEF ParseTurn, TakeQuoted
  <2>2. e.char \in Symbol /\ e.size \in {2, 4} /\ d \in Symbol
    BY CharAtTyped, EscapedTyped
  <2> HIDE DEF nx, c, e, d
  <2>3. Taken(st, e.size, e.char) \in Parse /\ Taken(st, e.size, e.char).p > st.p
    BY <1>3, <2>2
  <2>4. Taken(st, 2, d) \in Parse /\ Taken(st, 2, d).p > st.p
    BY <1>3, <2>2
  <2>5. Taken(st, 1, c) \in Parse /\ Taken(st, 1, c).p > st.p
    BY <1>1, <1>3
  <2>6. nx \in Parse /\ nx.p > st.p
    BY <1>2, <2>1, <2>3, <2>4, <2>5, Zenon
  <2> QED
    BY <2>6 DEF nx
<1> QED
  BY <1>4, <1>5, <1>6

\* The parse goes on to the end of the line.
LEMMA ArgsRecur ==
  ASSUME NEW line \in Seq(Symbol), NEW st \in Parse
  PROVE  ArgsOf(line)[st] =
           IF Ends(line, st) THEN Result(st) ELSE ArgsOf(line)[ParseTurn(line, st)]
<1> DEFINE L == Len(line)
           S == {x \in Parse : ~Ends(line, x)}
           nx == [x \in Parse |-> ParseTurn(line, x)]
           More(x) == IF x.mode = "blank" THEN 1 ELSE 0
           M == [x \in Parse |-> IF x.p =< L THEN 2 * (L + 1 - x.p) + More(x) ELSE 0]
           N == 2 * (L + 1) + 1
           V == {Result(x) : x \in Parse}
           base == [x \in Parse |-> Result(x)]
           step == [x \in Parse \X V |-> x[2]]
           Step(f, x) == IF Ends(line, x) THEN Result(x) ELSE f[ParseTurn(line, x)]
           g == ArgsOf(line)
<1>0. L \in Nat /\ \A x \in Parse : x.p \in Nat /\ More(x) \in {0, 1}
  BY DEF Parse
<1>1. Descends(Parse, S, nx, M, N)
  <2>1. ASSUME NEW x \in S PROVE x \in Parse /\ nx[x] \in Parse /\ M[nx[x]] < M[x]
    <3> DEFINE y == ParseTurn(line, x)
    <3>0. x \in Parse /\ ~Ends(line, x)
      OBVIOUS
    <3>1. /\ y \in Parse
          /\ y.p > x.p \/ (x.mode = "blank" /\ y.mode = "plain" /\ y.p = x.p)
      BY <3>0, TurnTyped
    <3>2. nx[x] = y
      OBVIOUS
    <3>3. x.p \in 1 .. L
      <4>1. CharAt(line, x.p) # Nul
        BY <3>0 DEF Ends
      <4> QED
        BY <4>1, CharAtTyped
    <3> HIDE DEF y, L
    <3>4. M[x] = 2 * (L + 1 - x.p) + More(x)
      BY <3>0, <3>3
    <3>5. M[y] = IF y.p =< L THEN 2 * (L + 1 - y.p) + More(y) ELSE 0
      BY <3>1
    <3>6. y.p = x.p => More(x) = 1 /\ More(y) = 0
      BY <1>0, <3>0, <3>1
    <3>7. x.p \in Nat /\ y.p \in Nat /\ More(x) \in {0, 1} /\ More(y) \in {0, 1}
      BY <1>0, <3>0, <3>1
    <3> HIDE DEF M, More, nx
    <3>8. y.p > x.p \/ y.p = x.p
      BY <3>1
    <3>9. M[y] < M[x]
      BY <1>0, <3>3, <3>4, <3>5, <3>6, <3>7, <3>8, SMTT(30)
    <3> QED
      BY <3>0, <3>1, <3>2, <3>9
  <2>2. ASSUME NEW x \in Parse PROVE M[x] \in 0 .. N
    <3>1. x.p \in Nat /\ More(x) \in {0, 1}
      BY <1>0
    <3> HIDE DEF L, More
    <3> QED
      BY <1>0, <3>1
  <2>3. N \in Nat /\ S \subseteq Parse
    BY <1>0
  <2> HIDE DEF S, nx, M, N
  <2> QED
    BY <2>1, <2>2, <2>3 DEF Descends
<1>2. base \in [Parse -> V] /\ step \in [Parse \X V -> V]
  OBVIOUS
<1>3. PICK f \in [Parse -> V] : Recurs(f, Parse, S, nx, base, step)
  <2> HIDE DEF S, nx, M, N, V, base, step
  <2> QED
    BY <1>1, <1>2, RecursionExists
<1>4. ASSUME NEW x \in Parse PROVE f[x] = Step(f, x)
  <2>1. f[x] = IF x \in S THEN step[<<x, f[nx[x]]>>] ELSE base[x]
    BY <1>3 DEF Recurs
  <2>2. CASE Ends(line, x)
    <3>1. x \notin S /\ base[x] = Result(x)
      BY <2>2
    <3> HIDE DEF S, base, step, nx
    <3> QED
      BY <2>1, <2>2, <3>1
  <2>3. CASE ~Ends(line, x)
    <3>1. x \in S /\ nx[x] = ParseTurn(line, x) /\ nx[x] \in Parse
      BY <2>3, TurnTyped
    <3>2. step[<<x, f[nx[x]]>>] = f[nx[x]]
      <4> HIDE DEF V, nx
      <4>1. <<x, f[nx[x]]>> \in Parse \X V
        BY <3>1
      <4> QED
        BY <4>1
    <3> HIDE DEF S, base, step, nx
    <3> QED
      BY <2>1, <2>3, <3>1, <3>2
  <2> QED
    BY <2>2, <2>3
<1>5. f = [x \in Parse |-> Step(f, x)]
  <2> HIDE DEF Step, V
  <2> QED
    BY <1>4
<1>6. g = [x \in Parse |-> Step(g, x)]
  BY <1>5, Zenon DEF ArgsOf
<1> HIDE DEF g
<1>7. g[st] = Step(g, st)
  <2> HIDE DEF Step
  <2> QED
    BY <1>6
<1> QED
  BY <1>7 DEF g

\* The parser inside double quotes, and between arguments.
Quoted(p, current, vector) == Parsing(p, "\"", current, vector)
Blanks(p, vector) == Parsing(p, "blank", <<>>, vector)

LEMMA ReadsOne ==
  ASSUME NEW line, NEW p \in Nat, NEW a, Reads(line, p, <<a>>)
  PROVE  CharAt(line, p) = a
<1>1. 1 \in 1 .. Len(<<a>>) /\ <<a>>[1] = a /\ p + 1 - 1 = p
  OBVIOUS
<1> QED
  BY <1>1 DEF Reads

LEMMA ReadsTwo ==
  ASSUME NEW line, NEW p \in Nat, NEW a, NEW b, Reads(line, p, <<a, b>>)
  PROVE  CharAt(line, p) = a /\ CharAt(line, p + 1) = b
<1> DEFINE s == <<a, b>>
<1>1. 1 \in 1 .. Len(s) /\ 2 \in 1 .. Len(s) /\ s[1] = a /\ s[2] = b /\ p + 1 - 1 = p /\ p + 2 - 1 = p + 1
  OBVIOUS
<1> HIDE DEF s
<1>2. \A k \in 1 .. Len(s) : CharAt(line, p + k - 1) = s[k]
  BY DEF Reads, s
<1>3. CharAt(line, p + 1 - 1) = s[1] /\ CharAt(line, p + 2 - 1) = s[2]
  BY <1>1, <1>2
<1> QED
  BY <1>1, <1>3

LEMMA ReadsFour ==
  ASSUME NEW line, NEW p \in Nat, NEW a, NEW b, NEW c, NEW d, Reads(line, p, <<a, b, c, d>>)
  PROVE  /\ CharAt(line, p) = a /\ CharAt(line, p + 1) = b
         /\ CharAt(line, p + 2) = c /\ CharAt(line, p + 3) = d
<1> DEFINE s == <<a, b, c, d>>
<1>1. /\ 1 \in 1 .. Len(s) /\ 2 \in 1 .. Len(s) /\ 3 \in 1 .. Len(s) /\ 4 \in 1 .. Len(s)
      /\ s[1] = a /\ s[2] = b /\ s[3] = c /\ s[4] = d
      /\ p + 1 - 1 = p /\ p + 2 - 1 = p + 1 /\ p + 3 - 1 = p + 2 /\ p + 4 - 1 = p + 3
  OBVIOUS
<1> HIDE DEF s
<1>2. \A k \in 1 .. Len(s) : CharAt(line, p + k - 1) = s[k]
  BY DEF Reads, s
<1>3. /\ CharAt(line, p + 1 - 1) = s[1] /\ CharAt(line, p + 2 - 1) = s[2]
      /\ CharAt(line, p + 3 - 1) = s[3] /\ CharAt(line, p + 4 - 1) = s[4]
  BY <1>1, <1>2
<1> QED
  BY <1>1, <1>3

LEMMA LensAre ==
  ASSUME NEW a, NEW b, NEW c, NEW d
  PROVE  Len(<<a>>) = 1 /\ Len(<<a, b>>) = 2 /\ Len(<<a, b, c, d>>) = 4
OBVIOUS

\* What the tables say of the characters with a meaning.
LEMMA Meanings ==
  /\ "\\" # "\"" /\ "\\" # "x" /\ "\"" # "x" /\ "'" # "\"" /\ " " # "\""
  /\ Nul # "\\" /\ Nul # "\"" /\ Nul # "x" /\ Nul # " "
  /\ Nul \notin Printable
  /\ \A c \in DOMAIN Escape : Escape[c] # Nul /\ Escape[c] # "\\" /\ Escape[c] # "\"" /\ Escape[c] # "x"
  /\ \A c, d \in DOMAIN Escape : Escape[c] = Escape[d] => c = d
  /\ " " \in Blank /\ "\"" \notin Blank /\ "\"" \notin Stop
<1>1. "\\" # "\"" /\ "\\" # "x" /\ "\"" # "x" /\ "'" # "\"" /\ " " # "\""
  OBVIOUS
<1>2. Nul # "\\" /\ Nul # "\"" /\ Nul # "x" /\ Nul # " " /\ Nul \notin Printable
  BY TablesAssumption
<1>3. \A c \in DOMAIN Escape : Escape[c] # Nul /\ Escape[c] # "\\" /\ Escape[c] # "\"" /\ Escape[c] # "x"
  BY TablesAssumption
<1>4. \A c, d \in DOMAIN Escape : Escape[c] = Escape[d] => c = d
  BY TablesAssumption
<1>5. " " \in Blank /\ "\"" \notin Blank /\ "\"" \notin Stop
  BY TablesAssumption
<1> QED
  BY <1>1, <1>2, <1>3, <1>4, <1>5, Zenon

LEMMA UnescapedIs ==
  /\ Unescaped("\\") = "\\" /\ Unescaped("\"") = "\""
  /\ \A c \in DOMAIN Escape : Unescaped(Escape[c]) = c
<1>1. Unescaped("\\") = "\\"
  BY Meanings DEF Unescaped
<1>2. Unescaped("\"") = "\""
  BY Meanings DEF Unescaped
<1>3. ASSUME NEW c \in DOMAIN Escape PROVE Unescaped(Escape[c]) = c
  <2> DEFINE x == Escape[c]
             g == CHOOSE e \in DOMAIN Escape : Escape[e] = x
  <2>1. \E e \in DOMAIN Escape : Escape[e] = x
    OBVIOUS
  <2>2. g \in DOMAIN Escape /\ Escape[g] = x
    BY <2>1
  <2>3. Unescaped(x) = g
    BY <2>1 DEF Unescaped
  <2> HIDE DEF g
  <2> QED
    BY <2>2, <2>3, Meanings
<1> QED
  BY <1>1, <1>2, <1>3, Zenon

\* Inside the quotes a turn reads what a character is written as.
LEMMA QuotedTurn ==
  ASSUME NEW line \in Seq(Symbol), NEW st \in Parse, st.mode = "\"", NEW c \in Letter,
         Reads(line, st.p, ReprChar(c))
  PROVE  ~Ends(line, st) /\ ParseTurn(line, st) = Taken(st, Len(ReprChar(c)), c)
<1> DEFINE a == CharAt(line, st.p)
           d == CharAt(line, st.p + 1)
           e == Escaped(line, st.p)
<1>0. st.p \in Nat
  BY DEF Parse
<1>1. ParseTurn(line, st) =
        IF a = "\\" /\ d # Nul THEN Taken(st, e.size, e.char)
        ELSE IF a = "\"" THEN Done(st)
        ELSE Taken(st, 1, a)
  <2>1. st.mode # "blank" /\ st.mode # "plain" /\ st.mode # "'"
    BY ModesAre, Meanings
  <2> QED
    BY <2>1 DEF ParseTurn, TakeQuoted
<1>2. a # Nul /\ a # "\"" => ~Ends(line, st)
  BY DEF Ends
<1>3. ASSUME a = "\\", d # Nul PROVE ~Ends(line, st) /\ ParseTurn(line, st) = Taken(st, e.size, e.char)
  <2> HIDE DEF a, d, e
  <2> QED
    BY <1>1, <1>2, <1>3, Meanings
<1>4. d # "x" => e.size = 2 /\ e.char = Unescaped(d)
  BY DEF Escaped
<1> HIDE DEF a, d, e
<1>5. CASE c \in {"\\", "\""} /\ ReprChar(c) = <<"\\", c>>
  <2>1. a = "\\" /\ d = c
    BY <1>0, <1>5, ReadsTwo DEF a, d
  <2>2. d # Nul /\ d # "x" /\ Unescaped(d) = c
    BY <1>5, <2>1, Meanings, UnescapedIs
  <2>3. Len(ReprChar(c)) = 2
    BY <1>5, LensAre, Zenon
  <2> QED
    BY <1>3, <1>4, <2>1, <2>2, <2>3
<1>6. CASE c \notin {"\\", "\""} /\ c \in DOMAIN Escape /\ ReprChar(c) = <<"\\", Escape[c]>>
  <2>1. a = "\\" /\ d = Escape[c]
    BY <1>0, <1>6, ReadsTwo DEF a, d
  <2>2. d # Nul /\ d # "x" /\ Unescaped(d) = c
    BY <1>6, <2>1, Meanings, UnescapedIs
  <2>3. Len(ReprChar(c)) = 2
    BY <1>6, LensAre, Zenon
  <2> QED
    BY <1>3, <1>4, <2>1, <2>2, <2>3
<1>7. CASE c \notin {"\\", "\""} /\ c \in Printable /\ ReprChar(c) = <<c>>
  <2>1. a = c
    BY <1>0, <1>7, ReadsOne DEF a
  <2>2. a # Nul /\ a # "\\" /\ a # "\""
    BY <1>7, <2>1, Meanings
  <2>3. Len(ReprChar(c)) = 1
    BY <1>7, LensAre, Zenon
  <2> QED
    BY <1>1, <1>2, <2>1, <2>2, <2>3
<1>8. ASSUME NEW x \in Symbol, NEW y \in Symbol, <<x, y>> \in DOMAIN ByteOf, ByteOf[<<x, y>>] = c,
             ReprChar(c) = <<"\\", "x", x, y>>
      PROVE  ~Ends(line, st) /\ ParseTurn(line, st) = Taken(st, Len(ReprChar(c)), c)
  <2>1. a = "\\" /\ d = "x" /\ CharAt(line, st.p + 2) = x /\ CharAt(line, st.p + 3) = y
    <3>1. Reads(line, st.p, <<"\\", "x", x, y>>)
      BY <1>8
    <3>2. /\ CharAt(line, st.p) = "\\" /\ CharAt(line, st.p + 1) = "x"
          /\ CharAt(line, st.p + 2) = x /\ CharAt(line, st.p + 3) = y
      BY <1>0, <3>1, ReadsFour, ZenonT(30)
    <3> QED
      BY <3>2 DEF a, d
  <2>2. d # Nul
    BY <2>1, Meanings
  <2>3. e.size = 4 /\ e.char = c
    BY <1>8, <2>1 DEF Escaped, d, e
  <2>4. Len(ReprChar(c)) = 4
    BY <1>8, LensAre, Zenon
  <2> QED
    BY <1>3, <2>1, <2>2, <2>3, <2>4
<1> QED
  BY <1>5, <1>6, <1>7, <1>8, ReprCharIs, Zenon

\* The turn of a state that does not end.
LEMMA ArgsTurn ==
  ASSUME NEW line \in Seq(Symbol), NEW st \in Parse, ~Ends(line, st),
         NEW nx, ParseTurn(line, st) = nx
  PROVE  ArgsOf(line)[st] = ArgsOf(line)[nx]
BY ArgsRecur

\* Inside the quotes everything is read to the last one.
QuoteRun(line, v, i) ==
  \A p \in Nat, vector \in Seq(Seq(Symbol)) :
    Reads(line, p, TailOf(v)[i]) =>
      /\ CharAt(line, p + Len(TailOf(v)[i]) - 1) = "\""
      /\ ArgsOf(line)[Quoted(p, SubSeq(v, 1, i - 1), vector)]
           = ArgsOf(line)[Quoted(p + Len(TailOf(v)[i]) - 1, v, vector)]

LEMMA PrefixIs ==
  ASSUME NEW v \in Seq(Letter), NEW i \in 1 .. Len(v)
  PROVE  /\ SubSeq(v, 1, i - 1) \in Seq(Symbol)
         /\ Append(SubSeq(v, 1, i - 1), v[i]) = SubSeq(v, 1, i)
<1> DEFINE x == SubSeq(v, 1, i - 1)
           y == SubSeq(v, 1, i)
           a == Append(x, v[i])
<1>0. i \in Nat /\ 1 =< i /\ i =< Len(v) /\ Len(v) \in Nat /\ v[i] \in Letter
  OBVIOUS
<1>1. x \in Seq(Letter) /\ Len(x) = i - 1 /\ \A k \in 1 .. i - 1 : x[k] = v[k]
  <2> DEFINE b == i - 1
  <2>1. b \in Int /\ b =< Len(v) /\ 1 =< b + 1 /\ 1 \in Nat \ {0}
    BY <1>0
  <2> HIDE DEF b
  <2>2. /\ SubSeq(v, 1, b) \in Seq(Letter) /\ Len(SubSeq(v, 1, b)) = b - 1 + 1
        /\ \A k \in 1 .. b - 1 + 1 : SubSeq(v, 1, b)[k] = v[1 + k - 1]
    BY <2>1, SubSeqIn
  <2>3. b - 1 + 1 = b /\ \A k \in 1 .. b : 1 + k - 1 = k
    BY <2>1
  <2>4. /\ SubSeq(v, 1, b) \in Seq(Letter) /\ Len(SubSeq(v, 1, b)) = b
        /\ \A k \in 1 .. b : SubSeq(v, 1, b)[k] = v[k]
    BY <2>2, <2>3
  <2> QED
    BY <2>4 DEF b
<1>2. y \in Seq(Letter) /\ Len(y) = i /\ \A k \in 1 .. i : y[k] = v[k]
  <2>1. i \in Int /\ 1 =< i + 1 /\ 1 \in Nat \ {0}
    BY <1>0
  <2>2. /\ SubSeq(v, 1, i) \in Seq(Letter) /\ Len(SubSeq(v, 1, i)) = i - 1 + 1
        /\ \A k \in 1 .. i - 1 + 1 : SubSeq(v, 1, i)[k] = v[1 + k - 1]
    BY <1>0, <2>1, SubSeqIn
  <2>3. i - 1 + 1 = i /\ \A k \in 1 .. i : 1 + k - 1 = k
    BY <1>0
  <2> HIDE DEF y
  <2> QED
    BY <2>2, <2>3 DEF y
<1> HIDE DEF x, y
<1>3. a \in Seq(Letter) /\ Len(a) = i /\ \A k \in 1 .. i : a[k] = v[k]
  BY <1>0, <1>1
<1>4. a = y
  <2> HIDE DEF a
  <2> QED
    BY <1>2, <1>3, SeqEqual
<1>5. x \in Seq(Symbol)
  <2>1. Letter \subseteq Symbol
    BY TextAssumption
  <2> QED
    BY <1>1, <2>1
<1> QED
  BY <1>4, <1>5 DEF x, y

LEMMA QuotedTaken ==
  ASSUME NEW p, NEW current, NEW vector, NEW n, NEW c
  PROVE  Taken(Quoted(p, current, vector), n, c) = Quoted(p + n, Append(current, c), vector)
BY DEF Taken, Quoted, Parsing

LEMMA QuotedTyped ==
  ASSUME NEW p \in Nat, NEW current \in Seq(Symbol), NEW vector \in Seq(Seq(Symbol))
  PROVE  /\ Quoted(p, current, vector) \in Parse
         /\ Quoted(p, current, vector).p = p /\ Quoted(p, current, vector).mode = "\""
         /\ Quoted(p, current, vector).current = current /\ Quoted(p, current, vector).vector = vector
<1>1. Quoted(p, current, vector) \in Parse
  BY ModesAre, ParsingTyped DEF Quoted
<1> QED
  BY <1>1 DEF Quoted, Parsing

LEMMA QuoteRuns ==
  ASSUME NEW line \in Seq(Symbol), NEW v \in Seq(Letter)
  PROVE  \A i \in 1 .. Len(v) + 1 : QuoteRun(line, v, i)
<1> DEFINE n == Len(v)
           D == 1 .. n + 1
           Q == {i \in D : QuoteRun(line, v, i)}
           t == TailOf(v)
           g == ArgsOf(line)
<1>0. n \in Nat
  OBVIOUS
<1>t. /\ t[n + 1] = <<"\"">>
      /\ \A i \in 1 .. n : t[i] = ReprChar(v[i]) \o t[i + 1]
      /\ \A i \in D : t[i] \in Seq(Symbol)
  BY TailRecurs
<1>1. QuoteRun(line, v, n + 1)
  <2> SUFFICES ASSUME NEW p \in Nat, NEW vector \in Seq(Seq(Symbol)), Reads(line, p, t[n + 1])
               PROVE  /\ CharAt(line, p + Len(t[n + 1]) - 1) = "\""
                      /\ g[Quoted(p, SubSeq(v, 1, (n + 1) - 1), vector)]
                           = g[Quoted(p + Len(t[n + 1]) - 1, v, vector)]
    BY Zenon DEF QuoteRun
  <2>1. Reads(line, p, <<"\"">>)
    BY <1>t, Zenon
  <2>2. CharAt(line, p) = "\""
    BY <2>1, ReadsOne, Zenon
  <2>3. Len(t[n + 1]) = 1
    BY <1>t, SymbolsAre, Zenon
  <2>4. p + Len(t[n + 1]) - 1 = p
    BY <2>3
  <2>5. (n + 1) - 1 = n /\ SubSeq(v, 1, n) = v
    BY <1>0, SubSeqFull
  <2> HIDE DEF n, t, g
  <2> QED
    BY <2>2, <2>4, <2>5
<1>2. ASSUME NEW i \in 1 .. n, QuoteRun(line, v, i + 1) PROVE QuoteRun(line, v, i)
  <2> SUFFICES ASSUME NEW p \in Nat, NEW vector \in Seq(Seq(Symbol)), Reads(line, p, t[i])
               PROVE  /\ CharAt(line, p + Len(t[i]) - 1) = "\""
                      /\ g[Quoted(p, SubSeq(v, 1, i - 1), vector)]
                           = g[Quoted(p + Len(t[i]) - 1, v, vector)]
    BY Zenon DEF QuoteRun
  <2> DEFINE c == v[i]
             r == ReprChar(c)
             u == t[i + 1]
             x == SubSeq(v, 1, i - 1)
             m == Len(r)
             l == Len(u)
  <2>0. i \in Nat /\ i + 1 \in D /\ (i + 1) - 1 = i /\ c \in Letter
    BY <1>0
  <2>1. r \in Seq(Symbol) /\ m \in Nat
    <3> HIDE DEF c
    <3> QED
      BY <2>0, ReprCharIn
  <2>2. u \in Seq(Symbol) /\ l \in Nat
    <3>1. u \in Seq(Symbol)
      BY <1>t, <2>0
    <3> HIDE DEF u
    <3> QED
      BY <3>1
  <2>3. t[i] = r \o u
    BY <1>t
  <2> HIDE DEF t, g, n, r, u
  <2>4. Reads(line, p, r) /\ Reads(line, p + m, u)
    <3>1. Reads(line, p, r \o u)
      BY <2>3
    <3> QED
      BY <2>1, <2>2, <3>1, ReadsBoth
  <2>5. Len(t[i]) = m + l
    BY <2>1, <2>2, <2>3, ConcatProperties
  <2>6. x \in Seq(Symbol) /\ Append(x, c) = SubSeq(v, 1, i)
    BY PrefixIs DEF n
  <2> HIDE DEF x, c
  <2>7. g[Quoted(p, x, vector)] = g[Quoted(p + m, Append(x, c), vector)]
    <3> DEFINE st == Quoted(p, x, vector)
    <3>5. x \in Seq(Symbol)
      BY <2>6
    <3>6. st \in Parse
      BY <3>5, QuotedTyped
    <3>7. st.p = p
      BY DEF st, Quoted, Parsing
    <3>8. st.mode = "\""
      BY DEF st, Quoted, Parsing
    <3>1. st \in Parse /\ st.p = p /\ st.mode = "\""
      BY <3>6, <3>7, <3>8
    <3> HIDE DEF st
    <3>2. ~Ends(line, st) /\ ParseTurn(line, st) = Taken(st, m, c)
      BY <2>0, <2>4, <3>1, QuotedTurn DEF r
    <3>3. Taken(st, m, c) = Quoted(p + m, Append(x, c), vector)
      BY DEF st, Taken, Quoted, Parsing
    <3>4. g[st] = g[Taken(st, m, c)]
      BY <3>1, <3>2, ArgsTurn DEF g
    <3> QED
      BY <3>3, <3>4 DEF st
  <2>8. /\ CharAt(line, (p + m) + l - 1) = "\""
        /\ g[Quoted(p + m, SubSeq(v, 1, i), vector)] = g[Quoted((p + m) + l - 1, v, vector)]
    <3>1. p + m \in Nat
      BY <2>1
    <3> DEFINE k == i + 1
               s == p + m
    <3>2. s \in Nat /\ QuoteRun(line, v, k) /\ Reads(line, s, t[k]) /\ k - 1 = i /\ Len(t[k]) = l
      BY <1>2, <2>0, <2>4, <3>1 DEF u
    <3> HIDE DEF k, s, l
    <3>3. /\ CharAt(line, s + Len(t[k]) - 1) = "\""
          /\ g[Quoted(s, SubSeq(v, 1, k - 1), vector)] = g[Quoted(s + Len(t[k]) - 1, v, vector)]
      BY <3>2 DEF QuoteRun, t, g
    <3>4. /\ CharAt(line, s + l - 1) = "\""
          /\ g[Quoted(s, SubSeq(v, 1, i), vector)] = g[Quoted(s + l - 1, v, vector)]
      BY <3>2, <3>3
    <3> QED
      BY <3>4 DEF s
  <2>9. (p + m) + l - 1 = p + Len(t[i]) - 1
    BY <2>1, <2>2, <2>5
  <2> QED
    BY <2>6, <2>7, <2>8, <2>9 DEF x
<1>3. \A i \in D : (i = n + 1 \/ i + 1 \in Q) => i \in Q
  <2> SUFFICES ASSUME NEW i \in D, i = n + 1 \/ i + 1 \in Q PROVE QuoteRun(line, v, i)
    OBVIOUS
  <2>1. i # n + 1 => i \in 1 .. n
    BY <1>0
  <2> HIDE DEF D, n
  <2> QED
    BY <1>1, <1>2, <2>1
<1>4. Q \in SUBSET (1 .. n + 1)
  OBVIOUS
<1> HIDE DEF Q, n
<1>5. \A i \in 1 .. n + 1 : i \in Q
  BY <1>0, <1>3, <1>4, PlaceInduction
<1> QED
  BY <1>5 DEF Q, n

\* Between arguments, what sdscatrepr writes is read as one.
LEMMA StringRead ==
  ASSUME NEW line \in Seq(Symbol), NEW v \in Seq(Letter), NEW p \in Nat,
         NEW vector \in Seq(Seq(Symbol)),
         Reads(line, p, Repr(v)), CharAt(line, p + Len(Repr(v))) \in Blank \cup {Nul}
  PROVE  ArgsOf(line)[Blanks(p, vector)] = ArgsOf(line)[Blanks(p + Len(Repr(v)), Append(vector, v))]
<1> DEFINE g == ArgsOf(line)
           t == TailOf(v)[1]
           l == Len(t)
           z == p + l
           b == Parsing(p, "blank", <<>>, vector)
           s == Parsing(p, "plain", <<>>, vector)
           q == Quoted(p + 1, <<>>, vector)
           e == Quoted(z, v, vector)
           d == Blanks(z + 1, Append(vector, v))
<1>0. /\ t \in Seq(Symbol) /\ l \in Nat /\ Repr(v) = <<"\"">> \o t
      /\ Len(Repr(v)) = l + 1 /\ z \in Nat /\ z + 1 = p + Len(Repr(v))
  <2>1. 1 \in 1 .. Len(v) + 1
    OBVIOUS
  <2>2. t \in Seq(Symbol)
    BY <2>1, TailRecurs
  <2>3. Repr(v) = <<"\"">> \o t /\ Len(Repr(v)) = l + 1
    BY ReprUnfolds, ReprIn
  <2> HIDE DEF t
  <2>4. l \in Nat
    BY <2>2
  <2> HIDE DEF l
  <2>5. z \in Nat /\ z + 1 = p + (l + 1)
    BY <2>4
  <2> HIDE DEF z
  <2>6. z + 1 = p + Len(Repr(v))
    BY <2>3, <2>5, Zenon
  <2> QED
    BY <2>2, <2>3, <2>4, <2>5, <2>6, Zenon
<1>1. CharAt(line, p) = "\"" /\ Reads(line, p + 1, t)
  <2> HIDE DEF t
  <2>1. Reads(line, p, <<"\"">> \o t)
    BY <1>0
  <2>2. Reads(line, p, <<"\"">>) /\ Reads(line, p + Len(<<"\"">>), t)
    BY <1>0, <2>1, SymbolsAre, ReadsBoth
  <2>3. CharAt(line, p) = "\""
    BY <2>2, ReadsOne, Zenon
  <2>4. Reads(line, p + 1, t)
    BY <2>2, SymbolsAre, Zenon
  <2> QED
    BY <2>3, <2>4
<1>2. v \in Seq(Symbol) /\ <<>> \in Seq(Symbol) /\ p + 1 \in Nat
  <2>1. Letter \subseteq Symbol
    BY TextAssumption
  <2> QED
    BY <2>1
<1>3. /\ CharAt(line, z) = "\""
      /\ g[q] = g[e]
  <2> DEFINE u == p + 1
  <2>1. QuoteRun(line, v, 1)
    <3>1. 1 \in 1 .. Len(v) + 1
      OBVIOUS
    <3> QED
      BY <3>1, QuoteRuns
  <2>2. u \in Nat /\ u + Len(TailOf(v)[1]) - 1 = z
    <3>1. Len(TailOf(v)[1]) = l
      OBVIOUS
    <3> HIDE DEF l
    <3>0. l \in Nat
      BY <1>0
    <3>2. u \in Nat /\ u + l - 1 = z
      BY <3>0
    <3> HIDE DEF u, z
    <3> QED
      BY <3>1, <3>2, Zenon
  <2>3. SubSeq(v, 1, 1 - 1) = <<>>
    OBVIOUS
  <2>4. Reads(line, u, TailOf(v)[1])
    BY <1>1
  <2> HIDE DEF u, z
  <2>5. /\ CharAt(line, u + Len(TailOf(v)[1]) - 1) = "\""
        /\ g[Quoted(u, SubSeq(v, 1, 1 - 1), vector)]
             = g[Quoted(u + Len(TailOf(v)[1]) - 1, v, vector)]
    BY <2>1, <2>2, <2>4 DEF QuoteRun
  <2>6. CharAt(line, z) = "\"" /\ g[Quoted(u, <<>>, vector)] = g[Quoted(z, v, vector)]
    BY <2>2, <2>3, <2>5
  <2> QED
    BY <2>6 DEF u
<1> HIDE DEF g, t, l, z
<1>4. g[b] = g[s]
  <2>1. b \in Parse /\ b.p = p /\ b.mode = "blank"
    <3>1. b \in Parse
      BY <1>2, ModesAre, ParsingTyped
    <3> QED
      BY <3>1 DEF Parsing
  <2>2. Moved(b, 0, "plain") = s
    <3>1. p + 0 = p
      OBVIOUS
    <3> QED
      BY <3>1 DEF Moved, Parsing
  <2> HIDE DEF b, s
  <2>3. ~Ends(line, b)
    BY <1>1, <2>1, Meanings, ModesAre DEF Ends
  <2>4. ParseTurn(line, b) = s
    BY <1>1, <2>1, <2>2, Meanings DEF ParseTurn, SkipBlank
  <2> QED
    BY <2>1, <2>3, <2>4, ArgsTurn DEF g
<1>5. g[s] = g[q]
  <2>1. s \in Parse /\ s.p = p /\ s.mode = "plain"
    <3>1. s \in Parse
      BY <1>2, ModesAre, ParsingTyped
    <3> QED
      BY <3>1 DEF Parsing
  <2>2. Moved(s, 1, "\"") = q
    BY DEF Moved, Parsing, Quoted
  <2> HIDE DEF s, q
  <2>3. ~Ends(line, s)
    BY <1>1, <2>1, Meanings, ModesAre DEF Ends
  <2>4. ParseTurn(line, s) = q
    <3>1. s.mode # "blank"
      BY <2>1
    <3> QED
      BY <1>1, <2>1, <2>2, <3>1, Meanings, ModesAre DEF ParseTurn, TakePlain
  <2> QED
    BY <2>1, <2>3, <2>4, ArgsTurn DEF g
<1>6. g[e] = g[d]
  <2>1. e \in Parse
    BY <1>0, <1>2, QuotedTyped
  <2>2. e.p = z /\ e.mode = "\""
    BY DEF Quoted, Parsing
  <2>3. Done(e) = d
    BY DEF Done, Quoted, Blanks, Parsing
  <2> HIDE DEF e, d
  <2>4. Closes(line, z)
    BY <1>0 DEF Closes
  <2>5. ~Ends(line, e)
    BY <1>3, <2>2, <2>4, Meanings DEF Ends
  <2>6. ParseTurn(line, e) = d
    <3>1. e.mode # "blank" /\ e.mode # "plain" /\ e.mode # "'" /\ CharAt(line, e.p) # "\\"
      BY <1>3, <2>2, ModesAre, Meanings
    <3> QED
      BY <1>3, <2>2, <2>3, <3>1 DEF ParseTurn, TakeQuoted
  <2> QED
    BY <2>1, <2>5, <2>6, ArgsTurn DEF g
<1>7. b = Blanks(p, vector) /\ d = Blanks(p + Len(Repr(v)), Append(vector, v))
  BY <1>0 DEF Blanks
<1> HIDE DEF b, s, q, e, d
<1> QED
  BY <1>4, <1>3, <1>5, <1>6, <1>7 DEF g

\* At the end of the line the arguments are complete.
LEMMA LineEnds ==
  ASSUME NEW line \in Seq(Symbol), NEW p \in Nat, NEW vector \in Seq(Seq(Symbol)),
         CharAt(line, p) = Nul
  PROVE  ArgsOf(line)[Blanks(p, vector)] = vector
<1> DEFINE b == Parsing(p, "blank", <<>>, vector)
<1>1. b \in Parse
  <2>1. <<>> \in Seq(Symbol)
    OBVIOUS
  <2> QED
    BY <2>1, ModesAre, ParsingTyped
<1>2. b.p = p /\ b.mode = "blank" /\ b.vector = vector
  BY DEF Parsing
<1>3. b = Blanks(p, vector)
  BY DEF Blanks
<1> HIDE DEF b
<1>4. Ends(line, b) /\ Result(b) = vector
  BY <1>2 DEF Ends, Result
<1> QED
  BY <1>1, <1>3, <1>4, ArgsRecur

\* The line itself is at its first place, and nothing is after it.
LEMMA LineReads ==
  ASSUME NEW C, NEW line \in Seq(C)
  PROVE  Reads(line, 1, line) /\ CharAt(line, 1 + Len(line)) = Nul
<1>1. DOMAIN line = 1 .. Len(line) /\ Len(line) \in Nat
  OBVIOUS
<1>2. \A k \in 1 .. Len(line) : 1 + k - 1 = k
  BY <1>1
<1>3. Reads(line, 1, line)
  BY <1>1, <1>2 DEF Reads, CharAt
<1>4. 1 + Len(line) \notin DOMAIN line
  BY <1>1
<1> QED
  BY <1>3, <1>4 DEF CharAt

LEMMA SymbolText ==
  ASSUME NEW v \in Seq(Letter)
  PROVE  v \in Seq(Symbol)
<1>1. Letter \subseteq Symbol
  BY TextAssumption
<1> QED
  BY <1>1

LEMMA ReadAlone ==
  ASSUME NEW v \in Seq(Letter)
  PROVE  SplitArgs(Repr(v)) = <<v>>
<1> DEFINE line == Repr(v)
           n == 1 + Len(line)
<1>1. line \in Seq(Symbol) /\ n \in Nat
  BY ReprIn
<1>2. Reads(line, 1, Repr(v)) /\ CharAt(line, n) = Nul
  BY <1>1, LineReads
<1>3. /\ <<>> \in Seq(Seq(Symbol)) /\ Append(<<>>, v) \in Seq(Seq(Symbol))
      /\ Append(<<>>, v) = <<v>>
  BY SymbolText
<1>4. SplitArgs(line) = ArgsOf(line)[Blanks(1, <<>>)]
  BY SplitArgsUnfolds, Zenon DEF Blanks
<1>5. ArgsOf(line)[Blanks(1, <<>>)] = ArgsOf(line)[Blanks(n, Append(<<>>, v))]
  <2>1. CharAt(line, 1 + Len(Repr(v))) \in Blank \cup {Nul}
    BY <1>2
  <2>2. ArgsOf(line)[Blanks(1, <<>>)] = ArgsOf(line)[Blanks(1 + Len(Repr(v)), Append(<<>>, v))]
    <3> DEFINE w == <<>>
    <3>1. w \in Seq(Seq(Symbol))
      BY <1>3
    <3> HIDE DEF w, line
    <3>2. ArgsOf(line)[Blanks(1, w)] = ArgsOf(line)[Blanks(1 + Len(Repr(v)), Append(w, v))]
      BY <1>1, <1>2, <2>1, <3>1, StringRead
    <3> QED
      BY <3>2 DEF w
  <2> QED
    BY <2>2
<1>6. ArgsOf(line)[Blanks(n, Append(<<>>, v))] = Append(<<>>, v)
  <2> DEFINE w == Append(<<>>, v)
  <2>1. w \in Seq(Seq(Symbol))
    BY <1>3
  <2> HIDE DEF w, line, n
  <2>2. ArgsOf(line)[Blanks(n, w)] = w
    BY <1>1, <1>2, <2>1, LineEnds
  <2> QED
    BY <2>2 DEF w
<1> HIDE DEF line, n
<1>7. SplitArgs(line) = <<v>>
  BY <1>3, <1>4, <1>5, <1>6
<1> QED
  BY <1>7 DEF line

LEMMA AppendTwo ==
  ASSUME NEW C, NEW x \in Seq(C), NEW a \in C, NEW b \in C, Len(x) = 1, x[1] = a
  PROVE  Append(x, b) = <<a, b>>
<1> DEFINE y == Append(x, b)
           z == <<a, b>>
           n == Len(x)
<1>1. y \in Seq(C) /\ Len(y) = n + 1
  BY AppendProperties
<1>2. \A i \in 1 .. n : y[i] = x[i]
  BY AppendProperties
<1>3. y[n + 1] = b
  BY AppendProperties
<1>4. n = 1
  OBVIOUS
<1>5. z \in Seq(C) /\ Len(z) = 2 /\ z[1] = a /\ z[2] = b
  BY TwoAre
<1> HIDE DEF y, z, n
<1>6. \A i \in 1 .. Len(y) : y[i] = z[i]
  <2>1. \A i \in 1 .. 2 : i = 1 \/ i = 2
    OBVIOUS
  <2>2. y[1] = a /\ y[2] = b /\ Len(y) = 2
    BY <1>1, <1>2, <1>3, <1>4
  <2> QED
    BY <1>5, <2>1, <2>2
<1>7. y = z
  BY <1>1, <1>4, <1>5, <1>6, SeqEqual
<1> QED
  BY <1>7 DEF y, z

LEMMA TwoAppended ==
  ASSUME NEW a, NEW b
  PROVE  Append(Append(<<>>, a), b) = <<a, b>>
<1> DEFINE C == {a, b}
           x == <<a>>
<1>1. Append(<<>>, a) = x
  OBVIOUS
<1>2. a \in C /\ b \in C
  OBVIOUS
<1> HIDE DEF C
<1>3. x \in Seq(C) /\ Len(x) = 1 /\ x[1] = a
  BY <1>2, OneIs
<1> HIDE DEF x
<1>4. Append(x, b) = <<a, b>>
  BY <1>2, <1>3, AppendTwo
<1> QED
  BY <1>1, <1>4, Zenon

LEMMA ReadBoth ==
  ASSUME NEW v \in Seq(Letter), NEW w \in Seq(Letter)
  PROVE  SplitArgs(Repr(v) \o <<" ">> \o Repr(w)) = <<v, w>>
<1> DEFINE a == Repr(v)
           b == Repr(w)
           h == a \o <<" ">>
           line == h \o b
           m == 1 + Len(a)
           k == m + 1
           n == k + Len(b)
           e == <<>>
           f == Append(e, v)
           g == Append(f, w)
<1>1. a \in Seq(Symbol) /\ b \in Seq(Symbol) /\ Len(a) \in Nat /\ Len(b) \in Nat
  <2>1. a \in Seq(Symbol) /\ b \in Seq(Symbol)
    BY ReprIn
  <2> HIDE DEF a, b
  <2> QED
    BY <2>1
<1>2. <<" ">> \in Seq(Symbol) /\ Len(<<" ">>) = 1
  BY SymbolsAre, OneIs, Zenon
<1>3. e \in Seq(Seq(Symbol)) /\ f \in Seq(Seq(Symbol)) /\ g \in Seq(Seq(Symbol)) /\ g = <<v, w>>
  <2>1. v \in Seq(Symbol) /\ w \in Seq(Symbol)
    BY SymbolText
  <2>2. e \in Seq(Seq(Symbol)) /\ f \in Seq(Seq(Symbol)) /\ g \in Seq(Seq(Symbol))
    BY <2>1
  <2>3. g = <<v, w>>
    BY TwoAppended, Zenon
  <2> QED
    BY <2>2, <2>3
<1> HIDE DEF a, b, e, f, g
<1>4. h \in Seq(Symbol) /\ Len(h) = Len(a) + 1
  <2>1. h \in Seq(Symbol) /\ Len(h) = Len(a) + Len(<<" ">>)
    BY <1>1, <1>2, ConcatProperties
  <2> HIDE DEF h
  <2> QED
    BY <1>1, <1>2, <2>1
<1> HIDE DEF h
<1>5. line \in Seq(Symbol) /\ Len(line) = Len(h) + Len(b)
  BY <1>1, <1>4, ConcatProperties
<1>6. Reads(line, 1, h \o b) /\ CharAt(line, 1 + Len(line)) = Nul
  BY <1>5, LineReads
<1> HIDE DEF line
<1>7. Reads(line, 1, h) /\ Reads(line, 1 + Len(h), b)
  BY <1>1, <1>4, <1>6, ReadsBoth
<1>8. Reads(line, 1, a) /\ Reads(line, m, <<" ">>)
  <2>1. Reads(line, 1, a \o <<" ">>)
    BY <1>7 DEF h
  <2> QED
    BY <1>1, <1>2, <2>1, ReadsBoth
<1>9. m \in Nat /\ k \in Nat /\ n \in Nat /\ 1 + Len(h) = k /\ 1 + Len(line) = n
  BY <1>1, <1>4, <1>5
<1>10. CharAt(line, m) = " " /\ CharAt(line, n) = Nul /\ Reads(line, k, b)
  <2>1. CharAt(line, n) = Nul /\ Reads(line, k, b)
    BY <1>6, <1>7, <1>9
  <2> HIDE DEF m
  <2>2. CharAt(line, m) = " "
    BY <1>8, <1>9, ReadsOne, Zenon
  <2> QED
    BY <2>1, <2>2
<1> DEFINE x == ArgsOf(line)
<1>11. x[Blanks(1, e)] = x[Blanks(m, f)]
  <2>1. CharAt(line, 1 + Len(Repr(v))) \in Blank \cup {Nul}
    BY <1>10, Meanings DEF a
  <2>2. Reads(line, 1, Repr(v))
    BY <1>8 DEF a
  <2>3. x[Blanks(1, e)] = x[Blanks(1 + Len(Repr(v)), Append(e, v))]
    BY <1>3, <1>5, <2>1, <2>2, StringRead
  <2> QED
    BY <2>3 DEF a, f
<1>12. x[Blanks(m, f)] = x[Blanks(k, f)]
  <2> DEFINE y == Parsing(m, "blank", <<>>, f)
             z == Parsing(k, "blank", <<>>, f)
  <2>0. <<>> \in Seq(Symbol)
    OBVIOUS
  <2> HIDE DEF m
  <2>1. y \in Parse
    BY <1>3, <1>9, <2>0, ModesAre, ParsingTyped
  <2>2. y.p = m /\ y.mode = "blank"
    BY DEF Parsing
  <2>3. Moved(y, 1, "blank") = z
    BY DEF Moved, Parsing
  <2>6. y = Blanks(m, f) /\ z = Blanks(k, f)
    BY DEF Blanks
  <2> HIDE DEF y, z, x
  <2>4. ~Ends(line, y)
    BY <1>10, <2>2, Meanings, ModesAre DEF Ends
  <2>5. ParseTurn(line, y) = z
    BY <1>10, <2>2, <2>3, Meanings DEF ParseTurn, SkipBlank
  <2> QED
    BY <1>5, <2>1, <2>4, <2>5, <2>6, ArgsTurn DEF x
<1>13. x[Blanks(k, f)] = x[Blanks(n, g)]
  <2> HIDE DEF k
  <2>1. CharAt(line, k + Len(Repr(w))) \in Blank \cup {Nul}
    BY <1>10 DEF b
  <2>2. Reads(line, k, Repr(w))
    BY <1>10 DEF b
  <2>3. x[Blanks(k, f)] = x[Blanks(k + Len(Repr(w)), Append(f, w))]
    BY <1>3, <1>5, <1>9, <2>1, <2>2, StringRead
  <2> QED
    BY <2>3 DEF b, g
<1>14. x[Blanks(n, g)] = g
  <2> HIDE DEF n
  <2> QED
    BY <1>3, <1>5, <1>9, <1>10, LineEnds
<1>15. SplitArgs(line) = x[Blanks(1, e)]
  BY SplitArgsUnfolds, Zenon DEF Blanks, e
<1> HIDE DEF x, m, k, n
<1>16. SplitArgs(line) = <<v, w>>
  BY <1>3, <1>11, <1>12, <1>13, <1>14, <1>15
<1> QED
  BY <1>16 DEF line, h, a, b

\* sdssplitargs reads every string that sdscatrepr wrote as one argument, the
\* string itself, alone and before another one.
THEOREM ReadsBack == GivenSpec => []ArgsReadBack
<1>1. GivenTyped => ArgsReadBack
  <2> SUFFICES ASSUME GivenTyped PROVE ArgsReadBack
    OBVIOUS
  <2>1. SplitArgs(Repr(given)) = <<given>>
    BY ReadAlone DEF GivenTyped
  <2>2. ASSUME NEW v \in Separators
        PROVE  SplitArgs(Repr(given) \o <<" ">> \o Repr(v)) = <<given, v>>
    <3>1. v \in Seq(Letter) /\ given \in Seq(Letter)
      BY TextAssumption DEF GivenTyped
    <3> QED
      BY <3>1, ReadBoth
  <2> QED
    BY <2>1, <2>2, Zenon DEF ArgsReadBack
<1> QED
  BY <1>1, GivenIsTyped, PTL
=============================================================================
