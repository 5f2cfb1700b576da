---------------------------- MODULE PhpHllProofs ----------------------------
(***************************************************************************)
(* Theorems about the PHP extension, PhpHll: the type invariant, the       *)
(* sketches, their caches, their growth and their leaks, whatever the      *)
(* script does, in the __toString of what it adds as well.                 *)
(*                                                                         *)
(* The facts about a robj are those of HLLObjectProofs and                 *)
(* HLLHistoryProofs, as instantiated here; PhpHll instantiates HLLObject   *)
(* on its own, so the first lemmas identify the operators of the two.      *)
(* Then come the loop of pfAddMany, the inductive invariant Inv, one       *)
(* lemma for each action, and the theorems.                                *)
(***************************************************************************)
EXTENDS PhpHll, SequenceTheorems, TLAPS

\* The strings of a robj and of the dump, as elements.
ElementsOf(strings) == {ElementOf(s) : s \in strings}

Facts == INSTANCE HLLHistoryProofs WITH
    objs <- robjs, stored <- kept, call <- [busy |-> FALSE],
    ret <- [op |-> "none", on |-> <<>>, val |-> 0],
    MaxArgs <- MaxArgs + 1, MaxBatch <- 0,
    given <- [r \in Handle |-> ElementsOf(given[r])],
    givenKept <- ElementsOf(givenKept)

-----------------------------------------------------------------------------
(* The library's operators, under both names.                              *)

LEMMA SameConstants ==
  /\ Lib!Index = Facts!Index /\ Lib!RegValue = Facts!RegValue
  /\ Lib!RegArray = Facts!RegArray /\ Lib!ZeroRegs = Facts!ZeroRegs
  /\ Lib!ERR = Facts!ERR /\ Lib!Abort = Facts!Abort /\ Lib!Invalid = Facts!Invalid
  /\ Lib!CardValue = Facts!CardValue /\ Lib!Null = Facts!Null /\ Lib!Junk = Facts!Junk
  BY DEF Lib!Index, Facts!Index, Lib!RegValue, Facts!RegValue, Lib!RegArray,
         Facts!RegArray, Lib!ZeroRegs, Facts!ZeroRegs, Lib!ERR, Facts!ERR,
         Lib!Abort, Facts!Abort, Lib!Invalid, Facts!Invalid, Lib!CardValue,
         Facts!CardValue, Lib!Null, Facts!Null, Lib!Junk, Facts!Junk

\* What is assumed of the library's constants holds for the facts' too.
LEMMA LibraryConstants ==
  /\ Facts!SparseAssumption /\ Facts!ObjectAssumption /\ Facts!EstimateAssumption
  /\ Facts!HandleAssumption
  BY LibraryAssumption, SameConstants
     DEF Lib!SparseAssumption, Facts!SparseAssumption, Lib!ObjectAssumption,
         Facts!ObjectAssumption, Lib!EstimateAssumption, Facts!EstimateAssumption,
         Facts!HandleAssumption, Lib!ArgLists, Facts!ArgLists

LEMMA SameStreams ==
  /\ \A r, i : Lib!Covers(r, i) = Facts!Covers(r, i)
  /\ \A S, i : /\ Lib!Reaches(S, i) = Facts!Reaches(S, i)
               /\ Lib!RunAt(S, i) = Facts!RunAt(S, i)
  /\ \A S : /\ Lib!Complete(S) = Facts!Complete(S) /\ Lib!Values(S) = Facts!Values(S)
            /\ Lib!StreamOK(S) = Facts!StreamOK(S)
  /\ Lib!EmptyStream = Facts!EmptyStream
  BY DEF Lib!Covers, Facts!Covers, Lib!End, Facts!End, Lib!Reaches, Facts!Reaches,
         Lib!RunAt, Facts!RunAt, Lib!Complete, Facts!Complete, Lib!Values,
         Facts!Values, Lib!StreamOK, Facts!StreamOK, Lib!RunOK, Facts!RunOK,
         Lib!Index, Facts!Index, Lib!EmptyStream, Facts!EmptyStream, Lib!XZero,
         Facts!XZero

LEMMA SameObjects ==
  /\ \A o : /\ Lib!IsHLLObject(o) = Facts!IsHLLObject(o)
            /\ Lib!Readable(o) = Facts!Readable(o)
            /\ Lib!RegsOf(o) = Facts!RegsOf(o)
            /\ Lib!SparseToDense(o) = Facts!SparseToDense(o)
            /\ Lib!InvalidateCache(o) = Facts!InvalidateCache(o)
            /\ Lib!ObjectOK(o) = Facts!ObjectOK(o)
  /\ \A regs, card : Lib!Dense(regs, card) = Facts!Dense(regs, card)
  /\ Lib!Created = Facts!Created
  /\ \A hs : /\ Lib!AllReadable(hs) = Facts!AllReadable(hs)
             /\ Lib!MergedRegs(hs) = Facts!MergedRegs(hs)
<1>1. /\ \A regs, card : Lib!Dense(regs, card) = Facts!Dense(regs, card)
      /\ \A runs, size, tail, card :
           Lib!Sparse(runs, size, tail, card) = Facts!Sparse(runs, size, tail, card)
  BY SameConstants DEF Lib!Dense, Facts!Dense, Lib!Sparse, Facts!Sparse
<1>2. Lib!Created = Facts!Created
  BY <1>1, SameStreams DEF Lib!Created, Facts!Created
<1>3. \A o : /\ Lib!IsHLLObject(o) = Facts!IsHLLObject(o)
             /\ Lib!Readable(o) = Facts!Readable(o)
             /\ Lib!RegsOf(o) = Facts!RegsOf(o)
  BY SameStreams
     DEF Lib!IsHLLObject, Facts!IsHLLObject, Lib!Readable, Facts!Readable,
         Lib!RegsOf, Facts!RegsOf
<1>4. \A o : /\ Lib!SparseToDense(o) = Facts!SparseToDense(o)
             /\ Lib!InvalidateCache(o) = Facts!InvalidateCache(o)
  BY <1>1, SameConstants, SameStreams
     DEF Lib!SparseToDense, Facts!SparseToDense, Lib!InvalidateCache,
         Facts!InvalidateCache
<1>5. \A o : Lib!ObjectOK(o) = Facts!ObjectOK(o)
  BY <1>1, SameConstants, SameStreams DEF Lib!ObjectOK, Facts!ObjectOK
<1>6. \A hs : Lib!AllReadable(hs) = Facts!AllReadable(hs)
  BY <1>3, SameConstants DEF Lib!AllReadable, Facts!AllReadable
<1>7. \A S : Lib!Max(S) = Facts!Max(S)
  BY DEF Lib!Max, Facts!Max
<1>8. \A hs : Lib!MergedRegs(hs) = Facts!MergedRegs(hs)
  BY <1>3, <1>7, SameConstants DEF Lib!MergedRegs, Facts!MergedRegs
<1> QED
  BY <1>1, <1>2, <1>3, <1>4, <1>5, <1>6, <1>8

LEMMA SameScan ==
  \A S, size, at : Lib!MergeScan(S, size, at) = Facts!MergeScan(S, size, at)
<1>1. \A p, q : Lib!Mergeable(p, q) = Facts!Mergeable(p, q)
  BY DEF Lib!Mergeable, Facts!Mergeable, Lib!End, Facts!End
<1>2. \A S, p : /\ Lib!Joins(S, p) = Facts!Joins(S, p)
                /\ Lib!Joined(S, p) = Facts!Joined(S, p)
  BY <1>1, SameStreams
     DEF Lib!Joins, Facts!Joins, Lib!Joined, Facts!Joined, Lib!After, Facts!After,
         Lib!Val, Facts!Val, Lib!End, Facts!End
<1>3. \A runs, size, at : Lib!ScanState(runs, size, at) = Facts!ScanState(runs, size, at)
  BY DEF Lib!ScanState, Facts!ScanState
<1>4. \A st, p : Lib!MergeAt(st, p) = Facts!MergeAt(st, p)
  BY <1>2, <1>3 DEF Lib!MergeAt, Facts!MergeAt, Lib!End, Facts!End
<1>5. \A st : Lib!MergeStep(st) = Facts!MergeStep(st)
  BY <1>4, SameStreams DEF Lib!MergeStep, Facts!MergeStep
<1> QED
  BY <1>3, <1>5 DEF Lib!MergeScan, Facts!MergeScan

LEMMA SameUpdated ==
  \A o, runs, size, tail, at :
    Lib!Updated(o, runs, size, tail, at) = Facts!Updated(o, runs, size, tail, at)
  BY SameScan, SameConstants
     DEF Lib!Updated, Facts!Updated, Lib!Answer, Facts!Answer, Lib!Sparse, Facts!Sparse

LEMMA SamePromote ==
  \A o, e : /\ Lib!PromoteAdd(o, e) = Facts!PromoteAdd(o, e)
            /\ Lib!DenseAdd(o, e) = Facts!DenseAdd(o, e)
            /\ Lib!TailAdd(o, e) = Facts!TailAdd(o, e)
  BY SameStreams, SameObjects, SameConstants
     DEF Lib!PromoteAdd, Facts!PromoteAdd, Lib!DenseAdd, Facts!DenseAdd, Lib!TailAdd,
         Facts!TailAdd, Lib!Answer, Facts!Answer, Lib!Sparse, Facts!Sparse

LEMMA SameAdd == \A o, e : Lib!HllAdd(o, e) = Facts!HllAdd(o, e)
<1>1. \A r, i : Lib!DeltaLen(r, i) = Facts!DeltaLen(r, i)
  BY DEF Lib!DeltaLen, Facts!DeltaLen, Lib!SideBytes, Facts!SideBytes, Lib!OpLen,
         Facts!OpLen, Lib!End, Facts!End
<1>2. \A r, i, c : Lib!Split(r, i, c) = Facts!Split(r, i, c)
  BY DEF Lib!Split, Facts!Split, Lib!Side, Facts!Side, Lib!End, Facts!End, Lib!Zero,
         Facts!Zero, Lib!XZero, Facts!XZero, Lib!Val, Facts!Val
<1>3. \A S, i : Lib!ScanStart(S, i) = Facts!ScanStart(S, i)
  BY SameStreams DEF Lib!ScanStart, Facts!ScanStart
<1>4. /\ \A r, c : Lib!Settled(r, c) = Facts!Settled(r, c)
      /\ \A o, d : Lib!Outgrows(o, d) = Facts!Outgrows(o, d)
      /\ \A v, o : Lib!Answer(v, o) = Facts!Answer(v, o)
      /\ \A f, l, v : Lib!Val(f, l, v) = Facts!Val(f, l, v)
  BY DEF Lib!Settled, Facts!Settled, Lib!Outgrows, Facts!Outgrows,
         Lib!Answer, Facts!Answer, Lib!Val, Facts!Val
<1>5. \A o, e : Lib!SparseAdd(o, e) = Facts!SparseAdd(o, e)
  BY <1>1, <1>2, <1>3, <1>4, SameUpdated, SamePromote, SameStreams, SameConstants
     DEF Lib!SparseAdd, Facts!SparseAdd
<1> QED
  BY <1>5, SamePromote DEF Lib!HllAdd, Facts!HllAdd

\* The sketch of strings is the sketch of their elements.
LEMMA SameRegs == \A S : RegsFor(S) = Facts!RegsFor(ElementsOf(S))
  BY SameConstants DEF RegsFor, Facts!RegsFor, ElementsOf, Max, Facts!Max

-----------------------------------------------------------------------------
(* Adding strings.                                                         *)

\* Induction up to N, over a set of numbers.
LEMMA UpTo ==
  ASSUME NEW N \in Nat, NEW G \in SUBSET (0 .. N), 0 \in G,
         \A n \in G : n < N => n + 1 \in G
  PROVE  N \in G
<1> DEFINE m == Facts!Max(G)
<1>1. m \in G /\ \A y \in G : m >= y
  BY LibraryConstants, Facts!MaxOfBounded
<1> HIDE DEF m
<1>2. m \in 0 .. N
  BY <1>1
<1>3. ~(m < N)
  <2>1. SUFFICES ASSUME m < N PROVE FALSE
    OBVIOUS
  <2>2. m >= m + 1
    BY <1>1, <2>1
  <2> QED
    BY <1>2, <2>2
<1>4. m = N
  BY <1>2, <1>3
<1> QED
  BY <1>1, <1>4

\* One turn of the loop of pfAddMany.
Turn(before, s) ==
  LET added == Facts!HllAdd(before.obj, ElementOf(s))
  IN  IF before.val < 0 THEN before
      ELSE [val |-> IF added.val # 0 THEN added.val ELSE before.val,
            obj |-> added.obj]

\* f is the loop's history up to its n-th turn.
Turns(f, o, strings, n) ==
  /\ f = [k \in 0 .. n |-> f[k]]
  /\ f[0] = [val |-> 0, obj |-> o]
  /\ \A k \in 1 .. n : f[k] = Turn(f[k - 1], strings[k])

LEMMA AdditionsAreTurns ==
  ASSUME NEW o, NEW strings, Len(strings) \in Nat
  PROVE  Turns(Additions(o, strings), o, strings, Len(strings))
<1> DEFINE N == Len(strings)
           G == {n \in 0 .. N : \E f : Turns(f, o, strings, n)}
           R(f) == [n \in 0 .. N |-> IF n = 0 THEN [val |-> 0, obj |-> o]
                                     ELSE Turn(f[n - 1], strings[n])]
           LibTurn(before, s) ==
             LET added == Lib!HllAdd(before.obj, ElementOf(s))
             IN  IF before.val < 0 THEN before
                 ELSE [val |-> IF added.val # 0 THEN added.val ELSE before.val,
                       obj |-> added.obj]
           L(f) == [n \in 0 .. N |-> IF n = 0 THEN [val |-> 0, obj |-> o]
                                     ELSE LibTurn(f[n - 1], strings[n])]
<1>1. 0 \in G
  <2> DEFINE f == [k \in 0 .. 0 |-> [val |-> 0, obj |-> o]]
  <2>1. Turns(f, o, strings, 0)
    BY DEF Turns
  <2> QED
    BY <2>1
<1>2. ASSUME NEW n \in G, n < N PROVE n + 1 \in G
  <2>1. n \in Nat /\ n + 1 \in 0 .. N
    BY <1>2
  <2>2. PICK f : Turns(f, o, strings, n)
    BY <1>2
  <2> DEFINE g == [k \in 0 .. n + 1 |-> IF k = n + 1 THEN Turn(f[n], strings[n + 1])
                                                    ELSE f[k]]
  <2>3. g = [k \in 0 .. n + 1 |-> g[k]] /\ g[0] = f[0]
    BY <2>1
  <2>4. ASSUME NEW k \in 1 .. n + 1 PROVE g[k] = Turn(g[k - 1], strings[k])
    <3>1. CASE k = n + 1
      <4>1. g[k] = Turn(f[n], strings[n + 1]) /\ k - 1 = n /\ g[k - 1] = f[n]
        BY <2>1, <3>1
      <4> QED
        BY <3>1, <4>1
    <3>2. CASE k # n + 1
      <4>1. k \in 1 .. n /\ k - 1 \in 0 .. n /\ k - 1 # n + 1
        BY <2>1, <3>2
      <4>2. g[k] = f[k] /\ g[k - 1] = f[k - 1]
        BY <2>1, <3>2, <4>1
      <4> QED
        BY <2>2, <4>1, <4>2 DEF Turns
    <3> QED
      BY <3>1, <3>2
  <2> HIDE DEF g
  <2>5. Turns(g, o, strings, n + 1)
    BY <2>2, <2>3, <2>4 DEF Turns
  <2> QED
    BY <2>1, <2>5
<1> HIDE DEF G
<1>3. N \in G
  BY <1>1, <1>2, UpTo DEF G
<1>4. PICK f : Turns(f, o, strings, N)
  BY <1>3 DEF G
<1>5. f = R(f)
  <2>1. f = [k \in 0 .. N |-> f[k]]
    BY <1>4 DEF Turns
  <2>2. ASSUME NEW n \in 0 .. N
        PROVE  f[n] = IF n = 0 THEN [val |-> 0, obj |-> o] ELSE Turn(f[n - 1], strings[n])
    <3>1. n = 0 \/ n \in 1 .. N
      OBVIOUS
    <3>2. CASE n = 0
      BY <1>4, <3>2 DEF Turns
    <3>3. CASE n \in 1 .. N
      BY <1>4, <3>3 DEF Turns
    <3> QED
      BY <3>1, <3>2, <3>3
  <2> QED
    BY <2>1, <2>2
<1>6. \A g : L(g) = R(g)
  <2>1. \A before, s : LibTurn(before, s) = Turn(before, s)
    BY SameAdd DEF Turn
  <2> HIDE DEF LibTurn
  <2> QED
    BY <2>1
<1>7. Additions(o, strings) = CHOOSE g : g = L(g)
  BY DEF Additions
<1>8. f = L(f)
  BY <1>5, <1>6
<1> HIDE DEF L, R
<1>9. Additions(o, strings) = L(Additions(o, strings))
  BY <1>7, <1>8
<1>10. Additions(o, strings) = R(Additions(o, strings))
  BY <1>6, <1>9
<1> QED
  BY <1>10 DEF Turns, R

-----------------------------------------------------------------------------
(* Sketches.                                                               *)

\* A robj is well formed, its cached cardinality is right and its registers
\* are those of its strings.
Sound(o, strings) == Facts!Good(o) /\ Facts!Exact(o, ElementsOf(strings))

\* A robj becomes another one, its strings others: a sketch stays one, and if
\* it can be read it only gets strings.
Becomes(o, strings, x, more) ==
  /\ more \in SUBSET Text /\ Sound(x, more)
  /\ Facts!IsHLLObject(o) => Facts!IsHLLObject(x)
  /\ Facts!Readable(o) => Facts!Readable(x) /\ strings \subseteq more

LEMMA ElementsTyped ==
  ASSUME NEW S \in SUBSET Text
  PROVE  ElementsOf(S) \in SUBSET Elements
  BY ScriptAssumption DEF ElementsOf

LEMMA Stays ==
  ASSUME NEW o, NEW S \in SUBSET Text, Sound(o, S)
  PROVE  Becomes(o, S, o, S)
  BY DEF Becomes

\* The strings before turn n are in the sketch, unless an error has ended the
\* loop, which happens to sketches that cannot be read.
Partial(o, S, strings, b, n) ==
  /\ b = [val |-> b.val, obj |-> b.obj]
  /\ Facts!ObjectOK(b.obj) /\ Facts!IsHLLObject(b.obj)
  /\ b.val \in {0, 1, Facts!ERR}
  /\ Facts!Readable(b.obj) <=> Facts!Readable(o)
  /\ b.val = 0 => b.obj = o
  /\ b.val = Facts!ERR => ~Facts!Readable(o)
  /\ b.val # Facts!ERR =>
       Facts!Exact(b.obj, ElementsOf(S \cup {strings[k] : k \in 1 .. n}))

LEMMA TurnPartial ==
  ASSUME NEW o, NEW S \in SUBSET Text, NEW strings, NEW n \in Nat,
         \A k \in 1 .. n + 1 : strings[k] \in Text,
         NEW b, Partial(o, S, strings, b, n)
  PROVE  Partial(o, S, strings, Turn(b, strings[n + 1]), n + 1)
<1> DEFINE s == strings[n + 1]
           E == ElementsOf(S \cup {strings[k] : k \in 1 .. n})
           F == ElementsOf(S \cup {strings[k] : k \in 1 .. n + 1})
           a == Facts!HllAdd(b.obj, ElementOf(s))
           t == Turn(b, s)
<1>1. s \in Text /\ ElementOf(s) \in Elements
  BY ScriptAssumption
<1>2. E \in SUBSET Elements
  <2>1. S \cup {strings[k] : k \in 1 .. n} \in SUBSET Text
    OBVIOUS
  <2> QED
    BY <2>1, ElementsTyped
<1>3. F = E \cup {ElementOf(s)}
  <2>1. {strings[k] : k \in 1 .. n + 1} = {strings[k] : k \in 1 .. n} \cup {s}
    OBVIOUS
  <2> QED
    BY <2>1 DEF ElementsOf
<1>4. Facts!ERR = -1
  BY DEF Facts!ERR
<1>5. CASE b.val = Facts!ERR
  <2>1. t = b
    BY <1>4, <1>5 DEF Turn
  <2> QED
    BY <1>5, <2>1 DEF Partial
<1>6. CASE b.val # Facts!ERR
  <2>1. b.val \in {0, 1} /\ Facts!ObjectOK(b.obj) /\ Facts!IsHLLObject(b.obj)
        /\ Facts!Exact(b.obj, E)
    BY <1>6 DEF Partial
  <2>2. t = [val |-> IF a.val # 0 THEN a.val ELSE b.val, obj |-> a.obj]
    BY <2>1 DEF Turn
  <2>3. /\ t.val = (IF a.val # 0 THEN a.val ELSE b.val) /\ t.obj = a.obj
        /\ t = [val |-> t.val, obj |-> t.obj]
    BY <2>2
  <2>4. Facts!AddFacts(b.obj, ElementOf(s), a)
    BY <1>1, <2>1, LibraryConstants, Facts!HllAddFacts
  <2>5. a.val \in {0, 1} => Facts!Exact(a.obj, F)
    <3> HIDE DEF a, E, F
    <3> QED
      BY <1>1, <1>2, <1>3, <2>1, <2>4, LibraryConstants, Facts!AddExact
  <2> HIDE DEF a, t, F
  <2>6. /\ Facts!ObjectOK(a.obj) /\ Facts!IsHLLObject(a.obj)
        /\ a.val \in {0, 1, Facts!ERR} /\ (a.val # 1 => a.obj = b.obj)
        /\ Facts!Readable(b.obj) <=> Facts!Readable(a.obj)
        /\ Facts!Readable(b.obj) => a.val # Facts!ERR
    BY <2>4 DEF Facts!AddFacts
  <2>7. t.val \in {0, 1, Facts!ERR} /\ (t.val = Facts!ERR <=> a.val = Facts!ERR)
        /\ (t.val = 0 <=> a.val = 0 /\ b.val = 0)
    BY <1>4, <2>1, <2>3, <2>6
  <2>8. Facts!Readable(t.obj) <=> Facts!Readable(o)
    BY <2>3, <2>6 DEF Partial
  <2>9. t.val = 0 => t.obj = o
    BY <2>3, <2>6, <2>7 DEF Partial
  <2>10. t.val = Facts!ERR => ~Facts!Readable(o)
    BY <2>3, <2>6, <2>7 DEF Partial
  <2>11. t.val # Facts!ERR => Facts!Exact(t.obj, F)
    BY <2>3, <2>5, <2>6, <2>7
  <2> QED
    BY <2>3, <2>6, <2>7, <2>8, <2>9, <2>10, <2>11 DEF Partial, F, t
<1> QED
  BY <1>5, <1>6

\* pfAddMany on a sketch: it stays one, with the strings in it unless an error
\* is answered; it never aborts.
LEMMA AddManyFacts ==
  ASSUME NEW o, NEW S \in SUBSET Text, Sound(o, S), Facts!IsHLLObject(o),
         NEW strings \in Seq(Text)
  PROVE  LET a == AddMany(o, strings)
         IN  /\ a.val \in {0, 1, Lib!ERR}
             /\ Becomes(o, S, a.obj, IF a.val < 0 THEN S ELSE S \cup ToSet(strings))
<1> DEFINE N == Len(strings)
           f == Additions(o, strings)
           G == {n \in 0 .. N : Partial(o, S, strings, f[n], n)}
           U == S \cup ToSet(strings)
           b == f[N]
           a == AddMany(o, strings)
<1>1. N \in Nat /\ \A k \in 1 .. N : strings[k] \in Text
  OBVIOUS
<1>2. Turns(f, o, strings, N)
  BY <1>1, AdditionsAreTurns
<1>3. 0 \in G
  <2>1. f[0] = [val |-> 0, obj |-> o]
    BY <1>2 DEF Turns
  <2>2. f[0].val = 0 /\ f[0].obj = o /\ f[0] = [val |-> f[0].val, obj |-> f[0].obj]
    BY <2>1
  <2>3. S \cup {strings[k] : k \in 1 .. 0} = S
    OBVIOUS
  <2>4. Facts!Exact(o, ElementsOf(S \cup {strings[k] : k \in 1 .. 0})) /\ Facts!ObjectOK(o)
    BY <2>3 DEF Sound, Facts!Good
  <2>5. Facts!ERR # 0
    BY DEF Facts!ERR
  <2> HIDE DEF f
  <2>6. Partial(o, S, strings, f[0], 0)
    BY <2>2, <2>4, <2>5 DEF Partial
  <2> QED
    BY <1>1, <2>6
<1>4. ASSUME NEW n \in G, n < N PROVE n + 1 \in G
  <2>1. n \in Nat /\ n + 1 \in 1 .. N /\ n + 1 \in 0 .. N /\ n + 1 - 1 = n
    BY <1>1, <1>4
  <2>3. \A k \in 1 .. n + 1 : strings[k] \in Text
    BY <1>1, <2>1
  <2>4. Partial(o, S, strings, f[n], n)
    BY <1>4
  <2> HIDE DEF f
  <2>20. \A k \in 1 .. N : f[k] = Turn(f[k - 1], strings[k])
    BY <1>2 DEF Turns
  <2>2. f[n + 1] = Turn(f[n], strings[n + 1])
    BY <2>1, <2>20
  <2>5. Partial(o, S, strings, f[n + 1], n + 1)
    BY <2>1, <2>2, <2>3, <2>4, TurnPartial
  <2> QED
    BY <2>1, <2>5
<1>5. N \in G
  <2> HIDE DEF G
  <2>1. G \in SUBSET (0 .. N)
    BY DEF G
  <2> QED
    BY <1>1, <1>3, <1>4, <2>1, UpTo
<1>6. Partial(o, S, strings, b, N)
  BY <1>5
<1>7. S \cup {strings[k] : k \in 1 .. N} = U
  BY DEF ToSet
<1>8. U \in SUBSET Text
  BY <1>7, <1>1
<1>9. a = IF b.val = 1 THEN [b EXCEPT !.obj = Facts!InvalidateCache(b.obj)] ELSE b
  BY SameObjects DEF AddMany
<1> HIDE DEF U, G
<1>10. Facts!ERR = -1 /\ Lib!ERR = Facts!ERR
  BY SameConstants DEF Facts!ERR
<1>11. /\ b = [val |-> b.val, obj |-> b.obj] /\ Facts!ObjectOK(b.obj)
       /\ Facts!IsHLLObject(b.obj) /\ b.val \in {0, 1, Facts!ERR}
       /\ Facts!Readable(b.obj) <=> Facts!Readable(o)
       /\ b.val = 0 => b.obj = o
       /\ b.val = Facts!ERR => ~Facts!Readable(o)
       /\ b.val # Facts!ERR => Facts!Exact(b.obj, ElementsOf(U))
  BY <1>6, <1>7 DEF Partial
<1>12. CASE b.val = 0
  <2>1. a = b /\ ~(a.val < 0)
    BY <1>9, <1>12
  <2>2. Becomes(o, S, b.obj, U)
    BY <1>8, <1>10, <1>11, <1>12 DEF Becomes, Sound, U
  <2> QED
    BY <1>12, <2>1, <2>2 DEF U
<1>13. CASE b.val = 1
  <2> DEFINE x == Facts!InvalidateCache(b.obj)
  <2>1. a.val = 1 /\ a.obj = x
    BY <1>9, <1>11, <1>13
  <2>2. Facts!Good(x) /\ Facts!IsHLLObject(x)
    BY <1>11, LibraryConstants, Facts!Invalidated
  <2>3. Facts!RegsOf(x) = Facts!RegsOf(b.obj) /\ (Facts!Readable(x) <=> Facts!Readable(b.obj))
    <3>1. Facts!Invalid \in Facts!CardValue
      BY DEF Facts!CardValue
    <3> QED
      BY <1>11, <3>1, LibraryConstants, Facts!CardSet DEF Facts!InvalidateCache
  <2>4. x # Facts!Null
    BY <2>2, LibraryConstants, Facts!NotNull
  <2> HIDE DEF x
  <2>5. Facts!Exact(x, ElementsOf(U))
    BY <1>10, <1>11, <1>13, <2>3, <2>4 DEF Facts!Exact
  <2>6. Becomes(o, S, x, U)
    BY <1>8, <1>11, <2>2, <2>3, <2>5 DEF Becomes, Sound, U
  <2>7. a.val \in {0, 1, Lib!ERR} /\ ~(a.val < 0)
    BY <2>1
  <2> QED
    BY <2>1, <2>6, <2>7 DEF U
<1>14. CASE b.val = Facts!ERR
  <2>1. a = b /\ a.val < 0
    BY <1>9, <1>10, <1>14
  <2>2. ~Facts!Readable(b.obj) /\ b.obj # Facts!Null
    BY <1>11, <1>14, LibraryConstants, Facts!NotNull
  <2>3. Becomes(o, S, b.obj, S)
    BY <1>11, <1>14, <2>2 DEF Becomes, Sound, Facts!Good, Facts!CacheRight, Facts!Exact
  <2> QED
    BY <1>10, <1>14, <2>1, <2>3
<1> QED
  BY <1>11, <1>12, <1>13, <1>14

\* Outside NULL there is a header: sketches and what they become keep theirs.
LEMMA SoundCases ==
  ASSUME NEW o, NEW S, Sound(o, S)
  PROVE  /\ o # Null <=> Facts!IsHLLObject(o)
         /\ Facts!Readable(o) => Facts!IsHLLObject(o)
         /\ Lib!Readable(o) <=> Facts!Readable(o)
         /\ Null = Facts!Null
<1>1. Null = Facts!Null
  BY SameConstants DEF Null
<1>2. Facts!ObjectOK(o)
  BY DEF Sound, Facts!Good
<1>3. o = Facts!Null \/ o.enc \in {"dense", "sparse"}
  BY <1>2, LibraryConstants, Facts!ObjectCases
<1>4. Facts!IsHLLObject(o) => o # Facts!Null
  BY LibraryConstants, Facts!NotNull
<1> QED
  BY <1>1, <1>3, <1>4, SameObjects DEF Facts!IsHLLObject, Facts!Readable

LEMMA NullSound == Sound(Null, {})
<1>1. ElementsOf({}) = {}
  BY DEF ElementsOf
<1> QED
  BY <1>1, LibraryConstants, SameConstants, Facts!NullGood, Facts!NullExact
     DEF Sound, Null

\* Any sketch may take the place of none.
LEMMA FromNull ==
  ASSUME NEW S, NEW x, NEW T \in SUBSET Text, Sound(x, T)
  PROVE  Becomes(Null, S, x, T)
<1>1. Sound(Null, {})
  BY NullSound
<1>2. ~Facts!IsHLLObject(Null) /\ ~Facts!Readable(Null)
  BY <1>1, SoundCases
<1> QED
  BY <1>2 DEF Becomes

\* php_hll_create makes the empty sketch, in either encoding.
LEMMA CreatedSound ==
  ASSUME NEW sparse \in BOOLEAN
  PROVE  Sound(Created(sparse), {}) /\ Facts!IsHLLObject(Created(sparse))
         /\ Created(sparse) # Null
<1> DEFINE c == Facts!Created
           d == Facts!SparseToDense(c)
<1>1. /\ Facts!Good(c) /\ Facts!IsHLLObject(c) /\ Facts!Readable(c)
      /\ Facts!RegsOf(c) = Facts!ZeroRegs
  BY LibraryConstants, Facts!CreatedGood
<1>2. Facts!Good(d) /\ Facts!IsHLLObject(d)
  BY <1>1, LibraryConstants, Facts!DensifiedGood
<1>3. Facts!RegsOf(d) = Facts!RegsOf(c)
  BY <1>1, LibraryConstants, Facts!DensifiedSame
<1>4. ElementsOf({}) = {}
  BY DEF ElementsOf
<1>5. Facts!RegsFor({}) = Facts!ZeroRegs
  BY LibraryConstants, Facts!RegsForNone
<1>6. Created(sparse) = IF sparse THEN c ELSE d
  BY SameObjects DEF Created
<1> HIDE DEF c, d
<1>7. Sound(c, {}) /\ Sound(d, {})
  BY <1>1, <1>2, <1>3, <1>4, <1>5 DEF Sound, Facts!Exact
<1>8. Sound(Created(sparse), {}) /\ Facts!IsHLLObject(Created(sparse))
  BY <1>1, <1>2, <1>6, <1>7
<1> QED
  BY <1>8, SoundCases

\* A sketch of no strings is one of any strings that NULL is a sketch of.
LEMMA CreatedFor ==
  ASSUME NEW sparse \in BOOLEAN, NEW S \in SUBSET Text, Sound(Null, S)
  PROVE  Becomes(Null, S, Created(sparse), S)
<1> DEFINE c == Created(sparse)
<1>1. Sound(Null, {}) /\ Sound(c, {}) /\ c # Null /\ Null = Facts!Null
  BY NullSound, CreatedSound, SoundCases
<1>2. Facts!RegsFor(ElementsOf(S)) = Facts!RegsFor(ElementsOf({}))
  BY <1>1 DEF Sound, Facts!Exact
<1>3. Sound(c, S)
  BY <1>1, <1>2 DEF Sound, Facts!Exact
<1> QED
  BY <1>3, FromNull

\* pfCount and a promotion leave the sketch as it is.
LEMMA CachedFacts ==
  ASSUME NEW o, NEW S \in SUBSET Text, Sound(o, S), Facts!IsHLLObject(o)
  PROVE  Becomes(o, S, Cached(o), S) /\ CountOf(o) \in Nat \cup {Lib!ERR}
<1> DEFINE x == [o EXCEPT !.card = CountOf(o)]
<1>1. /\ Facts!ObjectOK(o) /\ Facts!CacheRight(o) /\ Facts!Exact(o, ElementsOf(S))
      /\ Facts!ERR = -1 /\ Facts!Invalid = -1
  BY DEF Sound, Facts!Good, Facts!ERR, Facts!Invalid
<1>2. Estimate(Facts!RegsOf(o)) \in Nat
  BY <1>1, LibraryConstants, Facts!RegsOfTyped
<1>3. o.card \in Nat \cup {-1}
  BY <1>1, LibraryConstants, Facts!ObjectCases, Facts!NullFields
     DEF Facts!IsHLLObject, Facts!CardValue
<1>4. CountOf(o) = IF o.card # -1 THEN o.card
                   ELSE IF Facts!Readable(o) THEN Estimate(Facts!RegsOf(o)) ELSE -1
  BY <1>1, SameConstants, SameObjects DEF CountOf
<1>5. CountOf(o) \in Nat \cup {Lib!ERR}
  BY <1>1, <1>2, <1>3, <1>4, SameConstants
<1>6. CASE ~Facts!Readable(o)
  <2>1. Cached(o) = o
    BY <1>6, SameObjects DEF Cached
  <2> QED
    BY <1>5, <2>1, Stays
<1>7. CASE Facts!Readable(o)
  <2>1. Cached(o) = x
    BY <1>7, SameObjects DEF Cached
  <2>2. CountOf(o) = Estimate(Facts!RegsOf(o))
    BY <1>1, <1>4, <1>7 DEF Facts!CacheRight
  <2>3. CountOf(o) \in Facts!CardValue
    BY <1>2, <2>2 DEF Facts!CardValue
  <2>4. /\ Facts!ObjectOK(x) /\ Facts!IsHLLObject(x) /\ x.card = CountOf(o)
        /\ Facts!RegsOf(x) = Facts!RegsOf(o) /\ (Facts!Readable(x) <=> Facts!Readable(o))
    BY <1>1, <2>3, LibraryConstants, Facts!CardSet
  <2> HIDE DEF x
  <2>5. Becomes(o, S, x, S)
    BY <1>1, <1>7, <2>2, <2>4
       DEF Becomes, Sound, Facts!Good, Facts!CacheRight, Facts!Exact
  <2> QED
    BY <1>5, <2>1, <2>5
<1> QED
  BY <1>6, <1>7

LEMMA PromotedFacts ==
  ASSUME NEW o, NEW S \in SUBSET Text, Sound(o, S), Lib!Readable(o)
  PROVE  Becomes(o, S, Lib!SparseToDense(o), S)
<1> DEFINE x == Facts!SparseToDense(o)
<1>1. Facts!Readable(o) /\ Facts!Good(o) /\ Lib!SparseToDense(o) = x
  BY SameObjects DEF Sound
<1>2. Facts!Good(x) /\ Facts!IsHLLObject(x)
  BY <1>1, LibraryConstants, Facts!DensifiedGood
<1>3. Facts!RegsOf(x) = Facts!RegsOf(o) /\ Facts!Readable(x)
  BY <1>1, LibraryConstants, Facts!DensifiedSame
<1> HIDE DEF x
<1> QED
  BY <1>1, <1>2, <1>3 DEF Becomes, Sound, Facts!Exact

\* A dump is the sketch of the strings of its robj.
LEMMA DumpSound ==
  ASSUME NEW o, NEW S, Sound(o, S), o # Null
  PROVE  Sound([o EXCEPT !.tail = 0], S)
<1> DEFINE x == [o EXCEPT !.tail = 0]
<1>1. Facts!Good(o) /\ Facts!ObjectOK(o) /\ Facts!IsHLLObject(o)
  BY SoundCases DEF Sound, Facts!Good
<1>2. Facts!Good(x)
  BY <1>1, LibraryConstants, Facts!TailDropped
<1>3. /\ Facts!RegsOf(x) = Facts!RegsOf(o) /\ (Facts!Readable(x) <=> Facts!Readable(o))
      /\ Facts!IsHLLObject(x)
  BY <1>1, LibraryConstants, Facts!TailUnseen
<1>4. x # Facts!Null
  BY <1>3, LibraryConstants, Facts!NotNull
<1> HIDE DEF x
<1>5. Facts!Exact(x, ElementsOf(S))
  BY <1>3, <1>4 DEF Sound, Facts!Exact
<1> QED
  BY <1>2, <1>5 DEF Sound, x

\* More strings, larger registers.
LEMMA MoreStrings ==
  ASSUME NEW T \in SUBSET Text, NEW S \in SUBSET T, NEW i \in Facts!Index
  PROVE  Facts!RegsFor(ElementsOf(T))[i] >= Facts!RegsFor(ElementsOf(S))[i]
<1> DEFINE E == ElementsOf(S)
           F == ElementsOf(T)
           m == Facts!RegsFor(E)[i]
           n == Facts!RegsFor(F)[i]
<1>1. E \in SUBSET Elements /\ F \in SUBSET Elements /\ E \subseteq F
  BY ElementsTyped DEF ElementsOf
<1>2. /\ m \in Facts!RegValue /\ Facts!Longest(E, i, m)
      /\ n \in Facts!RegValue /\ Facts!Longest(F, i, n)
  <2> HIDE DEF E, F
  <2> QED
    BY <1>1, LibraryConstants, Facts!LongestOf
<1> HIDE DEF E, F, m, n
<1>3. m \in Nat /\ n \in Nat
  BY <1>2, LibraryConstants DEF Facts!RegValue, Facts!ObjectAssumption
<1>4. m = 0 \/ m <= n
  BY <1>1, <1>2 DEF Facts!Longest
<1>5. n >= m
  BY <1>3, <1>4
<1> QED
  BY <1>5 DEF E, F, m, n

-----------------------------------------------------------------------------
(* The inductive invariant.                                                *)

FrameSet ==
  [hll : Handle, arg : Handle \cup {NoRes}, this : Object \cup {NotHll},
   todo : Seq(Value), done : Seq(Text), running : BOOLEAN]

\* The adds: all but the innermost wait for the __toString of a value.
StackOK(fs) ==
  /\ fs \in Seq(FrameSet)
  /\ \A i \in DOMAIN fs : /\ i > 1 => fs[i].running
                          /\ fs[i].running => fs[i].todo # <<>>

LEMMA StackFrames ==
  ASSUME NEW fs, StackOK(fs), NEW i \in DOMAIN fs
  PROVE  /\ fs[i] \in FrameSet /\ fs[i].hll \in Handle
         /\ fs[i].arg \in Handle \cup {NoRes}
<1>1. fs[i] \in FrameSet
  BY DEF StackOK
<1> QED
  BY <1>1 DEF FrameSet

\* Robjs and strings are functions, and every robj is the sketch of its strings.
HeapOK ==
  /\ robjs = [r \in Handle |-> robjs[r]]
  /\ given \in [Handle -> SUBSET Text]
  /\ \A r \in Handle : Sound(robjs[r], given[r])

\* What refers to resources: the sketch of an add is referred to and is there.
RefsOK ==
  /\ vars \in SUBSET (Handle \cup Object)
  /\ prop = [o \in Object |-> prop[o]]
  /\ \A o \in Object :
       IF Alive(o, vars, frames) THEN prop[o] \in Handle ELSE prop[o] = NoRes
  /\ StackOK(frames)
  /\ \A i \in DOMAIN frames : /\ frames[i].hll \in Open
                               /\ Facts!IsHLLObject(robjs[frames[i].hll])

DumpOK ==
  /\ Facts!StoredOK
  /\ givenKept \in SUBSET Text /\ Facts!Exact(kept, ElementsOf(givenKept))

OutOK == out.ok \in BOOLEAN /\ out.val \in Nat \cup {Lib!ERR}

Inv == HeapOK /\ RefsOK /\ DumpOK /\ OutOK

-----------------------------------------------------------------------------
(* What a step keeps.                                                      *)

Grow ==
  \A r \in Handle :
    Lib!Readable(robjs[r]) /\ robjs'[r] # Null
      => \A i \in Lib!Index : Lib!RegsOf(robjs'[r])[i] >= Lib!RegsOf(robjs[r])[i]

MergeFailed == out'.fn \in {"merge", "constructmerge"} /\ ~out'.ok

Leaks ==
  /\ Leaked \subseteq Leaked'
  /\ Leaked' # Leaked => MergeFailed

Keeps == Inv' /\ Grow /\ Leaks

\* The new references, and robjs and strings that all become others.
Sketches(heap, strings) ==
  \A r \in Handle : Becomes(robjs[r], given[r], heap[r], strings[r])

LEMMA AssignKeeps ==
  ASSUME Inv, NEW vs \in SUBSET (Handle \cup Object), NEW ps, NEW fs, StackOK(fs),
         \A o \in Object : Alive(o, vs, fs) => ps[o] \in Handle,
         \A i \in DOMAIN fs : Facts!IsHLLObject(robjs[fs[i].hll]),
         NEW heap, NEW strings, Sketches(heap, strings),
         Assign(vs, ps, fs, heap, strings),
         \A r \in Handle : r \in Referenced(vs, ps, fs) => r \in Open \/ robjs[r] = Null,
         \A r \in Handle : robjs[r] = Null /\ heap[r] # Null
                            => r \in Referenced(vs, ps, fs) \/ MergeFailed
  PROVE  HeapOK' /\ RefsOK' /\ Grow /\ Leaks
<1> DEFINE live == Referenced(vs, ps, fs)
<1>1. /\ \A i \in DOMAIN fs : fs[i].hll \in live
      /\ vars' = vs /\ frames' = fs
      /\ prop' = [o \in Object |-> IF Alive(o, vs, fs) THEN ps[o] ELSE NoRes]
      /\ robjs' = [r \in Handle |-> IF r \in Open \ live THEN Null ELSE heap[r]]
      /\ given' = [r \in Handle |-> IF r \in Open \ live THEN {} ELSE strings[r]]
  BY DEF Assign, Destroy, SparesAdds
<1>2. \A o \in Object : Alive(o, vs, fs) => prop'[o] = ps[o]
  BY <1>1
<1>3. Open' = live
  <2>1. {prop'[o] : o \in {p \in Object : Alive(p, vs, fs)}}
          = {ps[o] : o \in {p \in Object : Alive(p, vs, fs)}}
    BY <1>2
  <2>2. Open' = (vs \cap Handle) \cup {prop'[o] : o \in {p \in Object : Alive(p, vs, fs)}}
                  \cup {fs[i].arg : i \in DOMAIN fs}
    BY <1>1 DEF Open, Referenced, Alive
  <2> QED
    BY <2>1, <2>2 DEF Referenced
<1> HIDE DEF live
<1>4. ASSUME NEW r \in Handle
      PROVE  /\ r \in Open \ live => robjs'[r] = Null /\ given'[r] = {}
             /\ r \notin Open \ live => robjs'[r] = heap[r] /\ given'[r] = strings[r]
             /\ Becomes(robjs[r], given[r], heap[r], strings[r])
             /\ Sound(robjs[r], given[r]) /\ Sound(heap[r], strings[r])
             /\ given[r] \in SUBSET Text /\ strings[r] \in SUBSET Text
  BY <1>1 DEF Sketches, Becomes, Inv, HeapOK
<1>5. HeapOK'
  <2>1. ASSUME NEW r \in Handle
        PROVE  given'[r] \in SUBSET Text /\ Sound(robjs'[r], given'[r])
    BY <1>4, NullSound
  <2>2. robjs' = [r \in Handle |-> robjs'[r]] /\ given' \in [Handle -> SUBSET Text]
    <3>1. given' = [r \in Handle |-> given'[r]]
      BY <1>1
    <3>2. robjs' = [r \in Handle |-> robjs'[r]]
      BY <1>1
    <3> QED
      BY <2>1, <3>1, <3>2
  <2> QED
    BY <2>1, <2>2 DEF HeapOK
<1>6. RefsOK'
  <2>1. ASSUME NEW i \in DOMAIN fs
        PROVE  fs[i].hll \in Open' /\ Facts!IsHLLObject(robjs'[fs[i].hll])
    <3>1. fs[i].hll \in live /\ fs[i].hll \in Handle
      BY <1>1, StackFrames
    <3>2. Facts!IsHLLObject(heap[fs[i].hll])
      BY <1>4, <3>1 DEF Becomes
    <3> QED
      BY <1>3, <1>4, <3>1, <3>2
  <2>2. prop' = [o \in Object |-> prop'[o]]
    BY <1>1
  <2>3. \A o \in Object : Alive(o, vs, fs)' <=> Alive(o, vs, fs)
    OBVIOUS
  <2>4. ASSUME NEW o \in Object
        PROVE  IF Alive(o, vs, fs) THEN prop'[o] \in Handle ELSE prop'[o] = NoRes
    BY <1>1
  <2>5. vars' \in SUBSET (Handle \cup Object) /\ StackOK(frames')
    BY <1>1
  <2> QED
    BY <1>1, <2>1, <2>2, <2>4, <2>5 DEF RefsOK, StackOK, Alive
<1>7. Grow
  <2>1. ASSUME NEW r \in Handle, Lib!Readable(robjs[r]), robjs'[r] # Null,
               NEW i \in Lib!Index
        PROVE  Lib!RegsOf(robjs'[r])[i] >= Lib!RegsOf(robjs[r])[i]
    <3>1. robjs'[r] = heap[r] /\ i \in Facts!Index
      BY <1>4, <2>1, SameConstants
    <3>2. Facts!Readable(robjs[r])
      BY <2>1, SameObjects
    <3>3. Facts!Readable(heap[r]) /\ given[r] \subseteq strings[r]
      BY <1>4, <3>2 DEF Becomes
    <3>4. /\ Lib!RegsOf(robjs[r]) = Facts!RegsFor(ElementsOf(given[r]))
          /\ Lib!RegsOf(heap[r]) = Facts!RegsFor(ElementsOf(strings[r]))
      BY <1>4, <3>2, <3>3, SameObjects DEF Sound, Facts!Exact
    <3> QED
      BY <1>4, <3>1, <3>3, <3>4, MoreStrings
  <2> QED
    BY <2>1 DEF Grow
<1>8. Leaks
  <2>1. ASSUME NEW r \in Leaked PROVE r \in Leaked'
    <3>1. r \in Handle /\ robjs[r] # Null /\ r \notin Open
      BY DEF Leaked
    <3>2. r \notin live
      BY <3>1 DEF live
    <3>3. heap[r] # Null
      BY <1>4, <3>1, SoundCases DEF Becomes
    <3> QED
      BY <1>3, <1>4, <3>1, <3>2, <3>3 DEF Leaked
  <2>2. ASSUME NEW r \in Leaked', r \notin Leaked PROVE MergeFailed
    <3>1. r \in Handle /\ robjs'[r] # Null /\ r \notin live
      BY <1>3 DEF Leaked
    <3>2. r \notin Open /\ heap[r] # Null
      BY <1>4, <3>1
    <3>3. robjs[r] = Null
      BY <2>2, <3>1, <3>2 DEF Leaked
    <3> QED
      BY <3>1, <3>2, <3>3 DEF live
  <2> QED
    BY <2>1, <2>2 DEF Leaks
<1> QED
  BY <1>5, <1>6, <1>7, <1>8

\* A call that changes neither robjs nor references.
LEMMA NothingKeeps ==
  ASSUME Inv, Nothing
  PROVE  HeapOK' /\ RefsOK' /\ Grow /\ Leaks
<1>1. /\ robjs' = robjs /\ vars' = vars /\ prop' = prop /\ frames' = frames
      /\ given' = given
  BY DEF Nothing
<1>2. Open' = Open
  BY <1>1 DEF Open
<1>3. Leaks
  BY <1>1, <1>2 DEF Leaks, Leaked
<1>4. Grow
  <2>1. ASSUME NEW r \in Handle, NEW i \in Lib!Index
        PROVE  Lib!RegsOf(robjs[r])[i] >= Lib!RegsOf(robjs[r])[i]
    <3>1. Facts!ObjectOK(robjs[r]) /\ i \in Facts!Index
      BY SameConstants DEF Inv, HeapOK, Sound, Facts!Good
    <3>2. Facts!RegsOf(robjs[r])[i] \in Facts!RegValue
      BY <3>1, LibraryConstants, Facts!RegsOfTyped DEF Facts!RegArray
    <3>3. Lib!RegsOf(robjs[r])[i] \in Int
      BY <3>2, SameObjects, LibraryConstants DEF Facts!RegValue, Facts!ObjectAssumption
    <3> QED
      BY <3>3
  <2> QED
    BY <1>1, <2>1 DEF Grow
<1> QED
  BY <1>1, <1>2, <1>3, <1>4 DEF Inv, HeapOK, RefsOK, StackOK

LEMMA OutFields ==
  /\ \A fn, ok, val : /\ Out(fn, ok, val).fn = fn /\ Out(fn, ok, val).ok = ok
                      /\ Out(fn, ok, val).val = val
  /\ ~Crashed.ok /\ Crashed.val = 0 /\ Lib!ERR = -1
  BY DEF Out, Crashed, Lib!ERR

LEMMA FailedFields ==
  \A fn : Out(fn, FALSE, 0).fn = fn /\ ~Out(fn, FALSE, 0).ok
  BY DEF Out

\* A call that leaves the dump alone and answers a number or an error.
LEMMA AllKept ==
  ASSUME Inv, HeapOK', RefsOK', Grow, Leaks, KeepDump, OutOK'
  PROVE  Keeps
<1>1. kept' = kept /\ givenKept' = givenKept
  BY DEF KeepDump
<1>2. DumpOK'
  BY <1>1 DEF Inv, DumpOK, Facts!StoredOK
<1> QED
  BY <1>2 DEF Keeps, Inv

LEMMA SameSketches == ASSUME Inv PROVE Sketches(robjs, given)
  BY Stays DEF Inv, HeapOK, Sketches

LEMMA OneSketch ==
  ASSUME Inv, NEW r \in Handle, NEW x, NEW S, Becomes(robjs[r], given[r], x, S)
  PROVE  /\ Sketches([robjs EXCEPT ![r] = x], [given EXCEPT ![r] = S])
         /\ S = given[r] => Sketches([robjs EXCEPT ![r] = x], given)
         /\ \A q \in Handle : q # r => [robjs EXCEPT ![r] = x][q] = robjs[q]
         /\ [robjs EXCEPT ![r] = x][r] = x
<1> DEFINE heap == [robjs EXCEPT ![r] = x]
           strings == [given EXCEPT ![r] = S]
<1>1. robjs = [q \in Handle |-> robjs[q]] /\ given \in [Handle -> SUBSET Text]
  BY DEF Inv, HeapOK
<1>2. /\ heap[r] = x /\ strings[r] = S
      /\ \A q \in Handle : q # r => heap[q] = robjs[q] /\ strings[q] = given[q]
  BY <1>1
<1>3. \A q \in Handle : Becomes(robjs[q], given[q], robjs[q], given[q])
  BY SameSketches DEF Sketches
<1> HIDE DEF heap, strings
<1>4. Sketches(heap, strings) /\ (S = given[r] => Sketches(heap, given))
  BY <1>2, <1>3 DEF Sketches
<1> QED
  BY <1>2, <1>4 DEF heap, strings

\* The references stay.
LEMMA WriteKeeps ==
  ASSUME Inv, NEW heap, NEW strings, Sketches(heap, strings), Write(heap, strings),
         \A r \in Handle : robjs[r] = Null /\ heap[r] # Null => r \in Open \/ MergeFailed
  PROVE  HeapOK' /\ RefsOK' /\ Grow /\ Leaks
<1>1. Referenced(vars, prop, frames) = Open
  BY DEF Open
<1>2. /\ vars \in SUBSET (Handle \cup Object) /\ StackOK(frames)
      /\ \A o \in Object : Alive(o, vars, frames) => prop[o] \in Handle
      /\ \A i \in DOMAIN frames : Facts!IsHLLObject(robjs[frames[i].hll])
  BY DEF Inv, RefsOK
<1>3. Assign(vars, prop, frames, heap, strings)
  BY DEF Write
<1> QED
  BY <1>1, <1>2, <1>3, AssignKeeps

\* One robj that is there is replaced.
LEMMA WriteOne ==
  ASSUME Inv, NEW r \in Handle, robjs[r] # Null, NEW x, NEW S,
         Becomes(robjs[r], given[r], x, S),
         \/ Write([robjs EXCEPT ![r] = x], [given EXCEPT ![r] = S])
         \/ S = given[r] /\ Write([robjs EXCEPT ![r] = x], given)
  PROVE  HeapOK' /\ RefsOK' /\ Grow /\ Leaks
<1> DEFINE heap == [robjs EXCEPT ![r] = x]
           strings == [given EXCEPT ![r] = S]
<1>1. /\ Sketches(heap, strings) /\ (S = given[r] => Sketches(heap, given))
      /\ \A q \in Handle : robjs[q] = Null => heap[q] = Null
  BY OneSketch
<1> HIDE DEF heap, strings
<1>2. CASE Write(heap, strings)
  BY <1>1, <1>2, WriteKeeps
<1>3. CASE S = given[r] /\ Write(heap, given)
  BY <1>1, <1>3, WriteKeeps
<1> QED
  BY <1>2, <1>3 DEF heap, strings

\* A robj of a failed merge is left behind.
LEMMA WriteLost ==
  ASSUME Inv, NEW r \in Handle, Fresh(r), NEW sparse \in BOOLEAN,
         Write([robjs EXCEPT ![r] = Created(sparse)], given), MergeFailed
  PROVE  HeapOK' /\ RefsOK' /\ Grow /\ Leaks
<1> DEFINE heap == [robjs EXCEPT ![r] = Created(sparse)]
<1>1. robjs[r] = Null /\ Sound(robjs[r], given[r]) /\ given[r] \in SUBSET Text
  BY DEF Fresh, Inv, HeapOK
<1>2. Becomes(robjs[r], given[r], Created(sparse), given[r])
  BY <1>1, CreatedFor
<1>3. Sketches(heap, given)
  BY <1>2, OneSketch
<1> HIDE DEF heap
<1> QED
  BY <1>3, WriteKeeps DEF heap

\* A new robj whose resource is put into a variable.
LEMMA NewVariable ==
  ASSUME Inv, NEW r \in Handle, Fresh(r), NEW x, NEW S, Becomes(robjs[r], given[r], x, S),
         \/ Assign(vars \cup {r}, prop, frames, [robjs EXCEPT ![r] = x],
                   [given EXCEPT ![r] = S])
         \/ S = given[r] /\ Assign(vars \cup {r}, prop, frames,
                                    [robjs EXCEPT ![r] = x], given)
  PROVE  HeapOK' /\ RefsOK' /\ Grow /\ Leaks
<1> DEFINE heap == [robjs EXCEPT ![r] = x]
           strings == [given EXCEPT ![r] = S]
           vs == vars \cup {r}
<1>1. /\ Sketches(heap, strings) /\ (S = given[r] => Sketches(heap, given))
      /\ \A q \in Handle : q # r => heap[q] = robjs[q]
  BY OneSketch
<1>2. robjs[r] = Null
  BY DEF Fresh
<1>3. \A o \in Object : Alive(o, vs, frames) <=> Alive(o, vars, frames)
  BY ScriptAssumption DEF Alive
<1>4. Referenced(vs, prop, frames) = Open \cup {r}
  BY <1>3 DEF Open, Referenced
<1>5. /\ vs \in SUBSET (Handle \cup Object) /\ StackOK(frames)
      /\ \A o \in Object : Alive(o, vs, frames) => prop[o] \in Handle
      /\ \A i \in DOMAIN frames : Facts!IsHLLObject(robjs[frames[i].hll])
  BY <1>3 DEF Inv, RefsOK
<1>6. \/ Assign(vs, prop, frames, heap, strings)
      \/ S = given[r] /\ Assign(vs, prop, frames, heap, given)
  OBVIOUS
<1>7. /\ \A q \in Handle : q \in Referenced(vs, prop, frames) => q \in Open \/ robjs[q] = Null
      /\ \A q \in Handle : robjs[q] = Null /\ heap[q] # Null
                            => q \in Referenced(vs, prop, frames) \/ MergeFailed
  BY <1>1, <1>2, <1>4
<1> HIDE DEF heap, strings, vs
<1>8. CASE Assign(vs, prop, frames, heap, strings)
  BY <1>1, <1>5, <1>7, <1>8, AssignKeeps
<1>9. CASE S = given[r] /\ Assign(vs, prop, frames, heap, given)
  BY <1>1, <1>5, <1>7, <1>9, AssignKeeps
<1> QED
  BY <1>6, <1>8, <1>9

LEMMA OutTyped ==
  ASSUME NEW fn, NEW ok \in BOOLEAN, NEW val \in Nat \cup {Lib!ERR}, out' = Out(fn, ok, val)
  PROVE  OutOK'
  BY OutFields DEF OutOK

LEMMA NothingAnswered ==
  ASSUME Inv, Nothing, KeepDump, NEW fn, NEW ok \in BOOLEAN, NEW val \in Nat \cup {Lib!ERR},
         out' = Out(fn, ok, val)
  PROVE  Keeps
<1>1. OutOK'
  BY OutTyped
<1> QED
  BY <1>1, NothingKeeps, AllKept

\* A call that changes the robj of an argument, or creates one.
LEMMA Answered ==
  ASSUME Inv, HeapOK', RefsOK', Grow, Leaks, KeepDump, NEW fn, NEW ok \in BOOLEAN,
         NEW val \in Nat \cup {Lib!ERR}, out' = Out(fn, ok, val)
  PROVE  Keeps
  BY OutTyped, AllKept

\* The end of a constructor.
LEMMA ConstructedKeeps ==
  ASSUME Inv, NEW o \in Object, NEW r \in Handle, Fresh(r), NEW x, NEW S \in SUBSET Text,
         Sound(x, S), Constructed(o, r, x, S), KeepDump
  PROVE  Keeps
<1> DEFINE heap == [robjs EXCEPT ![r] = x]
           strings == [given EXCEPT ![r] = S]
           vs == vars \cup {o}
           ps == [prop EXCEPT ![o] = r]
<1>1. robjs[r] = Null
  BY DEF Fresh
<1>2. /\ Sketches(heap, strings)
      /\ \A q \in Handle : q # r => heap[q] = robjs[q]
  BY <1>1, FromNull, OneSketch
<1>3. /\ vars \in SUBSET (Handle \cup Object) /\ prop = [p \in Object |-> prop[p]]
      /\ \A p \in Object : Alive(p, vars, frames) => prop[p] \in Handle
      /\ StackOK(frames)
      /\ \A i \in DOMAIN frames : Facts!IsHLLObject(robjs[frames[i].hll])
  BY DEF Inv, RefsOK
<1>4. \A p \in Object : p # o => (Alive(p, vs, frames) <=> Alive(p, vars, frames))
  BY DEF Alive
<1>5. /\ ps[o] = r /\ Alive(o, vs, frames)
      /\ \A p \in Object : p # o => ps[p] = prop[p]
  BY <1>3 DEF Alive
<1>6. vs \cap Handle = vars \cap Handle
  BY ScriptAssumption
<1>7. vs \in SUBSET (Handle \cup Object)
  BY <1>3
<1>8. Assign(vs, ps, frames, heap, strings) /\ out' = Out("construct", TRUE, 0)
  BY DEF Constructed
<1> HIDE DEF heap, strings, vs, ps
<1>9. \A p \in Object : Alive(p, vs, frames) => ps[p] \in Handle
  BY <1>3, <1>4, <1>5
<1>10. r \in Referenced(vs, ps, frames)
  BY <1>5 DEF Referenced
<1>11. \A q \in Handle : q \in Referenced(vs, ps, frames) => q \in Open \/ robjs[q] = Null
  BY <1>1, <1>4, <1>5, <1>6 DEF Referenced, Open
<1>12. HeapOK' /\ RefsOK' /\ Grow /\ Leaks
  <2>1. \A q \in Handle : robjs[q] = Null /\ heap[q] # Null
                           => q \in Referenced(vs, ps, frames) \/ MergeFailed
    BY <1>2, <1>10
  <2> QED
    BY <1>2, <1>3, <1>7, <1>8, <1>9, <1>11, <2>1, AssignKeeps
<1> QED
  BY <1>8, <1>12, Answered

-----------------------------------------------------------------------------
(* Creating resources and constructing objects.                            *)

LEMMA FreshSketch ==
  ASSUME Inv, NEW r \in Handle, Fresh(r)
  PROVE  robjs[r] = Null /\ Sound(Null, given[r]) /\ given[r] \in SUBSET Text
  BY DEF Fresh, Inv, HeapOK

LEMMA HllCreateKeeps ==
  ASSUME Inv, NEW r \in Handle, NEW sparse \in BOOLEAN, HllCreate(r, sparse)
  PROVE  Keeps
<1>1. Fresh(r) /\ KeepDump /\ out' = Out("create", TRUE, 0)
      /\ Assign(vars \cup {r}, prop, frames, [robjs EXCEPT ![r] = Created(sparse)], given)
  BY DEF HllCreate
<1>2. Becomes(robjs[r], given[r], Created(sparse), given[r])
  BY <1>1, FreshSketch, CreatedFor
<1>3. HeapOK' /\ RefsOK' /\ Grow /\ Leaks
  BY <1>1, <1>2, NewVariable
<1> QED
  BY <1>1, <1>3, Answered

LEMMA ConstructEmptyKeeps ==
  ASSUME Inv, NEW o \in Object, NEW r \in Handle, NEW sparse \in BOOLEAN,
         ConstructEmpty(o, r, sparse)
  PROVE  Keeps
  BY CreatedSound, ConstructedKeeps DEF ConstructEmpty

LEMMA ConstructOtherKeeps ==
  ASSUME Inv, NEW o \in Object, NEW r \in Handle, ConstructOther(o, r)
  PROVE  Keeps
  BY NullSound, ConstructedKeeps DEF ConstructOther

LEMMA LoadedSound ==
  ASSUME Inv, Lib!IsHLLObject(kept)
  PROVE  givenKept \in SUBSET Text /\ Sound(kept, givenKept) /\ kept # Null
<1>1. Facts!IsHLLObject(kept)
  BY SameObjects
<1>2. ~Facts!IsHLLObject(Facts!Junk)
  BY LibraryConstants, Facts!NullFields DEF Facts!IsHLLObject
<1>3. Facts!ObjectOK(kept) /\ Facts!CacheRight(kept)
  BY <1>1, <1>2 DEF Inv, DumpOK, Facts!StoredOK
<1>4. givenKept \in SUBSET Text /\ Sound(kept, givenKept)
  BY <1>3 DEF Inv, DumpOK, Sound, Facts!Good
<1> QED
  BY <1>1, <1>4, SoundCases

LEMMA ConstructLoadKeeps ==
  ASSUME Inv, NEW o \in Object, NEW r \in Handle, ConstructLoad(o, r)
  PROVE  Keeps
<1>1. CASE Lib!IsHLLObject(kept)
  BY <1>1, LoadedSound, ConstructedKeeps DEF ConstructLoad
<1>2. CASE ~Lib!IsHLLObject(kept)
  BY <1>2, NothingAnswered DEF ConstructLoad
<1> QED
  BY <1>1, <1>2

LEMMA UnserializeKeeps ==
  ASSUME Inv, NEW o \in Object, NEW r \in Handle, Unserialize(o, r)
  PROVE  Keeps
<1>1. CASE Lib!IsHLLObject(kept)
  BY <1>1, LoadedSound, ConstructedKeeps DEF Unserialize
<1>2. CASE ~Lib!IsHLLObject(kept)
  BY <1>2, NothingAnswered DEF Unserialize
<1> QED
  BY <1>1, <1>2

LEMMA HllLoadKeeps ==
  ASSUME Inv, NEW r \in Handle, HllLoad(r)
  PROVE  Keeps
<1>1. CASE Lib!IsHLLObject(kept)
  <2>1. /\ Fresh(r) /\ KeepDump /\ out' = Out("load", TRUE, 0)
        /\ Assign(vars \cup {r}, prop, frames, [robjs EXCEPT ![r] = kept],
                  [given EXCEPT ![r] = givenKept])
    BY <1>1 DEF HllLoad
  <2>2. Becomes(robjs[r], given[r], kept, givenKept)
    BY <1>1, <2>1, LoadedSound, FreshSketch, FromNull
  <2>3. HeapOK' /\ RefsOK' /\ Grow /\ Leaks
    BY <2>1, <2>2, NewVariable
  <2> QED
    BY <2>1, <2>3, Answered
<1>2. CASE ~Lib!IsHLLObject(kept)
  BY <1>2, NothingAnswered DEF HllLoad
<1> QED
  BY <1>1, <1>2

-----------------------------------------------------------------------------
(* Merging.                                                                *)

\* What php_hll_from_zval finds is a handle with a robj.
LEMMA FetchableIs ==
  ASSUME Inv, NEW v \in vars \cup {NotHll}, Fetchable(v)
  PROVE  HllOf(v) \in Handle /\ robjs[HllOf(v)] # Null /\ v \in vars
<1>1. v \in vars /\ robjs[HllOf(v)] # Null
  BY DEF Fetchable
<1>2. v \in Handle \cup Object
  BY <1>1 DEF Inv, RefsOK
<1>3. CASE v \in Object
  <2>1. Alive(v, vars, frames)
    BY <1>1 DEF Alive
  <2> QED
    BY <1>1, <1>3, <2>1 DEF Inv, RefsOK, HllOf
<1>4. CASE v \notin Object
  BY <1>1, <1>2, <1>4 DEF HllOf
<1> QED
  BY <1>3, <1>4

LEMMA FetchedList ==
  ASSUME Inv, NEW args \in ArgLists, AllFetched(args)
  PROVE  /\ Fetched(args) \in Facts!ArgLists
         /\ \A j \in DOMAIN Fetched(args) : /\ Fetched(args)[j] \in Handle
                                            /\ robjs[Fetched(args)[j]] # Null
         /\ \A r \in Handle : Append(Fetched(args), r) \in Facts!ArgLists
<1> DEFINE hs == Fetched(args)
<1>1. MaxArgs \in Nat
  BY ScriptAssumption
<1>2. PICK n \in 0 .. MaxArgs : args \in [1 .. n -> vars \cup {NotHll}]
  BY DEF ArgLists
<1>3. ASSUME NEW j \in 1 .. n PROVE hs[j] \in Handle /\ robjs[hs[j]] # Null
  <2>1. args[j] \in vars \cup {NotHll} /\ Fetchable(args[j]) /\ hs[j] = HllOf(args[j])
    BY <1>2 DEF AllFetched, Fetched
  <2> QED
    BY <2>1, FetchableIs
<1>4. hs = [j \in 1 .. n |-> hs[j]]
  BY <1>2 DEF Fetched
<1> HIDE DEF hs
<1>5. hs \in [1 .. n -> Handle] /\ n \in Nat /\ n \in 0 .. MaxArgs + 1
  BY <1>1, <1>2, <1>3, <1>4
<1>6. ASSUME NEW r \in Handle PROVE Append(hs, r) \in [1 .. n + 1 -> Handle]
  <2>1. hs \in Seq(Handle) /\ Len(hs) = n
    BY <1>5
  <2>2. Append(hs, r) \in Seq(Handle) /\ Len(Append(hs, r)) = n + 1
    BY <2>1
  <2> QED
    BY <2>2, LenProperties
<1>7. n + 1 \in 0 .. MaxArgs + 1
  BY <1>1, <1>2
<1>8. hs \in Facts!ArgLists /\ \A r \in Handle : Append(hs, r) \in Facts!ArgLists
  BY <1>5, <1>6, <1>7 DEF Facts!ArgLists
<1> QED
  BY <1>3, <1>5, <1>8 DEF hs

\* pfMerge makes the sketch of the strings of all sources, which the robj of a
\* source may become.
LEMMA MergedFacts ==
  ASSUME Inv, NEW hs \in Facts!ArgLists, Lib!AllReadable(hs),
         \A j \in DOMAIN hs : robjs[hs[j]] # Null, NEW target
  PROVE  /\ StringsOf(hs) \in SUBSET Text /\ Sound(Merged(target, hs), StringsOf(hs))
         /\ \A j \in DOMAIN hs :
              Becomes(robjs[hs[j]], given[hs[j]], Merged(target, hs), StringsOf(hs))
<1> DEFINE U == StringsOf(hs)
           x == Merged(target, hs)
           R == Facts!MergedRegs(hs)
<1>1. \A j \in DOMAIN hs : hs[j] \in Handle
  BY DEF Facts!ArgLists
<1>2. /\ given \in [Handle -> SUBSET Text]
      /\ \A r \in Handle : Sound(robjs[r], given[r]) /\ Facts!ObjectOK(robjs[r])
  BY DEF Inv, HeapOK, Sound, Facts!Good
<1>3. \A j \in DOMAIN hs : given[hs[j]] \in SUBSET Text /\ given[hs[j]] \subseteq U
  BY <1>1, <1>2 DEF StringsOf
<1>4. U \in SUBSET Text
  BY <1>3 DEF StringsOf
<1>5. ASSUME NEW j \in DOMAIN hs
      PROVE  /\ Facts!RegsOf(robjs[hs[j]]) = Facts!RegsFor(ElementsOf(given[hs[j]]))
             /\ [r \in Handle |-> ElementsOf(given[r])][hs[j]] = ElementsOf(given[hs[j]])
  <2>1. Facts!Readable(robjs[hs[j]])
    <3>1. robjs[hs[j]] # Facts!Null
      BY SameConstants DEF Null
    <3> QED
      BY <3>1, SameObjects DEF Facts!AllReadable
  <2> QED
    BY <1>1, <1>2, <2>1 DEF Sound, Facts!Exact
<1>6. [r \in Handle |-> ElementsOf(given[r])] \in [Handle -> SUBSET Elements]
  BY <1>2, ElementsTyped
<1>7. UNION {[r \in Handle |-> ElementsOf(given[r])][hs[j]] : j \in DOMAIN hs}
        = ElementsOf(U)
  <2>1. UNION {[r \in Handle |-> ElementsOf(given[r])][hs[j]] : j \in DOMAIN hs}
          = UNION {ElementsOf(given[hs[j]]) : j \in DOMAIN hs}
    BY <1>5
  <2>2. UNION {ElementsOf(given[hs[j]]) : j \in DOMAIN hs} = ElementsOf(U)
    BY DEF ElementsOf, StringsOf
  <2> QED
    BY <2>1, <2>2
<1>8. R = Facts!RegsFor(ElementsOf(U))
  <2>1. \A j \in DOMAIN hs :
          Facts!RegsOf(robjs[hs[j]])
            = Facts!RegsFor([r \in Handle |-> ElementsOf(given[r])][hs[j]])
    BY <1>5
  <2> QED
    BY <1>2, <1>6, <1>7, <2>1, LibraryConstants, Facts!RegsForUnion
<1>9. R \in Facts!RegArray
  BY <1>2, LibraryConstants, Facts!MergedRegsTyped
<1>10. x = Facts!Dense(R, Facts!Invalid) /\ Facts!Invalid \in Facts!CardValue
  BY SameObjects, SameConstants DEF Merged, Facts!CardValue
<1> HIDE DEF x, U, R
<1>11. /\ Facts!ObjectOK(x) /\ Facts!IsHLLObject(x) /\ Facts!Readable(x)
       /\ Facts!RegsOf(x) = R /\ x.card = Facts!Invalid
  BY <1>9, <1>10, LibraryConstants, Facts!DenseObject
<1>12. Sound(x, U)
  BY <1>8, <1>11 DEF Sound, Facts!Good, Facts!CacheRight, Facts!Exact
<1>13. \A j \in DOMAIN hs : Becomes(robjs[hs[j]], given[hs[j]], x, U)
  BY <1>3, <1>4, <1>11, <1>12 DEF Becomes
<1> QED
  BY <1>4, <1>12, <1>13 DEF x, U

LEMMA ConstructMergeKeeps ==
  ASSUME Inv, NEW o \in Object, NEW r \in Handle, NEW args \in ArgLists,
         ConstructMerge(o, r, args)
  PROVE  Keeps
<1> DEFINE hs == Fetched(args)
<1>1. Fresh(r) /\ KeepDump
  BY DEF ConstructMerge
<1>2. CASE ~AllFetched(args)
  <2>1. Nothing /\ out' = Out("construct", FALSE, 0)
    BY <1>2 DEF ConstructMerge
  <2> QED
    BY <1>1, <2>1, NothingAnswered
<1>3. CASE AllFetched(args) /\ ~Lib!AllReadable(hs)
  <2>1. /\ Write([robjs EXCEPT ![r] = Created(FALSE)], given)
        /\ out' = Out("constructmerge", FALSE, 0)
    BY <1>3 DEF ConstructMerge
  <2>2. MergeFailed
    BY <2>1, FailedFields DEF MergeFailed
  <2>3. HeapOK' /\ RefsOK' /\ Grow /\ Leaks
    BY <1>1, <2>1, <2>2, WriteLost
  <2> QED
    BY <1>1, <2>1, <2>3, Answered
<1>4. CASE AllFetched(args) /\ Lib!AllReadable(hs)
  <2>1. Constructed(o, r, Merged(Created(FALSE), hs), StringsOf(hs))
    BY <1>4 DEF ConstructMerge
  <2>2. StringsOf(hs) \in SUBSET Text /\ Sound(Merged(Created(FALSE), hs), StringsOf(hs))
    BY <1>4, FetchedList, MergedFacts
  <2> QED
    BY <1>1, <2>1, <2>2, ConstructedKeeps
<1> QED
  BY <1>2, <1>3, <1>4

LEMMA HllMergeKeeps ==
  ASSUME Inv, NEW r \in Handle, NEW args \in ArgLists, HllMerge(r, args)
  PROVE  Keeps
<1> DEFINE hs == Fetched(args)
           through == AllFetched(args) /\ Len(args) >= 2 /\ Lib!AllReadable(hs)
<1>1. Fresh(r) /\ KeepDump
  BY DEF HllMerge
<1>2. CASE through
  <2>1. /\ Assign(vars \cup {r}, prop, frames, [robjs EXCEPT ![r] = Merged(Lib!Created, hs)],
                  [given EXCEPT ![r] = StringsOf(hs)])
        /\ out' = Out("merge", TRUE, 0)
    BY <1>2 DEF HllMerge
  <2>2. StringsOf(hs) \in SUBSET Text /\ Sound(Merged(Lib!Created, hs), StringsOf(hs))
    BY <1>2, FetchedList, MergedFacts
  <2>3. Becomes(robjs[r], given[r], Merged(Lib!Created, hs), StringsOf(hs))
    BY <1>1, <2>2, FreshSketch, FromNull
  <2>4. HeapOK' /\ RefsOK' /\ Grow /\ Leaks
    BY <1>1, <2>1, <2>3, NewVariable
  <2> QED
    BY <1>1, <2>1, <2>4, Answered
<1>3. CASE ~through
  <2>1. /\ Write([robjs EXCEPT ![r] = Created(TRUE)], given)
        /\ out' = Out("merge", FALSE, 0)
    BY <1>3 DEF HllMerge, Created
  <2>2. MergeFailed
    BY <2>1, FailedFields DEF MergeFailed
  <2>3. HeapOK' /\ RefsOK' /\ Grow /\ Leaks
    BY <1>1, <2>1, <2>2, WriteLost
  <2> QED
    BY <1>1, <2>1, <2>3, Answered
<1> QED
  BY <1>2, <1>3

\* The property of an object in a variable.
LEMMA Property ==
  ASSUME Inv, NEW o \in Object, o \in vars
  PROVE  prop[o] \in Handle /\ prop[o] \in Open /\ Alive(o, vars, frames)
  BY DEF Inv, RefsOK, Alive, Open, Referenced

LEMMA MergeKeeps ==
  ASSUME Inv, NEW o \in Object, NEW args \in ArgLists, Merge(o, args)
  PROVE  Keeps
<1> DEFINE target == prop[o]
           hs == Sources(Fetched(args), target)
           through == /\ robjs[target] # Null
                      /\ args # <<>> /\ AllFetched(args) /\ Lib!AllReadable(hs)
                      /\ Lib!Readable(robjs[target])
<1>1. o \in vars /\ KeepDump
  BY DEF Merge
<1>2. target \in Handle
  BY <1>1, Property
<1>3. CASE through
  <2>1. /\ Write([robjs EXCEPT ![target] = Merged(robjs[target], hs)],
                 [given EXCEPT ![target] = StringsOf(hs)])
        /\ out' = Out("mergemethod", TRUE, 0)
    BY <1>3 DEF Merge
  <2>2. hs = Append(Fetched(args), target)
    BY DEF Sources
  <2>3. hs \in Facts!ArgLists
    BY <1>2, <1>3, <2>2, FetchedList
  <2>4. Fetched(args) \in Seq(Handle)
    <3>1. PICK n \in 0 .. MaxArgs + 1 : Fetched(args) \in [1 .. n -> Handle]
      BY <1>3, FetchedList DEF Facts!ArgLists
    <3> QED
      BY <3>1
  <2>5. \A j \in DOMAIN hs : robjs[hs[j]] # Null
    <3>1. ASSUME NEW j \in DOMAIN hs
          PROVE  \/ hs[j] = target
                 \/ j \in DOMAIN Fetched(args) /\ hs[j] = Fetched(args)[j]
      <4> DEFINE fs == Fetched(args)
      <4>1. Len(hs) = Len(fs) + 1 /\ hs \in Seq(Handle) /\ Len(fs) \in Nat
        BY <1>2, <2>2, <2>4
      <4>2. j \in 1 .. Len(fs) + 1
        BY <4>1
      <4>3. CASE j = Len(fs) + 1
        BY <1>2, <2>2, <2>4, <4>3
      <4>4. CASE j # Len(fs) + 1
        <5>1. j \in 1 .. Len(fs)
          BY <4>1, <4>2, <4>4
        <5> QED
          BY <1>2, <2>2, <2>4, <5>1
      <4> QED
        BY <4>3, <4>4
    <3> QED
      BY <1>3, <3>1, FetchedList
  <2>6. \E j \in DOMAIN hs : hs[j] = target
    <3>1. Len(hs) \in DOMAIN hs /\ hs[Len(hs)] = target
      BY <1>2, <2>2, <2>4
    <3> QED
      BY <3>1
  <2>7. Becomes(robjs[target], given[target], Merged(robjs[target], hs), StringsOf(hs))
    <3> HIDE DEF hs
    <3> QED
      BY <1>3, <2>3, <2>5, <2>6, MergedFacts
  <2>8. HeapOK' /\ RefsOK' /\ Grow /\ Leaks
    BY <1>2, <1>3, <2>1, <2>7, WriteOne
  <2> QED
    BY <1>1, <2>1, <2>8, Answered
<1>4. CASE ~through
  <2>1. Nothing /\ out' = Out("mergemethod", FALSE, 0)
    BY <1>4 DEF Merge
  <2> QED
    BY <1>1, <2>1, NothingAnswered
<1> QED
  BY <1>3, <1>4

-----------------------------------------------------------------------------
(* Reading and dumping.                                                    *)

LEMMA CountKeeps ==
  ASSUME Inv, NEW v \in vars \cup {NotHll}, Count(v)
  PROVE  Keeps
<1> DEFINE h == HllOf(v)
<1>1. KeepDump
  BY DEF Count
<1>2. CASE Fetchable(v)
  <2>1. /\ Write([robjs EXCEPT ![h] = Cached(robjs[h])], given)
        /\ out' = Out("count", TRUE, CountOf(robjs[h]))
    BY <1>2 DEF Count
  <2>2. h \in Handle /\ robjs[h] # Null
    BY <1>2, FetchableIs
  <2>3. Sound(robjs[h], given[h]) /\ given[h] \in SUBSET Text
    BY <2>2 DEF Inv, HeapOK
  <2>4. Facts!IsHLLObject(robjs[h])
    BY <2>2, <2>3, SoundCases
  <2> HIDE DEF h
  <2>5. /\ Becomes(robjs[h], given[h], Cached(robjs[h]), given[h])
        /\ CountOf(robjs[h]) \in Nat \cup {Lib!ERR}
    BY <2>3, <2>4, CachedFacts
  <2>6. HeapOK' /\ RefsOK' /\ Grow /\ Leaks
    BY <2>1, <2>2, <2>5, WriteOne
  <2> QED
    BY <1>1, <2>1, <2>5, <2>6, Answered
<1>3. CASE ~Fetchable(v)
  <2>1. Nothing /\ out' = Out("count", FALSE, 0)
    BY <1>3 DEF Count
  <2> QED
    BY <1>1, <2>1, NothingAnswered
<1> QED
  BY <1>2, <1>3

LEMMA CountMergedKeeps ==
  ASSUME Inv, NEW args \in ArgLists, CountMerged(args)
  PROVE  Keeps
<1> DEFINE hs == Fetched(args)
<1>1. Nothing /\ KeepDump
  BY DEF CountMerged
<1>2. CASE ~AllFetched(args)
  <2>1. out' = Out("count", FALSE, 0)
    BY <1>2 DEF CountMerged
  <2> QED
    BY <1>1, <2>1, NothingAnswered
<1>3. CASE AllFetched(args) /\ Lib!AllReadable(hs)
  <2>1. out' = Out("count", TRUE, Estimate(Lib!MergedRegs(hs)))
    BY <1>3 DEF CountMerged
  <2>2. hs \in Facts!ArgLists
    BY <1>3, FetchedList
  <2>3. \A r \in Handle : Facts!ObjectOK(robjs[r])
    BY DEF Inv, HeapOK, Sound, Facts!Good
  <2>4. Lib!MergedRegs(hs) \in Facts!RegArray
    BY <2>2, <2>3, LibraryConstants, SameObjects, Facts!MergedRegsTyped
  <2>5. Estimate(Lib!MergedRegs(hs)) \in Nat
    BY <2>4, LibraryConstants DEF Facts!EstimateAssumption
  <2> QED
    BY <1>1, <2>1, <2>5, NothingAnswered
<1>4. CASE AllFetched(args) /\ ~Lib!AllReadable(hs)
  <2>1. out' = Out("count", TRUE, Lib!ERR)
    BY <1>4 DEF CountMerged
  <2> QED
    BY <1>1, <2>1, NothingAnswered
<1> QED
  BY <1>2, <1>3, <1>4

LEMMA PromoteKeeps ==
  ASSUME Inv, NEW v \in vars, Promote(v)
  PROVE  Keeps
<1> DEFINE h == HllOf(v)
           x == IF Lib!Readable(robjs[h]) THEN Lib!SparseToDense(robjs[h]) ELSE robjs[h]
<1>1. KeepDump
  BY DEF Promote
<1>2. CASE Fetchable(v)
  <2>1. /\ Write([robjs EXCEPT ![h] = x], given)
        /\ out' = Out("promote", Lib!Readable(robjs[h]), 0)
    BY <1>2 DEF Promote
  <2>2. h \in Handle /\ robjs[h] # Null
    BY <1>2, FetchableIs
  <2>3. Sound(robjs[h], given[h]) /\ given[h] \in SUBSET Text
    BY <2>2 DEF Inv, HeapOK
  <2>4. Becomes(robjs[h], given[h], x, given[h])
    BY <2>3, PromotedFacts, Stays
  <2>5. Lib!Readable(robjs[h]) \in BOOLEAN
    BY DEF Lib!Readable
  <2> HIDE DEF h, x
  <2>6. HeapOK' /\ RefsOK' /\ Grow /\ Leaks
    BY <2>1, <2>2, <2>4, WriteOne
  <2> QED
    BY <1>1, <2>1, <2>5, <2>6, Answered
<1>3. CASE ~Fetchable(v)
  <2>1. Nothing /\ out' = Out("promote", FALSE, 0)
    BY <1>3 DEF Promote
  <2> QED
    BY <1>1, <2>1, NothingAnswered
<1> QED
  BY <1>2, <1>3

\* Another dump, or none that can be loaded.
LEMMA AnotherDump ==
  ASSUME Inv, Nothing, NEW fn, out' = Out(fn, TRUE, 0), DumpOK'
  PROVE  Keeps
<1>1. OutOK'
  BY OutTyped
<1> QED
  BY <1>1, NothingKeeps DEF Keeps, Inv

LEMMA DumpKeeps ==
  ASSUME Inv, NEW v \in vars, Dump(v)
  PROVE  Keeps
<1> DEFINE h == HllOf(v)
           x == [robjs[h] EXCEPT !.tail = 0]
<1>1. /\ Fetchable(v) /\ kept' = x /\ givenKept' = given[h] /\ Nothing
      /\ out' = Out("dump", TRUE, 0)
  BY DEF Dump
<1>2. h \in Handle /\ robjs[h] # Null
  BY <1>1, FetchableIs
<1>3. Sound(robjs[h], given[h]) /\ given[h] \in SUBSET Text
  BY <1>2 DEF Inv, HeapOK
<1>4. Sound(x, given[h])
  BY <1>2, <1>3, DumpSound
<1> HIDE DEF x, h
<1>5. DumpOK'
  BY <1>1, <1>3, <1>4 DEF DumpOK, Facts!StoredOK, Sound, Facts!Good
<1> QED
  BY <1>1, <1>5, AnotherDump

LEMMA SerializeNullKeeps ==
  ASSUME Inv, NEW o \in Object, SerializeNull(o)
  PROVE  Keeps
  BY NothingAnswered DEF SerializeNull, Crashed

\* A damaged dump cannot be loaded, or its sketch cannot be read.
LEMMA StorageDamageKeeps ==
  ASSUME Inv, StorageDamage
  PROVE  Keeps
<1>1. Nothing /\ givenKept' = givenKept /\ out' = Out("none", TRUE, 0)
  BY DEF StorageDamage, Nothing, Lib!StorageDamage
<1>2. Facts!StorageDamage
  BY SameObjects, SameConstants
     DEF StorageDamage, Lib!StorageDamage, Facts!StorageDamage, Lib!Ready, Facts!Ready,
         Lib!Silent, Facts!Silent, Lib!Reply, Facts!Reply, Lib!OK, Facts!OK,
         Lib!Sparse, Facts!Sparse, Lib!OpLen, Facts!OpLen
<1>3. Facts!IInv
  BY DEF Inv, HeapOK, DumpOK, Sound, Facts!Good, Facts!IInv, Facts!CallOK, Facts!Idle,
         Facts!RetOK
<1>4. \/ kept' = Facts!Junk
      \/ Facts!ObjectOK(kept') /\ kept' # Facts!Null /\ ~Facts!Readable(kept')
  BY <1>2, <1>3, LibraryConstants, Facts!DamagedString
<1>5. Facts!Junk # Facts!Null /\ ~Facts!Readable(Facts!Junk)
  BY LibraryConstants, Facts!NullFields DEF Facts!Readable
<1>6. DumpOK'
  BY <1>1, <1>4, <1>5 DEF Inv, DumpOK, Facts!StoredOK, Facts!CacheRight, Facts!Exact
<1> QED
  BY <1>1, <1>6, AnotherDump

-----------------------------------------------------------------------------
(* Variables.                                                              *)

\* Robjs stay, and nothing new is referred to.
LEMMA MovedKeeps ==
  ASSUME Inv, NEW vs \in SUBSET (Handle \cup Object), NEW ps, NEW fs, StackOK(fs),
         \A o \in Object : Alive(o, vs, fs) => ps[o] \in Handle,
         \A i \in DOMAIN fs : Facts!IsHLLObject(robjs[fs[i].hll]),
         Assign(vs, ps, fs, robjs, given),
         \A r \in Handle : r \in Referenced(vs, ps, fs) => r \in Open
  PROVE  HeapOK' /\ RefsOK' /\ Grow /\ Leaks
  BY SameSketches, AssignKeeps

LEMMA FramesSketches ==
  ASSUME Inv
  PROVE  /\ StackOK(frames)
         /\ \A i \in DOMAIN frames : Facts!IsHLLObject(robjs[frames[i].hll])
         /\ vars \in SUBSET (Handle \cup Object)
         /\ \A o \in Object : Alive(o, vars, frames) => prop[o] \in Handle
  BY DEF Inv, RefsOK

LEMMA UnsetKeeps ==
  ASSUME Inv, NEW v \in vars, Unset(v)
  PROVE  Keeps
<1> DEFINE vs == vars \ {v}
<1>1. /\ Assign(vs, prop, frames, robjs, given) /\ KeepDump
      /\ out' = Out("none", TRUE, 0)
  BY DEF Unset
<1>2. \A o \in Object : Alive(o, vs, frames) => Alive(o, vars, frames)
  BY DEF Alive
<1>3. \A r \in Handle : r \in Referenced(vs, prop, frames) => r \in Open
  BY <1>2 DEF Open, Referenced
<1>4. vs \in SUBSET (Handle \cup Object)
  BY FramesSketches
<1> HIDE DEF vs
<1>5. HeapOK' /\ RefsOK' /\ Grow /\ Leaks
  BY <1>1, <1>2, <1>3, <1>4, FramesSketches, MovedKeeps
<1> QED
  BY <1>1, <1>5, Answered

LEMMA ReadPropertyKeeps ==
  ASSUME Inv, NEW o \in Object, ReadProperty(o)
  PROVE  Keeps
<1> DEFINE vs == vars \cup {prop[o]}
<1>1. /\ Assign(vs, prop, frames, robjs, given) /\ KeepDump /\ o \in vars
      /\ out' = Out("none", TRUE, 0)
  BY DEF ReadProperty
<1>2. prop[o] \in Handle /\ prop[o] \in Open
  BY <1>1, Property
<1>3. \A p \in Object : Alive(p, vs, frames) <=> Alive(p, vars, frames)
  BY <1>2, ScriptAssumption DEF Alive
<1>4. \A r \in Handle : r \in Referenced(vs, prop, frames) => r \in Open
  BY <1>2, <1>3 DEF Open, Referenced
<1>5. vs \in SUBSET (Handle \cup Object)
  BY <1>2, FramesSketches
<1> HIDE DEF vs
<1>6. HeapOK' /\ RefsOK' /\ Grow /\ Leaks
  BY <1>1, <1>3, <1>4, <1>5, FramesSketches, MovedKeeps
<1> QED
  BY <1>1, <1>6, Answered

LEMMA CloneKeeps ==
  ASSUME Inv, NEW o \in Object, NEW p \in Object, Clone(o, p)
  PROVE  Keeps
<1> DEFINE vs == vars \cup {p}
           ps == [prop EXCEPT ![p] = prop[o]]
<1>1. /\ Assign(vs, ps, frames, robjs, given) /\ KeepDump /\ o \in vars
      /\ out' = Out("clone", TRUE, 0)
  BY DEF Clone
<1>2. prop[o] \in Handle /\ prop[o] \in Open
  BY <1>1, Property
<1>3. \A q \in Object : q # p => (Alive(q, vs, frames) <=> Alive(q, vars, frames))
  BY DEF Alive
<1>4. ps[p] = prop[o] /\ \A q \in Object : q # p => ps[q] = prop[q]
  BY DEF Inv, RefsOK
<1>5. vs \in SUBSET (Handle \cup Object) /\ vs \cap Handle = vars \cap Handle
  BY FramesSketches, ScriptAssumption
<1> HIDE DEF vs, ps
<1>6. \A q \in Object : Alive(q, vs, frames) => ps[q] \in Handle
  BY <1>2, <1>3, <1>4, FramesSketches
<1>7. \A r \in Handle : r \in Referenced(vs, ps, frames) => r \in Open
  BY <1>2, <1>3, <1>4, <1>5 DEF Open, Referenced
<1>8. HeapOK' /\ RefsOK' /\ Grow /\ Leaks
  BY <1>1, <1>5, <1>6, <1>7, FramesSketches, MovedKeeps
<1> QED
  BY <1>1, <1>8, Answered

-----------------------------------------------------------------------------
(* Adding.                                                                 *)

LEMMA PushedFrames ==
  ASSUME NEW fs, StackOK(fs), fs # <<>> => Head(fs).running,
         NEW f \in FrameSet, f.running => f.todo # <<>>
  PROVE  /\ StackOK(<<f>> \o fs)
         /\ \A i \in DOMAIN (<<f>> \o fs) :
              (<<f>> \o fs)[i] = f \/ \E j \in DOMAIN fs : (<<f>> \o fs)[i] = fs[j]
<1> DEFINE gs == <<f>> \o fs
<1>1. fs \in Seq(FrameSet) /\ gs \in Seq(FrameSet) /\ Len(fs) \in Nat
      /\ Len(gs) = Len(fs) + 1
  BY DEF StackOK
<1>2. ASSUME NEW i \in DOMAIN gs
      PROVE  /\ i = 1 => gs[i] = f
             /\ i # 1 => i - 1 \in DOMAIN fs /\ gs[i] = fs[i - 1]
  BY <1>1
<1>3. ASSUME NEW i \in DOMAIN fs PROVE fs[i].running
  <2>1. i \in 1 .. Len(fs)
    BY <1>1
  <2>2. CASE i = 1
    BY <1>1, <2>1, <2>2
  <2>3. CASE i # 1
    BY <2>1, <2>3 DEF StackOK
  <2> QED
    BY <2>2, <2>3
<1>4. \A i \in DOMAIN fs : fs[i].running => fs[i].todo # <<>>
  BY DEF StackOK
<1>5. \A i \in DOMAIN gs : i \in Int /\ (i > 1 => i # 1)
  BY <1>1
<1> HIDE DEF gs
<1>6. StackOK(gs)
  BY <1>1, <1>2, <1>3, <1>4, <1>5 DEF StackOK
<1>7. \A i \in DOMAIN gs : gs[i] = f \/ \E j \in DOMAIN fs : gs[i] = fs[j]
  BY <1>2
<1> QED
  BY <1>6, <1>7 DEF gs

LEMMA PoppedFrames ==
  ASSUME NEW fs, StackOK(fs), fs # <<>>
  PROVE  /\ StackOK(Tail(fs)) /\ Head(fs) \in FrameSet
         /\ 1 \in DOMAIN fs /\ Head(fs) = fs[1]
         /\ \A i \in DOMAIN Tail(fs) : /\ \E j \in DOMAIN fs : Tail(fs)[i] = fs[j]
                                       /\ Tail(fs)[i].running
         /\ \A j \in DOMAIN fs : \/ fs[j] = Head(fs)
                                 \/ \E i \in DOMAIN Tail(fs) : fs[j] = Tail(fs)[i]
<1> DEFINE gs == Tail(fs)
<1>1. /\ fs \in Seq(FrameSet) /\ gs \in Seq(FrameSet) /\ Len(fs) \in Nat
      /\ Len(gs) = Len(fs) - 1 /\ Len(fs) > 0
  BY DEF StackOK
<1>2. ASSUME NEW i \in DOMAIN gs
      PROVE  i + 1 \in DOMAIN fs /\ i + 1 > 1 /\ gs[i] = fs[i + 1]
  BY <1>1
<1>3. ASSUME NEW i \in DOMAIN gs PROVE gs[i].running /\ gs[i].todo # <<>>
  <2>1. fs[i + 1].running /\ (fs[i + 1].running => fs[i + 1].todo # <<>>)
    BY <1>2 DEF StackOK
  <2> QED
    BY <1>2, <2>1
<1>4. 1 \in DOMAIN fs /\ Head(fs) = fs[1] /\ Head(fs) \in FrameSet
  BY <1>1
<1>5. ASSUME NEW j \in DOMAIN fs, j # 1
      PROVE  j - 1 \in DOMAIN gs /\ gs[j - 1] = fs[j]
  BY <1>1, <1>5
<1> HIDE DEF gs
<1>6. StackOK(gs)
  BY <1>1, <1>3 DEF StackOK
<1> QED
  BY <1>2, <1>3, <1>4, <1>5, <1>6 DEF gs

\* Frames that hold no other resource and no other object refer to no more.
LEMMA NoMoreReferences ==
  ASSUME Inv, NEW fs,
         \A i \in DOMAIN fs : /\ fs[i].arg \in Open \cup {NoRes}
                              /\ fs[i].this \in Object => Alive(fs[i].this, vars, frames)
  PROVE  /\ \A r \in Handle : r \in Referenced(vars, prop, fs) => r \in Open
         /\ \A o \in Object : Alive(o, vars, fs) => prop[o] \in Handle
<1>1. \A o \in Object : Alive(o, vars, fs) => Alive(o, vars, frames)
  BY DEF Alive
<1>2. NoRes \notin Handle
  BY ScriptAssumption DEF NoRes
<1> QED
  BY <1>1, <1>2, FramesSketches DEF Referenced, Open

LEMMA FrameRefers ==
  ASSUME NEW i \in DOMAIN frames
  PROVE  /\ frames[i].arg \in Open
         /\ frames[i].this \in Object => Alive(frames[i].this, vars, frames)
  BY DEF Open, Referenced, Alive

LEMMA FrameFields ==
  ASSUME NEW f \in FrameSet
  PROVE  /\ f = [hll |-> f.hll, arg |-> f.arg, this |-> f.this, todo |-> f.todo,
                 done |-> f.done, running |-> f.running]
         /\ f.hll \in Handle /\ f.arg \in Handle \cup {NoRes}
         /\ f.this \in Object \cup {NotHll} /\ f.todo \in Seq(Value)
         /\ f.done \in Seq(Text) /\ f.running \in BOOLEAN
  BY DEF FrameSet

LEMMA ConvertedFrame ==
  ASSUME NEW f \in FrameSet, f.todo # <<>>
  PROVE  LET g == Converted(f)
         IN  /\ g \in FrameSet /\ g.hll = f.hll /\ g.arg = f.arg /\ g.this = f.this
             /\ ~g.running
<1> DEFINE t == Tail(f.todo)
           d == Append(f.done, Head(f.todo).s)
           g == [hll |-> f.hll, arg |-> f.arg, this |-> f.this, todo |-> t,
                 done |-> d, running |-> FALSE]
<1>1. t \in Seq(Value) /\ Head(f.todo) \in Value
  BY FrameFields
<1>2. d \in Seq(Text)
  BY <1>1, FrameFields DEF Text
<1> HIDE DEF t, d
<1>3. Converted(f) = g
  BY DEF Converted, Frame, t, d
<1>4. g \in FrameSet
  BY <1>1, <1>2, FrameFields DEF FrameSet
<1> QED
  BY <1>3, <1>4

LEMMA RunningFrame ==
  ASSUME NEW f \in FrameSet
  PROVE  LET g == [f EXCEPT !.running = TRUE]
         IN  /\ g \in FrameSet /\ g.hll = f.hll /\ g.arg = f.arg /\ g.this = f.this
             /\ g.todo = f.todo
  BY FrameFields DEF FrameSet

\* Another frame on the stack: that of an add to a sketch that is there.
LEMMA PushKeeps ==
  ASSUME Inv, Script, NEW f \in FrameSet, ~f.running, f.arg \in Open \cup {NoRes},
         f.this \in Object => Alive(f.this, vars, frames), robjs[f.hll] # Null, Push(f)
  PROVE  HeapOK' /\ RefsOK' /\ Grow /\ Leaks
<1> DEFINE fs == <<f>> \o frames
<1>1. Assign(vars, prop, fs, robjs, given)
  BY DEF Push
<1>2. /\ StackOK(fs)
      /\ \A i \in DOMAIN fs : fs[i] = f \/ \E j \in DOMAIN frames : fs[i] = frames[j]
  BY FramesSketches, PushedFrames DEF Script
<1> HIDE DEF fs
<1>3. Facts!IsHLLObject(robjs[f.hll])
  BY FrameFields, SoundCases DEF Inv, HeapOK
<1>4. \A i \in DOMAIN fs : Facts!IsHLLObject(robjs[fs[i].hll])
  BY <1>2, <1>3, FramesSketches
<1>5. \A i \in DOMAIN fs : /\ fs[i].arg \in Open \cup {NoRes}
                           /\ fs[i].this \in Object => Alive(fs[i].this, vars, frames)
  BY <1>2, FrameRefers
<1> QED
  BY <1>1, <1>2, <1>4, <1>5, FramesSketches, NoMoreReferences, MovedKeeps

\* The innermost frame gets on.
LEMMA ReplaceKeeps ==
  ASSUME Inv, frames # <<>>, NEW f \in FrameSet, f.hll = Top.hll, f.arg = Top.arg,
         f.this = Top.this, f.running => f.todo # <<>>, Replace(f)
  PROVE  HeapOK' /\ RefsOK' /\ Grow /\ Leaks
<1> DEFINE ts == Tail(frames)
           fs == <<f>> \o ts
<1>1. Assign(vars, prop, fs, robjs, given)
  BY DEF Replace
<1>2. /\ StackOK(ts) /\ 1 \in DOMAIN frames /\ Top = frames[1]
      /\ \A i \in DOMAIN ts : /\ \E j \in DOMAIN frames : ts[i] = frames[j]
                              /\ ts[i].running
  BY FramesSketches, PoppedFrames DEF Top
<1>3. ts # <<>> => Head(ts).running
  <2>1. ts \in Seq(FrameSet)
    BY <1>2 DEF StackOK
  <2> HIDE DEF ts
  <2>2. ts # <<>> => 1 \in DOMAIN ts /\ Head(ts) = ts[1]
    BY <2>1
  <2> QED
    BY <1>2, <2>2
<1> HIDE DEF ts
<1>4. /\ StackOK(fs)
      /\ \A i \in DOMAIN fs : fs[i] = f \/ \E j \in DOMAIN ts : fs[i] = ts[j]
  BY <1>2, <1>3, PushedFrames
<1> HIDE DEF fs
<1>5. \A i \in DOMAIN fs : \E j \in DOMAIN frames :
        fs[i].hll = frames[j].hll /\ fs[i].arg = frames[j].arg /\ fs[i].this = frames[j].this
  BY <1>2, <1>4
<1>6. \A i \in DOMAIN fs : Facts!IsHLLObject(robjs[fs[i].hll])
  BY <1>5, FramesSketches
<1>7. \A i \in DOMAIN fs : /\ fs[i].arg \in Open \cup {NoRes}
                           /\ fs[i].this \in Object => Alive(fs[i].this, vars, frames)
  BY <1>5, FrameRefers
<1> QED
  BY <1>1, <1>4, <1>6, <1>7, FramesSketches, NoMoreReferences, MovedKeeps

\* The innermost add ends.
LEMMA PopKeeps ==
  ASSUME Inv, frames # <<>>, NEW heap, NEW strings, Sketches(heap, strings),
         \A r \in Handle : robjs[r] = Null => heap[r] = Null, Pop(heap, strings)
  PROVE  HeapOK' /\ RefsOK' /\ Grow /\ Leaks
<1> DEFINE fs == Tail(frames)
<1>1. Assign(vars, prop, fs, heap, strings)
  BY DEF Pop
<1>2. /\ StackOK(fs)
      /\ \A i \in DOMAIN fs : \E j \in DOMAIN frames : fs[i] = frames[j]
  BY FramesSketches, PoppedFrames
<1> HIDE DEF fs
<1>3. \A i \in DOMAIN fs : Facts!IsHLLObject(robjs[fs[i].hll])
  BY <1>2, FramesSketches
<1>4. \A i \in DOMAIN fs : /\ fs[i].arg \in Open \cup {NoRes}
                           /\ fs[i].this \in Object => Alive(fs[i].this, vars, frames)
  BY <1>2, FrameRefers
<1> QED
  BY <1>1, <1>2, <1>3, <1>4, FramesSketches, NoMoreReferences, AssignKeeps

LEMMA HllAddKeeps ==
  ASSUME Inv, NEW r \in Handle, NEW input \in Inputs, HllAdd(r, input)
  PROVE  Keeps
<1> DEFINE f == Frame(r, r, NotHll, input, <<>>)
<1>1. Script /\ KeepDump /\ r \in vars
  BY DEF HllAdd
<1>2. CASE robjs[r] # Null
  <2>1. Push(f) /\ out' = Out("none", TRUE, 0)
    BY <1>2 DEF HllAdd
  <2>2. /\ f \in FrameSet /\ ~f.running /\ f.arg = r /\ f.this = NotHll /\ f.hll = r
    BY ScriptAssumption DEF Frame, FrameSet
  <2>3. r \in Open
    BY <1>1 DEF Open, Referenced
  <2> HIDE DEF f
  <2>4. HeapOK' /\ RefsOK' /\ Grow /\ Leaks
    BY <1>1, <1>2, <2>1, <2>2, <2>3, ScriptAssumption, PushKeeps
  <2> QED
    BY <1>1, <2>1, <2>4, Answered
<1>3. CASE robjs[r] = Null
  <2>1. Nothing /\ out' = Out("add", FALSE, 0)
    BY <1>3 DEF HllAdd
  <2> QED
    BY <1>1, <2>1, NothingAnswered
<1> QED
  BY <1>2, <1>3

LEMMA AddKeeps ==
  ASSUME Inv, NEW o \in Object, NEW input \in Inputs, Add(o, input)
  PROVE  Keeps
<1> DEFINE f == Frame(prop[o], NoRes, o, input, <<>>)
<1>1. Script /\ KeepDump /\ o \in vars
  BY DEF Add
<1>2. CASE robjs[prop[o]] # Null
  <2>1. Push(f) /\ out' = Out("none", TRUE, 0)
    BY <1>2 DEF Add
  <2>2. prop[o] \in Handle /\ Alive(o, vars, frames)
    BY <1>1, Property
  <2>3. /\ f \in FrameSet /\ ~f.running /\ f.arg = NoRes /\ f.this = o /\ f.hll = prop[o]
    BY <2>2, ScriptAssumption DEF Frame, FrameSet
  <2> HIDE DEF f
  <2>4. HeapOK' /\ RefsOK' /\ Grow /\ Leaks
    BY <1>1, <1>2, <2>1, <2>2, <2>3, PushKeeps
  <2> QED
    BY <1>1, <2>1, <2>4, Answered
<1>3. CASE robjs[prop[o]] = Null
  <2>1. Nothing /\ out' = Out("addmethod", FALSE, 0)
    BY <1>3 DEF Add
  <2> QED
    BY <1>1, <2>1, NothingAnswered
<1> QED
  BY <1>2, <1>3

LEMMA TopFrame ==
  ASSUME Inv, frames # <<>>
  PROVE  /\ Top \in FrameSet /\ Facts!IsHLLObject(robjs[Top.hll])
         /\ Top.running => Top.todo # <<>>
<1>1. StackOK(frames)
  BY FramesSketches
<1>2. Top \in FrameSet /\ 1 \in DOMAIN frames /\ Top = frames[1]
  BY <1>1, PoppedFrames DEF Top
<1>3. frames[1].running => frames[1].todo # <<>>
  BY <1>1, <1>2 DEF StackOK
<1> QED
  BY <1>2, <1>3, FramesSketches

LEMMA ConvertScalarKeeps == ASSUME Inv, ConvertScalar PROVE Keeps
<1>1. /\ frames # <<>> /\ Top.todo # <<>> /\ Replace(Converted(Top))
      /\ out' = out /\ KeepDump
  BY DEF ConvertScalar, Converting
<1>2. HeapOK' /\ RefsOK' /\ Grow /\ Leaks
  BY <1>1, TopFrame, ConvertedFrame, ReplaceKeeps
<1>3. OutOK'
  BY <1>1 DEF Inv, OutOK
<1> QED
  BY <1>1, <1>2, <1>3, AllKept

LEMMA CallToStringKeeps == ASSUME Inv, CallToString PROVE Keeps
<1> DEFINE f == [Top EXCEPT !.running = TRUE]
<1>1. frames # <<>> /\ Top.todo # <<>> /\ Replace(f) /\ out' = out /\ KeepDump
  BY DEF CallToString, Converting
<1>2. /\ f \in FrameSet /\ f.hll = Top.hll /\ f.arg = Top.arg /\ f.this = Top.this
      /\ f.todo # <<>>
  BY <1>1, TopFrame, RunningFrame
<1> HIDE DEF f
<1>3. HeapOK' /\ RefsOK' /\ Grow /\ Leaks
  BY <1>1, <1>2, ReplaceKeeps
<1>4. OutOK'
  BY <1>1 DEF Inv, OutOK
<1> QED
  BY <1>1, <1>3, <1>4, AllKept

LEMMA ToStringReturnsKeeps == ASSUME Inv, ToStringReturns PROVE Keeps
<1>1. /\ frames # <<>> /\ Top.running /\ Replace(Converted(Top))
      /\ out' = Out("none", TRUE, 0) /\ KeepDump
  BY DEF ToStringReturns
<1>2. HeapOK' /\ RefsOK' /\ Grow /\ Leaks
  BY <1>1, TopFrame, ConvertedFrame, ReplaceKeeps
<1> QED
  BY <1>1, <1>2, Answered

LEMMA ConversionFailsKeeps == ASSUME Inv, ConversionFails PROVE Keeps
<1>1. /\ frames # <<>> /\ Pop(robjs, given) /\ KeepDump
      /\ out' = Out(AddName(Top), FALSE, 0)
  BY DEF ConversionFails
<1>2. HeapOK' /\ RefsOK' /\ Grow /\ Leaks
  BY <1>1, SameSketches, PopKeeps
<1> QED
  BY <1>1, <1>2, Answered

LEMMA AddStringsKeeps == ASSUME Inv, AddStrings PROVE Keeps
<1> DEFINE r == Top.hll
           added == AddMany(robjs[r], Top.done)
           S == IF added.val < 0 THEN given[r] ELSE given[r] \cup ToSet(Top.done)
           heap == [robjs EXCEPT ![r] = added.obj]
           strings == [given EXCEPT ![r] = S]
<1>1. /\ frames # <<>> /\ KeepDump
      /\ Pop(heap, IF added.val < 0 THEN given
                   ELSE [given EXCEPT ![r] = given[r] \cup ToSet(Top.done)])
  BY DEF AddStrings, Converting
<1>2. /\ r \in Handle /\ Top.done \in Seq(Text) /\ Facts!IsHLLObject(robjs[r])
      /\ Sound(robjs[r], given[r]) /\ given[r] \in SUBSET Text
  BY <1>1, TopFrame, FrameFields DEF Inv, HeapOK
<1>3. added.val \in {0, 1, Lib!ERR} /\ Becomes(robjs[r], given[r], added.obj, S)
  BY <1>2, AddManyFacts
<1>4. robjs[r] # Null
  BY <1>2, SoundCases
<1>5. /\ Sketches(heap, strings) /\ (S = given[r] => Sketches(heap, given))
      /\ \A q \in Handle : robjs[q] = Null => heap[q] = Null
  <2> DEFINE x == added.obj
  <2>1. r \in Handle /\ Becomes(robjs[r], given[r], x, S)
    BY <1>2, <1>3
  <2> HIDE DEF r, x, S
  <2>2. /\ Sketches([robjs EXCEPT ![r] = x], [given EXCEPT ![r] = S])
        /\ S = given[r] => Sketches([robjs EXCEPT ![r] = x], given)
        /\ \A q \in Handle : q # r => [robjs EXCEPT ![r] = x][q] = robjs[q]
        /\ [robjs EXCEPT ![r] = x][r] = x
    BY <2>1, OneSketch
  <2> QED
    BY <1>4, <2>2 DEF x
<1>6. HeapOK' /\ RefsOK' /\ Grow /\ Leaks
  <2>1. CASE added.val < 0
    <3>1. S = given[r] /\ Pop(heap, given)
      BY <1>1, <2>1
    <3> HIDE DEF S, added, heap
    <3> QED
      BY <1>1, <1>5, <3>1, PopKeeps
  <2>2. CASE ~(added.val < 0)
    <3>1. Pop(heap, strings)
      BY <1>1, <2>2
    <3> HIDE DEF S, added, heap, strings
    <3> QED
      BY <1>1, <1>5, <3>1, PopKeeps
  <2> QED
    BY <2>1, <2>2
<1>7. added.val # Lib!Abort
  BY <1>3 DEF Lib!ERR, Lib!Abort
<1>8. CASE Top.this = NotHll
  <2>1. out' = Out("add", TRUE, IF added.val = 1 THEN 1 ELSE 0)
    BY <1>7, <1>8 DEF AddStrings
  <2>2. (IF added.val = 1 THEN 1 ELSE 0) \in Nat
    OBVIOUS
  <2> QED
    BY <1>1, <1>6, <2>1, <2>2, Answered
<1>9. CASE Top.this # NotHll
  <2>1. out' = Out("addmethod", added.val >= 0, IF added.val # 0 THEN 1 ELSE 0)
    BY <1>7, <1>9 DEF AddStrings
  <2>2. (IF added.val # 0 THEN 1 ELSE 0) \in Nat /\ (added.val >= 0) \in BOOLEAN
    OBVIOUS
  <2> QED
    BY <1>1, <1>6, <2>1, <2>2, Answered
<1> QED
  BY <1>8, <1>9

-----------------------------------------------------------------------------
(* The invariant is inductive.                                             *)

LEMMA InitInv == Init => Inv
<1> SUFFICES ASSUME Init PROVE Inv
  OBVIOUS
<1>1. /\ robjs = [r \in Handle |-> Null] /\ kept = Null /\ vars = {} /\ frames = <<>>
      /\ prop = [o \in Object |-> NoRes] /\ out = Out("none", TRUE, 0)
      /\ given = [r \in Handle |-> {}] /\ givenKept = {}
  BY DEF Init
<1>2. Sound(Null, {}) /\ Null = Facts!Null
  BY NullSound, SoundCases
<1>3. HeapOK
  BY <1>1, <1>2 DEF HeapOK
<1>4. RefsOK
  <2>1. StackOK(frames)
    BY <1>1 DEF StackOK
  <2>2. \A o \in Object : ~Alive(o, vars, frames)
    BY <1>1 DEF Alive
  <2> QED
    BY <1>1, <2>1, <2>2 DEF RefsOK
<1>5. DumpOK
  <2>1. Facts!ObjectOK(kept) /\ Facts!CacheRight(kept)
    BY <1>1, <1>2 DEF Sound, Facts!Good
  <2>2. Facts!Exact(kept, ElementsOf(givenKept))
    BY <1>1, <1>2 DEF Sound
  <2> QED
    BY <1>1, <2>1, <2>2 DEF DumpOK, Facts!StoredOK
<1>6. OutOK
  <2>1. ASSUME NEW fn, NEW ok \in BOOLEAN, NEW val \in Nat, out = Out(fn, ok, val)
        PROVE  OutOK
    BY <2>1, OutFields DEF OutOK
  <2> QED
    BY <1>1, <2>1
<1> QED
  BY <1>3, <1>4, <1>5, <1>6 DEF Inv

\* Every step of the script and of the extension keeps the invariant.
LEMMA NextKeeps == ASSUME Inv, Next PROVE Keeps
<1>1. CASE \E r \in Handle :
        \/ HllLoad(r)
        \/ \E sparse \in BOOLEAN :
             \/ HllCreate(r, sparse)
             \/ \E o \in Object : ConstructEmpty(o, r, sparse)
        \/ \E o \in Object :
             ConstructOther(o, r) \/ ConstructLoad(o, r) \/ Unserialize(o, r)
        \/ \E args \in ArgLists :
             \/ HllMerge(r, args)
             \/ \E o \in Object : ConstructMerge(o, r, args)
        \/ \E input \in Inputs : HllAdd(r, input)
  BY <1>1, HllLoadKeeps, HllCreateKeeps, ConstructEmptyKeeps, ConstructOtherKeeps,
     ConstructLoadKeeps, UnserializeKeeps, HllMergeKeeps, ConstructMergeKeeps,
     HllAddKeeps
<1>2. CASE \E o \in Object :
        \/ SerializeNull(o) \/ ReadProperty(o)
        \/ \E args \in ArgLists : Merge(o, args)
        \/ \E input \in Inputs : Add(o, input)
        \/ \E p \in Object : Clone(o, p)
  BY <1>2, SerializeNullKeeps, ReadPropertyKeeps, MergeKeeps, AddKeeps, CloneKeeps
<1>3. CASE \E v \in vars \cup {NotHll} : Count(v)
  BY <1>3, CountKeeps
<1>4. CASE \E v \in vars : Promote(v) \/ Dump(v) \/ Unset(v)
  BY <1>4, PromoteKeeps, DumpKeeps, UnsetKeeps
<1>5. CASE \E args \in ArgLists : CountMerged(args)
  BY <1>5, CountMergedKeeps
<1>6. CASE \/ ConvertScalar \/ CallToString \/ ToStringReturns
           \/ ConversionFails \/ AddStrings
  BY <1>6, ConvertScalarKeeps, CallToStringKeeps, ToStringReturnsKeeps,
     ConversionFailsKeeps, AddStringsKeeps
<1>7. CASE StorageDamage
  BY <1>7, StorageDamageKeeps
<1> QED
  BY <1>1, <1>2, <1>3, <1>4, <1>5, <1>6, <1>7 DEF Next

\* A step of the script, or none.
LEMMA StepKeeps == ASSUME Inv, [Next]_phpVars PROVE Keeps
<1>1. CASE Next
  BY <1>1, NextKeeps
<1>2. CASE UNCHANGED phpVars
  <2>1. Nothing /\ KeepDump /\ out' = out
    BY <1>2 DEF phpVars, Nothing, KeepDump
  <2>2. OutOK'
    BY <2>1 DEF Inv, OutOK
  <2> QED
    BY <2>1, <2>2, NothingKeeps, AllKept
<1> QED
  BY <1>1, <1>2

LEMMA Inductive == Spec => []Inv
<1>1. Inv /\ [Next]_phpVars => Inv'
  BY StepKeeps DEF Keeps
<1> QED
  BY <1>1, InitInv, PTL DEF Spec

-----------------------------------------------------------------------------
(* What follows.                                                           *)

\* The types of the script's world: a handle holds a robj or none, an object
\* that anything refers to has its resource, every add below the innermost one
\* is inside a __toString, and the dump is a dump or junk.
THEOREM TypesOK == Spec => []TypeOK
<1>1. Inv => TypeOK
  <2> SUFFICES ASSUME Inv PROVE TypeOK
    OBVIOUS
  <2>1. \A r \in Handle : Lib!ObjectOK(robjs[r])
    BY SameObjects DEF Inv, HeapOK, Sound, Facts!Good
  <2>2. Lib!ObjectOK(kept) \/ kept = Lib!Junk
    BY SameObjects, SameConstants DEF Inv, DumpOK, Facts!StoredOK
  <2>3. \A i \in DOMAIN frames :
          frames[i].hll \in Handle /\ (i > 1 => frames[i].running)
    BY StackFrames DEF Inv, RefsOK, StackOK
  <2> QED
    BY <2>1, <2>2, <2>3 DEF Inv, RefsOK, OutOK, TypeOK
<1> QED
  BY <1>1, Inductive, PTL

\* Whatever the script does, inside a __toString or outside, a sketch that can
\* be read is the sketch of the strings of the adds that went through and of
\* the sketches merged into it.
THEOREM SketchesAreOfAdds == Spec => []SketchOfAdds
<1>1. Inv => SketchOfAdds
  <2> SUFFICES ASSUME Inv, NEW r \in Handle, Lib!Readable(robjs[r])
               PROVE  Lib!RegsOf(robjs[r]) = RegsFor(given[r])
    BY DEF SketchOfAdds
  <2>1. Facts!Readable(robjs[r]) /\ Sound(robjs[r], given[r])
    BY SameObjects DEF Inv, HeapOK
  <2> QED
    BY <2>1, SameObjects, SameRegs DEF Sound, Facts!Exact
<1> QED
  BY <1>1, Inductive, PTL

\* A valid cached cardinality is the estimate of the registers in every robj
\* the script can reach, through shared resources, clones and nested adds.
THEOREM CachesAreCoherent == Spec => []CachesCoherent
<1>1. Inv => CachesCoherent
  <2> SUFFICES ASSUME Inv, NEW r \in Handle, Lib!Readable(robjs[r]),
                      robjs[r].card # Lib!Invalid
               PROVE  robjs[r].card = Estimate(Lib!RegsOf(robjs[r]))
    BY DEF CachesCoherent, Lib!CacheCoherent
  <2>1. Facts!Readable(robjs[r]) /\ Facts!CacheRight(robjs[r])
    BY SameObjects DEF Inv, HeapOK, Sound, Facts!Good
  <2> QED
    BY <2>1, SameObjects, SameConstants DEF Facts!CacheRight
<1> QED
  BY <1>1, Inductive, PTL

\* No call ever lowers a register of a robj that stays, the method merge
\* included, which overwrites its object with the merge of its sources.
THEOREM SketchesOnlyGrow == Spec => SketchesGrow
<1> DEFINE A == \A r \in Handle :
                  Lib!Readable(robjs[r]) /\ robjs'[r] # Null
                    => \A i \in Lib!Index :
                         Lib!RegsOf(robjs'[r])[i] >= Lib!RegsOf(robjs[r])[i]
<1>1. Inv /\ [Next]_phpVars => [A]_phpVars
  BY StepKeeps DEF Keeps, Grow
<1> QED
  BY <1>1, Inductive, PTL DEF Spec, SketchesGrow

\* A robj without a resource comes from a failed hll_merge or a failed
\* construction from an array, and from nothing else; it is never freed.
THEOREM OnlyFailedMergesLeak == Spec => LeaksOnlyInFailedMerges
<1> DEFINE A == /\ Leaked \subseteq Leaked'
                /\ Leaked' # Leaked => out'.fn \in {"merge", "constructmerge"} /\ ~out'.ok
<1>1. Inv /\ [Next]_phpVars => [A]_phpVars
  BY StepKeeps DEF Keeps, Leaks, MergeFailed
<1> QED
  BY <1>1, Inductive, PTL DEF Spec, LeaksOnlyInFailedMerges
=============================================================================
