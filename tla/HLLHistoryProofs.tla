-------------------------- MODULE HLLHistoryProofs --------------------------
(* What a client sees: HLLObject implements SketchBank, a bank of sketches    *)
(* without encodings, caches and damaged bytes; and the registers of an object *)
(* are those of the set of elements it was given, its count their estimate.  *)
(* For any number of handles, elements and registers, any limits of the      *)
(* encodings and a storage that damages bytes.                               *)
EXTENDS HLLHistory, HLLObjectProofs

-----------------------------------------------------------------------------
(* The registers of a set of elements.                                     *)

LEMMA MaxIs ==
  ASSUME NEW N \in Nat, NEW T \in SUBSET (0 .. N), NEW m \in T, \A y \in T : m >= y
  PROVE  Max(T) = m
<1> DEFINE x == Max(T)
<1>1. x \in T /\ \A y \in T : x >= y
  BY MaxOfBounded
<1> HIDE DEF x
<1>2. x \in Int /\ m \in Int /\ x >= m /\ m >= x
  BY <1>1
<1>3. x = m
  BY <1>2
<1> QED
  BY <1>3 DEF x

\* n is the longest pattern for register i among the elements of E.
Longest(E, i, n) ==
  /\ n = 0 \/ \E e \in E : e.idx = i /\ e.pat = n
  /\ \A e \in E : e.idx = i => e.pat <= n

LEMMA LongestOf ==
  ASSUME NEW E \in SUBSET Elements, NEW i \in Index
  PROVE  /\ RegsFor(E)[i] \in RegValue /\ Longest(E, i, RegsFor(E)[i])
         /\ \A n \in RegValue : Longest(E, i, n) => RegsFor(E)[i] = n
<1> DEFINE T == {0} \cup {e.pat : e \in {x \in E : x.idx = i}}
<1>1. \A e \in E : e.pat \in 1 .. RegisterMax
  BY ElementTyped
<1>2. RegisterMax \in Nat
  BY ObjectAssumption
<1>3. T \in SUBSET (0 .. RegisterMax) /\ T # {}
  BY <1>1, <1>2
<1>4. RegsFor(E)[i] = Max(T)
  BY DEF RegsFor
<1>5. ASSUME NEW n PROVE n \in T <=> n = 0 \/ \E e \in E : e.idx = i /\ e.pat = n
  OBVIOUS
<1>6. Max(T) \in T /\ \A y \in T : Max(T) >= y
  BY <1>2, <1>3, MaxOfBounded
<1>7. ASSUME NEW n \in RegValue, Longest(E, i, n) PROVE Max(T) = n
  <2>1. n \in T
    BY <1>5, <1>7 DEF Longest
  <2>2. ASSUME NEW y \in T PROVE n >= y
    <3>1. CASE y = 0
      BY <3>1 DEF RegValue
    <3>2. CASE \E e \in E : e.idx = i /\ e.pat = y
      BY <1>1, <1>2, <1>7, <3>2 DEF Longest, RegValue
    <3> QED
      BY <1>5, <3>1, <3>2
  <2> HIDE DEF T
  <2> QED
    BY <1>2, <1>3, <2>1, <2>2, MaxIs
<1>8. Max(T) \in RegValue /\ Longest(E, i, Max(T))
  <2>1. \A e \in E : e.idx = i => e.pat \in T
    BY <1>5
  <2>2. Max(T) = 0 \/ \E e \in E : e.idx = i /\ e.pat = Max(T)
    BY <1>5, <1>6
  <2>3. Max(T) \in Int
    BY <1>2, <1>3, <1>6
  <2> HIDE DEF T
  <2>4. \A e \in E : e.idx = i => e.pat <= Max(T)
    BY <1>1, <1>6, <2>1, <2>3
  <2> QED
    BY <1>3, <1>6, <2>2, <2>4 DEF Longest, RegValue
<1> QED
  BY <1>4, <1>7, <1>8

LEMMA RegsForTyped ==
  ASSUME NEW E \in SUBSET Elements
  PROVE  RegsFor(E) \in RegArray /\ RegsFor(E) = [i \in Index |-> RegsFor(E)[i]]
  BY LongestOf DEF RegsFor, RegArray

LEMMA RegsForNone == RegsFor({}) = ZeroRegs
<1>1. ASSUME NEW i \in Index PROVE RegsFor({})[i] = 0
  BY LongestOf, ObjectAssumption DEF Longest, RegValue
<1> QED
  BY <1>1, RegsForTyped DEF ZeroRegs

\* An element that is given raises its register or leaves all as they are.
LEMMA RegsForMore ==
  ASSUME NEW E \in SUBSET Elements, NEW e \in Elements
  PROVE  RegsFor(E \cup {e}) =
           IF e.pat > RegsFor(E)[e.idx] THEN [RegsFor(E) EXCEPT ![e.idx] = e.pat]
                                        ELSE RegsFor(E)
<1> DEFINE R == RegsFor(E)
           N == IF e.pat > R[e.idx] THEN [R EXCEPT ![e.idx] = e.pat] ELSE R
<1>1. /\ E \cup {e} \in SUBSET Elements /\ e.idx \in Index
      /\ e.pat \in RegValue /\ e.pat \in Int
  BY ElementTyped
<1>2. \A i \in Index : R[i] \in RegValue /\ R[i] \in Int /\ Longest(E, i, R[i])
  BY LongestOf, ObjectAssumption DEF RegValue
<1>3. \A x \in E : x.pat \in Int
  BY ElementTyped
<1>4. R \in RegArray /\ R = [i \in Index |-> R[i]]
  BY RegsForTyped
<1> HIDE DEF R
<1>5. N \in RegArray /\ N = [i \in Index |-> N[i]]
  BY <1>1, <1>4 DEF RegArray
<1>6. ASSUME NEW i \in Index PROVE RegsFor(E \cup {e})[i] = N[i]
  <2>1. N[i] = IF i = e.idx /\ e.pat > R[e.idx] THEN e.pat ELSE R[i]
    BY <1>1, <1>4
  <2>2. N[i] \in RegValue
    BY <1>1, <1>2, <2>1
  <2> HIDE DEF N
  <2>3. Longest(E \cup {e}, i, N[i])
    <3>1. CASE i = e.idx /\ e.pat > R[e.idx]
      <4>1. N[i] = e.pat
        BY <2>1, <3>1
      <4>2. \A x \in E : x.idx = i => x.pat <= e.pat
        BY <1>1, <1>2, <1>3, <3>1 DEF Longest
      <4> QED
        BY <1>1, <3>1, <4>1, <4>2 DEF Longest
    <3>2. CASE i = e.idx /\ ~(e.pat > R[e.idx])
      <4>1. N[i] = R[i] /\ e.pat <= R[i]
        BY <1>1, <1>2, <2>1, <3>2
      <4> QED
        BY <1>2, <3>2, <4>1 DEF Longest
    <3>3. CASE i # e.idx
      <4>1. N[i] = R[i]
        BY <2>1, <3>3
      <4> QED
        BY <1>2, <3>3, <4>1 DEF Longest
    <3> QED
      BY <3>1, <3>2, <3>3
  <2> QED
    BY <1>1, <2>2, <2>3, LongestOf
<1>7. RegsFor(E \cup {e}) = [i \in Index |-> RegsFor(E \cup {e})[i]]
  BY <1>1, RegsForTyped
<1> HIDE DEF N
<1>8. RegsFor(E \cup {e}) = N
  BY <1>5, <1>6, <1>7
<1> QED
  BY <1>8 DEF N, R

\* What hllMerge accumulates is the sketch of the union.
LEMMA RegsForUnion ==
  ASSUME \A h \in Handle : ObjectOK(objs[h]), given \in [Handle -> SUBSET Elements],
         NEW hs \in ArgLists,
         \A j \in DOMAIN hs : RegsOf(objs[hs[j]]) = RegsFor(given[hs[j]])
  PROVE  /\ UNION {given[hs[j]] : j \in DOMAIN hs} \in SUBSET Elements
         /\ MergedRegs(hs) = RegsFor(UNION {given[hs[j]] : j \in DOMAIN hs})
<1> DEFINE U == UNION {given[hs[j]] : j \in DOMAIN hs}
<1>1. \A j \in DOMAIN hs : hs[j] \in Handle
  BY DEF ArgLists
<1>2. U \in SUBSET Elements
  BY <1>1
<1>3. \A e \in U : \E j \in DOMAIN hs : e \in given[hs[j]]
  OBVIOUS
<1>4. \A j \in DOMAIN hs : \A e \in given[hs[j]] : e \in U
  OBVIOUS
<1>5. MergedRegs(hs) \in RegArray
  BY MergedRegsTyped
<1> HIDE DEF U
<1>6. ASSUME NEW i \in Index PROVE MergedRegs(hs)[i] = RegsFor(U)[i]
  <2> DEFINE T == {0} \cup {RegsOf(objs[hs[j]])[i] : j \in DOMAIN hs}
             m == MergedRegs(hs)[i]
  <2>1. \A j \in DOMAIN hs : /\ RegsFor(given[hs[j]])[i] \in RegValue
                             /\ Longest(given[hs[j]], i, RegsFor(given[hs[j]])[i])
    BY <1>1, LongestOf
  <2>2. RegisterMax \in Nat
    BY ObjectAssumption
  <2>3. ASSUME NEW n PROVE n \in T <=> \/ n = 0
                                       \/ \E j \in DOMAIN hs : RegsFor(given[hs[j]])[i] = n
    OBVIOUS
  <2>4. T \in SUBSET (0 .. RegisterMax) /\ T # {}
    BY <2>1, <2>2, <2>3 DEF RegValue
  <2>5. m = Max(T)
    BY DEF MergedRegs
  <2> HIDE DEF T
  <2>6. m \in T /\ \A y \in T : m >= y
    BY <2>2, <2>4, <2>5, MaxOfBounded
  <2> HIDE DEF m
  <2>7. m \in RegValue
    BY <2>4, <2>6 DEF RegValue
  <2>8. m = 0 \/ \E e \in U : e.idx = i /\ e.pat = m
    BY <1>4, <2>1, <2>3, <2>6 DEF Longest
  <2>9. ASSUME NEW e \in U, e.idx = i PROVE e.pat <= m
    <3>1. PICK j \in DOMAIN hs : e \in given[hs[j]]
      BY <1>3, <2>9
    <3>2. e.pat <= RegsFor(given[hs[j]])[i]
      BY <2>1, <2>9, <3>1 DEF Longest
    <3>3. m >= RegsFor(given[hs[j]])[i] /\ RegsFor(given[hs[j]])[i] \in Int
      BY <2>1, <2>2, <2>3, <2>6 DEF RegValue
    <3>4. e.pat \in Int /\ m \in Int
      BY <1>2, <2>7, ElementTyped, ObjectAssumption DEF RegValue
    <3> QED
      BY <3>2, <3>3, <3>4
  <2> QED
    BY <1>2, <2>7, <2>8, <2>9, LongestOf DEF Longest, m
<1>7. MergedRegs(hs) = [i \in Index |-> MergedRegs(hs)[i]]
  BY <1>5 DEF RegArray
<1>8. RegsFor(U) = [i \in Index |-> RegsFor(U)[i]]
  BY <1>2, RegsForTyped
<1> QED
  BY <1>2, <1>6, <1>7, <1>8 DEF U

-----------------------------------------------------------------------------
(* The invariant of the history: of NULL, too, nothing was given and its      *)
(* registers are zero; nothing is said of an object that cannot be read.     *)

Exact(o, E) == Readable(o) \/ o = Null => RegsOf(o) = RegsFor(E)

HInv ==
  /\ given \in [Handle -> SUBSET Elements]
  /\ givenKept \in SUBSET Elements
  /\ \A h \in Handle : Exact(objs[h], given[h])
  /\ Exact(stored, givenKept)

LEMMA NullExact == Exact(Null, {})
<1>1. RegsOf(Null) = ZeroRegs
  BY DEF RegsOf, Null
<1> QED
  BY <1>1, RegsForNone DEF Exact

\* The same registers of an object that is as readable.
LEMMA SameExact ==
  ASSUME NEW o, NEW x, NEW E, Exact(o, E), RegsOf(x) = RegsOf(o),
         Readable(x) => Readable(o), x # Null
  PROVE  Exact(x, E)
  BY DEF Exact

\* A step that leaves the bytes outside alone and changes at most one object.
LEMMA OneExact ==
  ASSUME IInv, HInv, stored' = stored, givenKept' = givenKept,
         NEW h \in Handle, NEW x, NEW E \in SUBSET Elements, Exact(x, E),
         objs' = [objs EXCEPT ![h] = x], given' = [given EXCEPT ![h] = E]
  PROVE  HInv'
<1>1. objs = [g \in Handle |-> objs[g]]
  BY DEF IInv
<1>2. given \in [Handle -> SUBSET Elements] /\ given' \in [Handle -> SUBSET Elements]
  BY DEF HInv
<1>3. ASSUME NEW g \in Handle PROVE Exact(objs'[g], given'[g])
  <2>1. CASE g = h
    BY <1>1, <1>2, <2>1
  <2>2. CASE g # h
    <3>1. objs'[g] = objs[g] /\ given'[g] = given[g]
      BY <1>1, <1>2, <2>2
    <3> QED
      BY <3>1 DEF HInv
  <2> QED
    BY <2>1, <2>2
<1> QED
  BY <1>2, <1>3 DEF HInv

LEMMA OneExactGiven ==
  ASSUME IInv, HInv, stored' = stored, givenKept' = givenKept, given' = given,
         NEW h \in Handle, NEW x, Exact(x, given[h]), objs' = [objs EXCEPT ![h] = x]
  PROVE  HInv'
<1>1. given \in [Handle -> SUBSET Elements]
  BY DEF HInv
<1>2. given' = [given EXCEPT ![h] = given[h]] /\ given[h] \in SUBSET Elements
  BY <1>1
<1> QED
  BY <1>2, OneExact

LEMMA NoneExact ==
  ASSUME HInv, stored' = stored, objs' = objs, givenKept' = givenKept, given' = given
  PROVE  HInv'
  BY DEF HInv

LEMMA NotNull == \A o : IsHLLObject(o) => o # Null
  BY NullFields DEF IsHLLObject

\* An element is in the sketch exactly when the add did not fail.
LEMMA AddExact ==
  ASSUME NEW o, ObjectOK(o), IsHLLObject(o), NEW E \in SUBSET Elements, Exact(o, E),
         NEW e \in Elements, NEW a, AddFacts(o, e, a)
  PROVE  /\ a.val \in {0, 1} => Exact(a.obj, E \cup {e})
         /\ a.val \notin {0, 1} => Exact(a.obj, E)
<1>1. IsHLLObject(a.obj) /\ a.obj # Null
  BY NotNull DEF AddFacts
<1>2. CASE ~Readable(o)
  <2>1. ~Readable(a.obj)
    BY <1>2 DEF AddFacts
  <2> QED
    BY <1>1, <2>1 DEF Exact
<1>3. CASE Readable(o)
  <2> DEFINE R == RegsFor(E)
  <2>1. RegsOf(o) = R
    BY <1>3 DEF Exact
  <2>2. R[e.idx] \in Int /\ e.pat \in Int
    BY ElementTyped, LongestOf, ObjectAssumption DEF RegValue
  <2>3. RegsFor(E \cup {e}) = IF e.pat > R[e.idx] THEN [R EXCEPT ![e.idx] = e.pat] ELSE R
    BY RegsForMore
  <2> HIDE DEF R
  <2>4. /\ a.val = 1 => e.pat > R[e.idx] /\ RegsOf(a.obj) = [R EXCEPT ![e.idx] = e.pat]
        /\ a.val = 0 => e.pat <= R[e.idx] /\ a.obj = o
        /\ a.val \in {0, 1}
    BY <1>3, <2>1 DEF AddFacts
  <2>5. CASE a.val = 1
    BY <2>3, <2>4, <2>5 DEF Exact
  <2>6. CASE a.val = 0
    BY <2>1, <2>2, <2>3, <2>4, <2>6 DEF Exact
  <2> QED
    BY <2>4, <2>5, <2>6
<1> QED
  BY <1>2, <1>3

\* One lemma per action.

LEMMA CreateExact == ASSUME IInv, HInv, NEW h \in Handle, CreateH(h) PROVE HInv'
<1>1. Exact(Created, {})
  BY CreatedGood, RegsForNone DEF Exact
<1>2. /\ stored' = stored /\ givenKept' = givenKept
      /\ objs' = [objs EXCEPT ![h] = Created] /\ given' = [given EXCEPT ![h] = {}]
  BY DEF CreateH, Create
<1> QED
  BY <1>1, <1>2, OneExact

LEMMA FreeExact == ASSUME IInv, HInv, NEW h \in Handle, FreeH(h) PROVE HInv'
<1>1. /\ stored' = stored /\ givenKept' = givenKept
      /\ objs' = [objs EXCEPT ![h] = Null] /\ given' = [given EXCEPT ![h] = {}]
  BY DEF FreeH, Free
<1> QED
  BY <1>1, NullExact, OneExact

LEMMA GivenTyped ==
  ASSUME HInv, NEW h \in Handle
  PROVE  /\ given[h] \in SUBSET Elements /\ Exact(objs[h], given[h])
         /\ \A e \in Elements : given[h] \cup {e} \in SUBSET Elements
  BY DEF HInv

LEMMA PfAddExact ==
  ASSUME IInv, HInv, NEW h \in Handle, NEW e \in Elements, PfAddH(h, e)
  PROVE  HInv'
<1> DEFINE o == objs[h]
           a == HllAdd(o, e)
           E == given[h]
<1>1. /\ stored' = stored /\ givenKept' = givenKept
      /\ given' = IF ret'.val \in {0, 1} THEN [given EXCEPT ![h] = E \cup {e}] ELSE given
  BY DEF PfAddH, PfAdd, Give
<1>2. ObjectOK(o) /\ Exact(o, E) /\ E \in SUBSET Elements /\ E \cup {e} \in SUBSET Elements
  BY GivenTyped DEF IInv
<1>3. CASE ~IsHLLObject(o)
  <2>1. objs' = objs /\ ret' = Reply("add", h, ERR)
    BY <1>3 DEF PfAddH, PfAdd
  <2>2. ret'.val \notin {0, 1}
    BY <2>1, ReplyParts DEF ERR
  <2> QED
    BY <1>1, <2>1, <2>2, NoneExact
<1>4. CASE IsHLLObject(o)
  <2>1. AddFacts(o, e, a)
    BY <1>2, <1>4, HllAddFacts
  <2> DEFINE x == IF a.val = 1 THEN InvalidateCache(a.obj) ELSE a.obj
  <2>2. objs' = [objs EXCEPT ![h] = x] /\ ret' = Reply("add", h, a.val)
    BY <1>4 DEF PfAddH, PfAdd
  <2>3. ret'.val = a.val
    BY <2>2, ReplyParts
  <2> HIDE DEF a
  <2>4. ObjectOK(a.obj) /\ IsHLLObject(a.obj) /\ Invalid \in CardValue
    BY <2>1 DEF AddFacts, CardValue
  <2>5. /\ RegsOf(x) = RegsOf(a.obj) /\ (Readable(x) <=> Readable(a.obj)) /\ x # Null
    BY <2>4, CardSet, NotNull DEF InvalidateCache
  <2> HIDE DEF x, o, E
  <2>6. /\ a.val \in {0, 1} => Exact(x, E \cup {e})
        /\ a.val \notin {0, 1} => Exact(x, E)
    BY <1>2, <1>4, <2>1, <2>5, AddExact, SameExact
  <2>7. CASE a.val \in {0, 1}
    BY <1>1, <1>2, <2>2, <2>3, <2>6, <2>7, OneExact
  <2>8. CASE a.val \notin {0, 1}
    BY <1>1, <2>2, <2>3, <2>6, <2>8, OneExactGiven DEF E
  <2> QED
    BY <2>7, <2>8
<1> QED
  BY <1>3, <1>4

LEMMA AddManyStepExact ==
  ASSUME IInv, HInv, NEW e \in Elements, AddManyStepH(e)
  PROVE  HInv'
<1> DEFINE h == call.h
           o == objs[h]
           a == HllAdd(o, e)
           E == given[h]
<1>1. /\ call.busy /\ stored' = stored /\ givenKept' = givenKept
      /\ objs' = [objs EXCEPT ![h] = a.obj]
      /\ given' = IF call'.busy THEN [given EXCEPT ![h] = E \cup {e}] ELSE given
  BY DEF AddManyStepH, AddManyStep, Give
<1>2. h \in Handle /\ IsHLLObject(o)
  BY <1>1, CallFields DEF IInv, CallOK
<1>3. ObjectOK(o) /\ Exact(o, E) /\ E \in SUBSET Elements /\ E \cup {e} \in SUBSET Elements
  BY <1>2, GivenTyped DEF IInv
<1>4. AddFacts(o, e, a)
  BY <1>2, <1>3, HllAddFacts
<1>5. call'.busy <=> a.val \in {0, 1}
  BY CallFields DEF AddManyStepH, AddManyStep
<1> HIDE DEF a
<1>6. /\ a.val \in {0, 1} => Exact(a.obj, E \cup {e})
      /\ a.val \notin {0, 1} => Exact(a.obj, E)
  BY <1>2, <1>3, <1>4, AddExact
<1> HIDE DEF o, h, E
<1>7. CASE a.val \in {0, 1}
  BY <1>1, <1>2, <1>3, <1>5, <1>6, <1>7, OneExact
<1>8. CASE a.val \notin {0, 1}
  BY <1>1, <1>2, <1>5, <1>6, <1>8, OneExactGiven DEF E
<1> QED
  BY <1>7, <1>8

\* A new cached cardinality does not show in the registers.
LEMMA CardExact ==
  ASSUME IInv, HInv, NEW h \in Handle, IsHLLObject(objs[h]), NEW c \in CardValue
  PROVE  Exact([objs[h] EXCEPT !.card = c], given[h])
<1> DEFINE x == [objs[h] EXCEPT !.card = c]
<1>1. /\ RegsOf(x) = RegsOf(objs[h]) /\ (Readable(x) <=> Readable(objs[h]))
      /\ IsHLLObject(x)
  BY CardSet DEF IInv
<1> HIDE DEF x
<1>2. Exact(x, given[h])
  BY <1>1, NotNull, GivenTyped, SameExact
<1> QED
  BY <1>2 DEF x

LEMMA AddManyEndExact ==
  ASSUME IInv, HInv, AddManyEnd, Keep
  PROVE  HInv'
<1>1. /\ call.busy /\ stored' = stored /\ givenKept' = givenKept /\ given' = given
      /\ \/ objs' = objs
         \/ objs' = [objs EXCEPT ![call.h] = InvalidateCache(@)]
  BY DEF AddManyEnd, Keep
<1>2. call.h \in Handle /\ IsHLLObject(objs[call.h])
  BY <1>1, CallFields DEF IInv, CallOK
<1> DEFINE x == [objs[call.h] EXCEPT !.card = Invalid]
<1>3. Exact(x, given[call.h])
  BY <1>2, CardExact DEF CardValue
<1>4. objs' = objs \/ objs' = [objs EXCEPT ![call.h] = x]
  BY <1>1 DEF InvalidateCache
<1> HIDE DEF x
<1> QED
  BY <1>1, <1>2, <1>3, <1>4, OneExactGiven, NoneExact

LEMMA CountOneExact ==
  ASSUME IInv, HInv, NEW h \in Handle, NEW op, CountOne(op, h), Keep
  PROVE  HInv'
<1> DEFINE n == Estimate(RegsOf(objs[h]))
           x == [objs[h] EXCEPT !.card = n]
<1>1. /\ stored' = stored /\ givenKept' = givenKept /\ given' = given
      /\ \/ objs' = objs
         \/ IsHLLObject(objs[h]) /\ objs' = [objs EXCEPT ![h].card = n]
  <2>1. stored' = stored
    BY DEF CountOne
  <2>2. objs' = objs \/ IsHLLObject(objs[h])
    BY DEF CountOne
  <2>3. objs' = objs \/ objs' = [objs EXCEPT ![h].card = n]
    BY DEF CountOne
  <2> QED
    BY <2>1, <2>2, <2>3 DEF Keep
<1>2. n \in CardValue
  BY RegsOfTyped DEF IInv, CardValue
<1>3. IsHLLObject(objs[h]) => Exact(x, given[h])
  BY <1>2, CardExact
<1>4. objs' = objs \/ (IsHLLObject(objs[h]) /\ objs' = [objs EXCEPT ![h] = x])
  BY <1>1
<1> HIDE DEF x
<1> QED
  BY <1>1, <1>3, <1>4, OneExactGiven, NoneExact

LEMMA PfCountMergedExact ==
  ASSUME IInv, HInv, NEW hs \in ArgLists, PfCountMerged(hs), Keep
  PROVE  HInv'
<1>1. CASE DOMAIN hs = {1}
  <2>1. hs[1] \in Handle
    BY <1>1 DEF ArgLists
  <2> QED
    BY <1>1, <2>1, CountOneExact DEF PfCountMerged
<1>2. CASE DOMAIN hs # {1}
  <2>1. /\ objs' = objs /\ stored' = stored
        /\ given' = given /\ givenKept' = givenKept
    BY <1>2 DEF PfCountMerged, Keep
  <2> QED
    BY <2>1, NoneExact
<1> QED
  BY <1>1, <1>2

LEMMA AddManyBeginExact ==
  ASSUME HInv, NEW h \in Handle, NEW n \in 0 .. MaxBatch, AddManyBegin(h, n), Keep
  PROVE  HInv'
  BY NoneExact DEF AddManyBegin, Keep

\* What the sources of a merge hold, when none of them is damaged.
LEMMA SourcesExact ==
  ASSUME IInv, HInv, NEW hs \in ArgLists, AllReadable(hs)
  PROVE  \A j \in DOMAIN hs : RegsOf(objs[hs[j]]) = RegsFor(given[hs[j]])
<1>1. \A j \in DOMAIN hs : hs[j] \in Handle
  BY DEF ArgLists
<1> QED
  BY <1>1 DEF HInv, Exact, AllReadable

LEMMA UnionExact ==
  ASSUME IInv, HInv, NEW hs \in ArgLists, AllReadable(hs)
  PROVE  /\ UNION {given[hs[j]] : j \in DOMAIN hs} \in SUBSET Elements
         /\ MergedRegs(hs) = RegsFor(UNION {given[hs[j]] : j \in DOMAIN hs})
<1>1. (\A h \in Handle : ObjectOK(objs[h])) /\ given \in [Handle -> SUBSET Elements]
  BY DEF IInv, HInv
<1> QED
  BY <1>1, SourcesExact, RegsForUnion

LEMMA PfMergeExact ==
  ASSUME IInv, HInv, NEW t \in Handle, NEW hs \in ArgLists, PfMergeH(t, hs)
  PROVE  HInv'
<1> DEFINE U == UNION {given[hs[j]] : j \in DOMAIN hs}
           x == Dense(MergedRegs(hs), Invalid)
<1>1. /\ stored' = stored /\ givenKept' = givenKept
      /\ given' = IF ret'.val = OK THEN [given EXCEPT ![t] = U] ELSE given
  BY DEF PfMergeH, PfMerge
<1>2. CASE objs' = objs /\ ret' = Reply("merge", t, ERR)
  <2>1. ret'.val # OK
    BY <1>2, ReplyParts, Codes
  <2> QED
    BY <1>1, <1>2, <2>1, NoneExact
<1>3. CASE /\ AllReadable(hs) /\ ret' = Reply("merge", t, OK)
           /\ objs' = [objs EXCEPT ![t] = x]
  <2>1. ret'.val = OK
    BY <1>3, ReplyParts
  <2>2. U \in SUBSET Elements /\ MergedRegs(hs) = RegsFor(U)
    BY <1>3, UnionExact
  <2> HIDE DEF U
  <2>3. RegsOf(x) = MergedRegs(hs)
    BY <2>2, RegsForTyped, DenseObject DEF CardValue
  <2>4. Exact(x, U)
    BY <2>2, <2>3 DEF Exact
  <2> HIDE DEF x
  <2> QED
    BY <1>1, <1>3, <2>1, <2>2, <2>4, OneExact
<1> QED
  BY <1>2, <1>3 DEF PfMergeH, PfMerge

LEMMA PromoteExact ==
  ASSUME IInv, HInv, NEW h \in Handle, Promote(h), Keep
  PROVE  HInv'
<1> DEFINE x == SparseToDense(objs[h])
<1>1. /\ stored' = stored /\ givenKept' = givenKept /\ given' = given
      /\ objs' = objs \/ (Readable(objs[h]) /\ objs' = [objs EXCEPT ![h] = x])
  BY DEF Promote, Keep
<1>2. ASSUME Readable(objs[h]) PROVE Exact(x, given[h])
  BY <1>2, DensifiedSame, NotNull, GivenTyped, SameExact
<1> HIDE DEF x
<1> QED
  BY <1>1, <1>2, OneExactGiven, NoneExact

LEMMA DumpExact ==
  ASSUME IInv, HInv, NEW h \in Handle, DumpH(h)
  PROVE  HInv'
<1> DEFINE o == objs[h]
           x == [o EXCEPT !.tail = 0]
<1>1. /\ objs' = objs /\ given' = given /\ givenKept' = given[h]
      /\ stored' = x /\ IsHLLObject(o)
  BY DEF DumpH, Dump
<1>2. RegsOf(x) = RegsOf(o) /\ (Readable(x) <=> Readable(o)) /\ IsHLLObject(x)
  BY <1>1, TailUnseen DEF IInv
<1> HIDE DEF x
<1>3. Exact(x, given[h]) /\ given[h] \in SUBSET Elements
  BY <1>2, NotNull, GivenTyped, SameExact
<1> QED
  BY <1>1, <1>3 DEF HInv

LEMMA LoadExact ==
  ASSUME IInv, HInv, NEW h \in Handle, LoadH(h)
  PROVE  HInv'
<1>1. /\ stored' = stored /\ givenKept' = givenKept
      /\ given' = IF ret'.val = OK THEN [given EXCEPT ![h] = givenKept] ELSE given
  BY DEF LoadH, Load
<1>2. Exact(stored, givenKept) /\ givenKept \in SUBSET Elements
  BY DEF HInv
<1>3. CASE objs' = objs /\ ret' = Reply("load", h, ERR)
  <2>1. ret'.val # OK
    BY <1>3, ReplyParts, Codes
  <2> QED
    BY <1>1, <1>3, <2>1, NoneExact
<1>4. CASE objs' = [objs EXCEPT ![h] = stored] /\ ret' = Reply("load", h, OK)
  <2>1. ret'.val = OK
    BY <1>4, ReplyParts
  <2> QED
    BY <1>1, <1>2, <1>4, <2>1, OneExact
<1> QED
  BY <1>3, <1>4 DEF LoadH, Load

LEMMA StorageDamageExact ==
  ASSUME IInv, HInv, StorageDamage, Keep
  PROVE  HInv'
<1>1. objs' = objs /\ given' = given /\ givenKept' = givenKept
  BY DEF StorageDamage, Keep
<1>2. Exact(stored', givenKept')
  BY DamagedString, NullFields DEF Exact, Readable
<1> QED
  BY <1>1, <1>2 DEF HInv

-----------------------------------------------------------------------------
(* Every step of the history is a step of the objects that keeps them exact. *)

LEMMA InitExact == InitH => HInv
<1> SUFFICES ASSUME InitH PROVE HInv
  OBVIOUS
<1>1. /\ given = [h \in Handle |-> {}] /\ givenKept = {}
      /\ objs = [h \in Handle |-> Null] /\ stored = Null
  BY DEF InitH, Init
<1> QED
  BY <1>1, NullExact DEF HInv

LEMMA NextIsStep == NextH => Next
<1>1. \A h \in Handle :
        /\ CreateH(h) => Create(h)
        /\ FreeH(h) => Free(h)
        /\ DumpH(h) => Dump(h)
        /\ LoadH(h) => Load(h)
        /\ \A e \in Elements : PfAddH(h, e) => PfAdd(h, e)
        /\ \A hs \in ArgLists : PfMergeH(h, hs) => PfMerge(h, hs)
  BY DEF CreateH, FreeH, DumpH, LoadH, PfAddH, PfMergeH
<1>2. \A e \in Elements : AddManyStepH(e) => AddManyStep(e)
  BY DEF AddManyStepH
<1> QED
  BY <1>1, <1>2 DEF NextH, Next

LEMMA NextExact == IInv /\ HInv /\ NextH => HInv'
<1> SUFFICES ASSUME IInv, HInv, NextH PROVE HInv'
  OBVIOUS
<1>1. ASSUME NEW h \in Handle, CreateH(h) PROVE HInv'
  BY <1>1, CreateExact
<1>2. ASSUME NEW h \in Handle, FreeH(h) PROVE HInv'
  BY <1>2, FreeExact
<1>3. ASSUME NEW h \in Handle, DumpH(h) PROVE HInv'
  BY <1>3, DumpExact
<1>4. ASSUME NEW h \in Handle, LoadH(h) PROVE HInv'
  BY <1>4, LoadExact
<1>5. ASSUME NEW h \in Handle, PfCount(h), Keep PROVE HInv'
  BY <1>5, CountOneExact DEF PfCount
<1>6. ASSUME NEW h \in Handle, Promote(h), Keep PROVE HInv'
  BY <1>6, PromoteExact
<1>7. ASSUME NEW h \in Handle, NEW e \in Elements, PfAddH(h, e) PROVE HInv'
  BY <1>7, PfAddExact
<1>8. ASSUME NEW h \in Handle, NEW n \in 0 .. MaxBatch, AddManyBegin(h, n), Keep
      PROVE HInv'
  BY <1>8, AddManyBeginExact
<1>9. ASSUME NEW h \in Handle, NEW hs \in ArgLists, PfMergeH(h, hs) PROVE HInv'
  BY <1>9, PfMergeExact
<1>10. ASSUME NEW hs \in ArgLists, PfCountMerged(hs), Keep PROVE HInv'
  BY <1>10, PfCountMergedExact
<1>11. ASSUME NEW e \in Elements, AddManyStepH(e) PROVE HInv'
  BY <1>11, AddManyStepExact
<1>12. CASE AddManyEnd /\ Keep
  BY <1>12, AddManyEndExact
<1>13. CASE StorageDamage /\ Keep
  BY <1>13, StorageDamageExact
<1> QED
  BY <1>1, <1>2, <1>3, <1>4, <1>5, <1>6, <1>7, <1>8, <1>9, <1>10, <1>11,
     <1>12, <1>13 DEF NextH

LEMMA StepIsStep == [NextH]_varsH => [Next]_vars
  BY NextIsStep DEF varsH

LEMMA ExactStep == IInv /\ HInv /\ [NextH]_varsH => HInv'
<1>1. HInv /\ UNCHANGED varsH => HInv'
  BY DEF HInv, varsH, vars
<1> QED
  BY <1>1, NextExact

LEMMA ExactInductive == SpecH => [](IInv /\ SInv /\ HInv)
<1>1. InitH => Init
  BY DEF InitH
<1> QED
  BY <1>1, InitInv, NextInv, InitKept, KeptStep, InitExact, ExactStep, StepIsStep,
     PTL DEF SpecH

-----------------------------------------------------------------------------
(* What a count answers.                                                   *)

\* The two answers that CountsAreOfUnion is about.
CountOfOne ==
  ret'.op \in {"count", "countmerged"} /\ ret'.on \in Handle /\ Readable(objs[ret'.on])
    => ret'.val = Estimate(RegsFor(given[ret'.on]))

CountOfMany ==
  ret'.op = "countmerged" /\ ret'.on \notin Handle /\ AllReadable(ret'.on)
    => ret'.val = Estimate(RegsFor(UNION {given[ret'.on[j]] : j \in DOMAIN ret'.on}))

LEMMA CountOneRight ==
  ASSUME IInv, HInv, Ready, NEW h \in Handle, NEW op, CountOne(op, h)
  PROVE  CountOfOne /\ CountOfMany
<1> DEFINE o == objs[h]
<1>1. \E val : ret' = Reply(op, h, val)
  BY DEF CountOne
<1>2. ret'.on = h
  BY <1>1, ReplyParts
<1>3. CountOfMany
  BY <1>2 DEF CountOfMany
<1>4. CASE Readable(o)
  <2>1. IsHLLObject(o) /\ CacheRight(o) /\ RegsOf(o) = RegsFor(given[h])
    BY <1>4, Quiet, GivenTyped DEF Readable, IsHLLObject, Good, Exact
  <2>2. ret' = Reply(op, h, Estimate(RegsOf(o)))
    BY <1>4, <2>1 DEF CountOne, CacheRight
  <2>3. ret'.val = Estimate(RegsOf(o))
    BY <2>2, ReplyParts
  <2> QED
    BY <1>2, <1>3, <2>1, <2>3 DEF CountOfOne
<1>5. CASE ~Readable(o)
  BY <1>2, <1>3, <1>5 DEF CountOfOne
<1> QED
  BY <1>4, <1>5

LEMMA PfCountMergedRight ==
  ASSUME IInv, HInv, NEW hs \in ArgLists, PfCountMerged(hs)
  PROVE  CountOfOne /\ CountOfMany
<1>1. CASE DOMAIN hs = {1}
  <2>1. hs[1] \in Handle
    BY <1>1 DEF ArgLists
  <2> QED
    BY <1>1, <2>1, CountOneRight DEF PfCountMerged
<1>2. CASE DOMAIN hs # {1}
  <2>1. ret' = Reply("countmerged", hs,
                     IF AllReadable(hs) THEN Estimate(MergedRegs(hs)) ELSE ERR)
    BY <1>2 DEF PfCountMerged
  <2>2. ret'.on = hs /\ hs \notin Handle
    BY <2>1, ReplyParts, HandleAssumption
  <2>3. CASE AllReadable(hs)
    <3>1. ret'.val = Estimate(MergedRegs(hs))
      BY <2>1, <2>3, ReplyParts
    <3> QED
      BY <2>2, <2>3, <3>1, UnionExact DEF CountOfOne, CountOfMany
  <2> QED
    BY <2>2, <2>3 DEF CountOfOne, CountOfMany
<1> QED
  BY <1>1, <1>2

\* The other calls answer something else.
LEMMA OthersRight ==
  ASSUME ret'.op \notin {"count", "countmerged"}
  PROVE  CountOfOne /\ CountOfMany
  BY DEF CountOfOne, CountOfMany

LEMMA OtherOps ==
  ASSUME NEW h \in Handle
  PROVE  \/ Create(h) \/ Free(h) \/ Promote(h) \/ Dump(h) \/ Load(h)
         \/ \E e \in Elements : PfAdd(h, e)
         \/ \E n \in 0 .. MaxBatch : AddManyBegin(h, n)
         \/ \E hs \in ArgLists : PfMerge(h, hs)
         => ret'.op \notin {"count", "countmerged"}
<1>1. /\ Create(h) => ret'.op = "create"
      /\ Free(h) => ret'.op = "free"
      /\ Promote(h) => ret'.op = "promote"
      /\ Dump(h) => ret'.op = "dump"
      /\ Load(h) => ret'.op = "load"
  BY ReplyParts DEF Create, Free, Promote, Dump, Load
<1>2. ASSUME NEW e \in Elements, PfAdd(h, e) PROVE ret'.op = "add"
  BY <1>2, ReplyParts DEF PfAdd
<1>3. ASSUME NEW n, AddManyBegin(h, n) PROVE ret'.op \in {"none", "addmany"}
  <2>1. ret' = Silent \/ ret' = Reply("addmany", h, ERR)
    BY <1>3 DEF AddManyBegin
  <2> QED
    BY <2>1, ReplyParts
<1>4. ASSUME NEW hs, PfMerge(h, hs) PROVE ret'.op = "merge"
  BY <1>4, ReplyParts DEF PfMerge
<1> QED
  BY <1>1, <1>2, <1>3, <1>4

LEMMA OtherStepOps ==
  ASSUME SInv,
         \/ \E e \in Elements : AddManyStep(e)
         \/ AddManyEnd
         \/ StorageDamage
  PROVE  ret'.op \notin {"count", "countmerged"}
<1>1. ASSUME NEW e \in Elements, AddManyStep(e) PROVE ret'.op \in {"none", "addmany"}
  <2>1. ret = Silent /\ (ret' = ret \/ \E val : ret' = Reply("addmany", call.h, val))
    BY <1>1 DEF AddManyStep, SInv
  <2> QED
    BY <2>1, ReplyParts
<1>2. AddManyEnd => ret'.op = "addmany"
  BY ReplyParts DEF AddManyEnd
<1>3. StorageDamage => ret'.op = "none"
  BY ReplyParts DEF StorageDamage
<1> QED
  BY <1>1, <1>2, <1>3

LEMMA NextCounts == IInv /\ SInv /\ HInv /\ Next => CountOfOne /\ CountOfMany
<1> SUFFICES ASSUME IInv, SInv, HInv, Next PROVE CountOfOne /\ CountOfMany
  OBVIOUS
<1>1. ASSUME NEW h \in Handle, PfCount(h) PROVE CountOfOne /\ CountOfMany
  BY <1>1, CountOneRight DEF PfCount
<1>2. ASSUME NEW hs \in ArgLists, PfCountMerged(hs) PROVE CountOfOne /\ CountOfMany
  BY <1>2, PfCountMergedRight
<1>3. ASSUME NEW h \in Handle,
             \/ Create(h) \/ Free(h) \/ Promote(h) \/ Dump(h) \/ Load(h)
             \/ \E e \in Elements : PfAdd(h, e)
             \/ \E n \in 0 .. MaxBatch : AddManyBegin(h, n)
             \/ \E hs \in ArgLists : PfMerge(h, hs)
      PROVE  CountOfOne /\ CountOfMany
  BY <1>3, OtherOps, OthersRight
<1>4. ASSUME \/ \E e \in Elements : AddManyStep(e)
             \/ AddManyEnd
             \/ StorageDamage
      PROVE  CountOfOne /\ CountOfMany
  BY <1>4, OtherStepOps, OthersRight
<1> QED
  BY <1>1, <1>2, <1>3, <1>4 DEF Next

-----------------------------------------------------------------------------
(* Theorems.                                                               *)

\* The registers of every object that can be read are those of the set of the
\* elements it was given, for any order, repetition, merge, conversion and trip
\* through the storage.
THEOREM SketchOfASet == SpecH => []RegistersAreSketch
<1>1. HInv => RegistersAreSketch
  BY DEF HInv, Exact, RegistersAreSketch
<1> QED
  BY <1>1, ExactInductive, PTL

\* pfCount and pfCountMerged answer the estimate of the elements given to their
\* objects, from the cache or counted anew.
THEOREM CountsOfASet == SpecH => CountsAreOfUnion
<1> DEFINE A == /\ ret'.op \in {"count", "countmerged"} /\ ret'.on \in Handle
                     /\ Readable(objs[ret'.on])
                     => ret'.val = Estimate(RegsFor(given[ret'.on]))
                /\ ret'.op = "countmerged" /\ ret'.on \notin Handle /\ AllReadable(ret'.on)
                     => ret'.val = Estimate(RegsFor(UNION {given[ret'.on[j]] :
                                                              j \in DOMAIN ret'.on}))
<1>1. IInv /\ SInv /\ HInv /\ [NextH]_varsH => [A]_varsH
  BY NextCounts, NextIsStep DEF CountOfOne, CountOfMany
<1> QED
  BY <1>1, ExactInductive, PTL DEF SpecH, CountsAreOfUnion

-----------------------------------------------------------------------------
(* The operators of the two specifications.                                *)

LEMMA SameOperators ==
  /\ \A op, on, val : Bank!Reply(op, on, val) = Reply(op, on, val)
  /\ \A h, left, updated : Bank!Busy(h, left, updated) = Busy(h, left, updated)
  /\ Bank!Idle = Idle /\ Bank!Quiet = Silent /\ Bank!Index = Index
  /\ Bank!ArgLists = ArgLists
  /\ OK = 0 /\ ERR = -1 /\ Invalid = Bank!Nothing
<1>1. \A op, on, val : Bank!Reply(op, on, val) = Reply(op, on, val)
  BY DEF Bank!Reply, Reply
<1>2. \A h, left, updated : Bank!Busy(h, left, updated) = Busy(h, left, updated)
  BY DEF Bank!Busy, Busy
<1>3. Bank!Idle = Idle /\ Bank!Index = Index
  BY DEF Bank!Idle, Idle, Bank!Index, Index
<1>4. Bank!Quiet = Silent
  BY DEF Bank!Quiet, Silent, Bank!Reply, Reply, OK
<1>5. Bank!ArgLists = ArgLists
  BY DEF Bank!ArgLists, ArgLists
<1>6. OK = 0 /\ ERR = -1 /\ Invalid = Bank!Nothing
  BY DEF OK, ERR, Invalid, Bank!Nothing
<1> QED
  BY <1>1, <1>2, <1>3, <1>4, <1>5, <1>6

LEMMA SameMax == \A S : Bank!Max(S) = Max(S)
  BY DEF Bank!Max, Max

LEMMA SketchParts ==
  /\ Bank!Absent.st = "absent" /\ Bank!Refused.st = "refused"
  /\ \A regs : Bank!Live(regs).st = "live" /\ Bank!Live(regs).regs = regs
  /\ \A count : Bank!Broken(count).st = "broken" /\ Bank!Broken(count).count = count
  BY DEF Bank!Absent, Bank!Refused, Bank!Live, Bank!Broken

\* A sketch is absent for NULL, live for an object that can be read and broken
\* for one that cannot.
LEMMA SketchCases ==
  ASSUME NEW o, ObjectOK(o)
  PROVE  /\ o = Null => SketchOf(o) = Bank!Absent
         /\ Readable(o) => SketchOf(o) = Bank!Live(RegsOf(o))
         /\ o # Null /\ ~Readable(o) => SketchOf(o) = Bank!Broken(o.card)
         /\ IsHLLObject(o) <=> o # Null
         /\ Readable(o) => IsHLLObject(o)
<1>1. o = Null => SketchOf(o) = Bank!Absent
  <2>1. o = Null => o.enc = "none" /\ ~Readable(o)
    BY NullFields DEF Readable
  <2> QED
    BY <2>1 DEF SketchOf, Bank!Absent
<1>2. Readable(o) => IsHLLObject(o)
  BY DEF Readable, IsHLLObject
<1>3. IsHLLObject(o) <=> o # Null
  BY ObjectCases, NullFields DEF IsHLLObject
<1>4. IsHLLObject(o) => o.enc # "none" /\ o.enc # "junk"
  BY DEF IsHLLObject
<1>5. Readable(o) => SketchOf(o) = Bank!Live(RegsOf(o))
  BY <1>2, <1>4 DEF SketchOf, Bank!Live
<1>6. o # Null /\ ~Readable(o) => SketchOf(o) = Bank!Broken(o.card)
  BY <1>3, <1>4 DEF SketchOf, Bank!Broken
<1> QED
  BY <1>1, <1>2, <1>3, <1>5, <1>6

LEMMA JunkSketch == SketchOf(Junk) = Bank!Refused
<1>1. Junk.enc = "junk" /\ ~Readable(Junk)
  BY NullFields DEF Readable
<1> QED
  BY <1>1 DEF SketchOf, Bank!Refused

-----------------------------------------------------------------------------
(* The bank of the objects.                                                *)

BankOf == [h \in Handle |-> SketchOf(objs[h])]

LEMMA OneSketch ==
  ASSUME IInv, NEW h \in Handle, NEW x, objs' = [objs EXCEPT ![h] = x]
  PROVE  BankOf' = [BankOf EXCEPT ![h] = SketchOf(x)]
<1>1. objs = [g \in Handle |-> objs[g]]
  BY DEF IInv
<1>2. \A g \in Handle : g # h => objs'[g] = objs[g]
  BY <1>1
<1>3. objs'[h] = x
  BY <1>1
<1>4. \A g \in Handle : BankOf'[g] = IF g = h THEN SketchOf(x) ELSE BankOf[g]
  BY <1>2, <1>3 DEF BankOf
<1>5. /\ BankOf' = [g \in Handle |-> BankOf'[g]]
      /\ BankOf = [g \in Handle |-> BankOf[g]]
  BY DEF BankOf
<1> QED
  BY <1>4, <1>5

LEMMA SameSketches ==
  ASSUME objs' = objs
  PROVE  BankOf' = BankOf
  BY DEF BankOf

\* A step that leaves an object's sketch as it is.
LEMMA SketchKept ==
  ASSUME IInv, NEW h \in Handle, NEW x, objs' = [objs EXCEPT ![h] = x],
         SketchOf(x) = SketchOf(objs[h])
  PROVE  BankOf' = BankOf
<1>1. BankOf' = [BankOf EXCEPT ![h] = SketchOf(x)]
  BY OneSketch
<1> QED
  BY <1>1 DEF BankOf

\* An entry of the bank tells what can be done with its object.
LEMMA BankAt ==
  ASSUME IInv, NEW h \in Handle
  PROVE  /\ ObjectOK(objs[h]) /\ BankOf[h] = SketchOf(objs[h])
         /\ (objs[h] = Null <=> BankOf[h] = Bank!Absent)
         /\ (objs[h] = Null <=> BankOf[h].st = "absent")
         /\ (Readable(objs[h]) <=> BankOf[h].st = "live")
         /\ (IsHLLObject(objs[h]) /\ ~Readable(objs[h]) <=> BankOf[h].st = "broken")
         /\ (IsHLLObject(objs[h]) <=> objs[h] # Null)
         /\ (Readable(objs[h]) => IsHLLObject(objs[h]))
<1>1. ObjectOK(objs[h]) /\ BankOf[h] = SketchOf(objs[h])
  BY DEF IInv, BankOf
<1> QED
  BY <1>1, SketchCases, SketchParts

\* A cached cardinality cannot be seen in an object that can be read.
LEMMA CardUnseen ==
  ASSUME NEW o, ObjectOK(o), IsHLLObject(o), NEW c \in CardValue,
         Readable(o) \/ c = o.card
  PROVE  SketchOf([o EXCEPT !.card = c]) = SketchOf(o)
<1> DEFINE x == [o EXCEPT !.card = c]
<1>1. /\ ObjectOK(x) /\ IsHLLObject(x) /\ x.card = c
      /\ RegsOf(x) = RegsOf(o) /\ (Readable(x) <=> Readable(o))
  BY CardSet
<1> HIDE DEF x
<1>2. SketchOf(x) = SketchOf(o)
  BY <1>1, SketchCases
<1> QED
  BY <1>2 DEF x

-----------------------------------------------------------------------------
(* One lemma per action.                                                   *)

LEMMA CreateMaps ==
  ASSUME IInv, NEW h \in Handle, Create(h)
  PROVE  Bank!BankCreate(h)
<1>1. /\ ~call.busy /\ objs[h] = Null /\ stored' = stored /\ call' = call
      /\ objs' = [objs EXCEPT ![h] = Created] /\ ret' = Reply("create", h, OK)
  BY DEF Create, Ready
<1>2. BankOf[h] = Bank!Absent
  BY <1>1, SketchCases DEF IInv, BankOf
<1>3. SketchOf(Created) = Bank!Fresh
  <2>1. SketchOf(Created) = Bank!Live(ZeroRegs)
    BY CreatedGood, SketchCases DEF Good
  <2>2. ZeroRegs = [i \in Bank!Index |-> 0]
    BY SameOperators DEF ZeroRegs
  <2> QED
    BY <2>1, <2>2 DEF Bank!Fresh
<1>4. BankOf' = [BankOf EXCEPT ![h] = Bank!Fresh]
  BY <1>1, <1>3, OneSketch
<1> QED
  BY <1>1, <1>2, <1>4, SameOperators DEF Bank!BankCreate, BankOf

LEMMA FreeMaps ==
  ASSUME IInv, NEW h \in Handle, Free(h)
  PROVE  Bank!BankFree(h)
<1>1. /\ ~call.busy /\ objs[h] # Null /\ stored' = stored /\ call' = call
      /\ objs' = [objs EXCEPT ![h] = Null] /\ ret' = Reply("free", h, OK)
  BY DEF Free, Ready
<1>2. BankOf[h] # Bank!Absent
  BY <1>1, BankAt
<1>3. SketchOf(Null) = Bank!Absent
  BY NullGood, SketchCases DEF Good
<1>4. BankOf' = [BankOf EXCEPT ![h] = Bank!Absent]
  BY <1>1, <1>3, OneSketch
<1> QED
  BY <1>1, <1>2, <1>4, SameOperators DEF Bank!BankFree, BankOf

\* Adding an element leads to one of the outcomes of the sketch.
LEMMA AddOutcome ==
  ASSUME NEW o, ObjectOK(o), IsHLLObject(o), NEW e \in Elements, NEW a, AddFacts(o, e, a)
  PROVE  Bank!Outcome(SketchOf(a.obj), a.val) \in Bank!Outcomes(SketchOf(o), e)
<1>1. /\ ObjectOK(a.obj) /\ a.obj # Null /\ o # Null
      /\ a.val \in {0, 1, ERR} /\ (a.val # 1 => a.obj = o)
  BY NullFields DEF AddFacts, IsHLLObject
<1>2. CASE Readable(o)
  <2> DEFINE regs == RegsOf(o)
             R    == Bank!Raise(regs, e)
  <2>1. regs \in RegArray /\ e.idx \in Index /\ regs[e.idx] \in Int /\ e.pat \in Int
    BY RegsOfTyped, GrowsTyped, ElementTyped
  <2>2. /\ SketchOf(o) = Bank!Live(regs)
        /\ SketchOf(a.obj) = Bank!Live(RegsOf(a.obj)) /\ a.val \in {0, 1}
    BY <1>1, <1>2, SketchCases DEF AddFacts
  <2>3. Bank!Outcomes(SketchOf(o), e)
          = {Bank!Outcome(Bank!Live(R), IF R = regs THEN 0 ELSE 1)}
    BY <2>2, SketchParts DEF Bank!Outcomes
  <2>4. CASE a.val = 1
    <3>1. e.pat > regs[e.idx] /\ RegsOf(a.obj) = [regs EXCEPT ![e.idx] = e.pat]
      BY <1>2, <2>4 DEF AddFacts
    <3> HIDE DEF regs
    <3>2. R = [regs EXCEPT ![e.idx] = e.pat]
      BY <3>1 DEF Bank!Raise
    <3>3. [regs EXCEPT ![e.idx] = e.pat][e.idx] = e.pat /\ e.pat # regs[e.idx]
      BY <2>1, <3>1 DEF RegArray
    <3>4. R # regs
      BY <3>2, <3>3
    <3> QED
      BY <2>2, <2>3, <2>4, <3>1, <3>2, <3>4
  <2>5. CASE a.val = 0
    <3>1. e.pat <= regs[e.idx] /\ a.obj = o
      BY <1>1, <1>2, <2>5 DEF AddFacts
    <3>2. RegsOf(a.obj) = regs
      BY <3>1
    <3> HIDE DEF regs
    <3>3. ~(e.pat > regs[e.idx])
      BY <2>1, <3>1
    <3>4. R = regs
      BY <2>1, <3>3 DEF Bank!Raise, RegArray
    <3> QED
      BY <2>2, <2>3, <2>5, <3>2, <3>4
  <2> QED
    BY <2>2, <2>4, <2>5
<1>3. CASE ~Readable(o)
  <2> DEFINE s == SketchOf(o)
  <2>1. s = Bank!Broken(o.card)
    BY <1>1, <1>3, SketchCases
  <2>2. Bank!Outcomes(s, e) = {Bank!Outcome(s, -1), Bank!Outcome(s, 0),
                               Bank!Outcome(Bank!Broken(Bank!Nothing), 1)}
    BY <2>1, SketchParts DEF Bank!Outcomes
  <2>3. CASE a.val = 1
    <3>1. ~Readable(a.obj) /\ a.obj.card = Bank!Nothing
      BY <1>3, <2>3, SameOperators DEF AddFacts
    <3>2. SketchOf(a.obj) = Bank!Broken(Bank!Nothing)
      BY <1>1, <3>1, SketchCases
    <3> QED
      BY <2>2, <2>3, <3>2
  <2>4. CASE a.val # 1
    <3>1. a.obj = o /\ a.val \in {0, -1}
      BY <1>1, <2>4, SameOperators
    <3> QED
      BY <2>2, <3>1
  <2> QED
    BY <2>3, <2>4
<1> QED
  BY <1>2, <1>3

\* The invalidation after an element that was added is not seen.
LEMMA InvalidatedSketch ==
  ASSUME NEW o, ObjectOK(o), IsHLLObject(o), NEW e \in Elements, NEW a, AddFacts(o, e, a),
         a.val = 1
  PROVE  SketchOf(InvalidateCache(a.obj)) = SketchOf(a.obj)
<1>1. /\ ObjectOK(a.obj) /\ IsHLLObject(a.obj) /\ Invalid \in CardValue
      /\ Readable(a.obj) \/ Invalid = a.obj.card
  BY DEF AddFacts, CardValue
<1> QED
  BY <1>1, CardUnseen DEF InvalidateCache

LEMMA OutcomeParts ==
  \A s, val : Bank!Outcome(s, val).sketch = s /\ Bank!Outcome(s, val).val = val
  BY DEF Bank!Outcome

LEMMA PfAddMaps ==
  ASSUME IInv, NEW h \in Handle, NEW e \in Elements, PfAdd(h, e)
  PROVE  Bank!BankAdd(h, e)
<1> DEFINE o == objs[h]
           a == HllAdd(o, e)
<1>1. ~call.busy /\ stored' = stored /\ call' = call
  BY DEF PfAdd, Ready
<1>2. ObjectOK(o) /\ BankOf[h] = SketchOf(o)
  BY BankAt
<1>3. \E out \in Bank!Outcomes(BankOf[h], e) :
        ret' = Reply("add", h, out.val) /\ BankOf' = [BankOf EXCEPT ![h] = out.sketch]
  <2>1. CASE ~IsHLLObject(o)
    <3> DEFINE out == Bank!Outcome(BankOf[h], -1)
    <3>1. objs' = objs /\ ret' = Reply("add", h, -1)
      BY <2>1, SameOperators DEF PfAdd
    <3>2. out \in Bank!Outcomes(BankOf[h], e)
      BY <2>1, BankAt DEF Bank!Outcomes
    <3>3. out.val = -1 /\ out.sketch = BankOf[h]
      BY OutcomeParts
    <3>4. BankOf' = [BankOf EXCEPT ![h] = BankOf[h]]
      BY <3>1, SameSketches DEF BankOf
    <3> HIDE DEF out
    <3> QED
      BY <3>1, <3>2, <3>3, <3>4
  <2>2. CASE IsHLLObject(o)
    <3> DEFINE out == Bank!Outcome(SketchOf(a.obj), a.val)
               x   == IF a.val = 1 THEN InvalidateCache(a.obj) ELSE a.obj
    <3>1. AddFacts(o, e, a)
      BY <1>2, <2>2, HllAddFacts
    <3>2. objs' = [objs EXCEPT ![h] = x] /\ ret' = Reply("add", h, a.val)
      BY <2>2 DEF PfAdd
    <3> HIDE DEF a, o
    <3>3. SketchOf(x) = SketchOf(a.obj)
      BY <1>2, <2>2, <3>1, InvalidatedSketch
    <3>4. out \in Bank!Outcomes(BankOf[h], e)
      BY <1>2, <2>2, <3>1, AddOutcome
    <3>5. out.val = a.val /\ out.sketch = SketchOf(a.obj)
      BY OutcomeParts
    <3> HIDE DEF x, out
    <3>6. BankOf' = [BankOf EXCEPT ![h] = SketchOf(x)]
      BY <3>2, OneSketch
    <3> QED
      BY <3>2, <3>3, <3>4, <3>5, <3>6
  <2> QED
    BY <2>1, <2>2
<1> QED
  BY <1>1, <1>3, SameOperators DEF Bank!BankAdd, BankOf

\* While pfAddMany runs, its object may have a stale cache; a broken one has
\* lost it when an element was added, so that the invalidation at the end is
\* not seen.
BrokenStale ==
  call.busy /\ call.updated => Readable(objs[call.h]) \/ objs[call.h].card = Invalid

LEMMA AddManyBeginMaps ==
  ASSUME IInv, NEW h \in Handle, NEW n \in 0 .. MaxBatch, AddManyBegin(h, n)
  PROVE  Bank!BankAddManyBegin(h, n) /\ BrokenStale'
<1>1. /\ ~call.busy /\ stored' = stored /\ objs' = objs
      /\ IF IsHLLObject(objs[h]) THEN call' = Busy(h, n, FALSE) /\ ret' = Silent
                                 ELSE call' = call /\ ret' = Reply("addmany", h, -1)
  BY SameOperators DEF AddManyBegin, Ready
<1>2. BrokenStale'
  <2>1. CASE IsHLLObject(objs[h])
    <3>1. call' = Busy(h, n, FALSE)
      BY <1>1, <2>1
    <3>2. ~call'.updated
      BY <3>1 DEF Busy
    <3> QED
      BY <3>2 DEF BrokenStale
  <2>2. CASE ~IsHLLObject(objs[h])
    BY <1>1, <2>2 DEF BrokenStale
  <2> QED
    BY <2>1, <2>2
<1>3. BankOf' = BankOf
  BY <1>1, SameSketches
<1>4. IsHLLObject(objs[h]) <=> BankOf[h] # Bank!Absent
  BY BankAt
<1>5. Bank!BankAddManyBegin(h, n)
  BY <1>1, <1>3, <1>4, SameOperators DEF Bank!BankAddManyBegin, BankOf
<1> QED
  BY <1>2, <1>5

LEMMA AddManyStepMaps ==
  ASSUME IInv, BrokenStale, NEW e \in Elements, AddManyStep(e)
  PROVE  Bank!BankAddManyStep(e) /\ BrokenStale'
<1> DEFINE h == call.h
           o == objs[h]
           a == HllAdd(o, e)
           out == Bank!Outcome(SketchOf(a.obj), a.val)
<1>1. /\ call.busy /\ call.left > 0 /\ stored' = stored
      /\ objs' = [objs EXCEPT ![h] = a.obj]
      /\ IF a.val \in {0, 1}
         THEN /\ call' = Busy(h, call.left - 1, call.updated \/ a.val = 1)
              /\ ret' = ret
         ELSE call' = Idle /\ ret' = Reply("addmany", h, a.val)
  BY DEF AddManyStep
<1>2. h \in Handle /\ IsHLLObject(o)
  BY <1>1, CallFields DEF IInv, CallOK
<1>3. ObjectOK(o) /\ BankOf[h] = SketchOf(o) /\ objs = [g \in Handle |-> objs[g]]
  BY <1>2, BankAt DEF IInv
<1>4. AddFacts(o, e, a)
  BY <1>2, <1>3, HllAddFacts
<1>5. BrokenStale'
  <2>1. CASE a.val \in {0, 1}
    <3>1. call'.h = h /\ objs'[h] = a.obj
      BY <1>1, <1>2, <1>3, <2>1, CallFields
    <3>2. CASE a.val = 1
      BY <1>4, <3>1, <3>2 DEF AddFacts, BrokenStale
    <3>3. CASE a.val # 1
      <4>1. a.obj = o
        BY <1>4, <3>3 DEF AddFacts
      <4>2. call'.updated = (call.updated \/ a.val = 1)
        BY <1>1, <2>1, CallFields
      <4>3. call'.updated => call.updated
        BY <3>3, <4>2
      <4> QED
        BY <1>1, <3>1, <4>1, <4>3 DEF BrokenStale
    <3> QED
      BY <3>2, <3>3
  <2>2. CASE a.val \notin {0, 1}
    BY <1>1, <2>2, CallFields DEF BrokenStale
  <2> QED
    BY <2>1, <2>2
<1>6. out \in Bank!Outcomes(BankOf[h], e)
  BY <1>2, <1>3, <1>4, AddOutcome
<1>7. out.val = a.val /\ out.sketch = SketchOf(a.obj)
  BY OutcomeParts
<1>8. a.val \in {0, 1, -1}
  BY <1>4, SameOperators DEF AddFacts
<1> HIDE DEF out, a
<1>9. BankOf' = [BankOf EXCEPT ![h] = out.sketch]
  BY <1>1, <1>2, <1>7, OneSketch
<1>10. \/ /\ out.val = -1
           /\ call' = Idle /\ ret' = Reply("addmany", h, -1)
       \/ /\ out.val # -1 /\ ret' = ret
           /\ call' = Busy(h, call.left - 1, call.updated \/ out.val = 1)
  <2>1. CASE a.val = -1
    BY <1>1, <1>7, <2>1
  <2>2. CASE a.val \in {0, 1}
    BY <1>1, <1>7, <2>2
  <2> QED
    BY <1>8, <2>1, <2>2
<1>11. Bank!BankAddManyStep(e)
  BY <1>1, <1>6, <1>9, <1>10, SameOperators DEF Bank!BankAddManyStep, BankOf, h
<1> QED
  BY <1>5, <1>11

LEMMA AddManyEndMaps ==
  ASSUME IInv, BrokenStale, AddManyEnd
  PROVE  Bank!BankAddManyEnd /\ BrokenStale'
<1> DEFINE h == call.h
           o == objs[h]
           x == [o EXCEPT !.card = Invalid]
<1>1. /\ call.busy /\ call.left = 0 /\ stored' = stored /\ call' = Idle
      /\ ret' = Reply("addmany", h, IF call.updated THEN 1 ELSE 0)
      /\ \/ objs' = objs
         \/ call.updated /\ objs' = [objs EXCEPT ![h] = x]
  BY DEF AddManyEnd, InvalidateCache
<1>2. h \in Handle /\ IsHLLObject(o)
  BY <1>1, CallFields DEF IInv, CallOK
<1>3. call.updated => SketchOf(x) = SketchOf(o)
  <2>1. ObjectOK(o) /\ Invalid \in CardValue
    BY <1>2, BankAt DEF CardValue
  <2>2. call.updated => Readable(o) \/ Invalid = o.card
    BY <1>1 DEF BrokenStale
  <2> QED
    BY <1>2, <2>1, <2>2, CardUnseen
<1> HIDE DEF x
<1>4. BankOf' = BankOf
  BY <1>1, <1>2, <1>3, SketchKept, SameSketches
<1>5. BrokenStale'
  BY <1>1, CallFields DEF BrokenStale
<1>6. Bank!BankAddManyEnd
  BY <1>1, <1>4, SameOperators DEF Bank!BankAddManyEnd, BankOf
<1> QED
  BY <1>5, <1>6

LEMMA CountOneMaps ==
  ASSUME IInv, Ready, NEW h \in Handle, NEW op, CountOne(op, h)
  PROVE  Bank!BankCount(op, h)
<1> DEFINE o == objs[h]
           n == Estimate(RegsOf(o))
           s == BankOf[h]
<1>1. ~call.busy /\ stored' = stored /\ call' = call
  BY DEF Ready, CountOne
<1>2. Good(o) /\ ObjectOK(o) /\ s = SketchOf(o)
  BY Quiet, BankAt
<1>3. n \in CardValue
  BY <1>2, RegsOfTyped DEF CardValue
<1>4. CASE ~IsHLLObject(o)
  <2>1. ret' = Reply(op, h, -1) /\ objs' = objs
    BY <1>4, SameOperators DEF CountOne
  <2>2. s.st = "absent"
    BY <1>4, BankAt
  <2>3. Bank!CountOf(s) = -1
    BY <2>2 DEF Bank!CountOf
  <2>4. BankOf' = BankOf
    BY <2>1, SameSketches
  <2> QED
    BY <1>1, <2>1, <2>3, <2>4, SameOperators DEF Bank!BankCount, BankOf
<1>5. CASE IsHLLObject(o) /\ ~Readable(o)
  <2>1. o # Null
    BY <1>2, <1>5, SketchCases
  <2>2. s = Bank!Broken(o.card)
    BY <1>2, <1>5, <2>1, SketchCases
  <2>3. ret' = Reply(op, h, o.card) /\ objs' = objs
    BY <1>5, SameOperators DEF CountOne, Bank!Nothing
  <2>4. Bank!CountOf(s) = o.card
    BY <2>2, SketchParts DEF Bank!CountOf
  <2>5. BankOf' = BankOf
    BY <2>3, SameSketches
  <2> QED
    BY <1>1, <2>3, <2>4, <2>5, SameOperators DEF Bank!BankCount, BankOf
<1>6. CASE Readable(o)
  <2> DEFINE x == [o EXCEPT !.card = n]
  <2>1. IsHLLObject(o) /\ s = Bank!Live(RegsOf(o))
    BY <1>2, <1>6, SketchCases
  <2>2. Bank!CountOf(s) = n
    BY <2>1, SketchParts DEF Bank!CountOf
  <2>3. ret' = Reply(op, h, n)
    BY <1>2, <1>6, <2>1 DEF CountOne, Good, CacheRight
  <2>4. objs' = objs \/ objs' = [objs EXCEPT ![h] = x]
    <3>1. objs' = objs \/ objs' = [objs EXCEPT ![h].card = n]
      BY DEF CountOne
    <3> QED
      BY <3>1
  <2>5. SketchOf(x) = SketchOf(o)
    BY <1>2, <1>3, <1>6, <2>1, CardUnseen
  <2> HIDE DEF x, n
  <2>6. BankOf' = BankOf
    BY <2>4, <2>5, SketchKept, SameSketches
  <2> QED
    BY <1>1, <2>2, <2>3, <2>6, SameOperators DEF Bank!BankCount, BankOf
<1> QED
  BY <1>4, <1>5, <1>6

\* The sources of a merge.
LEMMA SourcesMap ==
  ASSUME IInv, NEW hs \in ArgLists
  PROVE  /\ Bank!NoneBroken(hs) <=> AllReadable(hs)
         /\ AllReadable(hs) => Bank!Union(hs) = MergedRegs(hs)
<1>1. \A j \in DOMAIN hs : hs[j] \in Handle
  BY DEF ArgLists
<1>2. \A j \in DOMAIN hs :
        /\ (objs[hs[j]] = Null \/ Readable(objs[hs[j]]) <=> BankOf[hs[j]].st # "broken")
        /\ (Readable(objs[hs[j]]) <=> BankOf[hs[j]].st = "live")
        /\ (Readable(objs[hs[j]]) => BankOf[hs[j]].regs = RegsOf(objs[hs[j]]))
  <2> SUFFICES ASSUME NEW h \in Handle
               PROVE  /\ (objs[h] = Null \/ Readable(objs[h]) <=> BankOf[h].st # "broken")
                      /\ (Readable(objs[h]) <=> BankOf[h].st = "live")
                      /\ (Readable(objs[h]) => BankOf[h].regs = RegsOf(objs[h]))
    BY <1>1
  <2>1. Readable(objs[h]) => BankOf[h].regs = RegsOf(objs[h])
    BY BankAt, SketchCases, SketchParts
  <2> QED
    BY <2>1, BankAt
<1>3. Bank!NoneBroken(hs) <=> AllReadable(hs)
  BY <1>2 DEF Bank!NoneBroken, AllReadable, BankOf
<1>4. ASSUME AllReadable(hs), NEW i \in Index
      PROVE  {0} \cup {BankOf[hs[j]].regs[i] :
                        j \in {k \in DOMAIN hs : BankOf[hs[k]].st = "live"}}
               = {0} \cup {RegsOf(objs[hs[j]])[i] : j \in DOMAIN hs}
  <2>1. \A j \in DOMAIN hs : BankOf[hs[j]].st # "live" => RegsOf(objs[hs[j]])[i] = 0
    <3>1. RegsOf(Null)[i] = 0
      BY DEF RegsOf, Null, ZeroRegs
    <3> QED
      BY <1>2, <1>4, <3>1 DEF AllReadable
  <2> QED
    BY <1>2, <2>1
<1>5. ASSUME AllReadable(hs) PROVE Bank!Union(hs) = MergedRegs(hs)
  <2>1. Bank!Union(hs)
          = [i \in Index |-> Max({0} \cup {BankOf[hs[j]].regs[i] :
                                j \in {k \in DOMAIN hs : BankOf[hs[k]].st = "live"}})]
    BY SameOperators, SameMax DEF Bank!Union, BankOf
  <2> QED
    BY <1>4, <1>5, <2>1 DEF MergedRegs
<1> QED
  BY <1>3, <1>5

LEMMA PfCountMergedMaps ==
  ASSUME IInv, NEW hs \in ArgLists, PfCountMerged(hs)
  PROVE  \/ \E h \in Handle : Bank!BankCount("countmerged", h)
         \/ Bank!BankCountMerged(hs)
<1>1. CASE DOMAIN hs = {1}
  <2>1. hs[1] \in Handle
    BY <1>1 DEF ArgLists
  <2> QED
    BY <1>1, <2>1, CountOneMaps DEF PfCountMerged
<1>2. CASE DOMAIN hs # {1}
  <2>1. /\ ~call.busy /\ objs' = objs /\ stored' = stored /\ call' = call
        /\ ret' = Reply("countmerged", hs,
                        IF AllReadable(hs) THEN Estimate(MergedRegs(hs)) ELSE -1)
    BY <1>2, SameOperators DEF PfCountMerged, Ready
  <2>2. BankOf' = BankOf
    BY <2>1, SameSketches
  <2>3. ret' = Reply("countmerged", hs,
                     IF Bank!NoneBroken(hs) THEN Estimate(Bank!Union(hs)) ELSE -1)
    BY <2>1, SourcesMap
  <2> QED
    BY <1>2, <2>1, <2>2, <2>3, SameOperators DEF Bank!BankCountMerged, BankOf
<1> QED
  BY <1>1, <1>2

LEMMA PfMergeMaps ==
  ASSUME IInv, NEW t \in Handle, NEW hs \in ArgLists, PfMerge(t, hs)
  PROVE  Bank!BankMerge(t, hs)
<1> DEFINE x == Dense(MergedRegs(hs), Invalid)
<1>1. ~call.busy /\ stored' = stored /\ call' = call
  BY DEF PfMerge, Ready
<1>2. Readable(objs[t]) => objs[t] # Null
  BY BankAt
<1>3. CASE AllReadable(hs) /\ Readable(objs[t])
  <2>1. objs' = [objs EXCEPT ![t] = x] /\ ret' = Reply("merge", t, 0)
    BY <1>2, <1>3, SameOperators DEF PfMerge
  <2>2. SketchOf(x) = Bank!Live(Bank!Union(hs))
    <3>1. MergedRegs(hs) \in RegArray /\ Invalid \in CardValue
      BY MergedRegsTyped DEF IInv, CardValue
    <3>2. ObjectOK(x) /\ Readable(x) /\ RegsOf(x) = MergedRegs(hs)
      BY <3>1, DenseObject
    <3> HIDE DEF x
    <3> QED
      BY <1>3, <3>2, SketchCases, SourcesMap
  <2> HIDE DEF x
  <2>3. BankOf' = [BankOf EXCEPT ![t] = Bank!Live(Bank!Union(hs))]
    BY <2>1, <2>2, OneSketch
  <2>4. BankOf[t].st = "live" /\ Bank!NoneBroken(hs)
    BY <1>3, BankAt, SourcesMap
  <2> QED
    BY <1>1, <2>1, <2>3, <2>4, SameOperators DEF Bank!BankMerge, BankOf
<1>4. CASE ~(AllReadable(hs) /\ Readable(objs[t]))
  <2>1. objs' = objs /\ ret' = Reply("merge", t, -1)
    BY <1>4, SameOperators DEF PfMerge
  <2>2. BankOf' = BankOf
    BY <2>1, SameSketches
  <2>3. BankOf[t].st # "live" \/ ~Bank!NoneBroken(hs)
    BY <1>4, BankAt, SourcesMap
  <2> QED
    BY <1>1, <2>1, <2>2, <2>3, SameOperators DEF Bank!BankMerge, BankOf
<1> QED
  BY <1>3, <1>4

LEMMA PromoteMaps ==
  ASSUME IInv, NEW h \in Handle, Promote(h)
  PROVE  Bank!BankPromote(h)
<1> DEFINE o == objs[h]
           x == SparseToDense(o)
<1>1. /\ ~call.busy /\ stored' = stored /\ call' = call /\ IsHLLObject(o)
      /\ IF Readable(o)
         THEN objs' = [objs EXCEPT ![h] = x] /\ ret' = Reply("promote", h, 0)
         ELSE objs' = objs /\ ret' = Reply("promote", h, -1)
  BY SameOperators DEF Promote, Ready
<1>2. BankOf[h] # Bank!Absent /\ (Readable(o) <=> BankOf[h].st = "live")
  BY <1>1, BankAt
<1>3. Readable(o) => SketchOf(x) = SketchOf(o)
  <2> SUFFICES ASSUME Readable(o) PROVE SketchOf(x) = SketchOf(o)
    OBVIOUS
  <2>1. Good(o)
    BY Quiet DEF Promote
  <2>2. ObjectOK(x) /\ Readable(x) /\ RegsOf(x) = RegsOf(o)
    BY <2>1, DensifiedGood, DensifiedSame DEF Good
  <2> HIDE DEF x
  <2> QED
    BY <2>1, <2>2, SketchCases DEF Good
<1> HIDE DEF x
<1>4. BankOf' = BankOf
  BY <1>1, <1>3, SketchKept, SameSketches
<1> QED
  BY <1>1, <1>2, <1>4, SameOperators DEF Bank!BankPromote, BankOf

LEMMA DumpMaps ==
  ASSUME IInv, NEW h \in Handle, Dump(h)
  PROVE  Bank!BankDump(h)
<1> DEFINE o == objs[h]
           x == [o EXCEPT !.tail = 0]
<1>1. /\ ~call.busy /\ objs' = objs /\ call' = call /\ IsHLLObject(o)
      /\ stored' = x /\ ret' = Reply("dump", h, 0)
  BY SameOperators DEF Dump, Ready
<1>2. BankOf[h] # Bank!Absent /\ BankOf[h] = SketchOf(o) /\ BankOf' = BankOf
  BY <1>1, BankAt, SameSketches
<1>3. SketchOf(x) = SketchOf(o)
  <2>1. Good(o) /\ ObjectOK(o)
    BY Quiet DEF Dump, Good
  <2>2. ObjectOK(x)
    BY <1>1, <2>1, TailDropped DEF Good
  <2>3. /\ RegsOf(x) = RegsOf(o) /\ (Readable(x) <=> Readable(o))
        /\ x.card = o.card /\ IsHLLObject(x)
    BY <1>1, <2>1, TailUnseen
  <2> HIDE DEF x
  <2> QED
    BY <1>1, <2>1, <2>2, <2>3, SketchCases
<1>4. SketchOf(stored)' = BankOf[h]
  BY <1>1, <1>2, <1>3
<1> QED
  BY <1>1, <1>2, <1>4, SameOperators DEF Bank!BankDump, BankOf

LEMMA LoadMaps ==
  ASSUME IInv, NEW h \in Handle, Load(h)
  PROVE  Bank!BankLoad(h)
<1>1. /\ ~call.busy /\ stored' = stored /\ call' = call
      /\ objs[h] = Null /\ stored # Null
      /\ IF IsHLLObject(stored)
         THEN objs' = [objs EXCEPT ![h] = stored] /\ ret' = Reply("load", h, 0)
         ELSE objs' = objs /\ ret' = Reply("load", h, -1)
  BY SameOperators DEF Load, Ready
<1>2. BankOf[h] = Bank!Absent
  BY <1>1, BankAt
<1>3. /\ SketchOf(stored) # Bank!Absent
      /\ (IsHLLObject(stored) <=> SketchOf(stored) # Bank!Refused)
  <2>1. CASE stored = Junk
    BY <2>1, JunkSketch, SketchParts, NullFields DEF IsHLLObject
  <2>2. CASE ObjectOK(stored)
    BY <1>1, <2>2, SketchCases, SketchParts
  <2> QED
    BY <2>1, <2>2 DEF IInv, StoredOK
<1>4. CASE IsHLLObject(stored)
  <2>1. BankOf' = [BankOf EXCEPT ![h] = SketchOf(stored)]
    BY <1>1, <1>4, OneSketch
  <2> QED
    BY <1>1, <1>2, <1>3, <1>4, <2>1, SameOperators DEF Bank!BankLoad, BankOf
<1>5. CASE ~IsHLLObject(stored)
  <2>1. BankOf' = BankOf
    BY <1>1, <1>5, SameSketches
  <2> QED
    BY <1>1, <1>2, <1>3, <1>5, <2>1, SameOperators DEF Bank!BankLoad, BankOf
<1> QED
  BY <1>4, <1>5

LEMMA StorageDamageMaps ==
  ASSUME IInv, StorageDamage
  PROVE  Bank!BankDamage
<1> DEFINE k == SketchOf(stored)
<1>1. /\ ~call.busy /\ objs' = objs /\ call' = call /\ ret' = Silent
      /\ IsHLLObject(stored)
  BY DEF StorageDamage, Ready
<1>2. ObjectOK(stored) /\ CacheRight(stored)
  BY <1>1, NullFields DEF IInv, StoredOK, IsHLLObject
<1>3. /\ k.st \in {"live", "broken"}
      /\ Readable(stored) => k = Bank!Live(RegsOf(stored))
      /\ ~Readable(stored) => k = Bank!Broken(stored.card)
  BY <1>1, <1>2, SketchCases, SketchParts
<1>4. BankOf' = BankOf
  BY <1>1, SameSketches
<1>5. \/ k' = Bank!Refused
      \/ k.st = "live" /\ k' \in {Bank!Broken(Estimate(k.regs)), Bank!Broken(Bank!Nothing)}
      \/ k.st = "broken" /\ k' = k
  <2>1. CASE stored' = Junk
    BY <2>1, JunkSketch
  <2>2. CASE /\ ObjectOK(stored') /\ stored' # Null /\ ~Readable(stored')
             /\ stored'.card = stored.card
    <3>1. k' = Bank!Broken(stored.card)
      BY <2>2, SketchCases
    <3>2. CASE Readable(stored)
      <4>1. stored.card = Bank!Nothing \/ stored.card = Estimate(RegsOf(stored))
        BY <1>2, <3>2, SameOperators DEF CacheRight
      <4> QED
        BY <1>3, <3>1, <3>2, <4>1, SketchParts
    <3>3. CASE ~Readable(stored)
      BY <1>3, <3>1, <3>3, SketchParts
    <3> QED
      BY <3>2, <3>3
  <2> QED
    BY <2>1, <2>2, DamagedString
<1> QED
  BY <1>1, <1>3, <1>4, <1>5, SameOperators DEF Bank!BankDamage, BankOf

-----------------------------------------------------------------------------
(* Initial states map to initial states and steps to steps or stutters.    *)

LEMMA InitMaps == Init => Bank!BankInit /\ BrokenStale
<1> SUFFICES ASSUME Init PROVE Bank!BankInit /\ BrokenStale
  OBVIOUS
<1>1. /\ objs = [h \in Handle |-> Null] /\ stored = Null
      /\ call = Idle /\ ret = Silent
  BY DEF Init
<1>2. SketchOf(Null) = Bank!Absent
  BY NullGood, SketchCases DEF Good
<1>3. BankOf = [h \in Handle |-> Bank!Absent]
  <2>1. \A h \in Handle : SketchOf(objs[h]) = Bank!Absent
    BY <1>1, <1>2
  <2> QED
    BY <2>1 DEF BankOf
<1>4. BrokenStale
  BY <1>1, CallFields DEF BrokenStale
<1>5. SketchOf(stored) = Bank!Absent
  BY <1>1, <1>2
<1> QED
  BY <1>1, <1>3, <1>4, <1>5, SameOperators DEF Bank!BankInit, BankOf

\* No cache is stale between calls.
LEMMA QuietStale == ASSUME ~call.busy, call' = call PROVE BrokenStale'
  BY DEF BrokenStale

LEMMA QuietCalls ==
  ASSUME NEW h \in Handle,
         \/ Create(h) \/ Free(h) \/ PfCount(h) \/ Promote(h) \/ Dump(h) \/ Load(h)
         \/ \E e \in Elements : PfAdd(h, e)
         \/ \E hs \in ArgLists : PfMerge(h, hs) \/ PfCountMerged(hs)
         \/ StorageDamage
  PROVE  BrokenStale'
<1>1. ~call.busy
  BY DEF Create, Free, PfCount, Promote, Dump, Load, PfAdd, PfMerge, PfCountMerged,
         StorageDamage, Ready
<1>2. call' = call
  BY DEF Create, Free, PfCount, CountOne, Promote, Dump, Load, PfAdd, PfMerge,
         PfCountMerged, StorageDamage
<1> QED
  BY <1>1, <1>2, QuietStale

LEMMA NextMaps == IInv /\ BrokenStale /\ Next => Bank!BankNext /\ BrokenStale'
<1> SUFFICES ASSUME IInv, BrokenStale, Next PROVE Bank!BankNext /\ BrokenStale'
  OBVIOUS
<1> DEFINE Goal == Bank!BankNext /\ BrokenStale'
<1>1. ASSUME NEW h \in Handle, Create(h) PROVE Goal
  BY <1>1, CreateMaps, QuietCalls DEF Bank!BankNext
<1>2. ASSUME NEW h \in Handle, Free(h) PROVE Goal
  BY <1>2, FreeMaps, QuietCalls DEF Bank!BankNext
<1>3. ASSUME NEW h \in Handle, PfCount(h) PROVE Goal
  <2>1. Bank!BankCount("count", h)
    BY <1>3, CountOneMaps DEF PfCount
  <2> QED
    BY <1>3, <2>1, QuietCalls DEF Bank!BankNext
<1>4. ASSUME NEW h \in Handle, Promote(h) PROVE Goal
  BY <1>4, PromoteMaps, QuietCalls DEF Bank!BankNext
<1>5. ASSUME NEW h \in Handle, Dump(h) PROVE Goal
  BY <1>5, DumpMaps, QuietCalls DEF Bank!BankNext
<1>6. ASSUME NEW h \in Handle, Load(h) PROVE Goal
  BY <1>6, LoadMaps, QuietCalls DEF Bank!BankNext
<1>7. ASSUME NEW h \in Handle, NEW e \in Elements, PfAdd(h, e) PROVE Goal
  BY <1>7, PfAddMaps, QuietCalls DEF Bank!BankNext
<1>8. ASSUME NEW h \in Handle, NEW n \in 0 .. MaxBatch, AddManyBegin(h, n)
      PROVE Goal
  BY <1>8, AddManyBeginMaps DEF Bank!BankNext
<1>9. ASSUME NEW h \in Handle, NEW hs \in ArgLists, PfMerge(h, hs) PROVE Goal
  BY <1>9, PfMergeMaps, QuietCalls, SameOperators DEF Bank!BankNext
<1>10. ASSUME NEW hs \in ArgLists, PfCountMerged(hs) PROVE Goal
  <2>1. Bank!BankNext
    BY <1>10, PfCountMergedMaps, SameOperators DEF Bank!BankNext
  <2>2. ~call.busy /\ call' = call
    BY <1>10 DEF PfCountMerged, CountOne, Ready
  <2> QED
    BY <2>1, <2>2, QuietStale
<1>11. ASSUME NEW e \in Elements, AddManyStep(e) PROVE Goal
  BY <1>11, AddManyStepMaps DEF Bank!BankNext
<1>12. CASE AddManyEnd
  BY <1>12, AddManyEndMaps DEF Bank!BankNext
<1>13. CASE StorageDamage
  <2>1. ~call.busy /\ call' = call
    BY <1>13 DEF StorageDamage, Ready
  <2> QED
    BY <1>13, <2>1, StorageDamageMaps, QuietStale DEF Bank!BankNext
<1> QED
  BY <1>1, <1>2, <1>3, <1>4, <1>5, <1>6, <1>7, <1>8, <1>9, <1>10, <1>11,
     <1>12, <1>13 DEF Next

LEMMA StutterMaps ==
  UNCHANGED vars => UNCHANGED Bank!bankVars /\ (BrokenStale => BrokenStale')
<1> SUFFICES ASSUME UNCHANGED vars
             PROVE  UNCHANGED Bank!bankVars /\ (BrokenStale => BrokenStale')
  OBVIOUS
<1>1. objs' = objs /\ stored' = stored /\ call' = call /\ ret' = ret
  BY DEF vars
<1>2. BankOf' = BankOf /\ SketchOf(stored)' = SketchOf(stored)
  BY <1>1, SameSketches
<1>3. UNCHANGED Bank!bankVars
  BY <1>1, <1>2 DEF Bank!bankVars, BankOf
<1> QED
  BY <1>1, <1>3 DEF BrokenStale

\* Every behaviour of the objects, with their encodings, promotions, caches and
\* damaged bytes, is a behaviour of the bank of sketches.
THEOREM ObjectsAreABank == Spec => ImplementsBank
<1>1. Init => Bank!BankInit /\ BrokenStale
  BY InitMaps
<1>2. IInv /\ BrokenStale /\ [Next]_vars
        => [Bank!BankNext]_(Bank!bankVars) /\ BrokenStale'
  BY NextMaps, StutterMaps
<1> QED
  BY <1>1, <1>2, InitInv, NextInv, PTL DEF Spec, ImplementsBank, Bank!BankSpec
=============================================================================
