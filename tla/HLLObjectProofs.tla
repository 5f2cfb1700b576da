--------------------------- MODULE HLLObjectProofs ---------------------------
(* Theorems about HLLObject, for any number of registers, handles and        *)
(* elements and any limits of the sparse representation.  About its states:  *)
(* the type invariant, the coherence of the cached cardinality, the absence  *)
(* of aborts, and of sparse strings a length that is true and within the     *)
(* limit and a stream that is canonical.  About its steps: registers only    *)
(* grow, a failure changes nothing, an answer of pfAdd tells whether a       *)
(* register changed, and a stream that was cut short stays so.               *)
EXTENDS HLLObject, FiniteSetTheorems, WellFoundedInduction, TLAPS

-----------------------------------------------------------------------------
(* Opcode streams: splitting an opcode and merging neighbours keep a stream  *)
(* decodable and what it covers, and change the registers it stands for      *)
(* exactly as hllSparseAdd means to.                                         *)

LEMMA RunAtCovers ==
  ASSUME NEW S, NEW i, Reaches(S, i)
  PROVE  RunAt(S, i) \in S /\ Covers(RunAt(S, i), i)
  BY DEF Reaches, RunAt

\* In a decodable stream the opcode that covers a register is the only one.
LEMMA RunAtOnly ==
  ASSUME NEW S, StreamOK(S), NEW r \in S, NEW i \in Int, Covers(r, i)
  PROVE  Reaches(S, i) /\ RunAt(S, i) = r
<1>1. Reaches(S, i)
  BY DEF Reaches
<1> DEFINE q == RunAt(S, i)
<1>2. q \in S /\ Covers(q, i)
  BY <1>1, RunAtCovers
<1>3. r.first \in Int /\ r.len \in Int /\ q.first \in Int /\ q.len \in Int
  BY <1>2, SparseAssumption DEF StreamOK, RunOK, Index
<1>4. r = q \/ End(r) <= q.first \/ End(q) <= r.first
  BY <1>2 DEF StreamOK
<1>5. r = q
  BY <1>2, <1>3, <1>4 DEF Covers, End
<1> QED
  BY <1>1, <1>5

LEMMA ValuesOf ==
  ASSUME NEW S, StreamOK(S), NEW i \in Index
  PROVE  /\ \A r \in S : Covers(r, i) => Values(S)[i] = r.val
         /\ ~Reaches(S, i) => Values(S)[i] = 0
<1>1. i \in Int
  BY SparseAssumption DEF Index
<1>2. ASSUME NEW r \in S, Covers(r, i) PROVE Values(S)[i] = r.val
  BY <1>1, <1>2, RunAtOnly DEF Values
<1> QED
  BY <1>2 DEF Values

\* Replacing some opcodes of a stream by others over the same registers.
LEMMA Replace ==
  ASSUME NEW S, StreamOK(S), NEW Old \in SUBSET S, NEW New,
         \A r \in New : RunOK(r),
         \A r, s \in New : r = s \/ End(r) <= s.first \/ End(s) <= r.first,
         \A i \in Int : Reaches(New, i) <=> Reaches(Old, i)
  PROVE  LET T == (S \ Old) \cup New
         IN  /\ StreamOK(T)
             /\ \A i \in Int : Reaches(T, i) <=> Reaches(S, i)
<1> DEFINE T == (S \ Old) \cup New
<1>1. \A r \in T : RunOK(r)
  BY DEF StreamOK
<1>2. \A i \in Int : Reaches(T, i) <=> Reaches(S, i)
  BY DEF Reaches
<1>3. ASSUME NEW r \in New, NEW s \in S \ Old
      PROVE  End(r) <= s.first \/ End(s) <= r.first
  <2>1. /\ r.first \in Int /\ r.len \in Int /\ r.len > 0
        /\ s.first \in Int /\ s.len \in Int /\ s.len > 0
    BY <1>1, SparseAssumption DEF RunOK, Index
  <2> DEFINE i == IF r.first < s.first THEN s.first ELSE r.first
  <2>2. SUFFICES ASSUME ~(End(r) <= s.first \/ End(s) <= r.first) PROVE FALSE
    OBVIOUS
  <2>3. i \in Int /\ Covers(r, i) /\ Covers(s, i)
    BY <2>1, <2>2 DEF Covers, End
  <2>4. PICK q \in Old : Covers(q, i)
    BY <2>3 DEF Reaches
  <2>5. RunAt(S, i) = q /\ RunAt(S, i) = s
    BY <2>3, <2>4, RunAtOnly
  <2> QED
    BY <2>4, <2>5
<1>4. \A r, s \in T : r = s \/ End(r) <= s.first \/ End(s) <= r.first
  <2> SUFFICES ASSUME NEW r \in T, NEW s \in T
               PROVE  r = s \/ End(r) <= s.first \/ End(s) <= r.first
    OBVIOUS
  <2>1. CASE r \in New /\ s \in New
    BY <2>1
  <2>2. CASE r \in S \ Old /\ s \in S \ Old
    BY <2>2 DEF StreamOK
  <2>3. CASE r \in New /\ s \in S \ Old
    BY <2>3, <1>3
  <2>4. CASE r \in S \ Old /\ s \in New
    BY <2>4, <1>3
  <2> QED
    BY <2>1, <2>2, <2>3, <2>4
<1>5. ASSUME NEW r \in T, NEW i \in 0 .. r.first - 1 PROVE Reaches(T, i)
  <2>1. r.first \in Int /\ r.len \in Int /\ r.len > 0
    BY <1>1, SparseAssumption DEF RunOK, Index
  <2>2. i \in Int /\ 0 <= i /\ i < r.first
    BY <2>1
  <2>3. Covers(r, r.first) /\ Reaches(T, r.first)
    BY <2>1 DEF Covers, End, Reaches
  <2>4. PICK q \in S : Covers(q, r.first)
    BY <1>2, <2>1, <2>3 DEF Reaches
  <2>5. q.first \in Int /\ q.len \in Int
    BY SparseAssumption DEF StreamOK, RunOK, Index
  <2>6. CASE i < q.first
    <3>1. i \in 0 .. q.first - 1
      BY <2>2, <2>5, <2>6
    <3>2. Reaches(S, i)
      BY <3>1 DEF StreamOK
    <3> QED
      BY <1>2, <2>2, <3>2
  <2>7. CASE q.first <= i
    <3>1. Covers(q, i)
      BY <2>1, <2>2, <2>4, <2>5, <2>7 DEF Covers, End
    <3> QED
      BY <1>2, <2>2, <3>1 DEF Reaches
  <2> QED
    BY <2>2, <2>5, <2>6, <2>7
<1>6. StreamOK(T)
  BY <1>1, <1>4, <1>5 DEF StreamOK
<1> QED
  BY <1>2, <1>6

-----------------------------------------------------------------------------
(* Splitting.                                                              *)

\* A side of an opcode is at most one opcode, over exactly its registers.
LEMMA SideRuns ==
  ASSUME NEW r, RunOK(r), NEW first \in Int, NEW len \in Int,
         r.first <= first, 0 <= len, first + len <= End(r)
  PROVE  \/ len = 0 /\ Side(r, first, len) = {}
         \/ \E s : /\ len > 0 /\ Side(r, first, len) = {s}
                  /\ RunOK(s) /\ s.first = first /\ s.len = len /\ s.val = r.val
<1>1. /\ r.first \in Int /\ r.len \in Int /\ 0 <= r.first /\ End(r) <= Registers
      /\ End(r) = r.first + r.len
  BY SparseAssumption DEF RunOK, Index, End
<1>2. CASE len = 0
  BY <1>2, SparseAssumption DEF Side
<1>3. CASE len > 0 /\ r.op = "val"
  <2>1. Side(r, first, len) = {Val(first, len, r.val)}
    BY <1>3, SparseAssumption DEF Side
  <2>2. RunOK(Val(first, len, r.val))
    BY <1>1, <1>3, SparseAssumption DEF RunOK, Val, End, Index
  <2> QED
    BY <1>3, <2>1, <2>2 DEF Val
<1>4. CASE len > 0 /\ r.op # "val" /\ len > SparseZeroMaxLen
  <2>1. Side(r, first, len) = {XZero(first, len)}
    BY <1>4, SparseAssumption DEF Side
  <2>2. RunOK(XZero(first, len))
    BY <1>1, <1>4, SparseAssumption DEF RunOK, XZero, End, Index
  <2>3. r.val = 0
    BY <1>4 DEF RunOK
  <2> QED
    BY <1>4, <2>1, <2>2, <2>3 DEF XZero
<1>5. CASE len > 0 /\ r.op # "val" /\ len <= SparseZeroMaxLen
  <2>1. Side(r, first, len) = {Zero(first, len)}
    BY <1>5, SparseAssumption DEF Side
  <2>2. RunOK(Zero(first, len))
    BY <1>1, <1>5, SparseAssumption DEF RunOK, Zero, End, Index
  <2>3. r.val = 0
    BY <1>5 DEF RunOK
  <2> QED
    BY <1>5, <2>1, <2>2, <2>3 DEF Zero
<1> QED
  BY <1>2, <1>3, <1>4, <1>5, SparseAssumption

LEMMA SideFacts ==
  ASSUME NEW r, RunOK(r), NEW first \in Int, NEW len \in Int,
         r.first <= first, 0 <= len, first + len <= End(r)
  PROVE  /\ \A s \in Side(r, first, len) :
              RunOK(s) /\ s.first = first /\ s.len = len /\ s.val = r.val
         /\ \A s, t \in Side(r, first, len) : s = t
         /\ len # 0 => \E s : s \in Side(r, first, len)
         /\ len = 0 => Side(r, first, len) = {}
  BY SideRuns

\* The pieces of a split opcode cover what it covered, once, with the new
\* value at the register and the old one elsewhere.
LEMMA SplitFacts ==
  ASSUME NEW r, RunOK(r), NEW idx \in Int, Covers(r, idx),
         NEW count \in 1 .. SparseValMaxValue
  PROVE  LET N == Split(r, idx, count)
         IN  /\ \A s \in N : RunOK(s)
             /\ \A s, t \in N : s = t \/ End(s) <= t.first \/ End(t) <= s.first
             /\ \A i \in Int : Reaches(N, i) <=> Covers(r, i)
             /\ \A s \in N, i \in Int :
                  Covers(s, i) => s.val = IF i = idx THEN count ELSE r.val
<1> DEFINE L == Side(r, r.first, idx - r.first)
           M == Val(idx, 1, count)
           R == Side(r, idx + 1, End(r) - 1 - idx)
           N == Split(r, idx, count)
<1>1. /\ r.first \in Int /\ r.len \in Int /\ 0 <= r.first /\ End(r) <= Registers
      /\ End(r) = r.first + r.len /\ r.first <= idx /\ idx < End(r)
  BY SparseAssumption DEF RunOK, Index, End, Covers
<1>2. /\ \A s \in L : RunOK(s) /\ s.first = r.first /\ s.len = idx - r.first
                      /\ s.val = r.val
      /\ \A s, t \in L : s = t
      /\ idx - r.first # 0 => \E s : s \in L
  BY <1>1, SideFacts
<1>3. /\ \A s \in R : RunOK(s) /\ s.first = idx + 1 /\ s.len = End(r) - 1 - idx
                      /\ s.val = r.val
      /\ \A s, t \in R : s = t
      /\ End(r) - 1 - idx # 0 => \E s : s \in R
  <2>1. /\ idx + 1 \in Int /\ End(r) - 1 - idx \in Int /\ r.first <= idx + 1
        /\ 0 <= End(r) - 1 - idx /\ idx + 1 + (End(r) - 1 - idx) <= End(r)
    BY <1>1
  <2> QED
    BY <2>1, SideFacts
<1>4. M.first = idx /\ M.len = 1 /\ M.val = count /\ RunOK(M)
  BY <1>1, SparseAssumption DEF Val, RunOK, End, Index
<1>5. N = L \cup {M} \cup R
  BY DEF Split
<1> HIDE DEF L, M, R, N
<1>6. \A s \in N : RunOK(s)
  BY <1>2, <1>3, <1>4, <1>5
<1>7. \A s, t \in N : s = t \/ End(s) <= t.first \/ End(t) <= s.first
  BY <1>1, <1>2, <1>3, <1>4, <1>5 DEF End
<1>8. ASSUME NEW i \in Int PROVE Reaches(N, i) <=> Covers(r, i)
  <2>1. ASSUME NEW s \in N, Covers(s, i) PROVE Covers(r, i)
    BY <1>1, <1>2, <1>3, <1>4, <1>5, <2>1 DEF Covers, End
  <2>2. ASSUME Covers(r, i) PROVE Reaches(N, i)
    <3>1. CASE i < idx
      <4>1. PICK s : s \in L
        BY <1>1, <1>2, <2>2, <3>1 DEF Covers
      <4>2. Covers(s, i)
        BY <1>1, <1>2, <2>2, <3>1, <4>1 DEF Covers, End
      <4> QED
        BY <1>5, <4>1, <4>2 DEF Reaches
    <3>2. CASE i = idx
      <4>1. Covers(M, i)
        BY <1>4, <3>2 DEF Covers, End
      <4> QED
        BY <1>5, <4>1 DEF Reaches
    <3>3. CASE i > idx
      <4>1. PICK s : s \in R
        BY <1>1, <1>3, <2>2, <3>3 DEF Covers
      <4>2. Covers(s, i)
        BY <1>1, <1>3, <2>2, <3>3, <4>1 DEF Covers, End
      <4> QED
        BY <1>5, <4>1, <4>2 DEF Reaches
    <3> QED
      BY <3>1, <3>2, <3>3
  <2> QED
    BY <2>1, <2>2 DEF Reaches
<1>9. ASSUME NEW s \in N, NEW i \in Int, Covers(s, i)
      PROVE  s.val = IF i = idx THEN count ELSE r.val
  BY <1>1, <1>2, <1>3, <1>4, <1>5, <1>9 DEF Covers, End
<1> QED
  BY <1>6, <1>7, <1>8, <1>9 DEF N

\* Case D: replacing the opcode that covers a register by its pieces raises
\* that register and changes nothing else of what the stream says.
LEMMA SplitStream ==
  ASSUME NEW S, StreamOK(S), NEW idx \in Index, Reaches(S, idx),
         NEW count \in 1 .. SparseValMaxValue
  PROVE  LET T == (S \ {RunAt(S, idx)}) \cup Split(RunAt(S, idx), idx, count)
         IN  /\ StreamOK(T)
             /\ \A i \in Int : Reaches(T, i) <=> Reaches(S, i)
             /\ Values(T) = [Values(S) EXCEPT ![idx] = count]
<1> DEFINE r == RunAt(S, idx)
           N == Split(r, idx, count)
           T == (S \ {r}) \cup N
<1>1. r \in S /\ Covers(r, idx) /\ RunOK(r) /\ idx \in Int
  BY RunAtCovers, SparseAssumption DEF StreamOK, Index
<1>2. /\ \A s \in N : RunOK(s)
      /\ \A s, t \in N : s = t \/ End(s) <= t.first \/ End(t) <= s.first
      /\ \A i \in Int : Reaches(N, i) <=> Covers(r, i)
      /\ \A s \in N, i \in Int :
           Covers(s, i) => s.val = IF i = idx THEN count ELSE r.val
  BY <1>1, SplitFacts
<1> HIDE DEF r, N
<1>3. \A i \in Int : Reaches(N, i) <=> Reaches({r}, i)
  BY <1>2 DEF Reaches
<1>4. /\ StreamOK(T)
      /\ \A i \in Int : Reaches(T, i) <=> Reaches(S, i)
  <2> DEFINE Old == {r}
  <2>1. Old \in SUBSET S /\ T = (S \ Old) \cup N
    BY <1>1
  <2>2. \A i \in Int : Reaches(N, i) <=> Reaches(Old, i)
    BY <1>3
  <2>3. \A s \in N : RunOK(s)
    BY <1>2
  <2>4. \A s, t \in N : s = t \/ End(s) <= t.first \/ End(t) <= s.first
    BY <1>2
  <2> HIDE DEF Old, T
  <2>5. /\ StreamOK((S \ Old) \cup N)
        /\ \A i \in Int : Reaches((S \ Old) \cup N, i) <=> Reaches(S, i)
    BY <2>1, <2>2, <2>3, <2>4, Replace
  <2> QED
    BY <2>1, <2>5
<1>5. ASSUME NEW i \in Index
      PROVE  Values(T)[i] = IF i = idx THEN count ELSE Values(S)[i]
  <2>1. i \in Int
    BY SparseAssumption DEF Index
  <2>2. CASE Covers(r, i)
    <3>1. PICK s \in N : Covers(s, i)
      BY <1>2, <2>1, <2>2 DEF Reaches
    <3>2. Values(T)[i] = s.val
      BY <1>4, <3>1, ValuesOf
    <3>3. Values(S)[i] = r.val
      BY <1>1, <2>2, ValuesOf
    <3> QED
      BY <1>2, <2>1, <3>1, <3>2, <3>3
  <2>3. CASE ~Covers(r, i) /\ Reaches(S, i)
    <3>1. PICK s \in S : Covers(s, i)
      BY <2>3 DEF Reaches
    <3>2. s \in T /\ i # idx
      BY <1>1, <2>3, <3>1
    <3> QED
      BY <1>4, <3>1, <3>2, ValuesOf
  <2>4. CASE ~Reaches(S, i)
    <3>1. i # idx
      BY <2>4
    <3> QED
      BY <1>4, <2>1, <2>4, <3>1, ValuesOf
  <2> QED
    BY <2>2, <2>3, <2>4
<1>6. Values(T) = [Values(S) EXCEPT ![idx] = count]
  BY <1>5 DEF Values
<1> QED
  BY <1>4, <1>6 DEF r, N

-----------------------------------------------------------------------------
(* Merging.                                                                *)

\* Two mergeable neighbours replaced by one opcode say the same.
LEMMA MergedStream ==
  ASSUME NEW S, StreamOK(S), NEW p \in S, NEW q \in S, Mergeable(p, q)
  PROVE  LET T == (S \ {p, q}) \cup {Val(p.first, p.len + q.len, p.val)}
         IN  /\ StreamOK(T)
             /\ \A i \in Int : Reaches(T, i) <=> Reaches(S, i)
             /\ Values(T) = Values(S)
<1> DEFINE m == Val(p.first, p.len + q.len, p.val)
           T == (S \ {p, q}) \cup {m}
<1>1. /\ RunOK(p) /\ RunOK(q) /\ p.first \in Int /\ p.len \in Int /\ p.len > 0
      /\ q.first \in Int /\ q.len \in Int /\ q.len > 0
      /\ End(p) = p.first + p.len /\ End(q) = q.first + q.len
      /\ q.first = End(p) /\ q.val = p.val /\ p.op = "val"
      /\ p.len + q.len <= SparseValMaxLen
  BY SparseAssumption DEF StreamOK, RunOK, Index, Mergeable, End
<1>2. /\ m.first = p.first /\ m.len = p.len + q.len /\ m.val = p.val
      /\ End(m) = End(q)
  BY <1>1 DEF Val, End
<1>3. RunOK(m)
  BY <1>1, SparseAssumption DEF RunOK, Val, End, Index
<1> HIDE DEF m
<1>4. \A i \in Int : Covers(m, i) <=> Covers(p, i) \/ Covers(q, i)
  BY <1>1, <1>2 DEF Covers
<1>5. \A i \in Int : Reaches({m}, i) <=> Reaches({p, q}, i)
  BY <1>4 DEF Reaches
<1>6. /\ StreamOK(T)
      /\ \A i \in Int : Reaches(T, i) <=> Reaches(S, i)
  BY <1>3, <1>5, Replace
<1>7. ASSUME NEW i \in Index PROVE Values(T)[i] = Values(S)[i]
  <2>1. i \in Int
    BY SparseAssumption DEF Index
  <2>2. CASE Covers(p, i) \/ Covers(q, i)
    <3>1. Values(S)[i] = p.val
      BY <1>1, <2>2, ValuesOf
    <3>2. m \in T /\ Covers(m, i)
      BY <1>4, <2>1, <2>2
    <3> QED
      BY <1>2, <1>6, <3>1, <3>2, ValuesOf
  <2>3. CASE ~Covers(p, i) /\ ~Covers(q, i) /\ Reaches(S, i)
    <3>1. PICK s \in S : Covers(s, i)
      BY <2>3 DEF Reaches
    <3>2. s \in T
      BY <2>3, <3>1
    <3> QED
      BY <1>6, <3>1, <3>2, ValuesOf
  <2>4. CASE ~Reaches(S, i)
    BY <1>6, <2>1, <2>4, ValuesOf
  <2> QED
    BY <2>2, <2>3, <2>4
<1>8. Values(T) = Values(S)
  BY <1>7 DEF Values
<1> QED
  BY <1>6, <1>8 DEF m

\* What a scan state must be, and what a step of the scan must leave alone.
ScanOK(st) == st = ScanState(st.runs, st.size, st.at) /\ StreamOK(st.runs)
                /\ st.size \in Int

SaysTheSame(S, T) ==
    /\ \A i \in Int : Reaches(T, i) <=> Reaches(S, i)
    /\ Values(T) = Values(S)

LEMMA MergeStepStream ==
  ASSUME NEW st, ScanOK(st)
  PROVE  /\ ScanOK(MergeStep(st))
         /\ SaysTheSame(st.runs, MergeStep(st).runs)
         /\ MergeStep(st).size <= st.size
<1> DEFINE p == RunAt(st.runs, st.at)
           q == After(st.runs, p)
<1>1. Reaches(st.runs, st.at) => p \in st.runs
  BY RunAtCovers
<1>2. Reaches(st.runs, End(p)) => q \in st.runs
  BY RunAtCovers DEF After
<1>3. Reaches(st.runs, st.at) => MergeStep(st) = MergeAt(st, p)
  BY DEF MergeStep
<1>4. CASE ~Reaches(st.runs, st.at)
  <2>1. MergeStep(st) = st
    BY <1>4 DEF MergeStep
  <2> QED
    BY <2>1 DEF ScanOK, SaysTheSame
<1>5. CASE Reaches(st.runs, st.at) /\ Joins(st.runs, p)
  <2> DEFINE T == Joined(st.runs, p)
  <2>2. p \in st.runs /\ q \in st.runs /\ Mergeable(p, q)
    BY <1>1, <1>2, <1>5 DEF Joins
  <2>3. T = (st.runs \ {p, q}) \cup {Val(p.first, p.len + q.len, p.val)}
    BY DEF Joined
  <2> HIDE DEF p, q
  <2>1. MergeStep(st) = ScanState(T, st.size - 1, st.at)
    BY <1>3, <1>5 DEF MergeAt
  <2> HIDE DEF T
  <2>4. StreamOK(T) /\ SaysTheSame(st.runs, T)
    BY <2>2, <2>3, MergedStream DEF ScanOK, SaysTheSame
  <2>5. /\ MergeStep(st).runs = T /\ MergeStep(st).size = st.size - 1
        /\ MergeStep(st).at = st.at
    BY <2>1 DEF ScanState
  <2>6. st.size \in Int
    BY DEF ScanOK
  <2> QED
    BY <2>1, <2>4, <2>5, <2>6 DEF ScanOK
<1>6. CASE Reaches(st.runs, st.at) /\ ~Joins(st.runs, p)
  <2> HIDE DEF p, q
  <2>1. MergeStep(st) = ScanState(st.runs, st.size, End(p))
    BY <1>3, <1>6 DEF MergeAt
  <2>2. /\ MergeStep(st).runs = st.runs /\ MergeStep(st).size = st.size
        /\ MergeStep(st).at = End(p)
    BY <2>1 DEF ScanState
  <2> QED
    BY <2>1, <2>2 DEF ScanOK, SaysTheSame
<1> QED
  BY <1>4, <1>5, <1>6

\* The whole scan leaves what the stream says alone, and only shortens it.
LEMMA MergeScanStream ==
  ASSUME NEW S, StreamOK(S), NEW size \in Int, NEW at
  PROVE  /\ ScanOK(MergeScan(S, size, at))
         /\ SaysTheSame(S, MergeScan(S, size, at).runs)
         /\ MergeScan(S, size, at).size <= size
<1> DEFINE s0 == ScanState(S, size, at)
           s1 == MergeStep(s0)
           s2 == MergeStep(s1)
           s3 == MergeStep(s2)
           s4 == MergeStep(s3)
           s5 == MergeStep(s4)
<1>1. ScanOK(s0) /\ s0.runs = S /\ s0.size = size
  BY DEF ScanOK, ScanState
<1>2. s5 = MergeScan(S, size, at)
  BY DEF MergeScan
<1> HIDE DEF s0
<1>3. ScanOK(s1) /\ SaysTheSame(s0.runs, s1.runs) /\ s1.size <= s0.size
  BY <1>1, MergeStepStream
<1> HIDE DEF s1
<1>4. ScanOK(s2) /\ SaysTheSame(s1.runs, s2.runs) /\ s2.size <= s1.size
  BY <1>3, MergeStepStream
<1> HIDE DEF s2
<1>5. ScanOK(s3) /\ SaysTheSame(s2.runs, s3.runs) /\ s3.size <= s2.size
  BY <1>4, MergeStepStream
<1> HIDE DEF s3
<1>6. ScanOK(s4) /\ SaysTheSame(s3.runs, s4.runs) /\ s4.size <= s3.size
  BY <1>5, MergeStepStream
<1> HIDE DEF s4
<1>7. ScanOK(s5) /\ SaysTheSame(s4.runs, s5.runs) /\ s5.size <= s4.size
  BY <1>6, MergeStepStream
<1> HIDE DEF s5
<1>8. SaysTheSame(S, s5.runs)
  BY <1>1, <1>3, <1>4, <1>5, <1>6, <1>7 DEF SaysTheSame
<1>9. s5.size <= size
  BY <1>1, <1>3, <1>4, <1>5, <1>6, <1>7 DEF ScanOK
<1> QED
  BY <1>2, <1>7, <1>8, <1>9

-----------------------------------------------------------------------------
(* The bytes of a stream.                                                  *)

LEMMA BytesOfNone == StreamBytes({}) = 0 /\ IsFiniteSet({})
<1>1. {r \in {} : r.op = "xzero"} = {}
  OBVIOUS
<1> QED
  BY <1>1, FS_EmptySet DEF StreamBytes

LEMMA BytesTyped ==
  ASSUME NEW S, IsFiniteSet(S)
  PROVE  StreamBytes(S) \in Nat
<1> DEFINE X == {r \in S : r.op = "xzero"}
<1>1. IsFiniteSet(X)
  BY FS_Subset
<1>2. Cardinality(S) \in Nat /\ Cardinality(X) \in Nat
  BY <1>1, FS_CardinalityType
<1> QED
  BY <1>2 DEF StreamBytes

LEMMA BytesOfOne ==
  ASSUME NEW r
  PROVE  StreamBytes({r}) = OpLen(r) /\ IsFiniteSet({r})
<1>1. Cardinality({r}) = 1 /\ IsFiniteSet({r})
  BY FS_Singleton
<1>2. CASE r.op = "xzero"
  <2>1. {q \in {r} : q.op = "xzero"} = {r}
    BY <1>2
  <2> QED
    BY <1>1, <1>2, <2>1 DEF StreamBytes, OpLen
<1>3. CASE r.op # "xzero"
  <2>1. {q \in {r} : q.op = "xzero"} = {}
    BY <1>3
  <2>2. Cardinality({}) = 0
    BY FS_EmptySet
  <2> QED
    BY <1>1, <1>3, <2>1, <2>2 DEF StreamBytes, OpLen
<1> QED
  BY <1>2, <1>3

LEMMA BytesOfBoth ==
  ASSUME NEW S, IsFiniteSet(S), NEW T, IsFiniteSet(T), S \cap T = {}
  PROVE  /\ IsFiniteSet(S \cup T)
         /\ StreamBytes(S \cup T) = StreamBytes(S) + StreamBytes(T)
<1> DEFINE XS == {r \in S : r.op = "xzero"}
           XT == {r \in T : r.op = "xzero"}
           XU == {r \in S \cup T : r.op = "xzero"}
<1>1. IsFiniteSet(XS) /\ IsFiniteSet(XT)
  BY FS_Subset
<1>2. XU = XS \cup XT /\ XS \cap XT = {}
  OBVIOUS
<1>3. /\ IsFiniteSet(S \cup T)
      /\ Cardinality(S \cup T) = Cardinality(S) + Cardinality(T) - Cardinality({})
  BY FS_Union
<1>4. /\ StreamBytes(S) = Cardinality(S) + Cardinality(XS)
      /\ StreamBytes(T) = Cardinality(T) + Cardinality(XT)
      /\ StreamBytes(S \cup T) = Cardinality(S \cup T) + Cardinality(XU)
  BY DEF StreamBytes
<1> HIDE DEF XS, XT, XU
<1>5. Cardinality(XU) = Cardinality(XS) + Cardinality(XT) - Cardinality({})
  BY <1>1, <1>2, FS_Union
<1>6. /\ Cardinality({}) = 0 /\ Cardinality(S) \in Nat /\ Cardinality(T) \in Nat
      /\ Cardinality(XS) \in Nat /\ Cardinality(XT) \in Nat
  BY <1>1, FS_CardinalityType, FS_EmptySet
<1> QED
  BY <1>3, <1>4, <1>5, <1>6

\* Opcodes taken out of a stream take their bytes with them.
LEMMA BytesWithout ==
  ASSUME NEW S, IsFiniteSet(S), NEW Old \in SUBSET S
  PROVE  /\ IsFiniteSet(S \ Old) /\ IsFiniteSet(Old)
         /\ StreamBytes(S \ Old) = StreamBytes(S) - StreamBytes(Old)
<1>1. IsFiniteSet(S \ Old) /\ IsFiniteSet(Old)
  BY FS_Subset
<1>2. (S \ Old) \cup Old = S /\ (S \ Old) \cap Old = {}
  OBVIOUS
<1>3. StreamBytes(S) = StreamBytes(S \ Old) + StreamBytes(Old)
  BY <1>1, <1>2, BytesOfBoth
<1>4. StreamBytes(S \ Old) \in Nat /\ StreamBytes(Old) \in Nat
  BY <1>1, BytesTyped
<1> QED
  BY <1>1, <1>3, <1>4

\* deltalen is what a split adds to the bytes of the stream.
LEMMA SideBytesRight ==
  ASSUME NEW r, NEW first, NEW len \in Nat
  PROVE  /\ StreamBytes(Side(r, first, len)) = SideBytes(r, len)
         /\ IsFiniteSet(Side(r, first, len))
<1>1. CASE len = 0
  <2>1. Side(r, first, len) = {} /\ SideBytes(r, len) = 0
    BY <1>1, SparseAssumption DEF Side, SideBytes
  <2> QED
    BY <2>1, BytesOfNone
<1>2. CASE len > 0 /\ r.op = "val"
  <2>1. Side(r, first, len) = {Val(first, len, r.val)} /\ SideBytes(r, len) = 1
    BY <1>2, SparseAssumption DEF Side, SideBytes
  <2>2. OpLen(Val(first, len, r.val)) = 1
    BY DEF OpLen, Val
  <2> QED
    BY <2>1, <2>2, BytesOfOne
<1>3. CASE r.op # "val" /\ len > SparseZeroMaxLen
  <2>1. Side(r, first, len) = {XZero(first, len)} /\ SideBytes(r, len) = 2
    BY <1>3, SparseAssumption DEF Side, SideBytes
  <2>2. OpLen(XZero(first, len)) = 2
    BY DEF OpLen, XZero
  <2> QED
    BY <2>1, <2>2, BytesOfOne
<1>4. CASE r.op # "val" /\ len > 0 /\ ~(len > SparseZeroMaxLen)
  <2>1. Side(r, first, len) = {Zero(first, len)} /\ SideBytes(r, len) = 1
    BY <1>4, SparseAssumption DEF Side, SideBytes
  <2>2. OpLen(Zero(first, len)) = 1
    BY DEF OpLen, Zero
  <2> QED
    BY <2>1, <2>2, BytesOfOne
<1> QED
  BY <1>1, <1>2, <1>3, <1>4

LEMMA SplitBytes ==
  ASSUME NEW S, StreamOK(S), IsFiniteSet(S), NEW idx \in Index, Reaches(S, idx),
         NEW count \in 1 .. SparseValMaxValue
  PROVE  LET r == RunAt(S, idx)
             T == (S \ {r}) \cup Split(r, idx, count)
         IN  /\ IsFiniteSet(T)
             /\ StreamBytes(T) = StreamBytes(S) + DeltaLen(r, idx)
<1> DEFINE r == RunAt(S, idx)
           L == Side(r, r.first, idx - r.first)
           M == {Val(idx, 1, count)}
           R == Side(r, idx + 1, End(r) - 1 - idx)
           N == Split(r, idx, count)
<1>1. /\ r \in S /\ Covers(r, idx) /\ RunOK(r) /\ idx \in Int
      /\ r.first \in Int /\ r.len \in Int /\ End(r) = r.first + r.len
      /\ r.first <= idx /\ idx < End(r)
  <2>1. r \in S /\ Covers(r, idx) /\ RunOK(r) /\ idx \in Int
    BY RunAtCovers, SparseAssumption DEF StreamOK, Index
  <2> HIDE DEF r
  <2>2. r.first \in Int /\ r.len \in Int
    BY <2>1, SparseAssumption DEF RunOK, Index
  <2> QED
    BY <2>1, <2>2 DEF Covers, End
<1>2. N = (L \cup M) \cup R
  BY DEF Split
<1>3. /\ \A s \in N : RunOK(s)
      /\ \A i \in Int : Reaches(N, i) <=> Covers(r, i)
  BY <1>1, SplitFacts
<1> HIDE DEF r, N
<1>4. idx - r.first \in Nat /\ End(r) - 1 - idx \in Nat
  BY <1>1
<1>5. /\ \A s \in L : s.first = r.first /\ idx # r.first
      /\ \A s \in R : s.first = idx + 1
  <2>1. /\ r.first <= r.first /\ 0 <= idx - r.first
        /\ r.first + (idx - r.first) <= End(r)
        /\ r.first <= idx + 1 /\ 0 <= End(r) - 1 - idx
        /\ (idx + 1) + (End(r) - 1 - idx) <= End(r) /\ idx + 1 \in Int
        /\ idx - r.first \in Int /\ End(r) - 1 - idx \in Int
    BY <1>1
  <2>2. \A s \in L : s.first = r.first
    BY <1>1, <2>1, SideFacts
  <2>3. idx = r.first => L = {}
    <3>1. idx = r.first => idx - r.first = 0
      BY <1>1
    <3> QED
      BY <3>1, SparseAssumption DEF Side
  <2>4. \A s \in R : s.first = idx + 1
    BY <1>1, <2>1, SideFacts
  <2> QED
    BY <2>2, <2>3, <2>4
<1>6. \A s \in M : s.first = idx
  BY DEF Val
<1>7. /\ StreamBytes(L) = SideBytes(r, idx - r.first) /\ IsFiniteSet(L)
      /\ StreamBytes(R) = SideBytes(r, End(r) - 1 - idx) /\ IsFiniteSet(R)
  BY <1>4, SideBytesRight
<1>8. StreamBytes(M) = 1 /\ IsFiniteSet(M)
  BY BytesOfOne DEF OpLen, Val
<1> HIDE DEF L, M, R
<1>9. L \cap M = {} /\ (L \cup M) \cap R = {}
  BY <1>1, <1>5, <1>6
<1>10. IsFiniteSet(L \cup M) /\ StreamBytes(L \cup M) = StreamBytes(L) + StreamBytes(M)
  BY <1>7, <1>8, <1>9, BytesOfBoth
<1>11. /\ IsFiniteSet(N)
       /\ StreamBytes(N) = StreamBytes(L \cup M) + StreamBytes(R)
  BY <1>2, <1>7, <1>9, <1>10, BytesOfBoth
<1>12. (S \ {r}) \cap N = {}
  <2>1. ASSUME NEW s \in S, s \in N PROVE s = r
    <3>1. s.first \in Int /\ Covers(s, s.first)
      BY <2>1, SparseAssumption DEF StreamOK, RunOK, Covers, End, Index
    <3>2. Covers(r, s.first)
      BY <1>3, <2>1, <3>1 DEF Reaches
    <3>3. RunAt(S, s.first) = s
      BY <3>1, RunAtOnly
    <3>4. RunAt(S, s.first) = r
      BY <1>1, <3>1, <3>2, RunAtOnly
    <3> QED
      BY <3>3, <3>4
  <2> QED
    BY <2>1
<1>13. /\ IsFiniteSet(S \ {r})
       /\ StreamBytes(S \ {r}) = StreamBytes(S) - OpLen(r)
  BY <1>1, BytesWithout, BytesOfOne
<1>14. /\ IsFiniteSet((S \ {r}) \cup N)
       /\ StreamBytes((S \ {r}) \cup N) = StreamBytes(S \ {r}) + StreamBytes(N)
  BY <1>11, <1>12, <1>13, BytesOfBoth
<1>15. /\ DeltaLen(r, idx) = SideBytes(r, idx - r.first) + 1
                             + SideBytes(r, End(r) - 1 - idx) - OpLen(r)
       /\ SideBytes(r, idx - r.first) \in Int /\ SideBytes(r, End(r) - 1 - idx) \in Int
       /\ OpLen(r) \in Int
  BY DEF DeltaLen, SideBytes, OpLen
<1>16. StreamBytes(S) \in Int
  BY BytesTyped
<1>17. StreamBytes((S \ {r}) \cup N) = StreamBytes(S) + DeltaLen(r, idx)
  BY <1>7, <1>8, <1>10, <1>11, <1>13, <1>14, <1>15, <1>16
<1> QED
  BY <1>14, <1>17 DEF r, N

\* The length that the scan keeps is that of its stream, with "more" bytes
\* that are not opcodes.
Measured(st, more) ==
    IsFiniteSet(st.runs) /\ st.size = more + StreamBytes(st.runs)

LEMMA MergeStepBytes ==
  ASSUME NEW st, ScanOK(st), NEW more \in Int, Measured(st, more)
  PROVE  Measured(MergeStep(st), more)
<1> DEFINE p == RunAt(st.runs, st.at)
           q == After(st.runs, p)
<1>1. Reaches(st.runs, st.at) => p \in st.runs
  BY RunAtCovers
<1>2. Reaches(st.runs, End(p)) => q \in st.runs
  BY RunAtCovers DEF After
<1>3. Reaches(st.runs, st.at) => MergeStep(st) = MergeAt(st, p)
  BY DEF MergeStep
<1>4. CASE ~Reaches(st.runs, st.at)
  BY <1>4 DEF MergeStep
<1>5. CASE Reaches(st.runs, st.at) /\ ~Joins(st.runs, p)
  <2> HIDE DEF p
  <2>1. MergeStep(st) = ScanState(st.runs, st.size, End(p))
    BY <1>3, <1>5 DEF MergeAt
  <2> QED
    BY <2>1 DEF ScanState, Measured
<1>6. CASE Reaches(st.runs, st.at) /\ Joins(st.runs, p)
  <2> DEFINE m == Val(p.first, p.len + q.len, p.val)
             T == Joined(st.runs, p)
             Old == {p, q}
  <2>1. p \in st.runs /\ q \in st.runs /\ Mergeable(p, q)
    BY <1>1, <1>2, <1>6 DEF Joins
  <2>2. T = (st.runs \ Old) \cup {m}
    BY DEF Joined
  <2> HIDE DEF p, q
  <2>3. MergeStep(st) = ScanState(T, st.size - 1, st.at)
    BY <1>3, <1>6 DEF MergeAt
  <2>4. /\ RunOK(p) /\ RunOK(q) /\ p.first \in Int /\ p.len \in Int /\ p.len > 0
        /\ q.first = p.first + p.len /\ p.op = "val" /\ q.op = "val" /\ q.len \in Int
        /\ q.len > 0
    BY <2>1, SparseAssumption DEF ScanOK, StreamOK, RunOK, Index, Mergeable, End
  <2>5. p # q
    BY <2>4
  <2>6. /\ IsFiniteSet({p}) /\ StreamBytes({p}) = 1
        /\ IsFiniteSet({q}) /\ StreamBytes({q}) = 1
        /\ IsFiniteSet({m}) /\ StreamBytes({m}) = 1
    BY <2>4, BytesOfOne DEF OpLen, Val
  <2>7. StreamBytes(Old) = 2
    <3>1. Old = {p} \cup {q} /\ {p} \cap {q} = {}
      BY <2>5
    <3> HIDE DEF Old
    <3>2. StreamBytes(Old) = StreamBytes({p}) + StreamBytes({q})
      BY <2>6, <3>1, BytesOfBoth
    <3> QED
      BY <2>6, <3>2
  <2>8. (st.runs \ Old) \cap {m} = {}
    <3>1. m.first = p.first /\ Covers(p, p.first)
      BY <2>4 DEF Covers, End, Val
    <3>2. ASSUME m \in st.runs PROVE m = p
      <4>1. Covers(m, p.first)
        BY <2>4 DEF Covers, End, Val
      <4>2. StreamOK(st.runs)
        BY DEF ScanOK
      <4> HIDE DEF m
      <4>3. RunAt(st.runs, p.first) = p /\ RunAt(st.runs, p.first) = m
        BY <2>1, <2>4, <3>1, <3>2, <4>1, <4>2, RunAtOnly
      <4> QED
        BY <4>3
    <3> QED
      BY <3>2
  <2>9. Old \in SUBSET st.runs /\ IsFiniteSet(st.runs)
    BY <2>1 DEF Measured
  <2> HIDE DEF Old, m, T
  <2>10. /\ IsFiniteSet(st.runs \ Old)
         /\ StreamBytes(st.runs \ Old) = StreamBytes(st.runs) - StreamBytes(Old)
    BY <2>9, BytesWithout
  <2>11. /\ IsFiniteSet(T)
         /\ StreamBytes(T) = StreamBytes(st.runs \ Old) + StreamBytes({m})
    BY <2>2, <2>6, <2>8, <2>10, BytesOfBoth
  <2>12. StreamBytes(st.runs) \in Int /\ st.size = more + StreamBytes(st.runs)
    BY <2>9, BytesTyped DEF Measured
  <2>13. st.size - 1 = more + StreamBytes(T)
    BY <2>6, <2>7, <2>10, <2>11, <2>12
  <2>14. MergeStep(st).runs = T /\ MergeStep(st).size = st.size - 1
    BY <2>3 DEF ScanState
  <2> QED
    BY <2>11, <2>13, <2>14 DEF Measured
<1> QED
  BY <1>4, <1>5, <1>6

\* The scan keeps the length true.
LEMMA MergeScanBytes ==
  ASSUME NEW S, StreamOK(S), IsFiniteSet(S), NEW more \in Int, NEW at
  PROVE  Measured(MergeScan(S, more + StreamBytes(S), at), more)
<1> DEFINE s0 == ScanState(S, more + StreamBytes(S), at)
           s1 == MergeStep(s0)
           s2 == MergeStep(s1)
           s3 == MergeStep(s2)
           s4 == MergeStep(s3)
           s5 == MergeStep(s4)
<1>0. more + StreamBytes(S) \in Int
  BY BytesTyped
<1>1. ScanOK(s0) /\ Measured(s0, more)
  BY <1>0 DEF ScanOK, ScanState, Measured
<1>2. s5 = MergeScan(S, more + StreamBytes(S), at)
  BY DEF MergeScan
<1> HIDE DEF s0
<1>3. ScanOK(s1) /\ Measured(s1, more)
  BY <1>1, MergeStepStream, MergeStepBytes
<1> HIDE DEF s1
<1>4. ScanOK(s2) /\ Measured(s2, more)
  BY <1>3, MergeStepStream, MergeStepBytes
<1> HIDE DEF s2
<1>5. ScanOK(s3) /\ Measured(s3, more)
  BY <1>4, MergeStepStream, MergeStepBytes
<1> HIDE DEF s3
<1>6. ScanOK(s4) /\ Measured(s4, more)
  BY <1>5, MergeStepStream, MergeStepBytes
<1> HIDE DEF s4
<1>7. Measured(s5, more)
  BY <1>6, MergeStepBytes
<1> QED
  BY <1>2, <1>7

-----------------------------------------------------------------------------
(* Five turns are enough.                                                  *)

Starts(S, b) == \E r \in S : r.first = b

\* Two opcodes that meet at b could be one.
Loose(S, b) == \E p, q \in S : q.first = b /\ Mergeable(p, q)

ZerosApart(S) ==
  \A p, q \in S : ~(p.op # "val" /\ q.op # "val" /\ End(p) = q.first)

LEMMA CanonicalIs ==
  ASSUME NEW S
  PROVE  Canonical(S) <=> (\A b : ~Loose(S, b)) /\ ZerosApart(S)
<1>1. ASSUME Canonical(S) PROVE (\A b : ~Loose(S, b)) /\ ZerosApart(S)
  BY <1>1 DEF Canonical, Loose, ZerosApart
<1>2. ASSUME \A b : ~Loose(S, b), ZerosApart(S) PROVE Canonical(S)
  <2>1. ASSUME NEW p \in S, NEW q \in S PROVE ~Mergeable(p, q)
    <3>1. ~Loose(S, q.first)
      BY <1>2
    <3> QED
      BY <3>1 DEF Loose
  <2> QED
    BY <1>2, <2>1 DEF Canonical, ZerosApart
<1> QED
  BY <1>1, <1>2

LEMMA RunNumbers ==
  ASSUME NEW S, StreamOK(S), NEW r \in S
  PROVE  /\ RunOK(r) /\ r.first \in Int /\ 0 <= r.first /\ r.len \in Int /\ 0 < r.len
         /\ End(r) \in Int /\ End(r) = r.first + r.len
  BY SparseAssumption DEF StreamOK, RunOK, Index, End

\* Opcodes do not overlap: one that starts behind the start of another one
\* starts behind it.
LEMMA StartsBehind ==
  ASSUME NEW S, StreamOK(S), NEW p \in S, NEW q \in S, p.first < q.first
  PROVE  End(p) <= q.first
<1>1. p = q \/ End(p) <= q.first \/ End(q) <= p.first
  BY DEF StreamOK
<1> QED
  BY <1>1, RunNumbers

LEMMA SameEnd ==
  ASSUME NEW S, StreamOK(S), NEW p \in S, NEW q \in S,
         p.first = q.first \/ End(p) = End(q)
  PROVE  p = q
<1>1. p = q \/ End(p) <= q.first \/ End(q) <= p.first
  BY DEF StreamOK
<1> QED
  BY <1>1, RunNumbers

\* Behind an opcode that another one follows, somewhere, starts the next.
LEMMA NextStarts ==
  ASSUME NEW S, StreamOK(S), NEW p \in S, Reaches(S, End(p))
  PROVE  After(S, p) \in S /\ After(S, p).first = End(p)
<1> DEFINE q == After(S, p)
<1>1. q \in S /\ Covers(q, End(p))
  BY RunAtCovers DEF After
<1> HIDE DEF q
<1>2. p = q \/ End(p) <= q.first \/ End(q) <= p.first
  BY <1>1 DEF StreamOK
<1>3. /\ p.first \in Int /\ p.len \in Int /\ 0 < p.len /\ End(p) = p.first + p.len
      /\ q.first \in Int /\ End(q) \in Int
  BY <1>1, RunNumbers
<1>4. q.first <= End(p) /\ End(p) < End(q)
  BY <1>1 DEF Covers
<1>5. q.first = End(p)
  BY <1>2, <1>3, <1>4
<1> QED
  BY <1>1, <1>5 DEF q

\* A merge loosens nothing, and its only new opcode starts where one did.
Tightened(S, T, gone) ==
  /\ \A b : Loose(T, b) => Loose(S, b)
  /\ \A b : Starts(T, b) => Starts(S, b) /\ b # gone
  /\ ZerosApart(S) => ZerosApart(T)

LEMMA MergeTightens ==
  ASSUME NEW S, StreamOK(S), NEW p \in S, NEW q \in S, Mergeable(p, q)
  PROVE  LET m == Val(p.first, p.len + q.len, p.val)
             T == (S \ {p, q}) \cup {m}
         IN  Tightened(S, T, q.first) /\ m \in T /\ m.first = p.first
<1> DEFINE m == Val(p.first, p.len + q.len, p.val)
           T == (S \ {p, q}) \cup {m}
<1>1. /\ p.first \in Int /\ p.len \in Int /\ 0 < p.len /\ End(p) = p.first + p.len
      /\ q.first \in Int /\ q.len \in Int /\ 0 < q.len /\ End(q) = q.first + q.len
      /\ End(p) = q.first /\ p.val = q.val /\ p.op = "val" /\ q.op = "val"
  BY RunNumbers DEF Mergeable
<1>2. /\ m.op = "val" /\ m.first = p.first /\ m.len = p.len + q.len
      /\ m.val = p.val /\ End(m) = End(q)
  BY <1>1 DEF Val, End
<1>3. m \in T /\ \A r \in T : r = m \/ (r \in S /\ r # p /\ r # q)
  OBVIOUS
<1> HIDE DEF m, T
<1>4. \A r \in S : r.len \in Int
  BY RunNumbers
<1>5. ASSUME NEW b, NEW u \in T, NEW w \in T, w.first = b, Mergeable(u, w)
      PROVE  Loose(S, b)
  <2>1. /\ u.op = "val" /\ w.op = "val" /\ End(u) = w.first /\ u.val = w.val
        /\ u.len + w.len <= SparseValMaxLen /\ SparseValMaxLen \in Int
    BY <1>5, SparseAssumption DEF Mergeable
  <2>2. CASE u # m /\ w # m
    <3>1. u \in S /\ w \in S
      BY <1>3, <2>2
    <3> QED
      BY <1>5, <3>1 DEF Loose
  <2>3. CASE u = m /\ w # m
    <3>1. w \in S /\ w.len \in Int
      BY <1>3, <1>4, <2>3
    <3>2. q.len + w.len <= SparseValMaxLen
      BY <1>1, <1>2, <2>1, <2>3, <3>1
    <3>3. Mergeable(q, w)
      BY <1>1, <1>2, <2>1, <2>3, <3>2 DEF Mergeable
    <3> QED
      BY <1>5, <3>1, <3>3 DEF Loose
  <2>4. CASE u # m /\ w = m
    <3>1. u \in S /\ u.len \in Int
      BY <1>3, <1>4, <2>4
    <3>2. u.len + p.len <= SparseValMaxLen
      BY <1>1, <1>2, <2>1, <2>4, <3>1
    <3>3. Mergeable(u, p)
      BY <1>1, <1>2, <2>1, <2>4, <3>2 DEF Mergeable
    <3> QED
      BY <1>2, <1>5, <2>4, <3>1, <3>3 DEF Loose
  <2>5. CASE u = m /\ w = m
    BY <1>1, <1>2, <2>1, <2>5
  <2> QED
    BY <2>2, <2>3, <2>4, <2>5
<1>6. ASSUME NEW b, NEW r \in T, r.first = b PROVE Starts(S, b) /\ b # q.first
  <2>1. CASE r = m
    BY <1>1, <1>2, <1>6, <2>1 DEF Starts
  <2>2. CASE r # m
    <3>1. r \in S /\ r # q
      BY <1>3, <2>2
    <3>2. r.first # q.first
      BY <3>1, SameEnd
    <3> QED
      BY <1>6, <3>1, <3>2 DEF Starts
  <2> QED
    BY <2>1, <2>2
<1>7. ZerosApart(S) => ZerosApart(T)
  BY <1>2, <1>3 DEF ZerosApart
<1>8. \A b : Loose(T, b) => Loose(S, b)
  BY <1>5 DEF Loose
<1>9. \A b : Starts(T, b) => Starts(S, b) /\ b # q.first
  BY <1>6 DEF Starts
<1> QED
  BY <1>2, <1>3, <1>7, <1>8, <1>9 DEF Tightened, m, T

\* The scan stands at an opcode or at the end; what is loose lies ahead of
\* it, up to "last", and the opcodes that start there do so in P.
Ahead(st, last, P) ==
  /\ st.at \in Nat
  /\ Reaches(st.runs, st.at) => RunAt(st.runs, st.at).first = st.at
  /\ \A b : Loose(st.runs, b) => st.at < b /\ b <= last
  /\ \A b : Starts(st.runs, b) /\ st.at < b /\ b <= last => b \in P
  /\ ZerosApart(st.runs)

\* One turn: the least place of P is dealt with.
LEMMA Turn ==
  ASSUME NEW st, ScanOK(st), NEW last \in Int, NEW x \in Int, NEW P, NEW Q,
         Ahead(st, last, P), \A b \in P : b \in Int /\ x <= b /\ (b # x => b \in Q)
  PROVE  Ahead(MergeStep(st), last, Q)
<1> DEFINE S == st.runs
           p == RunAt(S, st.at)
           q == After(S, p)
           e == End(p)
<1>1. /\ StreamOK(S) /\ st.at \in Nat
      /\ Reaches(S, st.at) => p.first = st.at
      /\ \A b : Loose(S, b) => st.at < b /\ b <= last
      /\ \A b : Starts(S, b) /\ st.at < b /\ b <= last => b \in P
      /\ ZerosApart(S)
  BY DEF ScanOK, Ahead
<1>2. \A b : Starts(S, b) => b \in Int
  BY <1>1, RunNumbers DEF Starts
<1>3. \A b : Loose(S, b) => Starts(S, b)
  BY DEF Loose, Starts
\* Before an opcode every register is reached.
<1>4. ASSUME NEW b, Starts(S, b), NEW i \in Nat, i < b PROVE Reaches(S, i)
  <2>1. PICK r \in S : r.first = b
    BY <1>4 DEF Starts
  <2>2. i \in 0 .. r.first - 1
    BY <1>1, <1>4, <2>1, RunNumbers
  <2> QED
    BY <1>1, <2>1, <2>2 DEF StreamOK
<1>5. CASE ~Reaches(S, st.at)
  <2>1. MergeStep(st) = st
    BY <1>5 DEF MergeStep
  <2>2. \A b : Starts(S, b) => ~(st.at < b)
    BY <1>1, <1>4, <1>5
  <2> QED
    BY <1>1, <1>3, <2>1, <2>2 DEF Ahead
<1>6. CASE Reaches(S, st.at)
  <2>1. p \in S /\ p.first = st.at /\ MergeStep(st) = MergeAt(st, p)
    BY <1>1, <1>6, RunAtCovers DEF MergeStep
  <2>2. e \in Nat /\ st.at < e
    BY <1>1, <2>1, RunNumbers
  \* What starts behind p starts behind its end, if not there.
  <2>3. ASSUME NEW b, Starts(S, b), st.at < b PROVE e <= b
    <3>1. PICK r \in S : r.first = b
      BY <2>3 DEF Starts
    <3> QED
      BY <1>1, <2>1, <2>3, <3>1, StartsBehind
  <2>4. ASSUME NEW b, Starts(S, b), e <= b PROVE Reaches(S, e)
    <3>1. CASE e < b
      BY <1>4, <2>2, <2>4, <3>1
    <3>2. CASE e = b
      <4>1. PICK r \in S : r.first = b
        BY <2>4 DEF Starts
      <4>2. Covers(r, e)
        BY <1>1, <2>2, <3>2, <4>1, RunNumbers DEF Covers
      <4> QED
        BY <4>1, <4>2 DEF Reaches
    <3> QED
      BY <1>2, <2>2, <2>4, <3>1, <3>2
  <2>5. Reaches(S, e) => q \in S /\ q.first = e
    BY <1>1, <2>1, NextStarts
  \* The place behind p is in P, if it is not too far.
  <2>6. ASSUME NEW b, Starts(S, b), e < b, b <= last PROVE b \in Q
    <3>1. Starts(S, e)
      BY <2>2, <1>2, <2>4, <2>5, <2>6 DEF Starts
    <3>2. b \in Int
      BY <1>2, <2>6
    <3>3. e \in P /\ b \in P
      BY <1>1, <2>2, <2>6, <3>1, <3>2
    <3>4. x <= e
      BY <3>3
    <3>5. b # x
      BY <2>2, <2>6, <3>2, <3>4
    <3> QED
      BY <3>3, <3>5
  <2>7. CASE Joins(S, p)
    <3> DEFINE m == Val(p.first, p.len + q.len, p.val)
               T == (S \ {p, q}) \cup {m}
    <3>1. Reaches(S, e) /\ Mergeable(p, q)
      BY <2>7 DEF Joins
    <3>2. MergeStep(st) = ScanState(T, st.size - 1, st.at)
      BY <2>1, <2>7 DEF MergeAt, Joined
    <3>3. q \in S /\ q.first = e
      BY <2>5, <3>1
    <3> HIDE DEF p, q, e, S
    <3>4. Tightened(S, T, q.first) /\ m \in T /\ m.first = p.first
      BY <1>1, <2>1, <3>1, <3>3, MergeTightens
    <3>5. StreamOK(T)
      BY <1>1, <2>1, <3>1, <3>3, MergedStream
    <3> HIDE DEF m, T
    <3>6. Reaches(T, st.at) => RunAt(T, st.at).first = st.at
      <4>1. Covers(m, st.at) /\ st.at \in Int
        BY <1>1, <2>1, <3>4, <3>5, RunNumbers DEF Covers
      <4> QED
        BY <2>1, <3>4, <3>5, <4>1, RunAtOnly
    <3>7. ASSUME NEW b, Starts(T, b), st.at < b, b <= last PROVE b \in Q
      <4>1. Starts(S, b) /\ b # e
        BY <3>3, <3>4, <3>7 DEF Tightened
      <4>2. e <= b /\ b \in Int
        BY <1>2, <2>3, <3>7, <4>1
      <4> QED
        BY <2>2, <2>6, <3>7, <4>1, <4>2
    <3>8. MergeStep(st).runs = T /\ MergeStep(st).at = st.at
      BY <3>2 DEF ScanState
    <3> QED
      BY <1>1, <3>4, <3>6, <3>7, <3>8 DEF Ahead, Tightened
  <2>8. CASE ~Joins(S, p)
    <3>1. MergeStep(st) = ScanState(S, st.size, e)
      BY <2>1, <2>8 DEF MergeAt
    <3>2. Reaches(S, e) => RunAt(S, e).first = e
      BY <2>5 DEF After
    <3>3. ASSUME NEW b, Loose(S, b) PROVE e < b
      <4>1. PICK u \in S, w \in S : w.first = b /\ Mergeable(u, w)
        BY <1>3, <3>3 DEF Loose
      <4>2. Starts(S, b) /\ st.at < b /\ b \in Int
        BY <1>1, <1>2, <1>3, <3>3
      <4>3. e <= b
        BY <2>3, <4>2
      <4>4. ASSUME b = e PROVE FALSE
        <5>1. End(u) = End(p)
          BY <4>1, <4>4 DEF Mergeable
        <5>2. u = p
          BY <1>1, <2>1, <4>1, <5>1, SameEnd
        <5>3. Reaches(S, e) /\ q \in S /\ q.first = e
          BY <2>4, <2>5, <4>2, <4>3
        <5>4. w = q
          BY <1>1, <4>1, <4>4, <5>3, SameEnd
        <5> QED
          BY <2>8, <4>1, <5>2, <5>3, <5>4 DEF Joins
      <4> QED
        BY <2>2, <4>2, <4>3, <4>4
    <3>4. MergeStep(st).runs = S /\ MergeStep(st).at = e
      BY <3>1 DEF ScanState
    <3>5. e \in Nat
      BY <2>2
    <3> HIDE DEF p, q, e, S
    <3>6. \A b : Loose(S, b) => e < b /\ b <= last
      BY <1>1, <3>3
    <3>7. \A b : Starts(S, b) /\ e < b /\ b <= last => b \in Q
      BY <2>6
    <3> QED
      BY <1>1, <3>2, <3>4, <3>5, <3>6, <3>7 DEF Ahead
  <2> QED
    BY <2>7, <2>8
<1> QED
  BY <1>5, <1>6

LEMMA NothingAhead ==
  ASSUME NEW st, NEW last, Ahead(st, last, {})
  PROVE  Canonical(st.runs)
<1>1. \A b : Loose(st.runs, b) => Starts(st.runs, b)
  BY DEF Loose, Starts
<1>2. \A b : ~Loose(st.runs, b)
  BY <1>1 DEF Ahead
<1> QED
  BY <1>2, CanonicalIs DEF Ahead

\* With no more than four places ahead, five turns leave nothing loose.
LEMMA FiveTurns ==
  ASSUME NEW S, StreamOK(S), NEW size \in Int, NEW at,
         NEW a \in Int, NEW b \in Int, NEW c \in Int, NEW d \in Int,
         a <= b, b <= c, c <= d,
         Ahead(ScanState(S, size, at), d, {a, b, c, d})
  PROVE  Canonical(MergeScan(S, size, at).runs)
<1> DEFINE s0 == ScanState(S, size, at)
           s1 == MergeStep(s0)
           s2 == MergeStep(s1)
           s3 == MergeStep(s2)
           s4 == MergeStep(s3)
           s5 == MergeStep(s4)
<1>1. ScanOK(s0) /\ Ahead(s0, d, {a, b, c, d})
  BY DEF ScanOK, ScanState
<1>2. s5 = MergeScan(S, size, at)
  BY DEF MergeScan
<1> HIDE DEF s0
<1>3. ScanOK(s1) /\ Ahead(s1, d, {b, c, d})
  <2>1. \A y \in {a, b, c, d} : y \in Int /\ a <= y /\ (y # a => y \in {b, c, d})
    OBVIOUS
  <2> QED
    BY <1>1, <2>1, MergeStepStream, Turn
<1> HIDE DEF s1
<1>4. ScanOK(s2) /\ Ahead(s2, d, {c, d})
  <2>1. \A y \in {b, c, d} : y \in Int /\ b <= y /\ (y # b => y \in {c, d})
    OBVIOUS
  <2> QED
    BY <1>3, <2>1, MergeStepStream, Turn
<1> HIDE DEF s2
<1>5. ScanOK(s3) /\ Ahead(s3, d, {d})
  <2>1. \A y \in {c, d} : y \in Int /\ c <= y /\ (y # c => y \in {d})
    OBVIOUS
  <2> QED
    BY <1>4, <2>1, MergeStepStream, Turn
<1> HIDE DEF s3
<1>6. ScanOK(s4) /\ Ahead(s4, d, {})
  <2>1. \A y \in {d} : y \in Int /\ d <= y /\ (y # d => y \in {})
    OBVIOUS
  <2> QED
    BY <1>5, <2>1, MergeStepStream, Turn
<1> HIDE DEF s4
<1>7. Ahead(s5, d, {})
  <2>1. \A y \in {} : y \in Int /\ d <= y /\ (y # d => y \in {})
    OBVIOUS
  <2> QED
    BY <1>6, <2>1, Turn
<1> QED
  BY <1>2, <1>7, NothingAhead

\* The pieces of a split, each where it starts and ends.
LEMMA SplitPieces ==
  ASSUME NEW r, RunOK(r), NEW idx \in Int, Covers(r, idx),
         NEW count \in 1 .. SparseValMaxValue, NEW s \in Split(r, idx, count)
  PROVE  \/ s.first = r.first /\ End(s) = idx /\ r.first < idx
            /\ (s.op # "val" => r.op # "val")
         \/ s.first = idx /\ End(s) = idx + 1 /\ s.op = "val"
         \/ s.first = idx + 1 /\ End(s) = End(r) /\ idx + 1 < End(r)
            /\ (s.op # "val" => r.op # "val")
<1> DEFINE L == Side(r, r.first, idx - r.first)
           M == Val(idx, 1, count)
           R == Side(r, idx + 1, End(r) - 1 - idx)
<1>1. /\ r.first \in Int /\ r.len \in Int /\ End(r) \in Int
      /\ End(r) = r.first + r.len /\ r.first <= idx /\ idx < End(r)
  BY SparseAssumption DEF RunOK, Index, End, Covers
<1>2. s \in L \/ s = M \/ s \in R
  BY DEF Split
<1>3. ASSUME NEW first, NEW len \in Nat, NEW t \in Side(r, first, len), t.op # "val"
      PROVE  r.op # "val"
  <2> SUFFICES ASSUME r.op = "val" PROVE FALSE
    OBVIOUS
  <2>1. Side(r, first, len) = {} \/ Side(r, first, len) = {Val(first, len, r.val)}
    BY SparseAssumption DEF Side
  <2> QED
    BY <1>3, <2>1 DEF Val
<1>4. CASE s \in L
  <2>1. /\ r.first <= r.first /\ 0 <= idx - r.first /\ idx - r.first \in Int
        /\ r.first + (idx - r.first) <= End(r)
    BY <1>1
  <2>2. s.first = r.first /\ s.len = idx - r.first /\ idx - r.first # 0
    BY <1>1, <1>4, <2>1, SideFacts
  <2>3. End(s) = idx /\ r.first < idx
    BY <1>1, <2>2 DEF End
  <2>4. idx - r.first \in Nat
    BY <2>1
  <2> QED
    BY <1>3, <1>4, <2>2, <2>3, <2>4
<1>5. CASE s = M
  BY <1>5 DEF Val, End
<1>6. CASE s \in R
  <2>1. /\ r.first <= idx + 1 /\ 0 <= End(r) - 1 - idx /\ End(r) - 1 - idx \in Int
        /\ (idx + 1) + (End(r) - 1 - idx) <= End(r) /\ idx + 1 \in Int
    BY <1>1
  <2>2. /\ s.first = idx + 1 /\ s.len = End(r) - 1 - idx /\ End(r) - 1 - idx # 0
    BY <1>1, <1>6, <2>1, SideFacts
  <2>3. End(s) = End(r) /\ idx + 1 < End(r)
    BY <1>1, <2>2 DEF End
  <2>4. End(r) - 1 - idx \in Nat
    BY <2>1
  <2> QED
    BY <1>3, <1>6, <2>2, <2>3, <2>4
<1> QED
  BY <1>2, <1>4, <1>5, <1>6

\* The scan starts at the opcode before the one that is replaced, or at it.
LEMMA ScanStartsBefore ==
  ASSUME NEW S, StreamOK(S), NEW r \in S
  PROVE  LET at == ScanStart(S, r.first)
         IN  /\ at \in Nat
             /\ \/ r.first = 0 /\ at = 0
                \/ \E p \in S : p.first = at /\ End(p) = r.first /\ at < r.first
<1>1. r.first \in Int /\ 0 <= r.first
  BY RunNumbers
<1>2. CASE r.first = 0
  BY <1>2 DEF ScanStart
<1>3. CASE r.first # 0
  <2> DEFINE p == RunAt(S, r.first - 1)
  <2>1. r.first - 1 \in 0 .. r.first - 1 /\ r.first - 1 \in Int
    BY <1>1, <1>3
  <2>2. p \in S /\ Covers(p, r.first - 1)
    BY <2>1, RunAtCovers DEF StreamOK
  <2>3. ScanStart(S, r.first) = p.first
    BY <1>3 DEF ScanStart
  <2> HIDE DEF p
  <2>4. /\ p.first \in Int /\ 0 <= p.first /\ End(p) \in Int
        /\ p.first <= r.first - 1 /\ r.first - 1 < End(p)
    BY <2>2, RunNumbers DEF Covers
  <2>5. p = r \/ End(p) <= r.first \/ End(r) <= p.first
    BY <2>2 DEF StreamOK
  <2>6. End(p) = r.first /\ p.first < r.first
    BY <1>1, <2>4, <2>5, RunNumbers
  <2> QED
    BY <2>2, <2>3, <2>4, <2>6
<1> QED
  BY <1>2, <1>3

\* The opcodes of a stream that an opcode's pieces meet.
LEMMA Elsewhere ==
  ASSUME NEW S, StreamOK(S), NEW r \in S, NEW s \in S, s # r
  PROVE  /\ s.first # r.first /\ End(s) # End(r)
         /\ s.first < r.first \/ End(r) <= s.first
         /\ End(s) <= r.first \/ End(r) < End(s)
<1>1. End(r) <= s.first \/ End(s) <= r.first
  BY DEF StreamOK
<1> QED
  BY <1>1, RunNumbers

\* An opcode replaced by its pieces, in a canonical stream: what is loose is
\* at the pieces, and the scan starts before it.
LEMMA SplitAhead ==
  ASSUME NEW S, StreamOK(S), Canonical(S), NEW idx \in Index, Reaches(S, idx),
         NEW count \in 1 .. SparseValMaxValue, NEW size
  PROVE  LET r == RunAt(S, idx)
             T == (S \ {r}) \cup Split(r, idx, count)
         IN  Ahead(ScanState(T, size, ScanStart(S, r.first)), End(r),
                   {r.first, idx, idx + 1, End(r)})
<1> DEFINE r == RunAt(S, idx)
           N == Split(r, idx, count)
           T == (S \ {r}) \cup N
           at == ScanStart(S, r.first)
           st == ScanState(T, size, at)
           P == {r.first, idx, idx + 1, End(r)}
<1>1. r \in S /\ Covers(r, idx) /\ RunOK(r) /\ idx \in Int
  BY RunAtCovers, SparseAssumption DEF StreamOK, Index
<1>2. StreamOK(T) /\ \A i \in Int : Reaches(T, i) <=> Reaches(S, i)
  BY SplitStream
<1>3. \A s \in N :
         \/ s.first = r.first /\ End(s) = idx /\ r.first < idx
            /\ (s.op # "val" => r.op # "val")
         \/ s.first = idx /\ End(s) = idx + 1 /\ s.op = "val"
         \/ s.first = idx + 1 /\ End(s) = End(r) /\ idx + 1 < End(r)
            /\ (s.op # "val" => r.op # "val")
  BY <1>1, SplitPieces
<1>4. /\ at \in Nat
      /\ \/ r.first = 0 /\ at = 0
         \/ \E p \in S : p.first = at /\ End(p) = r.first /\ at < r.first
  BY <1>1, ScanStartsBefore
<1>5. st.runs = T /\ st.at = at
  BY DEF ScanState
<1> HIDE DEF r, N, at, st
<1>6. /\ r.first \in Int /\ 0 <= r.first /\ End(r) \in Int /\ idx \in Int
      /\ r.first <= idx /\ idx < End(r)
  BY <1>1, RunNumbers DEF Covers
<1>7. \A s \in T : s \in N \/ (s \in S /\ s # r)
  OBVIOUS
<1>8. \A s \in T : s.first \in Int /\ 0 <= s.first /\ End(s) \in Int /\ s.first < End(s)
  BY <1>2, RunNumbers
<1>9. ASSUME NEW s \in S, s # r
      PROVE  /\ s.first # r.first /\ End(s) # End(r)
             /\ s.first < r.first \/ End(r) <= s.first
             /\ End(s) <= r.first \/ End(r) < End(s)
  BY <1>1, <1>9, Elsewhere
<1>10. (\A b : ~Loose(S, b)) /\ ZerosApart(S)
  BY CanonicalIs
<1> HIDE DEF T
\* The scan's own opcode.
<1>11. Reaches(T, at) => RunAt(T, at).first = at
  <2>1. ASSUME NEW p \in S, p.first = at, End(p) = r.first, at < r.first
        PROVE  RunAt(T, at).first = at
    <3>1. p # r /\ p \in T
      BY <1>6, <2>1 DEF T
    <3>2. Covers(p, at) /\ at \in Int
      BY <1>4, <2>1 DEF Covers
    <3> QED
      BY <1>2, <2>1, <3>1, <3>2, RunAtOnly
  <2>2. ASSUME r.first = 0, at = 0, Reaches(T, at) PROVE RunAt(T, at).first = at
    <3>1. RunAt(T, at) \in T /\ Covers(RunAt(T, at), at)
      BY <2>2, RunAtCovers
    <3> QED
      BY <1>8, <2>2, <3>1 DEF Covers
  <2> QED
    BY <1>4, <2>1, <2>2
<1>12. ASSUME NEW b, Starts(T, b), at < b, b <= End(r) PROVE b \in P
  <2>1. PICK s \in T : s.first = b
    BY <1>12 DEF Starts
  <2>2. CASE s \in N
    BY <1>3, <2>1, <2>2
  <2>3. CASE s \in S /\ s # r
    <3>1. s.first < r.first \/ End(r) <= s.first
      BY <1>9, <2>3
    <3>2. ASSUME s.first < r.first PROVE FALSE
      <4>1. PICK p \in S : p.first = at /\ End(p) = r.first /\ at < r.first
        BY <1>4, <1>6, <1>8, <2>1, <3>2
      <4>2. End(p) <= s.first
        BY <1>12, <2>1, <2>3, <4>1, StartsBehind
      <4> QED
        BY <1>6, <1>8, <2>1, <3>2, <4>1, <4>2
    <3>3. b = End(r)
      BY <1>6, <1>8, <1>12, <2>1, <3>1, <3>2
    <3> QED
      BY <3>3
  <2> QED
    BY <1>7, <2>1, <2>2, <2>3
<1>13. ASSUME NEW b, Loose(T, b) PROVE at < b /\ b <= End(r)
  <2>1. PICK u \in T, w \in T : w.first = b /\ Mergeable(u, w)
    BY <1>13 DEF Loose
  <2>2. End(u) = b /\ b \in Int /\ 0 < b
    BY <1>8, <2>1 DEF Mergeable
  <2>3. r.first <= b /\ b <= End(r)
    <3>1. CASE w \in N
      BY <1>3, <1>6, <2>1, <3>1
    <3>2. CASE u \in N
      BY <1>3, <1>6, <2>2, <3>2
    <3>3. CASE u \in S /\ w \in S
      <4>1. Loose(S, b)
        BY <2>1, <3>3 DEF Loose
      <4> QED
        BY <1>10, <4>1
    <3> QED
      BY <1>7, <3>1, <3>2, <3>3
  <2> QED
    BY <1>4, <1>6, <2>2, <2>3
<1>14. ZerosApart(T)
  <2> SUFFICES ASSUME NEW u \in T, NEW w \in T, u.op # "val", w.op # "val",
                      End(u) = w.first
               PROVE  FALSE
    BY DEF ZerosApart
  <2>1. \A s \in S, t \in S : ~(s.op # "val" /\ t.op # "val" /\ End(s) = t.first)
    BY <1>10 DEF ZerosApart
  <2>2. CASE u \in N /\ w \in N
    BY <1>3, <1>6, <2>2
  <2>3. CASE u \in N /\ w \in S /\ w # r
    <3>1. r.op # "val" /\ ((End(u) = idx /\ r.first < idx) \/ End(u) = End(r))
      BY <1>3, <2>3
    <3>2. End(u) = End(r)
      BY <1>6, <1>9, <2>3, <3>1
    <3> QED
      BY <1>1, <2>1, <2>3, <3>1, <3>2
  <2>4. CASE u \in S /\ u # r /\ w \in N
    <3>1. r.op # "val" /\ (w.first = r.first \/ (w.first = idx + 1 /\ idx + 1 < End(r)))
      BY <1>3, <2>4
    <3>2. w.first = r.first
      BY <1>6, <1>9, <2>4, <3>1
    <3> QED
      BY <1>1, <2>1, <2>4, <3>1, <3>2
  <2>5. CASE u \in S /\ w \in S
    BY <2>1, <2>5
  <2> QED
    BY <1>7, <2>2, <2>3, <2>4, <2>5
<1>15. Ahead(st, End(r), P)
  BY <1>4, <1>5, <1>11, <1>12, <1>13, <1>14 DEF Ahead
<1> QED
  BY <1>15 DEF r, N, T, at, st

\* A register of a canonical stream is updated and the scan makes the stream
\* canonical again.
LEMMA UpdateCanonical ==
  ASSUME NEW S, StreamOK(S), Canonical(S), NEW idx \in Index, Reaches(S, idx),
         NEW count \in 1 .. SparseValMaxValue, NEW size \in Int
  PROVE  LET r == RunAt(S, idx)
             T == (S \ {r}) \cup Split(r, idx, count)
         IN  Canonical(MergeScan(T, size, ScanStart(S, r.first)).runs)
<1> DEFINE r == RunAt(S, idx)
           T == (S \ {r}) \cup Split(r, idx, count)
           at == ScanStart(S, r.first)
<1>1. StreamOK(T)
  BY SplitStream
<1>2. Ahead(ScanState(T, size, at), End(r), {r.first, idx, idx + 1, End(r)})
  BY SplitAhead
<1>3. r \in S /\ Covers(r, idx) /\ idx \in Int
  BY RunAtCovers, SparseAssumption DEF Index
<1> HIDE DEF r, T, at
<1>4. /\ r.first \in Int /\ idx + 1 \in Int /\ End(r) \in Int
      /\ r.first <= idx /\ idx <= idx + 1 /\ idx + 1 <= End(r)
  BY <1>3, RunNumbers DEF Covers
<1>5. Canonical(MergeScan(T, size, at).runs)
  BY <1>1, <1>2, <1>3, <1>4, FiveTurns
<1> QED
  BY <1>5 DEF r, T, at

-----------------------------------------------------------------------------
(* Registers.                                                              *)

LEMMA MaxOfBounded ==
  ASSUME NEW N \in Nat, NEW T \in SUBSET (0 .. N), T # {}
  PROVE  Max(T) \in T /\ \A y \in T : Max(T) >= y
<1> DEFINE D == {N - x : x \in T}
<1>0. PICK t \in T : TRUE
  OBVIOUS
<1>1. D \subseteq Nat /\ D # {}
  <2>1. \A x \in T : N - x \in Nat
    OBVIOUS
  <2>2. N - t \in D
    OBVIOUS
  <2> QED
    BY <2>1, <2>2
<1>2. PICK d \in D : \A y \in D : ~ (<<y, d>> \in OpToRel(<, Nat))
  BY <1>1, NatLessThanWellFounded, WFMin
<1>3. \A y \in D : ~(y < d)
  BY <1>1, <1>2 DEF OpToRel
<1>4. PICK x \in T : d = N - x
  OBVIOUS
<1>5. ASSUME NEW y \in T PROVE x >= y
  <2>1. N - y \in D
    OBVIOUS
  <2>2. ~(N - y < N - x)
    BY <2>1, <1>3, <1>4
  <2>3. x \in Int /\ y \in Int
    OBVIOUS
  <2> QED
    BY <2>2, <2>3
<1> QED
  BY <1>5 DEF Max

LEMMA ZeroRegsTyped == ZeroRegs \in RegArray
  BY ObjectAssumption DEF ZeroRegs, RegArray, RegValue

LEMMA ValuesTyped ==
  ASSUME NEW S, StreamOK(S)
  PROVE  Values(S) \in RegArray /\ \A i \in Index : Values(S)[i] <= SparseValMaxValue
<1>1. ASSUME NEW i \in Index PROVE Values(S)[i] \in 0 .. SparseValMaxValue
  <2>1. CASE Reaches(S, i)
    <3>1. PICK r \in S : Covers(r, i)
      BY <2>1 DEF Reaches
    <3>2. r.val \in 0 .. SparseValMaxValue
      BY SparseAssumption DEF StreamOK, RunOK
    <3> QED
      BY <3>1, <3>2, ValuesOf
  <2>2. CASE ~Reaches(S, i)
    BY <2>2, ValuesOf, SparseAssumption
  <2> QED
    BY <2>1, <2>2
<1>2. \A i \in Index : Values(S)[i] \in RegValue
  BY <1>1, SparseAssumption, ObjectAssumption DEF RegValue
<1>3. Values(S) \in RegArray
  BY <1>2 DEF Values, RegArray
<1> QED
  BY <1>1, <1>3, SparseAssumption

\* The fields of an object, by its encoding.
LEMMA DenseFields ==
  ASSUME NEW regs, NEW card
  PROVE  /\ Dense(regs, card).enc = "dense" /\ Dense(regs, card).regs = regs
         /\ Dense(regs, card).card = card /\ Dense(regs, card).runs = {}
  BY DEF Dense

LEMMA SparseFields ==
  ASSUME NEW runs, NEW size, NEW tail, NEW card
  PROVE  LET o == Sparse(runs, size, tail, card)
         IN  /\ o.enc = "sparse" /\ o.runs = runs /\ o.size = size
             /\ o.tail = tail /\ o.card = card
  BY DEF Sparse

LEMMA NullFields == Null.enc = "none" /\ Null.card = Invalid /\ Junk.enc = "junk"
  BY DEF Null, Junk

\* A well-formed object is NULL, dense or sparse.
LEMMA ObjectCases ==
  ASSUME NEW o, ObjectOK(o)
  PROVE  \/ o = Null /\ o.enc = "none"
         \/ o.enc = "dense" /\ o = Dense(o.regs, o.card)
              /\ o.regs \in RegArray /\ o.card \in CardValue
         \/ o.enc = "sparse" /\ o = Sparse(o.runs, o.size, o.tail, o.card)
              /\ StreamOK(o.runs) /\ o.size \in Int
              /\ o.tail \in 0 .. SparseValMaxValue /\ o.card \in CardValue
  BY NullFields, DenseFields, SparseFields DEF ObjectOK

LEMMA DenseObject ==
  ASSUME NEW regs \in RegArray, NEW card \in CardValue
  PROVE  /\ ObjectOK(Dense(regs, card)) /\ IsHLLObject(Dense(regs, card))
         /\ Readable(Dense(regs, card)) /\ RegsOf(Dense(regs, card)) = regs
         /\ Dense(regs, card).card = card
<1>1. ObjectOK(Dense(regs, card))
  BY DenseFields DEF ObjectOK
<1> QED
  BY <1>1, DenseFields DEF IsHLLObject, Readable, RegsOf

LEMMA SparseObject ==
  ASSUME NEW runs, StreamOK(runs), NEW size \in Int,
         NEW tail \in 0 .. SparseValMaxValue, NEW card \in CardValue
  PROVE  LET o == Sparse(runs, size, tail, card)
         IN  /\ ObjectOK(o) /\ IsHLLObject(o)
             /\ Readable(o) <=> Complete(runs)
             /\ RegsOf(o) = Values(runs)
             /\ o.card = card
<1>1. ObjectOK(Sparse(runs, size, tail, card))
  BY SparseFields DEF ObjectOK
<1> QED
  BY <1>1, SparseFields DEF IsHLLObject, Readable, RegsOf

LEMMA RegsOfTyped ==
  ASSUME NEW o, ObjectOK(o)
  PROVE  RegsOf(o) \in RegArray /\ Estimate(RegsOf(o)) \in Nat
<1>1. RegsOf(o) \in RegArray
  BY ObjectCases, ValuesTyped, ZeroRegsTyped DEF RegsOf, Null
<1> QED
  BY <1>1, EstimateAssumption

-----------------------------------------------------------------------------
(* Adding an element.                                                      *)

\* A sparse string is within the limit, and its length is that of its header
\* and its opcodes.
Small(o) == o.enc = "sparse" => o.size <= SparseMaxBytes
Sized(o) == o.enc = "sparse" =>
                IsFiniteSet(o.runs) /\ o.size = HdrSize + StreamBytes(o.runs)

\* No two neighbours could be one opcode.
Canon(o) == o.enc = "sparse" => Canonical(o.runs)

\* What an answer "a" to the adding of e to o promises: an error or a "no
\* change" leaves the object as it was; on a readable object there is no error
\* and "changed" means that the register was lower and now holds the element;
\* an unreadable one covers what it covered, and has lost its cache if it changed;
\* the length stays true and within the limit, the stream canonical.
AddFacts(o, e, a) ==
  /\ ObjectOK(a.obj) /\ IsHLLObject(a.obj)
  /\ a.val \in {0, 1, ERR}
  /\ a.val # 1 => a.obj = o
  /\ Readable(o) => /\ a.val # ERR
                    /\ Readable(a.obj)
                    /\ a.val = 1 => /\ e.pat > RegsOf(o)[e.idx]
                                    /\ RegsOf(a.obj) = [RegsOf(o) EXCEPT ![e.idx] = e.pat]
                    /\ a.val = 0 => e.pat <= RegsOf(o)[e.idx]
  /\ ~Readable(o) => /\ ~Readable(a.obj) /\ Covered(a.obj.runs) = Covered(o.runs)
                     /\ a.val = 1 => a.obj.card = Invalid
  /\ (Small(o) => Small(a.obj)) /\ (Sized(o) => Sized(a.obj))
  /\ Canon(o) => Canon(a.obj)

LEMMA AnswerFields ==
  ASSUME NEW val, NEW o
  PROVE  Answer(val, o).val = val /\ Answer(val, o).obj = o
  BY DEF Answer

LEMMA ElementTyped ==
  ASSUME NEW e \in Elements
  PROVE  /\ e.idx \in Index /\ e.idx \in Int
         /\ e.pat \in 1 .. RegisterMax /\ e.pat \in Int /\ e.pat \in RegValue
<1>1. e.idx \in Index /\ e.pat \in 1 .. RegisterMax
  BY ObjectAssumption
<1> QED
  BY <1>1, ObjectAssumption, SparseAssumption DEF Index, RegValue

LEMMA DenseAddFacts ==
  ASSUME NEW regs \in RegArray, NEW card \in CardValue, NEW e \in Elements
  PROVE  /\ AddFacts(Dense(regs, card), e, DenseAdd(Dense(regs, card), e))
         /\ e.pat > regs[e.idx] => DenseAdd(Dense(regs, card), e).val = 1
<1> DEFINE o == Dense(regs, card)
           n == [regs EXCEPT ![e.idx] = e.pat]
<1>1. o.regs = regs /\ o.card = card
  BY DenseFields
<1>2. n \in RegArray
  BY ElementTyped DEF RegArray
<1>3. [o EXCEPT !.regs[e.idx] = e.pat] = Dense(n, card)
  BY DEF Dense
<1>4. regs[e.idx] \in Int /\ e.pat \in Int
  BY ElementTyped, ObjectAssumption DEF RegArray, RegValue
<1>5. CASE e.pat > regs[e.idx]
  <2>1. DenseAdd(o, e) = Answer(1, Dense(n, card))
    BY <1>1, <1>3, <1>5 DEF DenseAdd
  <2>2. DenseAdd(o, e).val = 1 /\ DenseAdd(o, e).obj = Dense(n, card)
    BY <2>1, AnswerFields
  <2> HIDE DEF n
  <2>3. RegsOf(o) = regs /\ Readable(o) /\ RegsOf(Dense(n, card)) = n
    BY <1>2, DenseObject
  <2> QED
    BY <1>2, <1>5, <2>2, <2>3, DenseObject, DenseFields DEF AddFacts, ERR, n, Small, Sized, Canon
<1>6. CASE ~(e.pat > regs[e.idx])
  <2>1. DenseAdd(o, e) = Answer(0, o)
    BY <1>1, <1>6 DEF DenseAdd
  <2>2. DenseAdd(o, e).val = 0 /\ DenseAdd(o, e).obj = o
    BY <2>1, AnswerFields
  <2> QED
    BY <1>4, <1>6, <2>2, DenseObject DEF AddFacts, ERR
<1> QED
  BY <1>5, <1>6

\* The "promote:" label, reached only when the register is lower than the
\* element: the redisAssert holds.
LEMMA PromoteAddFacts ==
  ASSUME NEW o, ObjectOK(o), o.enc = "sparse", NEW e \in Elements,
         e.pat > Values(o.runs)[e.idx]
  PROVE  AddFacts(o, e, PromoteAdd(o, e))
<1>1. /\ o = Sparse(o.runs, o.size, o.tail, o.card) /\ StreamOK(o.runs)
      /\ o.card \in CardValue
  BY ObjectCases
<1>2. Readable(o) <=> Complete(o.runs)
  BY DEF Readable
<1>3. IsHLLObject(o)
  BY DEF IsHLLObject
<1>4. CASE ~Complete(o.runs)
  <2>1. PromoteAdd(o, e) = Answer(ERR, o)
    BY <1>4 DEF PromoteAdd
  <2>2. PromoteAdd(o, e).val = ERR /\ PromoteAdd(o, e).obj = o
    BY <2>1, AnswerFields
  <2> QED
    BY <1>2, <1>3, <1>4, <2>2 DEF AddFacts, ERR
<1>5. CASE Complete(o.runs)
  <2> DEFINE regs == Values(o.runs)
             d == Dense(regs, o.card)
             a == DenseAdd(d, e)
  <2>1. SparseToDense(o) = d
    BY DEF SparseToDense
  <2>2. regs \in RegArray
    BY <1>1, ValuesTyped
  <2>3. RegsOf(o) = regs
    BY DEF RegsOf
  <2> HIDE DEF regs
  <2>4. AddFacts(d, e, a) /\ a.val = 1
    BY <1>1, <2>2, DenseAddFacts DEF regs
  <2>5. PromoteAdd(o, e) = a
    BY <1>5, <2>1, <2>4 DEF PromoteAdd
  <2>6. Readable(d) /\ RegsOf(d) = regs
    BY <1>1, <2>2, DenseObject
  <2>7. Small(d) /\ Sized(d) /\ Canon(d)
    BY DenseFields DEF Small, Sized, Canon
  <2> HIDE DEF a, d
  <2> QED
    BY <1>2, <1>5, <2>3, <2>4, <2>5, <2>6, <2>7 DEF AddFacts
<1> QED
  BY <1>4, <1>5

\* The "updated:" label, after a rewriting of the stream that puts the element
\* into its register.
LEMMA UpdatedFacts ==
  ASSUME NEW o, ObjectOK(o), o.enc = "sparse", NEW e \in Elements,
         e.pat > Values(o.runs)[e.idx],
         NEW T, StreamOK(T), \A i \in Int : Reaches(T, i) <=> Reaches(o.runs, i),
         Values(T) = [Values(o.runs) EXCEPT ![e.idx] = e.pat],
         NEW size \in Int, NEW tail \in 0 .. SparseValMaxValue, NEW at,
         Small(o) => size <= SparseMaxBytes,
         Sized(o) => IsFiniteSet(T) /\ size = HdrSize + StreamBytes(T),
         Canon(o) => Canonical(MergeScan(T, size, at).runs)
  PROVE  AddFacts(o, e, Updated(o, T, size, tail, at))
<1> DEFINE scan == MergeScan(T, size, at)
           t    == IF scan.size = size THEN tail ELSE 0
           n    == Sparse(scan.runs, scan.size, t, Invalid)
           a    == Updated(o, T, size, tail, at)
<1>1. /\ StreamOK(scan.runs) /\ SaysTheSame(T, scan.runs) /\ scan.size \in Int
      /\ scan.size <= size
  BY MergeScanStream DEF ScanOK
<1>13. Sized(o) => IsFiniteSet(scan.runs) /\ scan.size = HdrSize + StreamBytes(scan.runs)
  <2>1. HdrSize \in Int
    BY ObjectAssumption
  <2> QED
    BY <2>1, MergeScanBytes DEF Measured
<1>2. a = Answer(1, n)
  BY DEF Updated
<1> HIDE DEF scan
<1>3. t \in 0 .. SparseValMaxValue /\ Invalid \in CardValue
  BY SparseAssumption DEF CardValue
<1> HIDE DEF t
<1>4. /\ ObjectOK(n) /\ IsHLLObject(n)
      /\ Readable(n) <=> Complete(scan.runs)
      /\ RegsOf(n) = Values(scan.runs)
  BY <1>1, <1>3, SparseObject
<1>5. a.val = 1 /\ a.obj = n
  BY <1>2, AnswerFields
<1> HIDE DEF a, n
<1>6. \A i \in Index : i \in Int
  BY SparseAssumption DEF Index
<1>7. Complete(scan.runs) <=> Complete(o.runs)
  BY <1>1, <1>6 DEF SaysTheSame, Complete
<1>8. RegsOf(n) = [Values(o.runs) EXCEPT ![e.idx] = e.pat]
  BY <1>1, <1>4 DEF SaysTheSame
<1>9. /\ RegsOf(o) = Values(o.runs)
      /\ Readable(o) <=> Complete(o.runs)
  BY DEF RegsOf, Readable
<1>10. e.pat > RegsOf(o)[e.idx] /\ RegsOf(n) = [RegsOf(o) EXCEPT ![e.idx] = e.pat]
  BY <1>8, <1>9
<1>11. Readable(n) <=> Readable(o)
  BY <1>4, <1>7, <1>9
<1>12. a.val # ERR /\ a.val # 0
  BY <1>5 DEF ERR
<1>14. n.enc = "sparse" /\ n.runs = scan.runs /\ n.size = scan.size /\ n.card = Invalid
  BY SparseFields DEF n
<1>15. Covered(n.runs) = Covered(o.runs)
  BY <1>1, <1>6, <1>14 DEF Covered, SaysTheSame
<1>16. Small(o) => Small(n)
  BY <1>1, <1>14, ObjectAssumption DEF Small
<1>17. Sized(o) => Sized(n)
  BY <1>13, <1>14 DEF Sized
<1>18. Canon(o) => Canon(n)
  BY <1>14 DEF Canon, scan
<1> QED
  BY <1>4, <1>5, <1>10, <1>11, <1>12, <1>14, <1>15, <1>16, <1>17, <1>18 DEF AddFacts, a

\* The add that reads the terminator as an opcode: only on a stream that does
\* not reach the element's register, which no decoder accepts.
LEMMA TailAddFacts ==
  ASSUME NEW o, ObjectOK(o), o.enc = "sparse", NEW e \in Elements,
         e.pat <= SparseValMaxValue, ~Reaches(o.runs, e.idx)
  PROVE  AddFacts(o, e, TailAdd(o, e))
<1>1. /\ o = Sparse(o.runs, o.size, o.tail, o.card) /\ StreamOK(o.runs)
      /\ o.size \in Int
  BY ObjectCases
<1>2. ~Readable(o) /\ IsHLLObject(o)
  BY ElementTyped DEF Readable, Complete, IsHLLObject
<1>3. CASE o.tail >= e.pat
  BY <1>2, <1>3, AnswerFields DEF TailAdd, AddFacts, ERR
<1>4. CASE ~(o.tail >= e.pat)
  <2> DEFINE n == Sparse(o.runs, o.size, e.pat, Invalid)
  <2>2. TailAdd(o, e).val = 1 /\ TailAdd(o, e).obj = n
    BY <1>4, AnswerFields DEF TailAdd
  <2>3. e.pat \in 0 .. SparseValMaxValue /\ Invalid \in CardValue
    BY ElementTyped, SparseAssumption DEF CardValue
  <2>4. ObjectOK(n) /\ IsHLLObject(n) /\ (Readable(n) <=> Complete(o.runs))
    BY <1>1, <2>3, SparseObject
  <2>5. ~Complete(o.runs)
    BY <1>2 DEF Readable
  <2>6. n.enc = "sparse" /\ n.runs = o.runs /\ n.size = o.size /\ n.card = Invalid
    BY SparseFields
  <2> HIDE DEF n
  <2>7. (Small(o) => Small(n)) /\ (Sized(o) => Sized(n)) /\ (Canon(o) => Canon(n))
    BY <2>6 DEF Small, Sized, Canon
  <2> QED
    BY <1>2, <2>2, <2>4, <2>5, <2>6, <2>7 DEF AddFacts, ERR
<1> QED
  BY <1>3, <1>4

\* Cases B and C write the same opcode that a split of one register would.
LEMMA UpdateIsSplit ==
  ASSUME NEW r, RunOK(r), NEW idx \in Int, Covers(r, idx), r.len = 1, NEW count
  PROVE  Split(r, idx, count) = {Val(idx, 1, count)}
<1>1. r.first = idx /\ End(r) = idx + 1
  BY SparseAssumption DEF RunOK, Covers, End, Index
<1>2. idx - r.first = 0 /\ End(r) - 1 - idx = 0
  BY <1>1
<1>3. Side(r, r.first, 0) = {} /\ Side(r, idx + 1, 0) = {}
  BY SparseAssumption DEF Side
<1> QED
  BY <1>2, <1>3 DEF Split

\* They leave the length as it is.
LEMMA UpdateKeepsLength ==
  ASSUME NEW r, RunOK(r), NEW idx \in Int, Covers(r, idx), r.len = 1, r.op # "xzero"
  PROVE  DeltaLen(r, idx) = 0
<1>1. idx - r.first = 0 /\ End(r) - 1 - idx = 0
  BY SparseAssumption DEF RunOK, Covers, End, Index
<1>2. SideBytes(r, 0) = 0 /\ OpLen(r) = 1
  BY SparseAssumption DEF SideBytes, OpLen
<1> QED
  BY <1>1, <1>2 DEF DeltaLen

LEMMA DeltaLenTyped ==
  ASSUME NEW r, NEW idx
  PROVE  DeltaLen(r, idx) \in Int
<1>1. \A len : SideBytes(r, len) \in Int
  BY DEF SideBytes
<1>2. OpLen(r) \in Int
  BY DEF OpLen
<1> QED
  BY <1>1, <1>2 DEF DeltaLen

LEMMA SparseAddFacts ==
  ASSUME NEW o, ObjectOK(o), o.enc = "sparse", NEW e \in Elements
  PROVE  AddFacts(o, e, SparseAdd(o, e))
<1> DEFINE S     == o.runs
           r     == RunAt(S, e.idx)
           at    == ScanStart(S, r.first)
           delta == DeltaLen(r, e.idx)
<1>1. /\ StreamOK(S) /\ o.size \in Int /\ o.tail \in 0 .. SparseValMaxValue
      /\ IsHLLObject(o)
  BY ObjectCases DEF IsHLLObject
<1>2. e.idx \in Index /\ e.idx \in Int /\ e.pat \in 1 .. RegisterMax
  BY ElementTyped
<1>3. Values(S) \in RegArray /\ Values(S)[e.idx] <= SparseValMaxValue
      /\ Values(S)[e.idx] \in Int
  <2>1. Values(S) \in RegArray /\ Values(S)[e.idx] <= SparseValMaxValue
    BY <1>1, <1>2, ValuesTyped
  <2>2. Values(S)[e.idx] \in RegValue
    BY <1>2, <2>1 DEF RegArray
  <2> QED
    BY <2>1, <2>2, ObjectAssumption DEF RegValue
<1>4. /\ RegsOf(o) = Values(S)
      /\ Readable(o) <=> Complete(S)
  BY DEF RegsOf, Readable
<1>5. CASE e.pat > SparseValMaxValue
  <2>0. ~(e.pat <= SparseValMaxValue)
    BY <1>2, <1>5, SparseAssumption
  <2>1. SparseAdd(o, e) = PromoteAdd(o, e)
    BY <1>5, <2>0 DEF SparseAdd
  <2>2. e.pat > Values(S)[e.idx]
    BY <1>2, <1>3, <1>5, SparseAssumption
  <2> QED
    BY <2>1, <2>2, PromoteAddFacts
<1>6. CASE e.pat <= SparseValMaxValue /\ S = {}
  <2>0. ~(e.pat > SparseValMaxValue)
    BY <1>2, <1>6, SparseAssumption
  <2>1. SparseAdd(o, e) = Answer(ERR, o)
    BY <1>6, <2>0 DEF SparseAdd
  <2>2. ~Complete(S)
    BY <1>2, <1>6 DEF Complete, Reaches
  <2> QED
    BY <1>1, <1>4, <2>1, <2>2, AnswerFields DEF AddFacts, ERR
<1>7. CASE e.pat <= SparseValMaxValue /\ S # {} /\ ~Reaches(S, e.idx)
  <2>0. ~(e.pat > SparseValMaxValue)
    BY <1>2, <1>7, SparseAssumption
  <2>1. SparseAdd(o, e) = TailAdd(o, e)
    BY <1>7, <2>0 DEF SparseAdd
  <2> QED
    BY <1>7, <2>1, TailAddFacts
<1>8. CASE e.pat <= SparseValMaxValue /\ Reaches(S, e.idx)
  <2>0. ~(e.pat > SparseValMaxValue) /\ S # {} /\ e.pat \in 1 .. SparseValMaxValue
    BY <1>2, <1>8, SparseAssumption DEF Reaches
  <2>1. r \in S /\ Covers(r, e.idx) /\ RunOK(r)
    BY <1>1, <1>8, RunAtCovers DEF StreamOK
  <2>2. Values(S)[e.idx] = r.val
    BY <1>1, <1>2, <2>1, ValuesOf
  <2>3. CASE Settled(r, e.pat)
    <3>1. SparseAdd(o, e) = Answer(0, o)
      BY <1>8, <2>0, <2>3 DEF SparseAdd
    <3>2. e.pat <= Values(S)[e.idx]
      BY <1>2, <1>3, <2>2, <2>3 DEF Settled
    <3> QED
      BY <1>1, <1>4, <3>1, <3>2, AnswerFields DEF AddFacts, ERR
  <2>4. CASE ~Settled(r, e.pat)
    <3>1. e.pat > Values(S)[e.idx]
      BY <1>2, <1>3, <2>1, <2>2, <2>4 DEF Settled, RunOK
    <3> DEFINE T == (S \ {r}) \cup Split(r, e.idx, e.pat)
    <3>2. /\ StreamOK(T)
          /\ \A i \in Int : Reaches(T, i) <=> Reaches(S, i)
          /\ Values(T) = [Values(S) EXCEPT ![e.idx] = e.pat]
      BY <1>1, <1>2, <1>8, <2>0, SplitStream
    <3>6. Sized(o) => /\ IsFiniteSet(T)
                      /\ o.size + delta = HdrSize + StreamBytes(T)
      <4>1. Sized(o) => /\ IsFiniteSet(S) /\ o.size = HdrSize + StreamBytes(S)
                        /\ StreamBytes(S) \in Int
        BY BytesTyped DEF Sized
      <4>2. IsFiniteSet(S) => /\ IsFiniteSet(T)
                              /\ StreamBytes(T) = StreamBytes(S) + delta
        BY <1>1, <1>2, <1>8, <2>0, SplitBytes
      <4>3. delta \in Int /\ HdrSize \in Int
        BY DeltaLenTyped, ObjectAssumption
      <4> HIDE DEF T, S, delta
      <4> QED
        BY <4>1, <4>2, <4>3
    <3>7. ASSUME NEW size \in Int, Canon(o) PROVE Canonical(MergeScan(T, size, at).runs)
      <4>1. Canonical(S)
        BY <3>7 DEF Canon
      <4> QED
        BY <1>1, <1>2, <1>8, <2>0, <4>1, UpdateCanonical
    <3>3. CASE r.len = 1 /\ r.op # "xzero"
      <4>1. SparseAdd(o, e) =
              Updated(o, (S \ {r}) \cup {Val(e.idx, 1, e.pat)}, o.size, o.tail, at)
        BY <1>8, <2>0, <2>4, <3>3 DEF SparseAdd
      <4>2. SparseAdd(o, e) = Updated(o, T, o.size, o.tail, at)
        BY <1>2, <2>1, <3>3, <4>1, UpdateIsSplit
      <4>3. delta = 0
        BY <1>2, <2>1, <3>3, UpdateKeepsLength
      <4>4. Sized(o) => IsFiniteSet(T) /\ o.size = HdrSize + StreamBytes(T)
        BY <1>1, <3>6, <4>3
      <4>5. Small(o) => o.size <= SparseMaxBytes
        BY DEF Small
      <4>6. Canon(o) => Canonical(MergeScan(T, o.size, at).runs)
        BY <1>1, <3>7
      <4> HIDE DEF T
      <4> QED
        BY <1>1, <3>1, <3>2, <4>2, <4>4, <4>5, <4>6, UpdatedFacts
    <3>4. CASE ~(r.len = 1 /\ r.op # "xzero") /\ Outgrows(o, delta)
      <4>1. SparseAdd(o, e) = PromoteAdd(o, e)
        BY <1>8, <2>0, <2>4, <3>4 DEF SparseAdd
      <4> QED
        BY <3>1, <4>1, PromoteAddFacts
    <3>5. CASE ~(r.len = 1 /\ r.op # "xzero") /\ ~Outgrows(o, delta)
      <4>1. SparseAdd(o, e) = Updated(o, T, o.size + delta, 0, at)
        BY <1>8, <2>0, <2>4, <3>5 DEF SparseAdd
      <4>2. o.size + delta \in Int /\ 0 \in 0 .. SparseValMaxValue
        BY <1>1, DeltaLenTyped, SparseAssumption
      <4>3. Small(o) => o.size + delta <= SparseMaxBytes
        <5>1. Small(o) => o.size <= SparseMaxBytes
          BY DEF Small
        <5>2. delta > 0 => ~(o.size + delta > SparseMaxBytes)
          BY <3>5 DEF Outgrows
        <5>3. delta \in Int /\ SparseMaxBytes \in Int
          BY DeltaLenTyped, ObjectAssumption
        <5> HIDE DEF delta
        <5> QED
          BY <1>1, <5>1, <5>2, <5>3
      <4>4. Canon(o) => Canonical(MergeScan(T, o.size + delta, at).runs)
        BY <3>7, <4>2
      <4> HIDE DEF T, delta
      <4> QED
        BY <3>1, <3>2, <3>6, <4>1, <4>2, <4>3, <4>4, UpdatedFacts
    <3> QED
      BY <3>3, <3>4, <3>5
  <2> QED
    BY <2>3, <2>4
<1> QED
  BY <1>2, <1>5, <1>6, <1>7, <1>8, SparseAssumption

LEMMA HllAddFacts ==
  ASSUME NEW o, ObjectOK(o), IsHLLObject(o), NEW e \in Elements
  PROVE  AddFacts(o, e, HllAdd(o, e))
<1>1. CASE o.enc = "dense"
  <2>1. /\ o = Dense(o.regs, o.card) /\ o.regs \in RegArray
        /\ o.card \in CardValue
    BY <1>1, ObjectCases, NullFields
  <2>2. HllAdd(o, e) = DenseAdd(o, e)
    BY <1>1 DEF HllAdd
  <2> QED
    BY <2>1, <2>2, DenseAddFacts
<1>2. CASE o.enc = "sparse"
  BY <1>2, SparseAddFacts DEF HllAdd
<1> QED
  BY <1>1, <1>2 DEF IsHLLObject

-----------------------------------------------------------------------------
(* The other operations on an object.                                      *)

\* A valid cache is the estimate of the registers.
CacheRight(o) ==
  Readable(o) /\ o.card # Invalid => o.card = Estimate(RegsOf(o))

Good(o) == ObjectOK(o) /\ CacheRight(o)

LEMMA CardSet ==
  ASSUME NEW o, ObjectOK(o), IsHLLObject(o), NEW c \in CardValue
  PROVE  LET n == [o EXCEPT !.card = c]
         IN  /\ ObjectOK(n) /\ IsHLLObject(n) /\ n.card = c
             /\ RegsOf(n) = RegsOf(o)
             /\ Readable(n) <=> Readable(o)
<1> DEFINE n == [o EXCEPT !.card = c]
<1>1. CASE o.enc = "dense"
  <2>1. PICK regs, card : o = Dense(regs, card) /\ regs \in RegArray
    BY <1>1, ObjectCases, NullFields
  <2>2. n = Dense(regs, c)
    BY <2>1 DEF Dense
  <2>3. o.regs = regs
    BY <2>1, DenseFields
  <2> HIDE DEF n
  <2>4. /\ ObjectOK(n) /\ IsHLLObject(n) /\ n.card = c
        /\ RegsOf(n) = regs /\ Readable(n)
    BY <2>1, <2>2, DenseObject
  <2>5. Readable(o) /\ RegsOf(o) = regs
    BY <1>1, <2>3 DEF Readable, RegsOf
  <2> QED
    BY <2>4, <2>5 DEF n
<1>2. CASE o.enc = "sparse"
  <2>1. PICK runs, size, tail, card :
           /\ o = Sparse(runs, size, tail, card) /\ StreamOK(runs)
           /\ size \in Int /\ tail \in 0 .. SparseValMaxValue
    BY <1>2, ObjectCases, NullFields
  <2>2. n = Sparse(runs, size, tail, c)
    BY <2>1 DEF Sparse
  <2>3. o.runs = runs
    BY <2>1, SparseFields
  <2> HIDE DEF n
  <2>4. /\ ObjectOK(n) /\ IsHLLObject(n) /\ n.card = c
        /\ RegsOf(n) = Values(runs) 
        /\ Readable(n) <=> Complete(runs)
    BY <2>1, <2>2, SparseObject
  <2>5. RegsOf(o) = Values(runs)
    BY <1>2, <2>3 DEF RegsOf
  <2>6. Readable(o) <=> Complete(runs)
    BY <1>2, <2>3 DEF Readable
  <2> QED
    BY <2>4, <2>5, <2>6 DEF n
<1> QED
  BY <1>1, <1>2 DEF IsHLLObject

\* Invalidating the cache makes any object good.
LEMMA Invalidated ==
  ASSUME NEW o, ObjectOK(o), IsHLLObject(o)
  PROVE  Good(InvalidateCache(o)) /\ IsHLLObject(InvalidateCache(o))
<1>1. Invalid \in CardValue
  BY DEF CardValue
<1> QED
  BY <1>1, CardSet DEF InvalidateCache, Good, CacheRight

\* hllRaw copies the string without the byte after it.
LEMMA TailDropped ==
  ASSUME NEW o, Good(o), IsHLLObject(o)
  PROVE  Good([o EXCEPT !.tail = 0])
<1> DEFINE n == [o EXCEPT !.tail = 0]
<1>1. CASE o.enc = "dense"
  <2>1. PICK regs, card : o = Dense(regs, card)
    BY <1>1, ObjectCases, NullFields DEF Good
  <2>2. n = o
    BY <2>1 DEF Dense
  <2> QED
    BY <2>2
<1>2. CASE o.enc = "sparse"
  <2>1. PICK runs, size, tail, card :
           /\ o = Sparse(runs, size, tail, card) /\ StreamOK(runs)
           /\ size \in Int /\ tail \in 0 .. SparseValMaxValue /\ card \in CardValue
    BY <1>2, ObjectCases, NullFields DEF Good
  <2>2. n = Sparse(runs, size, 0, card)
    BY <2>1 DEF Sparse
  <2>3. 0 \in 0 .. SparseValMaxValue
    BY SparseAssumption
  <2> HIDE DEF n
  <2>4. /\ ObjectOK(n) /\ n.card = card /\ RegsOf(n) = Values(runs)
        /\ Readable(n) <=> Complete(runs)
    BY <2>1, <2>2, <2>3, SparseObject
  <2>5. /\ o.card = card /\ RegsOf(o) = Values(runs)
        /\ Readable(o) <=> Complete(runs)
    BY <2>1, SparseObject
  <2> QED
    BY <2>4, <2>5 DEF Good, CacheRight, n
<1> QED
  BY <1>1, <1>2 DEF IsHLLObject

LEMMA NullGood == Good(Null) /\ CacheRight(Junk)
<1>1. ~Readable(Null) /\ ~Readable(Junk)
  BY NullFields DEF Readable
<1>2. ObjectOK(Null)
  BY DEF ObjectOK
<1> QED
  BY <1>1, <1>2 DEF Good, CacheRight

\* hllCreate's one XZERO is a complete stream of zeroes.
LEMMA CreatedGood ==
  /\ Good(Created) /\ IsHLLObject(Created)
  /\ Readable(Created) /\ RegsOf(Created) = ZeroRegs
<1> DEFINE x == XZero(0, Registers)
<1>1. RunOK(x) /\ x.first = 0 /\ x.val = 0
  BY SparseAssumption DEF XZero, RunOK, End, Index
<1>2. \A i \in Index : Covers(x, i)
  BY SparseAssumption DEF XZero, Covers, End, Index
<1>3. EmptyStream = {x}
  BY DEF EmptyStream
<1> HIDE DEF x
<1>4. StreamOK(EmptyStream)
  <2>1. 0 .. 0 - 1 = {}
    OBVIOUS
  <2> QED
    BY <1>1, <1>3, <2>1 DEF StreamOK
<1>5. Values(EmptyStream) = ZeroRegs
  <2>1. \A i \in Index : Values(EmptyStream)[i] = 0
    BY <1>1, <1>2, <1>3, <1>4, ValuesOf
  <2> QED
    BY <2>1 DEF Values, ZeroRegs
<1>6. /\ HdrSize + 2 \in Int /\ 0 \in 0 .. SparseValMaxValue /\ 0 \in CardValue
  BY ObjectAssumption, SparseAssumption DEF CardValue
<1>7. /\ ObjectOK(Created) /\ IsHLLObject(Created) /\ Created.card = 0
      /\ RegsOf(Created) = Values(EmptyStream)
      /\ Readable(Created) <=> Complete(EmptyStream)
  BY <1>4, <1>6, SparseObject DEF Created
<1>8. Complete(EmptyStream)
  BY <1>2, <1>3 DEF Complete, Reaches
<1> QED
  BY <1>5, <1>7, <1>8, EstimateAssumption DEF Good, CacheRight

LEMMA DensifiedGood ==
  ASSUME NEW o, Good(o), Readable(o)
  PROVE  Good(SparseToDense(o)) /\ IsHLLObject(SparseToDense(o))
<1>1. CASE o.enc = "dense"
  BY <1>1 DEF SparseToDense, IsHLLObject
<1>2. CASE o.enc = "sparse"
  <2>1. /\ o = Sparse(o.runs, o.size, o.tail, o.card) /\ StreamOK(o.runs)
        /\ o.card \in CardValue
    BY <1>2, ObjectCases DEF Good
  <2>2. SparseToDense(o) = Dense(Values(o.runs), o.card)
    BY <1>2 DEF SparseToDense
  <2>3. RegsOf(o) = Values(o.runs) /\ Values(o.runs) \in RegArray
    BY <1>2, <2>1, ValuesTyped DEF RegsOf
  <2>4. o.card # Invalid => o.card = Estimate(RegsOf(o))
    BY DEF Good, CacheRight
  <2> QED
    BY <2>1, <2>2, <2>3, <2>4, DenseObject DEF Good, CacheRight
<1> QED
  BY <1>1, <1>2 DEF Readable

\* A stream cut short before its last opcode can be decoded but never reads as
\* complete.
LEMMA CutStream ==
  ASSUME NEW S, StreamOK(S), NEW r \in S, \A s \in S : s.first <= r.first
  PROVE  StreamOK(S \ {r}) /\ ~Complete(S \ {r})
<1> DEFINE T == S \ {r}
<1>1. \A s \in S : /\ RunOK(s) /\ s.first \in Int /\ s.len \in Int
                   /\ 0 <= s.first /\ s.first \in Index /\ s.len > 0
  BY SparseAssumption DEF StreamOK, RunOK, Index
<1>2. ASSUME NEW s \in T, NEW i \in 0 .. s.first - 1 PROVE Reaches(T, i)
  <2>1. PICK t \in S : Covers(t, i)
    BY <1>2 DEF StreamOK, Reaches
  <2>2. i < s.first /\ i \in Int /\ s.first <= r.first
    BY <1>1
  <2>3. t # r
    BY <1>1, <2>1, <2>2 DEF Covers
  <2> QED
    BY <2>1, <2>3 DEF Reaches
<1>3. StreamOK(T)
  BY <1>2 DEF StreamOK
<1>4. r.first \in Index /\ r.first \in Int /\ Covers(r, r.first)
  BY <1>1 DEF Covers, End
<1>5. ~Reaches(T, r.first)
  <2>1. ASSUME NEW t \in T, Covers(t, r.first) PROVE FALSE
    <3>1. RunAt(S, r.first) = t /\ RunAt(S, r.first) = r
      BY <1>4, <2>1, RunAtOnly
    <3> QED
      BY <3>1
  <2> QED
    BY <2>1 DEF Reaches
<1> QED
  BY <1>3, <1>4, <1>5 DEF Complete

\* What hllMerge accumulates are registers.
LEMMA MergedRegsTyped ==
  ASSUME \A h \in Handle : ObjectOK(objs[h]), NEW hs \in ArgLists
  PROVE  MergedRegs(hs) \in RegArray
<1>1. ASSUME NEW j \in DOMAIN hs PROVE hs[j] \in Handle
  BY DEF ArgLists
<1>2. ASSUME NEW i \in Index
      PROVE  Max({0} \cup {RegsOf(objs[hs[j]])[i] : j \in DOMAIN hs}) \in RegValue
  <2> DEFINE T == {0} \cup {RegsOf(objs[hs[j]])[i] : j \in DOMAIN hs}
  <2>1. ASSUME NEW j \in DOMAIN hs PROVE RegsOf(objs[hs[j]])[i] \in 0 .. RegisterMax
    <3>1. RegsOf(objs[hs[j]]) \in RegArray
      BY <1>1, RegsOfTyped
    <3> QED
      BY <3>1 DEF RegArray, RegValue
  <2>2. 0 \in 0 .. RegisterMax /\ RegisterMax \in Nat
    BY ObjectAssumption
  <2>3. T \in SUBSET (0 .. RegisterMax) /\ T # {}
    BY <2>1, <2>2
  <2> HIDE DEF T
  <2>4. Max(T) \in T
    BY <2>2, <2>3, MaxOfBounded
  <2> QED
    BY <2>3, <2>4 DEF RegValue, T
<1> QED
  BY <1>2 DEF MergedRegs, RegArray

-----------------------------------------------------------------------------
(* The inductive invariant.  The cache may be stale in one place only: in   *)
(* the object of a pfAddMany that has changed a register and has not        *)
(* reached its end.                                                         *)

Stale(h) == call.busy /\ call.h = h /\ call.updated

StoredOK == (stored = Junk \/ ObjectOK(stored)) /\ CacheRight(stored)
CallOK ==
  \/ call = Idle
  \/ /\ call \in [busy : {TRUE}, h : Handle, left : 0 .. MaxBatch,
                  updated : BOOLEAN]
     /\ IsHLLObject(objs[call.h])
RetOK == ret.val \in Nat \cup {ERR}

IInv ==
  /\ objs = [h \in Handle |-> objs[h]]
  /\ \A h \in Handle : ObjectOK(objs[h]) /\ (CacheRight(objs[h]) \/ Stale(h))
  /\ StoredOK
  /\ CallOK
  /\ RetOK

LEMMA CallFields ==
  /\ ~Idle.busy
  /\ \A h, left, updated :
       /\ Busy(h, left, updated).busy /\ Busy(h, left, updated).h = h
       /\ Busy(h, left, updated).left = left
       /\ Busy(h, left, updated).updated = updated
  BY DEF Idle, Busy

LEMMA ReplyFields ==
  /\ \A op, on, val : Reply(op, on, val).val = val
  /\ Silent.val = OK
  BY DEF Reply, Silent

LEMMA InitInv == Init => IInv
<1> SUFFICES ASSUME Init PROVE IInv
  OBVIOUS
<1>1. objs = [h \in Handle |-> Null] /\ stored = Null /\ call = Idle /\ ret = Silent
  BY DEF Init
<1>2. \A h \in Handle : Good(objs[h])
  BY <1>1, NullGood
<1>3. RetOK
  BY <1>1, ReplyFields DEF RetOK, OK
<1>4. StoredOK
  BY <1>1, NullGood DEF StoredOK, Good
<1> QED
  BY <1>1, <1>2, <1>3, <1>4 DEF IInv, CallOK, Good

\* Between calls every cache is right.
LEMMA Quiet ==
  ASSUME IInv, Ready
  PROVE  call = Idle /\ \A h \in Handle : Good(objs[h])
<1>1. ~call.busy
  BY DEF Ready
<1>2. call = Idle
  BY <1>1 DEF IInv, CallOK
<1> QED
  BY <1>1, <1>2 DEF IInv, Stale, Good

\* A call that ends at once replaces at most one object, by a good one.
LEMMA QuietStep ==
  ASSUME IInv, Ready, call' = call, StoredOK', RetOK',
         \/ objs' = objs
         \/ \E h \in Handle : \E x : Good(x) /\ objs' = [objs EXCEPT ![h] = x]
  PROVE  IInv'
<1>1. call = Idle /\ \A h \in Handle : Good(objs[h])
  BY Quiet
<1>2. objs = [h \in Handle |-> objs[h]]
  BY DEF IInv
<1>3. objs' = [h \in Handle |-> objs'[h]] /\ \A h \in Handle : Good(objs'[h])
  <2>1. CASE objs' = objs
    BY <1>1, <1>2, <2>1
  <2>2. CASE \E h \in Handle : \E x : Good(x) /\ objs' = [objs EXCEPT ![h] = x]
    <3>1. PICK h \in Handle : \E x : Good(x) /\ objs' = [objs EXCEPT ![h] = x]
      BY <2>2
    <3>2. PICK x : Good(x) /\ objs' = [objs EXCEPT ![h] = x]
      BY <3>1
    <3> QED
      BY <1>1, <1>2, <3>2
  <2> QED
    BY <2>1, <2>2
<1>4. \A h \in Handle : ObjectOK(objs'[h]) /\ CacheRight(objs'[h])
  BY <1>3 DEF Good
<1>5. CallOK'
  BY <1>1 DEF CallOK
<1> QED
  BY <1>3, <1>4, <1>5 DEF IInv

\* One lemma per action.

LEMMA CreateInv == ASSUME IInv, NEW h \in Handle, Create(h) PROVE IInv'
<1>1. Ready /\ call' = call /\ objs' = [objs EXCEPT ![h] = Created]
  BY DEF Create
<1>2. StoredOK' /\ RetOK'
  BY ReplyFields DEF IInv, Create, StoredOK, RetOK, OK, ObjectOK, CacheRight
<1> QED
  BY <1>1, <1>2, CreatedGood, QuietStep

LEMMA FreeInv == ASSUME IInv, NEW h \in Handle, Free(h) PROVE IInv'
<1>1. Ready /\ call' = call /\ objs' = [objs EXCEPT ![h] = Null]
  BY DEF Free
<1>2. StoredOK' /\ RetOK'
  BY ReplyFields DEF IInv, Free, StoredOK, RetOK, OK, ObjectOK, CacheRight
<1> QED
  BY <1>1, <1>2, NullGood, QuietStep

LEMMA PfAddInv ==
  ASSUME IInv, NEW h \in Handle, NEW e \in Elements, PfAdd(h, e)
  PROVE  IInv'
<1> DEFINE o == objs[h]
           a == HllAdd(o, e)
<1>1. Ready /\ call' = call /\ stored' = stored
  BY DEF PfAdd
<1>2. StoredOK'
  BY <1>1 DEF IInv, StoredOK
<1>3. Good(o) /\ ObjectOK(o)
  BY <1>1, Quiet DEF Good
<1>4. CASE ~IsHLLObject(o)
  <2>1. objs' = objs /\ ret' = Reply("add", h, ERR)
    BY <1>4 DEF PfAdd
  <2>2. RetOK'
    BY <2>1, ReplyFields DEF RetOK
  <2> QED
    BY <1>1, <1>2, <2>1, <2>2, QuietStep
<1>5. CASE IsHLLObject(o)
  <2>1. AddFacts(o, e, a)
    BY <1>3, <1>5, HllAddFacts
  <2>2. /\ ret' = Reply("add", h, a.val)
        /\ objs' = [objs EXCEPT ![h] = IF a.val = 1 THEN InvalidateCache(a.obj)
                                                    ELSE a.obj]
    BY <1>5 DEF PfAdd
  <2> HIDE DEF a
  <2>3. RetOK'
    BY <2>1, <2>2, ReplyFields DEF RetOK, AddFacts
  <2>4. CASE a.val = 1
    <3>1. Good(InvalidateCache(a.obj))
      BY <2>1, Invalidated DEF AddFacts
    <3>2. objs' = [objs EXCEPT ![h] = InvalidateCache(a.obj)]
      BY <2>2, <2>4
    <3> QED
      BY <1>1, <1>2, <2>3, <3>1, <3>2, QuietStep
  <2>5. CASE a.val # 1
    <3>1. a.obj = o
      BY <2>1, <2>5 DEF AddFacts
    <3>2. objs' = [objs EXCEPT ![h] = o]
      BY <2>2, <2>5, <3>1
    <3> QED
      BY <1>1, <1>2, <1>3, <2>3, <3>2, QuietStep
  <2> QED
    BY <2>4, <2>5
<1> QED
  BY <1>4, <1>5

LEMMA AddManyBeginInv ==
  ASSUME IInv, NEW h \in Handle, NEW n \in 0 .. MaxBatch, AddManyBegin(h, n)
  PROVE  IInv'
<1>1. Ready /\ objs' = objs /\ stored' = stored
  BY DEF AddManyBegin
<1>2. StoredOK' /\ objs' = [g \in Handle |-> objs'[g]]
  BY <1>1 DEF IInv, StoredOK
<1>3. \A g \in Handle : Good(objs'[g])
  BY <1>1, Quiet
<1>4. call = Idle
  BY <1>1, Quiet
<1>5. CASE IsHLLObject(objs[h])
  <2>1. call' = Busy(h, n, FALSE) /\ ret' = Silent
    BY <1>5 DEF AddManyBegin
  <2>2. RetOK'
    BY <2>1, ReplyFields DEF RetOK, OK
  <2>3. CallOK'
    BY <1>1, <1>5, <2>1, CallFields DEF CallOK, Busy
  <2> QED
    BY <1>2, <1>3, <2>2, <2>3 DEF IInv, Good
<1>6. CASE ~IsHLLObject(objs[h])
  <2>1. call' = call /\ ret' = Reply("addmany", h, ERR)
    BY <1>6 DEF AddManyBegin
  <2>2. RetOK' /\ CallOK'
    BY <1>4, <2>1, ReplyFields DEF RetOK, CallOK
  <2> QED
    BY <1>2, <1>3, <2>2 DEF IInv, Good
<1> QED
  BY <1>5, <1>6

LEMMA AddManyStepInv ==
  ASSUME IInv, NEW e \in Elements, AddManyStep(e)
  PROVE  IInv'
<1>1. call.busy /\ call.left > 0 /\ stored' = stored
  BY DEF AddManyStep
<1>2. StoredOK'
  BY <1>1 DEF IInv, StoredOK
<1>3. /\ call \in [busy : {TRUE}, h : Handle, left : 0 .. MaxBatch, updated : BOOLEAN]
      /\ IsHLLObject(objs[call.h])
  BY <1>1, CallFields DEF IInv, CallOK
<1>4. PICK h \in Handle : h = call.h
  BY <1>3
<1> DEFINE o == objs[h]
           a == HllAdd(o, e)
           u == call.updated \/ a.val = 1
<1>5. AddFacts(o, e, a) /\ ObjectOK(o)
  BY <1>3, <1>4, HllAddFacts DEF IInv
<1>6. /\ objs' = [objs EXCEPT ![h] = a.obj]
      /\ a.val \in {0, 1} => ret' = ret /\ call' = Busy(h, call.left - 1, u)
      /\ ~(a.val \in {0, 1}) => call' = Idle /\ ret' = Reply("addmany", h, a.val)
  BY <1>4 DEF AddManyStep
<1>7. u \in BOOLEAN /\ (a.val = 1 => u) /\ (call.updated => u)
  BY <1>3
<1> HIDE DEF a, u
<1>8. /\ ObjectOK(a.obj) /\ IsHLLObject(a.obj) /\ a.val \in {0, 1, ERR}
      /\ a.val # 1 => a.obj = o
      /\ a.val = ERR => ~Readable(o)
  BY <1>5 DEF AddFacts
<1>9. /\ objs' = [g \in Handle |-> objs'[g]]
      /\ objs'[h] = a.obj
      /\ \A g \in Handle : g # h => objs'[g] = objs[g]
  BY <1>6 DEF IInv
<1>10. \A g \in Handle : ObjectOK(objs'[g]) /\ (g # h => CacheRight(objs'[g]))
  BY <1>4, <1>8, <1>9 DEF IInv, Stale
<1>11. CASE a.val \in {0, 1}
  <2>1. RetOK'
    BY <1>6, <1>11 DEF IInv, RetOK
  <2>2. call.left - 1 \in 0 .. MaxBatch
    BY <1>1, <1>3, ObjectAssumption
  <2>3. call' = Busy(h, call.left - 1, u)
    BY <1>6, <1>11
  <2>4. call'.busy /\ call'.h = h /\ call'.updated = u
    BY <2>3, CallFields
  <2>5. call' \in [busy : {TRUE}, h : Handle, left : 0 .. MaxBatch, updated : BOOLEAN]
    BY <1>7, <2>2, <2>3 DEF Busy
  <2>6. CallOK'
    BY <1>8, <1>9, <2>4, <2>5 DEF CallOK
  <2>7. CacheRight(objs'[h]) \/ (call'.busy /\ call'.h = h /\ call'.updated)
    <3>1. CASE a.val = 1
      BY <1>7, <2>4, <3>1
    <3>2. CASE a.val # 1
      <4>1. objs'[h] = o
        BY <1>8, <1>9, <3>2
      <4>2. CacheRight(o) \/ call.updated
        BY DEF IInv, Stale
      <4> QED
        BY <1>7, <2>4, <4>1, <4>2
    <3> QED
      BY <3>1, <3>2
  <2>8. \A g \in Handle : /\ ObjectOK(objs'[g])
                          /\ \/ CacheRight(objs'[g])
                             \/ call'.busy /\ call'.h = g /\ call'.updated
    BY <1>10, <2>7
  <2> QED
    BY <1>2, <1>9, <2>1, <2>6, <2>8 DEF IInv, Stale
<1>12. CASE a.val = ERR
  <2>1. call' = Idle /\ ret' = Reply("addmany", h, ERR)
    BY <1>6, <1>12 DEF ERR
  <2>2. RetOK' /\ CallOK'
    BY <2>1, ReplyFields DEF RetOK, CallOK
  <2>3. CacheRight(objs'[h])
    BY <1>8, <1>9, <1>12 DEF CacheRight, ERR
  <2>4. \A g \in Handle : ObjectOK(objs'[g]) /\ CacheRight(objs'[g])
    BY <1>10, <2>3
  <2> QED
    BY <1>2, <1>9, <2>2, <2>4 DEF IInv
<1> QED
  BY <1>8, <1>11, <1>12

LEMMA AddManyEndInv == ASSUME IInv, AddManyEnd PROVE IInv'
<1>1. /\ call.busy /\ stored' = stored /\ call' = Idle
      /\ ret' = Reply("addmany", call.h, IF call.updated THEN 1 ELSE 0)
  BY DEF AddManyEnd
<1>2. StoredOK' /\ RetOK' /\ CallOK'
  BY <1>1, ReplyFields DEF IInv, StoredOK, RetOK, CallOK
<1>3. IsHLLObject(objs[call.h]) /\ call.h \in Handle
  BY <1>1, CallFields DEF IInv, CallOK
<1>4. PICK h \in Handle : h = call.h /\ IsHLLObject(objs[h])
  BY <1>3
<1>5. CASE call.updated
  <2>1. objs' = [objs EXCEPT ![h] = InvalidateCache(objs[h])]
    BY <1>4, <1>5 DEF AddManyEnd
  <2>2. Good(InvalidateCache(objs[h]))
    BY <1>4, Invalidated DEF IInv
  <2>3. /\ objs' = [g \in Handle |-> objs'[g]]
        /\ objs'[h] = InvalidateCache(objs[h])
        /\ \A g \in Handle : g # h => objs'[g] = objs[g]
    BY <2>1 DEF IInv
  <2>4. \A g \in Handle : ObjectOK(objs'[g]) /\ CacheRight(objs'[g])
    BY <1>4, <2>2, <2>3 DEF IInv, Stale, Good
  <2> QED
    BY <1>2, <2>3, <2>4 DEF IInv
<1>6. CASE ~call.updated
  <2>1. objs' = objs
    BY <1>6 DEF AddManyEnd
  <2>2. \A g \in Handle : ObjectOK(objs'[g]) /\ CacheRight(objs'[g])
    BY <1>6, <2>1 DEF IInv, Stale
  <2>3. objs' = [g \in Handle |-> objs'[g]]
    BY <2>1 DEF IInv
  <2> QED
    BY <1>2, <2>2, <2>3 DEF IInv
<1> QED
  BY <1>5, <1>6

\* The body of pfCount caches the estimate of the registers.
LEMMA CountOneInv ==
  ASSUME IInv, Ready, NEW op, NEW h \in Handle, CountOne(op, h)
  PROVE  IInv'
<1> DEFINE o == objs[h]
           n == Estimate(RegsOf(o))
<1>1. call' = call /\ stored' = stored
  BY DEF CountOne
<1>2. StoredOK'
  BY <1>1 DEF IInv, StoredOK
<1>3. Good(o) /\ ObjectOK(o) /\ n \in Nat
  BY Quiet, RegsOfTyped DEF Good
<1>4. CASE ~IsHLLObject(o)
  <2>1. objs' = objs /\ ret' = Reply(op, h, ERR)
    BY <1>4 DEF CountOne
  <2> QED
    BY <1>1, <1>2, <2>1, QuietStep, ReplyFields DEF RetOK
<1>5. CASE IsHLLObject(o) /\ o.card # Invalid
  <2>1. objs' = objs /\ ret' = Reply(op, h, o.card)
    BY <1>5 DEF CountOne
  <2>2. o.card \in Nat
    BY <1>3, <1>5, ObjectCases DEF CardValue, IsHLLObject
  <2>3. RetOK'
    BY <2>1, <2>2, ReplyFields DEF RetOK
  <2> QED
    BY <1>1, <1>2, <2>1, <2>3, QuietStep
<1>6. CASE IsHLLObject(o) /\ ~(o.card # Invalid) /\ ~Readable(o)
  <2>1. objs' = objs /\ ret' = Reply(op, h, ERR)
    BY <1>6 DEF CountOne
  <2> QED
    BY <1>1, <1>2, <2>1, QuietStep, ReplyFields DEF RetOK
<1>7. CASE IsHLLObject(o) /\ ~(o.card # Invalid) /\ Readable(o)
  <2> DEFINE x == [o EXCEPT !.card = n]
  <2>1. objs' = [objs EXCEPT ![h].card = n] /\ ret' = Reply(op, h, n)
    BY <1>7 DEF CountOne
  <2>2. objs' = [objs EXCEPT ![h] = x]
    BY <2>1
  <2>3. n \in CardValue
    BY <1>3 DEF CardValue
  <2>4. RetOK'
    BY <1>3, <2>1, ReplyFields DEF RetOK
  <2> HIDE DEF n
  <2>5. ObjectOK(x) /\ x.card = n /\ RegsOf(x) = RegsOf(o)
    BY <1>3, <1>7, <2>3, CardSet
  <2> HIDE DEF x
  <2>6. Good(x)
    BY <2>5 DEF Good, CacheRight, n
  <2> QED
    BY <1>1, <1>2, <2>2, <2>4, <2>6, QuietStep
<1> QED
  BY <1>4, <1>5, <1>6, <1>7

LEMMA PfCountMergedInv ==
  ASSUME IInv, NEW hs \in ArgLists, PfCountMerged(hs)
  PROVE  IInv'
<1>1. Ready
  BY DEF PfCountMerged
<1>2. CASE DOMAIN hs = {1}
  <2>1. hs[1] \in Handle
    BY <1>2 DEF ArgLists
  <2>2. CountOne("countmerged", hs[1])
    BY <1>2 DEF PfCountMerged
  <2> QED
    BY <1>1, <2>1, <2>2, CountOneInv
<1>3. CASE DOMAIN hs # {1}
  <2>1. /\ objs' = objs /\ stored' = stored /\ call' = call
        /\ ret' = Reply("countmerged", hs,
                        IF AllReadable(hs) THEN Estimate(MergedRegs(hs)) ELSE ERR)
    BY <1>3 DEF PfCountMerged
  <2>2. MergedRegs(hs) \in RegArray
    BY MergedRegsTyped DEF IInv
  <2>3. Estimate(MergedRegs(hs)) \in Nat
    BY <2>2, EstimateAssumption
  <2>4. StoredOK'
    BY <2>1 DEF IInv, StoredOK
  <2>5. RetOK'
    BY <2>1, <2>3, ReplyFields DEF RetOK
  <2> QED
    BY <1>1, <2>1, <2>4, <2>5, QuietStep
<1> QED
  BY <1>2, <1>3

LEMMA PfMergeInv ==
  ASSUME IInv, NEW t \in Handle, NEW hs \in ArgLists, PfMerge(t, hs)
  PROVE  IInv'
<1>1. Ready /\ call' = call /\ stored' = stored
  BY DEF PfMerge
<1>2. StoredOK'
  BY <1>1 DEF IInv, StoredOK
<1> DEFINE ok == objs[t] # Null /\ AllReadable(hs) /\ Readable(objs[t])
           x  == Dense(MergedRegs(hs), Invalid)
<1>3. CASE ok
  <2>1. objs' = [objs EXCEPT ![t] = x] /\ ret' = Reply("merge", t, OK)
    BY <1>3 DEF PfMerge
  <2>2. MergedRegs(hs) \in RegArray /\ Invalid \in CardValue
    BY MergedRegsTyped DEF IInv, CardValue
  <2>3. Good(x)
    BY <2>2, DenseObject DEF Good, CacheRight
  <2>4. RetOK'
    BY <2>1, ReplyFields DEF RetOK, OK
  <2> QED
    BY <1>1, <1>2, <2>1, <2>3, <2>4, QuietStep
<1>4. CASE ~ok
  <2>1. objs' = objs /\ ret' = Reply("merge", t, ERR)
    BY <1>4 DEF PfMerge
  <2>2. RetOK'
    BY <2>1, ReplyFields DEF RetOK
  <2> QED
    BY <1>1, <1>2, <2>1, <2>2, QuietStep
<1> QED
  BY <1>3, <1>4

LEMMA PromoteInv == ASSUME IInv, NEW h \in Handle, Promote(h) PROVE IInv'
<1>1. Ready /\ call' = call /\ stored' = stored
  BY DEF Promote
<1>2. StoredOK' /\ RetOK'
  BY <1>1, ReplyFields DEF IInv, StoredOK, RetOK, Promote, OK
<1>3. CASE Readable(objs[h])
  <2>1. objs' = [objs EXCEPT ![h] = SparseToDense(objs[h])]
    BY <1>3 DEF Promote
  <2>2. Good(SparseToDense(objs[h]))
    BY <1>1, <1>3, Quiet, DensifiedGood
  <2> QED
    BY <1>1, <1>2, <2>1, <2>2, QuietStep
<1>4. CASE ~Readable(objs[h])
  BY <1>1, <1>2, <1>4, QuietStep DEF Promote
<1> QED
  BY <1>3, <1>4

LEMMA DumpInv == ASSUME IInv, NEW h \in Handle, Dump(h) PROVE IInv'
<1>1. /\ Ready /\ call' = call /\ objs' = objs /\ IsHLLObject(objs[h])
      /\ stored' = [objs[h] EXCEPT !.tail = 0] /\ ret' = Reply("dump", h, OK)
  BY DEF Dump
<1>2. Good(stored')
  BY <1>1, Quiet, TailDropped
<1>3. StoredOK' /\ RetOK'
  BY <1>1, <1>2, ReplyFields DEF StoredOK, RetOK, Good, OK
<1> QED
  BY <1>1, <1>3, QuietStep

LEMMA LoadInv == ASSUME IInv, NEW h \in Handle, Load(h) PROVE IInv'
<1>1. Ready /\ call' = call /\ stored' = stored
  BY DEF Load
<1>2. StoredOK' /\ RetOK'
  BY <1>1, ReplyFields DEF IInv, StoredOK, RetOK, Load, OK
<1>3. CASE IsHLLObject(stored)
  <2>1. objs' = [objs EXCEPT ![h] = stored]
    BY <1>3 DEF Load
  <2>2. stored # Junk
    BY <1>3, NullFields DEF IsHLLObject
  <2>3. Good(stored)
    BY <2>2 DEF IInv, StoredOK, Good
  <2> QED
    BY <1>1, <1>2, <2>1, <2>3, QuietStep
<1>4. CASE ~IsHLLObject(stored)
  BY <1>1, <1>2, <1>4, QuietStep DEF Load
<1> QED
  BY <1>3, <1>4

\* Damage leaves bytes that are refused or a stream that never reads as
\* complete.
LEMMA StorageDamageInv == ASSUME IInv, StorageDamage PROVE IInv'
<1>1. /\ Ready /\ call' = call /\ objs' = objs /\ ret' = Silent
      /\ IsHLLObject(stored)
  BY DEF StorageDamage
<1>2. RetOK'
  BY <1>1, ReplyFields DEF RetOK, OK
<1>3. CASE stored' = Junk
  BY <1>1, <1>2, <1>3, NullGood, QuietStep DEF StoredOK
<1>4. CASE \E r \in stored.runs :
             /\ \A s \in stored.runs : s.first <= r.first
             /\ stored' = Sparse(stored.runs \ {r}, stored.size - OpLen(r), 0,
                                 stored.card)
  <2>1. PICK r \in stored.runs :
             /\ \A s \in stored.runs : s.first <= r.first
             /\ stored' = Sparse(stored.runs \ {r}, stored.size - OpLen(r), 0,
                                 stored.card)
    BY <1>4
  <2>2. ObjectOK(stored)
    BY <1>1, NullFields DEF IInv, StoredOK, IsHLLObject
  <2>3. stored.enc # "dense"
    BY <2>1, <2>2, ObjectCases, DenseFields
  <2>4. StreamOK(stored.runs) /\ stored.size \in Int /\ stored.card \in CardValue
    BY <1>1, <2>2, <2>3, ObjectCases, NullFields DEF IsHLLObject
  <2>5. StreamOK(stored.runs \ {r}) /\ ~Complete(stored.runs \ {r})
    BY <2>1, <2>4, CutStream
  <2>6. stored.size - OpLen(r) \in Int /\ 0 \in 0 .. SparseValMaxValue
    BY <2>4, SparseAssumption DEF OpLen
  <2>7. ObjectOK(stored') /\ ~Readable(stored')
    BY <2>1, <2>4, <2>5, <2>6, SparseObject
  <2>8. StoredOK'
    BY <2>7 DEF StoredOK, CacheRight
  <2> QED
    BY <1>1, <1>2, <2>8, QuietStep
<1> QED
  BY <1>3, <1>4 DEF StorageDamage

LEMMA NextInv == IInv /\ [Next]_vars => IInv'
<1> SUFFICES ASSUME IInv, [Next]_vars PROVE IInv'
  OBVIOUS
<1>1. CASE UNCHANGED vars
  BY <1>1 DEF vars, IInv, Stale, StoredOK, CallOK, RetOK
<1>2. ASSUME NEW h \in Handle, Create(h) PROVE IInv'
  BY <1>2, CreateInv
<1>3. ASSUME NEW h \in Handle, Free(h) PROVE IInv'
  BY <1>3, FreeInv
<1>4. ASSUME NEW h \in Handle, PfCount(h) PROVE IInv'
  BY <1>4, CountOneInv DEF PfCount
<1>5. ASSUME NEW h \in Handle, Promote(h) PROVE IInv'
  BY <1>5, PromoteInv
<1>6. ASSUME NEW h \in Handle, Dump(h) PROVE IInv'
  BY <1>6, DumpInv
<1>7. ASSUME NEW h \in Handle, Load(h) PROVE IInv'
  BY <1>7, LoadInv
<1>8. ASSUME NEW h \in Handle, NEW e \in Elements, PfAdd(h, e) PROVE IInv'
  BY <1>8, PfAddInv
<1>9. ASSUME NEW h \in Handle, NEW n \in 0 .. MaxBatch, AddManyBegin(h, n)
      PROVE  IInv'
  BY <1>9, AddManyBeginInv
<1>10. ASSUME NEW h \in Handle, NEW hs \in ArgLists, PfMerge(h, hs) PROVE IInv'
  BY <1>10, PfMergeInv
<1>11. ASSUME NEW hs \in ArgLists, PfCountMerged(hs) PROVE IInv'
  BY <1>11, PfCountMergedInv
<1>12. ASSUME NEW e \in Elements, AddManyStep(e) PROVE IInv'
  BY <1>12, AddManyStepInv
<1>13. CASE AddManyEnd
  BY <1>13, AddManyEndInv
<1>14. CASE StorageDamage
  BY <1>14, StorageDamageInv
<1> QED
  BY <1>1, <1>2, <1>3, <1>4, <1>5, <1>6, <1>7, <1>8, <1>9, <1>10, <1>11, <1>12,
     <1>13, <1>14 DEF Next

-----------------------------------------------------------------------------
(* The theorems.                                                           *)

LEMMA Inductive == Spec => []IInv
  BY InitInv, NextInv, PTL DEF Spec

\* Every handle is NULL or points to a well-formed object in every reachable
\* state, whatever the client calls and whatever its storage loses.
THEOREM TypeCorrect == Spec => []TypeOK
<1>1. IInv => TypeOK
  <2> SUFFICES ASSUME IInv PROVE TypeOK
    OBVIOUS
  <2>1. ret.val \in Nat \cup {ERR, Abort}
    BY DEF IInv, RetOK
  <2> QED
    BY <2>1 DEF IInv, TypeOK, StoredOK, CallOK
<1> QED
  BY <1>1, Inductive, PTL

\* A valid cached cardinality is the estimate of the registers in every object
\* that pfAddMany is not at work on: what pfCount answers from the cache is
\* what it would compute.
THEOREM CacheAlwaysCoherent == Spec => []CacheCoherent
<1>1. IInv => CacheCoherent
  BY DEF IInv, CacheCoherent, CacheRight, Stale
<1> QED
  BY <1>1, Inductive, PTL

\* The redisAssert of hllSparseAdd never fails.
THEOREM NoAbort == Spec => []NeverAborts
<1>1. IInv => NeverAborts
  <2>1. Abort \notin Nat \cup {ERR}
    BY DEF Abort, ERR
  <2> QED
    BY <2>1 DEF IInv, RetOK, NeverAborts
<1> QED
  BY <1>1, Inductive, PTL

-----------------------------------------------------------------------------
(* What is kept of every object, and what a step may do to it.             *)

Whole(o) == Sized(o) /\ (o.enc = "sparse" => Complete(o.runs))

Kept(o) == Small(o) /\ Canon(o) /\ (~Lossy => Whole(o))

\* Nothing has been answered while pfAddMany runs.
SInv ==
  /\ \A h \in Handle : Kept(objs[h])
  /\ Kept(stored)
  /\ call.busy => ret = Silent

Grows(o, x) == \A i \in Index : RegsOf(x)[i] >= RegsOf(o)[i]

TameTo(o, x) ==
  \/ o = Null \/ x = Null
  \/ Readable(o) /\ Readable(x) /\ Grows(o, x)
  \/ ~Readable(o) /\ ~Readable(x) /\ Covered(x.runs) = Covered(o.runs)

Tame(h) ==
  \/ TameTo(objs[h], objs'[h])
  \/ /\ ret'.op = "merge" /\ ret'.on = h
     /\ Readable(objs[h]) /\ Readable(objs'[h])

Failure == ret'.val = ERR /\ ret'.op # "addmany" => objs' = objs

Report ==
  ret'.op = "add" /\ Readable(objs[ret'.on]) =>
    (ret'.val = 1 <=> RegsOf(objs'[ret'.on]) # RegsOf(objs[ret'.on]))

StepOK == SInv' /\ (\A h \in Handle : Tame(h)) /\ Failure /\ Report

LEMMA ReplyParts ==
  /\ \A op, on, val : /\ Reply(op, on, val).op = op /\ Reply(op, on, val).on = on
                      /\ Reply(op, on, val).val = val
  /\ Silent.op = "none" /\ Silent.val = OK
  BY DEF Reply, Silent

LEMMA NotSparseKept ==
  ASSUME NEW o, o.enc # "sparse"
  PROVE  Kept(o)
  BY DEF Kept, Small, Whole, Sized, Canon

LEMMA SameStringKept ==
  ASSUME NEW o, Kept(o), NEW x, x.enc = o.enc, x.runs = o.runs, x.size = o.size
  PROVE  Kept(x)
  BY DEF Kept, Small, Whole, Sized, Canon

LEMMA GrowsTyped ==
  ASSUME NEW o, ObjectOK(o)
  PROVE  \A i \in Index : RegsOf(o)[i] \in Int
  BY RegsOfTyped, ObjectAssumption DEF RegArray, RegValue

LEMMA SameTame ==
  ASSUME NEW o, ObjectOK(o), NEW x, RegsOf(x) = RegsOf(o),
         Readable(x) <=> Readable(o),
         ~Readable(o) => Covered(x.runs) = Covered(o.runs)
  PROVE  TameTo(o, x)
<1>1. Grows(o, x)
  BY GrowsTyped DEF Grows
<1> QED
  BY <1>1 DEF TameTo

\* The fields of an object that is changed in one of them.
LEMMA OtherFields ==
  ASSUME NEW o, ObjectOK(o), IsHLLObject(o), NEW c
  PROVE  LET x == [o EXCEPT !.card = c]
             y == [o EXCEPT !.tail = c]
         IN  /\ x.enc = o.enc /\ x.runs = o.runs /\ x.size = o.size
             /\ y.enc = o.enc /\ y.runs = o.runs /\ y.size = o.size
<1>1. CASE o.enc = "dense"
  <2>1. PICK regs, card : o = Dense(regs, card)
    BY <1>1, ObjectCases, NullFields
  <2> QED
    BY <2>1 DEF Dense
<1>2. CASE o.enc = "sparse"
  <2>1. PICK runs, size, tail, card : o = Sparse(runs, size, tail, card)
    BY <1>2, ObjectCases, NullFields
  <2> QED
    BY <2>1 DEF Sparse
<1> QED
  BY <1>1, <1>2 DEF IsHLLObject

\* A new cached cardinality, and the loss of it, are nothing to a client.
LEMMA CardTame ==
  ASSUME NEW o, ObjectOK(o), IsHLLObject(o), Kept(o), NEW c \in CardValue
  PROVE  LET x == [o EXCEPT !.card = c]
         IN  Kept(x) /\ TameTo(o, x) /\ RegsOf(x) = RegsOf(o)
<1> DEFINE x == [o EXCEPT !.card = c]
<1>1. /\ RegsOf(x) = RegsOf(o) /\ (Readable(x) <=> Readable(o))
  BY CardSet
<1>2. x.enc = o.enc /\ x.runs = o.runs /\ x.size = o.size
  BY OtherFields
<1> HIDE DEF x
<1>3. Kept(x) /\ TameTo(o, x)
  BY <1>1, <1>2, SameStringKept, SameTame
<1> QED
  BY <1>1, <1>3 DEF x

\* An element that was added, with or without the invalidation after it.
LEMMA AddTame ==
  ASSUME NEW o, ObjectOK(o), IsHLLObject(o), Kept(o), NEW e \in Elements,
         NEW a, AddFacts(o, e, a)
  PROVE  /\ Kept(a.obj) /\ TameTo(o, a.obj)
         /\ Readable(o) => (a.val = 1 <=> RegsOf(a.obj) # RegsOf(o))
<1>1. /\ ObjectOK(a.obj) /\ IsHLLObject(a.obj) /\ Small(a.obj) /\ Canon(a.obj)
      /\ Sized(o) => Sized(a.obj)
      /\ a.val \in {0, 1, ERR} /\ (a.val # 1 => a.obj = o)
  BY DEF AddFacts, Kept
<1>2. RegsOf(o) \in RegArray /\ e.idx \in Index /\ e.pat \in Int
  BY RegsOfTyped, ElementTyped
<1>3. \A i \in Index : RegsOf(o)[i] \in Int
  BY GrowsTyped
<1>4. CASE Readable(o)
  <2>1. /\ Readable(a.obj)
        /\ a.val = 1 => /\ e.pat > RegsOf(o)[e.idx]
                        /\ RegsOf(a.obj) = [RegsOf(o) EXCEPT ![e.idx] = e.pat]
    BY <1>4 DEF AddFacts
  <2>2. a.val = 1 => RegsOf(a.obj)[e.idx] = e.pat /\ e.pat # RegsOf(o)[e.idx]
    <3>1. RegsOf(o)[e.idx] \in Int
      BY <1>2, <1>3
    <3>2. ASSUME a.val = 1
          PROVE  RegsOf(a.obj)[e.idx] = e.pat /\ e.pat > RegsOf(o)[e.idx]
      BY <1>2, <2>1, <3>2 DEF RegArray
    <3> QED
      BY <1>2, <3>1, <3>2
  <2>3. Grows(o, a.obj)
    <3>1. CASE a.val = 1
      <4>1. /\ e.pat > RegsOf(o)[e.idx]
            /\ RegsOf(a.obj) = [RegsOf(o) EXCEPT ![e.idx] = e.pat]
        BY <2>1, <3>1
      <4>2. ASSUME NEW i \in Index PROVE RegsOf(a.obj)[i] >= RegsOf(o)[i]
        <5>1. RegsOf(a.obj)[i] = IF i = e.idx THEN e.pat ELSE RegsOf(o)[i]
          BY <1>2, <4>1 DEF RegArray
        <5>2. RegsOf(o)[i] \in Int
          BY <1>3
        <5> QED
          BY <1>2, <4>1, <5>1, <5>2
      <4> QED
        BY <4>2 DEF Grows
    <3>2. CASE a.val # 1
      BY <1>1, <1>3, <3>2 DEF Grows
    <3> QED
      BY <3>1, <3>2
  <2>4. TameTo(o, a.obj)
    BY <1>4, <2>1, <2>3 DEF TameTo
  <2>5. a.val = 1 <=> RegsOf(a.obj) # RegsOf(o)
    BY <1>1, <2>2
  <2>6. Whole(o) => Whole(a.obj)
    BY <1>1, <2>1 DEF Whole, Readable
  <2> QED
    BY <1>1, <2>4, <2>5, <2>6 DEF Kept
<1>5. CASE ~Readable(o)
  <2>1. ~Readable(a.obj) /\ Covered(a.obj.runs) = Covered(o.runs)
    BY <1>5 DEF AddFacts
  <2>2. TameTo(o, a.obj)
    BY <1>5, <2>1 DEF TameTo
  <2>3. ~Whole(o)
    BY <1>5 DEF Whole, Readable, IsHLLObject
  <2> QED
    BY <1>1, <1>5, <2>2, <2>3 DEF Kept
<1> QED
  BY <1>4, <1>5

\* The copy that hllRaw makes drops the byte after the last opcode, no more.
LEMMA TailUnseen ==
  ASSUME NEW o, ObjectOK(o), IsHLLObject(o)
  PROVE  LET x == [o EXCEPT !.tail = 0]
         IN  /\ RegsOf(x) = RegsOf(o) /\ (Readable(x) <=> Readable(o))
             /\ x.card = o.card /\ IsHLLObject(x)
<1> DEFINE x == [o EXCEPT !.tail = 0]
<1>1. x.enc = o.enc /\ x.runs = o.runs
  BY OtherFields
<1>2. x.card = o.card /\ x.regs = o.regs
  <2>1. CASE o.enc = "dense"
    <3>1. PICK regs, card : o = Dense(regs, card)
      BY <2>1, ObjectCases, NullFields
    <3> QED
      BY <3>1 DEF Dense
  <2>2. CASE o.enc = "sparse"
    <3>1. PICK runs, size, tail, card : o = Sparse(runs, size, tail, card)
      BY <2>2, ObjectCases, NullFields
    <3> QED
      BY <3>1 DEF Sparse
  <2> QED
    BY <2>1, <2>2 DEF IsHLLObject
<1> HIDE DEF x
<1>3. /\ RegsOf(x) = RegsOf(o) /\ (Readable(x) <=> Readable(o))
      /\ x.card = o.card /\ IsHLLObject(x)
  BY <1>1, <1>2 DEF RegsOf, Readable, IsHLLObject
<1> QED
  BY <1>3 DEF x

\* A conversion keeps the registers.
LEMMA DensifiedSame ==
  ASSUME NEW o, Readable(o)
  PROVE  /\ RegsOf(SparseToDense(o)) = RegsOf(o)
         /\ Readable(SparseToDense(o)) /\ IsHLLObject(SparseToDense(o))
<1>1. CASE o.enc = "dense"
  BY <1>1 DEF SparseToDense, IsHLLObject
<1>2. CASE o.enc # "dense"
  <2>1. o.enc = "sparse" /\ SparseToDense(o) = Dense(Values(o.runs), o.card)
    BY <1>2 DEF Readable, SparseToDense
  <2> QED
    BY <2>1, DenseFields DEF RegsOf, Readable, IsHLLObject
<1> QED
  BY <1>1, <1>2

\* Bytes that lost their last opcode are of an object that cannot be read any
\* more and carries the cached cardinality it had.
LEMMA DamagedString ==
  ASSUME IInv, StorageDamage
  PROVE  \/ stored' = Junk
         \/ /\ ObjectOK(stored') /\ stored' # Null /\ ~Readable(stored')
            /\ stored'.card = stored.card
<1>1. CASE \E r \in stored.runs :
             /\ \A s \in stored.runs : s.first <= r.first
             /\ stored' = Sparse(stored.runs \ {r}, stored.size - OpLen(r), 0,
                                stored.card)
  <2>1. PICK r \in stored.runs :
               /\ \A s \in stored.runs : s.first <= r.first
               /\ stored' = Sparse(stored.runs \ {r}, stored.size - OpLen(r), 0,
                                  stored.card)
    BY <1>1
  <2>2. ObjectOK(stored) /\ stored.enc = "sparse"
    <3>1. IsHLLObject(stored) /\ ObjectOK(stored)
      BY NullFields DEF StorageDamage, IInv, StoredOK, IsHLLObject
    <3> QED
      BY <2>1, <3>1, ObjectCases, DenseFields, NullFields DEF IsHLLObject
  <2>3. /\ StreamOK(stored.runs) /\ stored.size \in Int /\ stored.card \in CardValue
        /\ OpLen(r) \in Nat /\ 0 \in 0 .. SparseValMaxValue
    BY <2>2, ObjectCases, NullFields, SparseAssumption DEF OpLen
  <2>4. StreamOK(stored.runs \ {r}) /\ ~Complete(stored.runs \ {r})
    BY <2>1, <2>3, CutStream
  <2>5. stored.size - OpLen(r) \in Int
    BY <2>3
  <2> QED
    BY <2>1, <2>3, <2>4, <2>5, SparseObject, NullFields DEF IsHLLObject
<1> QED
  BY <1>1 DEF StorageDamage

LEMMA CreatedKept == Kept(Created)
<1> DEFINE x == XZero(0, Registers)
<1>1. /\ Created.enc = "sparse" /\ Created.runs = {x} /\ Created.size = HdrSize + 2
  BY SparseFields DEF Created, EmptyStream
<1>2. HdrSize + 2 <= SparseMaxBytes
  BY ObjectAssumption
<1>3. x.op = "xzero" /\ x.first = 0 /\ \A i \in Index : Covers(x, i)
  BY SparseAssumption DEF XZero, Covers, End, Index
<1>4. OpLen(x) = 2
  BY <1>3 DEF OpLen
<1>7. Canonical({x})
  BY <1>3, SparseAssumption DEF Canonical, Mergeable, XZero, End
<1> HIDE DEF x
<1>5. IsFiniteSet({x}) /\ StreamBytes({x}) = 2
  BY <1>4, BytesOfOne, FS_Singleton
<1>6. Complete({x})
  BY <1>3 DEF Complete, Reaches
<1> QED
  BY <1>1, <1>2, <1>5, <1>6, <1>7 DEF Kept, Small, Whole, Sized, Canon

-----------------------------------------------------------------------------
(* Steps.                                                                  *)

\* A step changes at most one object, to a kept one that it treats well.
LEMMA OneChange ==
  ASSUME IInv, SInv,
         \/ objs' = objs
         \/ \E h \in Handle : \E x : /\ objs' = [objs EXCEPT ![h] = x]
                                     /\ Kept(x) /\ TameTo(objs[h], x)
  PROVE  \A g \in Handle : Kept(objs'[g]) /\ TameTo(objs[g], objs'[g])
<1>1. \A g \in Handle : Kept(objs[g]) /\ TameTo(objs[g], objs[g])
  BY SameTame DEF IInv, SInv
<1>2. CASE objs' = objs
  BY <1>1, <1>2
<1>3. CASE \E h \in Handle : \E x : /\ objs' = [objs EXCEPT ![h] = x]
                                    /\ Kept(x) /\ TameTo(objs[h], x)
  <2>1. PICK h \in Handle : \E x : /\ objs' = [objs EXCEPT ![h] = x]
                                   /\ Kept(x) /\ TameTo(objs[h], x)
    BY <1>3
  <2>2. PICK x : /\ objs' = [objs EXCEPT ![h] = x]
                 /\ Kept(x) /\ TameTo(objs[h], x)
    BY <2>1
  <2>3. objs = [g \in Handle |-> objs[g]]
    BY DEF IInv
  <2> QED
    BY <1>1, <2>2, <2>3
<1> QED
  BY <1>2, <1>3

\* A call other than pfAdd that ends at once.
LEMMA QuietOK ==
  ASSUME IInv, SInv, ~call.busy, call' = call, Kept(stored'),
         NEW op, op # "add", NEW on, NEW val, ret' = Reply(op, on, val),
         \/ objs' = objs
         \/ /\ val # ERR
            /\ \E h \in Handle : \E x : /\ objs' = [objs EXCEPT ![h] = x]
                                        /\ Kept(x) /\ TameTo(objs[h], x)
  PROVE  StepOK
<1>1. \A g \in Handle : Kept(objs'[g]) /\ TameTo(objs[g], objs'[g])
  BY OneChange
<1>2. ret'.op = op /\ ret'.val = val
  BY ReplyParts
<1>3. SInv'
  BY <1>1 DEF SInv
<1> QED
  BY <1>1, <1>2, <1>3 DEF StepOK, Tame, Failure, Report

\* The answers of the calls are not errors.
LEMMA Codes == OK # ERR /\ \A n \in Nat : n # ERR
  BY DEF OK, ERR

\* One lemma per action.

LEMMA CreateOK ==
  ASSUME IInv, SInv, NEW h \in Handle, Create(h)
  PROVE  StepOK
<1>1. /\ ~call.busy /\ call' = call /\ stored' = stored /\ objs[h] = Null
      /\ objs' = [objs EXCEPT ![h] = Created] /\ ret' = Reply("create", h, OK)
  BY DEF Create, Ready
<1>2. Kept(stored') /\ TameTo(objs[h], Created)
  BY <1>1 DEF SInv, TameTo
<1> QED
  BY <1>1, <1>2, CreatedKept, Codes, QuietOK

LEMMA FreeOK ==
  ASSUME IInv, SInv, NEW h \in Handle, Free(h)
  PROVE  StepOK
<1>1. /\ ~call.busy /\ call' = call /\ stored' = stored
      /\ objs' = [objs EXCEPT ![h] = Null] /\ ret' = Reply("free", h, OK)
  BY DEF Free, Ready
<1>2. Kept(stored') /\ TameTo(objs[h], Null) /\ Kept(Null)
  BY <1>1, NullFields, NotSparseKept DEF SInv, TameTo
<1> QED
  BY <1>1, <1>2, Codes, QuietOK

\* What the cached cardinality becomes, for an object of the invariants.
LEMMA CacheChanged ==
  ASSUME IInv, SInv, NEW h \in Handle, IsHLLObject(objs[h]), NEW c \in CardValue
  PROVE  LET x == [objs[h] EXCEPT !.card = c]
         IN  Kept(x) /\ TameTo(objs[h], x)
  BY CardTame DEF IInv, SInv

LEMMA CountOneOK ==
  ASSUME IInv, SInv, ~call.busy, NEW h \in Handle,
         NEW op \in {"count", "countmerged"}, CountOne(op, h)
  PROVE  StepOK
<1> DEFINE o == objs[h]
           n == Estimate(RegsOf(o))
<1>1. call' = call /\ stored' = stored /\ op # "add"
  BY DEF CountOne
<1>2. Kept(stored')
  BY <1>1 DEF SInv
<1>3. n \in Nat /\ n \in CardValue
  BY RegsOfTyped DEF IInv, CardValue
<1>4. CASE ret' = Reply(op, h, ERR) /\ objs' = objs
  BY <1>1, <1>2, <1>4, QuietOK
<1>5. CASE ret' = Reply(op, h, o.card) /\ objs' = objs
  BY <1>1, <1>2, <1>5, QuietOK
<1>6. CASE /\ IsHLLObject(o) /\ ret' = Reply(op, h, n)
           /\ objs' = [objs EXCEPT ![h].card = n]
  <2>1. Kept([o EXCEPT !.card = n]) /\ TameTo(o, [o EXCEPT !.card = n])
    BY <1>3, <1>6, CacheChanged
  <2>2. objs' = [objs EXCEPT ![h] = [o EXCEPT !.card = n]]
    BY <1>6
  <2>3. n # ERR
    BY <1>3, Codes
  <2> QED
    BY <1>1, <1>2, <1>6, <2>1, <2>2, <2>3, QuietOK
<1> QED
  BY <1>4, <1>5, <1>6 DEF CountOne

LEMMA PfCountMergedOK ==
  ASSUME IInv, SInv, NEW hs \in ArgLists, PfCountMerged(hs)
  PROVE  StepOK
<1>1. ~call.busy
  BY DEF PfCountMerged, Ready
<1>2. CASE DOMAIN hs = {1}
  <2>1. hs[1] \in Handle
    BY <1>2 DEF ArgLists
  <2> QED
    BY <1>1, <1>2, <2>1, CountOneOK DEF PfCountMerged
<1>3. CASE DOMAIN hs # {1}
  <2>1. /\ objs' = objs /\ stored' = stored /\ call' = call
        /\ ret' = Reply("countmerged", hs,
                        IF AllReadable(hs) THEN Estimate(MergedRegs(hs)) ELSE ERR)
    BY <1>3 DEF PfCountMerged
  <2>2. Kept(stored')
    BY <2>1 DEF SInv
  <2> QED
    BY <1>1, <2>1, <2>2, QuietOK
<1> QED
  BY <1>2, <1>3

LEMMA PfAddOK ==
  ASSUME IInv, SInv, NEW h \in Handle, NEW e \in Elements, PfAdd(h, e)
  PROVE  StepOK
<1> DEFINE o == objs[h]
           a == HllAdd(o, e)
<1>1. ~call.busy /\ call' = call /\ stored' = stored
  BY DEF PfAdd, Ready
<1>2. ObjectOK(o) /\ Kept(o) /\ Kept(stored')
  BY <1>1 DEF IInv, SInv
<1>3. CASE ~IsHLLObject(o)
  <2>1. objs' = objs /\ ret' = Reply("add", h, ERR)
    BY <1>3 DEF PfAdd
  <2>2. ret'.op = "add" /\ ret'.on = h /\ ret'.val = ERR
    BY <2>1, ReplyParts
  <2>3. Report
    BY <2>1, <2>2, Codes DEF Report, ERR
  <2>4. \A g \in Handle : Kept(objs'[g]) /\ TameTo(objs[g], objs'[g])
    BY <2>1, OneChange
  <2>5. SInv'
    BY <1>1, <1>2, <2>4 DEF SInv
  <2> QED
    BY <2>1, <2>3, <2>4, <2>5 DEF StepOK, Tame, Failure
<1>4. CASE IsHLLObject(o)
  <2>1. AddFacts(o, e, a)
    BY <1>2, <1>4, HllAddFacts
  <2>2. /\ ret' = Reply("add", h, a.val)
        /\ objs' = [objs EXCEPT ![h] = IF a.val = 1 THEN InvalidateCache(a.obj)
                                                    ELSE a.obj]
    BY <1>4 DEF PfAdd
  <2> HIDE DEF a
  <2>3. ret'.op = "add" /\ ret'.on = h /\ ret'.val = a.val
    BY <2>2, ReplyParts
  <2>4. /\ Kept(a.obj) /\ TameTo(o, a.obj)
        /\ Readable(o) => (a.val = 1 <=> RegsOf(a.obj) # RegsOf(o))
    BY <1>2, <1>4, <2>1, AddTame
  <2> DEFINE x == InvalidateCache(a.obj)
             y == IF a.val = 1 THEN x ELSE a.obj
  <2>5. /\ ObjectOK(a.obj) /\ IsHLLObject(a.obj) /\ a.val \in {0, 1, ERR}
        /\ a.val # 1 => a.obj = o
        /\ Readable(a.obj) <=> Readable(o)
    BY <2>1 DEF AddFacts
  <2>6. /\ Kept(x) /\ RegsOf(x) = RegsOf(a.obj) /\ (Readable(x) <=> Readable(a.obj))
        /\ x.runs = a.obj.runs
    <3>1. Invalid \in CardValue
      BY DEF CardValue
    <3> QED
      BY <2>4, <2>5, <3>1, CardTame, CardSet, OtherFields DEF InvalidateCache
  <2> HIDE DEF x
  <2>7. /\ Kept(y) /\ RegsOf(y) = RegsOf(a.obj) /\ (Readable(y) <=> Readable(a.obj))
        /\ y.runs = a.obj.runs
    BY <2>4, <2>6
  <2>8. TameTo(o, y)
    <3>1. o # Null
      BY <1>4, NullFields DEF IsHLLObject
    <3>2. a.obj # Null
      BY <2>5, NullFields DEF IsHLLObject
    <3> QED
      BY <2>4, <2>7, <3>1, <3>2 DEF TameTo, Grows
  <2>9. objs' = [objs EXCEPT ![h] = y]
    BY <2>2 DEF x
  <2> HIDE DEF y
  <2>10. objs'[h] = y
    BY <2>9 DEF IInv
  <2>11. \A g \in Handle : Kept(objs'[g]) /\ TameTo(objs[g], objs'[g])
    BY <2>7, <2>8, <2>9, OneChange
  <2>12. SInv'
    BY <1>1, <1>2, <2>11 DEF SInv
  <2>13. Report
    BY <2>3, <2>4, <2>7, <2>10 DEF Report
  <2>14. Failure
    <3>1. CASE a.val = ERR
      <4>1. a.val # 1
        BY <3>1 DEF ERR
      <4>2. y = o
        BY <2>5, <4>1 DEF y
      <4>3. objs = [g \in Handle |-> objs[g]]
        BY DEF IInv
      <4> QED
        BY <2>9, <4>2, <4>3 DEF Failure
    <3> QED
      BY <2>3, <3>1 DEF Failure
  <2> QED
    BY <2>11, <2>12, <2>13, <2>14 DEF StepOK, Tame
<1> QED
  BY <1>3, <1>4

LEMMA AddManyBeginOK ==
  ASSUME IInv, SInv, NEW h \in Handle, NEW n \in 0 .. MaxBatch, AddManyBegin(h, n)
  PROVE  StepOK
<1>1. /\ ~call.busy /\ objs' = objs /\ stored' = stored
      /\ \/ ret' = Silent
         \/ call' = call /\ ret' = Reply("addmany", h, ERR)
  BY DEF AddManyBegin, Ready
<1>2. \A g \in Handle : Kept(objs'[g]) /\ TameTo(objs[g], objs'[g])
  BY <1>1, OneChange
<1>3. SInv'
  BY <1>1, <1>2 DEF SInv
<1>4. Failure /\ Report
  BY <1>1, ReplyParts DEF Failure, Report
<1> QED
  BY <1>2, <1>3, <1>4 DEF StepOK, Tame

LEMMA AddManyStepOK ==
  ASSUME IInv, SInv, NEW e \in Elements, AddManyStep(e)
  PROVE  StepOK
<1> DEFINE h == call.h
           o == objs[h]
           a == HllAdd(o, e)
<1>1. call.busy /\ stored' = stored /\ objs' = [objs EXCEPT ![h] = a.obj]
  BY DEF AddManyStep
<1>2. h \in Handle /\ IsHLLObject(o)
  BY <1>1, CallFields DEF IInv, CallOK
<1>3. ObjectOK(o) /\ Kept(o) /\ Kept(stored')
  BY <1>1, <1>2 DEF IInv, SInv
<1>4. AddFacts(o, e, a)
  BY <1>2, <1>3, HllAddFacts
<1>5. Kept(a.obj) /\ TameTo(o, a.obj)
  BY <1>2, <1>3, <1>4, AddTame
<1>6. ret = Silent
  BY <1>1 DEF SInv
<1>7. \/ ret' = Silent
      \/ ~call'.busy /\ ret' = Reply("addmany", h, a.val)
  BY <1>6, CallFields DEF AddManyStep
<1> HIDE DEF a, o, h
<1>8. \A g \in Handle : Kept(objs'[g]) /\ TameTo(objs[g], objs'[g])
  BY <1>1, <1>2, <1>5, OneChange DEF o
<1>9. SInv'
  BY <1>3, <1>7, <1>8 DEF SInv
<1>10. Failure /\ Report
  BY <1>7, ReplyParts, Codes DEF Failure, Report
<1> QED
  BY <1>8, <1>9, <1>10 DEF StepOK, Tame

LEMMA AddManyEndOK ==
  ASSUME IInv, SInv, AddManyEnd
  PROVE  StepOK
<1>1. /\ call.busy /\ stored' = stored /\ call' = Idle
      /\ ret' = Reply("addmany", call.h, IF call.updated THEN 1 ELSE 0)
      /\ \/ objs' = objs
         \/ objs' = [objs EXCEPT ![call.h] = InvalidateCache(@)]
  BY DEF AddManyEnd
<1>2. call.h \in Handle /\ IsHLLObject(objs[call.h])
  BY <1>1, CallFields DEF IInv, CallOK
<1> DEFINE x == [objs[call.h] EXCEPT !.card = Invalid]
<1>3. Kept(x) /\ TameTo(objs[call.h], x)
  BY <1>2, CacheChanged DEF CardValue
<1>4. objs' = objs \/ objs' = [objs EXCEPT ![call.h] = x]
  BY <1>1 DEF InvalidateCache
<1> HIDE DEF x
<1>5. \A g \in Handle : Kept(objs'[g]) /\ TameTo(objs[g], objs'[g])
  BY <1>2, <1>3, <1>4, OneChange
<1>6. SInv'
  BY <1>1, <1>5, CallFields DEF SInv
<1>7. Failure /\ Report
  BY <1>1, ReplyParts DEF Failure, Report
<1> QED
  BY <1>5, <1>6, <1>7 DEF StepOK, Tame

LEMMA PfMergeOK ==
  ASSUME IInv, SInv, NEW t \in Handle, NEW hs \in ArgLists, PfMerge(t, hs)
  PROVE  StepOK
<1>1. ~call.busy /\ call' = call /\ stored' = stored
  BY DEF PfMerge, Ready
<1>2. Kept(stored')
  BY <1>1 DEF SInv
<1>3. CASE objs' = objs /\ ret' = Reply("merge", t, ERR)
  BY <1>1, <1>2, <1>3, QuietOK
<1>4. CASE /\ Readable(objs[t])
           /\ objs' = [objs EXCEPT ![t] = Dense(MergedRegs(hs), Invalid)]
           /\ ret' = Reply("merge", t, OK)
  <2>1. ret'.op = "merge" /\ ret'.on = t /\ ret'.val = OK
    BY <1>4, ReplyParts
  <2> DEFINE x == Dense(MergedRegs(hs), Invalid)
  <2>2. Kept(x) /\ Readable(x)
    <3>1. x.enc = "dense"
      BY DenseFields
    <3> QED
      BY <3>1, NotSparseKept DEF Readable
  <2>3. objs' = [objs EXCEPT ![t] = x]
    BY <1>4
  <2> HIDE DEF x
  <2>4. objs = [g \in Handle |-> objs[g]]
    BY DEF IInv
  <2>5. ASSUME NEW g \in Handle PROVE Kept(objs'[g]) /\ Tame(g)
    <3>1. CASE g = t
      <4>1. objs'[g] = x
        BY <2>3, <2>4, <3>1
      <4> QED
        BY <1>4, <2>1, <2>2, <3>1, <4>1 DEF Tame
    <3>2. CASE g # t
      <4>1. objs'[g] = objs[g]
        BY <2>3, <2>4, <3>2
      <4>2. TameTo(objs[g], objs[g]) /\ Kept(objs[g])
        BY SameTame DEF IInv, SInv
      <4> QED
        BY <4>1, <4>2 DEF Tame
    <3> QED
      BY <3>1, <3>2
  <2>6. SInv'
    BY <1>1, <1>2, <2>5 DEF SInv
  <2>7. Failure /\ Report
    BY <2>1, Codes DEF Failure, Report
  <2> QED
    BY <2>5, <2>6, <2>7 DEF StepOK
<1> QED
  BY <1>3, <1>4 DEF PfMerge

LEMMA PromoteOK ==
  ASSUME IInv, SInv, NEW h \in Handle, Promote(h)
  PROVE  StepOK
<1> DEFINE o == objs[h]
           x == SparseToDense(o)
<1>1. ~call.busy /\ call' = call /\ stored' = stored
  BY DEF Promote, Ready
<1>2. Kept(stored')
  BY <1>1 DEF SInv
<1>3. CASE objs' = objs /\ ret' = Reply("promote", h, ERR)
  BY <1>1, <1>2, <1>3, QuietOK
<1>4. CASE /\ Readable(o) /\ ret' = Reply("promote", h, OK)
           /\ objs' = [objs EXCEPT ![h] = SparseToDense(@)]
  <2>1. ObjectOK(o) /\ Kept(o)
    BY DEF IInv, SInv
  <2>2. Kept(x) /\ RegsOf(x) = RegsOf(o) /\ Readable(x)
    <3>1. CASE o.enc = "dense"
      BY <1>4, <2>1, <3>1 DEF SparseToDense
    <3>2. CASE o.enc # "dense"
      <4>1. o.enc = "sparse" /\ x = Dense(Values(o.runs), o.card)
        BY <1>4, <3>2 DEF Readable, SparseToDense
      <4>2. x.enc = "dense" /\ x.regs = Values(o.runs)
        BY <4>1, DenseFields
      <4> HIDE DEF x
      <4>3. RegsOf(x) = Values(o.runs) /\ RegsOf(o) = Values(o.runs) /\ Readable(x)
        BY <4>1, <4>2 DEF RegsOf, Readable
      <4>4. Kept(x)
        BY <4>2, NotSparseKept
      <4> QED
        BY <4>3, <4>4
    <3> QED
      BY <3>1, <3>2
  <2> HIDE DEF x
  <2>3. TameTo(o, x)
    BY <1>4, <2>1, <2>2, SameTame
  <2>4. objs' = [objs EXCEPT ![h] = x]
    BY <1>4 DEF x
  <2> QED
    BY <1>1, <1>2, <1>4, <2>2, <2>3, <2>4, Codes, QuietOK
<1> QED
  BY <1>3, <1>4 DEF Promote

LEMMA DumpOK ==
  ASSUME IInv, SInv, NEW h \in Handle, Dump(h)
  PROVE  StepOK
<1>1. /\ ~call.busy /\ call' = call /\ objs' = objs /\ IsHLLObject(objs[h])
      /\ stored' = [objs[h] EXCEPT !.tail = 0] /\ ret' = Reply("dump", h, OK)
  BY DEF Dump, Ready
<1>2. Kept(stored')
  <2>1. ObjectOK(objs[h]) /\ Kept(objs[h])
    BY DEF IInv, SInv
  <2>2. /\ stored'.enc = objs[h].enc /\ stored'.runs = objs[h].runs
        /\ stored'.size = objs[h].size
    BY <1>1, <2>1, OtherFields
  <2> QED
    BY <2>1, <2>2, SameStringKept
<1> QED
  BY <1>1, <1>2, QuietOK

LEMMA LoadOK ==
  ASSUME IInv, SInv, NEW h \in Handle, Load(h)
  PROVE  StepOK
<1>1. ~call.busy /\ call' = call /\ stored' = stored /\ objs[h] = Null
  BY DEF Load, Ready
<1>2. Kept(stored) /\ Kept(stored') /\ TameTo(objs[h], stored)
  BY <1>1 DEF SInv, TameTo
<1>3. CASE objs' = objs /\ ret' = Reply("load", h, ERR)
  BY <1>1, <1>2, <1>3, QuietOK
<1>4. CASE objs' = [objs EXCEPT ![h] = stored] /\ ret' = Reply("load", h, OK)
  BY <1>1, <1>2, <1>4, Codes, QuietOK
<1> QED
  BY <1>3, <1>4 DEF Load

LEMMA StorageDamageOK ==
  ASSUME IInv, SInv, StorageDamage
  PROVE  StepOK
<1>1. /\ ~call.busy /\ call' = call /\ objs' = objs /\ Lossy
      /\ IsHLLObject(stored) /\ ret' = Silent
  BY DEF StorageDamage, Ready
<1>2. Kept(stored')
  <2>1. CASE stored' = Junk
    BY <2>1, NullFields, NotSparseKept
  <2>2. CASE \E r \in stored.runs :
               stored' = Sparse(stored.runs \ {r}, stored.size - OpLen(r), 0,
                                stored.card)
    <3>1. PICK r \in stored.runs :
                 stored' = Sparse(stored.runs \ {r}, stored.size - OpLen(r), 0,
                                  stored.card)
      BY <2>2
    <3>2. ObjectOK(stored)
      BY <1>1, NullFields DEF IInv, StoredOK, IsHLLObject
    <3>3. stored.enc = "sparse" /\ stored.size \in Int
      BY <3>2, ObjectCases, DenseFields DEF Null
    <3>4. stored.size <= SparseMaxBytes /\ SparseMaxBytes \in Int
      BY <3>3, ObjectAssumption DEF SInv, Kept, Small
    <3>5. OpLen(r) \in Nat
      BY DEF OpLen
    <3>6. stored'.size = stored.size - OpLen(r)
      BY <3>1, SparseFields
    <3>7. stored'.size <= SparseMaxBytes
      BY <3>3, <3>4, <3>5, <3>6
    <3>8. stored'.runs \subseteq stored.runs
      BY <3>1, SparseFields
    <3>9. Canonical(stored.runs)
      BY <3>3 DEF SInv, Kept, Canon
    <3>10. Canonical(stored'.runs)
      BY <3>8, <3>9 DEF Canonical
    <3> QED
      BY <1>1, <3>7, <3>10 DEF Kept, Small, Canon
  <2> QED
    BY <2>1, <2>2 DEF StorageDamage
<1>3. Silent = Reply("none", <<>>, OK)
  BY DEF Silent
<1> QED
  BY <1>1, <1>2, <1>3, QuietOK

LEMMA NextOK == IInv /\ SInv /\ Next => StepOK
<1> SUFFICES ASSUME IInv, SInv, Next PROVE StepOK
  OBVIOUS
<1>1. ASSUME NEW h \in Handle, Create(h) PROVE StepOK
  BY <1>1, CreateOK
<1>2. ASSUME NEW h \in Handle, Free(h) PROVE StepOK
  BY <1>2, FreeOK
<1>3. ASSUME NEW h \in Handle, PfCount(h) PROVE StepOK
  BY <1>3, CountOneOK DEF PfCount, Ready
<1>4. ASSUME NEW h \in Handle, Promote(h) PROVE StepOK
  BY <1>4, PromoteOK
<1>5. ASSUME NEW h \in Handle, Dump(h) PROVE StepOK
  BY <1>5, DumpOK
<1>6. ASSUME NEW h \in Handle, Load(h) PROVE StepOK
  BY <1>6, LoadOK
<1>7. ASSUME NEW h \in Handle, NEW e \in Elements, PfAdd(h, e) PROVE StepOK
  BY <1>7, PfAddOK
<1>8. ASSUME NEW h \in Handle, NEW n \in 0 .. MaxBatch, AddManyBegin(h, n)
      PROVE StepOK
  BY <1>8, AddManyBeginOK
<1>9. ASSUME NEW h \in Handle, NEW hs \in ArgLists, PfMerge(h, hs) PROVE StepOK
  BY <1>9, PfMergeOK
<1>10. ASSUME NEW hs \in ArgLists, PfCountMerged(hs) PROVE StepOK
  BY <1>10, PfCountMergedOK
<1>11. ASSUME NEW e \in Elements, AddManyStep(e) PROVE StepOK
  BY <1>11, AddManyStepOK
<1>12. CASE AddManyEnd
  BY <1>12, AddManyEndOK
<1>13. CASE StorageDamage
  BY <1>13, StorageDamageOK
<1> QED
  BY <1>1, <1>2, <1>3, <1>4, <1>5, <1>6, <1>7, <1>8, <1>9, <1>10, <1>11,
     <1>12, <1>13 DEF Next

LEMMA InitKept == Init => SInv
<1> SUFFICES ASSUME Init PROVE SInv
  OBVIOUS
<1>1. \A h \in Handle : objs[h] = Null
  BY DEF Init
<1>2. stored = Null /\ ret = Silent /\ Kept(Null)
  BY NullFields, NotSparseKept DEF Init
<1> QED
  BY <1>1, <1>2 DEF SInv

LEMMA KeptStep == IInv /\ SInv /\ [Next]_vars => SInv'
<1>1. IInv /\ SInv /\ Next => SInv'
  BY NextOK DEF StepOK
<1>2. SInv /\ UNCHANGED vars => SInv'
  BY DEF SInv, vars
<1> QED
  BY <1>1, <1>2

LEMMA KeptInductive == Spec => [](IInv /\ SInv)
<1> QED
  BY InitInv, NextInv, InitKept, KeptStep, PTL DEF Spec

-----------------------------------------------------------------------------
(* Theorems.                                                               *)

\* A sparse string never outgrows hll_sparse_max_bytes, whatever the limit is.
THEOREM WithinLimit == Spec => []SparseWithinLimit
<1>1. SInv => SparseWithinLimit
  BY DEF SInv, Kept, Small, SparseWithinLimit
<1> QED
  BY <1>1, KeptInductive, PTL

\* The scan of five opcodes from "prev" on finds every merge that an update
\* of a sparse object makes possible: never are two neighbours left that one
\* opcode could hold, not even in a stream the storage has cut short.
THEOREM AlwaysCanonical == Spec => []SparseCanonical
<1>1. SInv => SparseCanonical
  BY DEF SInv, Kept, Canon, SparseCanonical
<1> QED
  BY <1>1, KeptInductive, PTL

\* Splits, merges and in-place updates of the opcodes leave each register
\* covered once and the length of the string that of its header and opcodes.
THEOREM AlwaysComplete == Spec => []StreamsComplete
<1>1. IInv /\ SInv => StreamsComplete
  <2>1. ASSUME IInv, NEW h \in Handle, objs[h].enc = "sparse"
        PROVE  StreamOK(objs[h].runs)
    BY <2>1, ObjectCases, NullFields DEF IInv
  <2> QED
    BY <2>1 DEF SInv, Kept, Whole, Sized, StreamsComplete
<1> QED
  BY <1>1, KeptInductive, PTL

\* pfAdd answers 1 exactly when it changed a register.
THEOREM AddReportsRight == Spec => AddReportsChange
<1>1. IInv /\ SInv /\ [Next]_vars =>
        [ret'.op = "add" /\ Readable(objs[ret'.on]) =>
           (ret'.val = 1 <=> RegsOf(objs'[ret'.on]) # RegsOf(objs[ret'.on]))]_vars
  BY NextOK DEF StepOK, Report
<1> QED
  BY <1>1, KeptInductive, PTL DEF Spec, AddReportsChange

\* A call that fails, other than a pfAddMany half way, changes no object.
THEOREM FailuresAreClean == Spec => FailureChangesNothing
<1>1. IInv /\ SInv /\ [Next]_vars =>
        [ret'.val = ERR /\ ret'.op # "addmany" => objs' = objs]_vars
  BY NextOK DEF StepOK, Failure
<1> QED
  BY <1>1, KeptInductive, PTL DEF Spec, FailureChangesNothing

\* Registers only grow, in place, across splits and merges of opcodes and across
\* promotions, except under a pfMerge into them.
THEOREM RegistersOnlyGrow == Spec => RegistersGrow
<1> DEFINE A == \A h \in Handle :
                  /\ Readable(objs[h]) /\ objs'[h] # Null
                  /\ ret'.op # "merge" \/ ret'.on # h
                  => \A i \in Index : RegsOf(objs'[h])[i] >= RegsOf(objs[h])[i]
<1>1. ASSUME StepOK PROVE A
  <2>1. ASSUME NEW h \in Handle, Readable(objs[h]), objs'[h] # Null,
               ret'.op # "merge" \/ ret'.on # h
        PROVE  Grows(objs[h], objs'[h])
    <3>1. objs[h] # Null
      BY <2>1, NullFields DEF Readable
    <3> QED
      BY <1>1, <2>1, <3>1 DEF StepOK, Tame, TameTo
  <2> QED
    BY <2>1 DEF Grows
<1>2. IInv /\ SInv /\ [Next]_vars => [A]_vars
  BY <1>1, NextOK
<1> QED
  BY <1>2, KeptInductive, PTL DEF Spec, RegistersGrow

\* An object whose stream was cut short stays unreadable and goes on covering
\* the registers it covered: no add, promotion or merge repairs it.
THEOREM DamageStays == Spec => DamageIsPermanent
<1> DEFINE A == \A h \in Handle :
                  IsHLLObject(objs[h]) /\ ~Readable(objs[h]) /\ objs'[h] # Null
                    => ~Readable(objs'[h]) /\ Covered(objs'[h].runs) = Covered(objs[h].runs)
<1>1. ASSUME StepOK PROVE A
  <2>1. ASSUME NEW h \in Handle, IsHLLObject(objs[h]), ~Readable(objs[h]),
               objs'[h] # Null
        PROVE  /\ ~Readable(objs'[h])
               /\ Covered(objs'[h].runs) = Covered(objs[h].runs)
    <3>1. objs[h] # Null
      BY <2>1, NullFields DEF IsHLLObject
    <3> QED
      BY <1>1, <2>1, <3>1 DEF StepOK, Tame, TameTo
  <2> QED
    BY <2>1
<1>2. IInv /\ SInv /\ [Next]_vars => [A]_vars
  BY <1>1, NextOK
<1> QED
  BY <1>2, KeptInductive, PTL DEF Spec, DamageIsPermanent
=============================================================================
