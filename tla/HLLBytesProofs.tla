--------------------------- MODULE HLLBytesProofs ---------------------------
(***************************************************************************)
(* What is proved of HLLSparseBytes and BytesRefinement: the bytes of a    *)
(* sparse object keep their types and sds's promises, hold a stream of     *)
(* opcodes in which no two neighbours could be one, count every register   *)
(* once, and every call does to them what HLLObject says.                  *)
(*                                                                         *)
(* The opcodes of a string lie in pieces: sets of opcodes with the bytes   *)
(* and the registers that they fill without a gap (Piece).  The loop over  *)
(* the opcodes stops between two pieces (Between); a split, a merge and a  *)
(* memmove replace one piece and move another.  That a string holds        *)
(* HLLObject's opcodes (Holding, Represents) is the invariant (BInv); a    *)
(* call of hllSparseAdd on bytes and one on opcodes are shown to agree     *)
(* branch by branch (Agrees), with what HLLObjectProofs knows of the       *)
(* latter as Facts and what SdsStringProofs knows of sds as Sd.            *)
(***************************************************************************)
EXTENDS BytesRefinement, SequenceTheorems, WellFoundedInduction,
        FiniteSetTheorems, TLAPS

Facts == INSTANCE HLLObjectProofs WITH
    Handle   <- {TheHandle},
    DenseSize <- HdrSize,
    Estimate <- ZeroEstimate,
    MaxArgs  <- 0,
    MaxBatch <- 0,
    Dumpable <- {TheHandle},
    Lossy    <- FALSE,
    objs     <- [h \in {TheHandle} |-> Decoded(enc, str, regs)],
    stored   <- Decoded("none", NoString, ZeroRegs),
    call     <- [busy |-> FALSE],
    ret      <- [op |-> ret.op, on |-> TheHandle, val |-> ret.val]

-----------------------------------------------------------------------------
(* Quotients and remainders, and the fields of the opcodes.                *)

LEMMA ProductGrows ==
  ASSUME NEW x \in Int, NEW b \in Nat, x >= 1
  PROVE  x * b >= b
  OBVIOUS

LEMMA DivIs ==
  ASSUME NEW b \in Nat, b > 0, NEW q \in Int, NEW r \in Int, 0 <= r, r < b
  PROVE  (q * b + r) \div b = q /\ (q * b + r) % b = r
<1> DEFINE a == q * b + r
           d == a \div b
           m == a % b
<1>0. a \in Int
  OBVIOUS
<1> HIDE DEF a
<1>1. d \in Int /\ m \in Int /\ a = b * d + m /\ 0 <= m /\ m < b
  BY <1>0
<1> HIDE DEF d, m
<1>2. (q - d) * b = m - r
  BY <1>1 DEF a
<1>3. ~(q - d >= 1)
  <2>1. SUFFICES ASSUME q - d >= 1 PROVE FALSE
    OBVIOUS
  <2>2. (q - d) * b >= b
    BY <1>1, <2>1, ProductGrows
  <2> QED
    BY <1>1, <1>2, <2>2
<1>4. ~(d - q >= 1)
  <2>1. SUFFICES ASSUME d - q >= 1 PROVE FALSE
    OBVIOUS
  <2>2. (d - q) * b >= b
    BY <1>1, <2>1, ProductGrows
  <2>3. (d - q) * b = r - m
    BY <1>1, <1>2
  <2> QED
    BY <1>1, <2>2, <2>3
<1>5. q = d
  BY <1>1, <1>3, <1>4
<1> QED
  BY <1>1, <1>2, <1>5 DEF a, d, m

LEMMA RestIs ==
  ASSUME NEW b \in Nat, NEW r \in Int, 0 <= r, r < b
  PROVE  r % b = r
  OBVIOUS

LEMMA RestTyped ==
  ASSUME NEW b \in Nat, b > 0, NEW a \in Int
  PROVE  a % b \in Int /\ 0 <= a % b /\ a % b < b /\ a \div b \in Int
  OBVIOUS

LEMMA Sizes ==
  /\ XZeroBit \in Nat /\ 0 < XZeroBit
  /\ ValBit = 2 * XZeroBit /\ ByteSize = 4 * XZeroBit
  /\ SparseZeroMaxLen = XZeroBit
  /\ SparseValMaxValue \in Nat /\ 0 < SparseValMaxValue
  /\ SparseValMaxLen \in Nat /\ 0 < SparseValMaxLen
  /\ SparseValMaxValue * SparseValMaxLen = ValBit
  /\ Registers \in Nat /\ 0 < Registers /\ HdrSize \in Nat /\ 0 < HdrSize
  /\ Registers <= XZeroBit * ByteSize
  BY BytesAssumption DEF XZeroBit, ValBit, ByteSize

LEMMA ByteIs == \A b \in Byte : b \in Int /\ 0 <= b /\ b < ByteSize
  BY Sizes DEF Byte

LEMMA Kinds ==
  ASSUME NEW b \in Byte
  PROVE  /\ IsZero(b) \/ IsXZero(b) \/ IsVal(b)
         /\ ~(IsZero(b) /\ IsXZero(b)) /\ ~(IsZero(b) /\ IsVal(b))
         /\ ~(IsXZero(b) /\ IsVal(b))
  BY Sizes, ByteIs DEF IsZero, IsXZero, IsVal

\* What the fields can say.
LEMMA FieldsTyped ==
  ASSUME NEW b \in Byte, NEW c \in Byte
  PROVE  /\ ZeroLen(b) \in 1 .. SparseZeroMaxLen
         /\ ValLen(b) \in 1 .. SparseValMaxLen
         /\ ValValue(b) \in 1 .. SparseValMaxValue
         /\ XZeroLen(b, c) \in Nat /\ 0 < XZeroLen(b, c)
<1>0. b \in Int /\ c \in Int /\ 0 <= c
  BY ByteIs
<1>1. ZeroLen(b) \in 1 .. SparseZeroMaxLen
  BY <1>0, Sizes, RestTyped DEF ZeroLen
<1>2. ValLen(b) \in 1 .. SparseValMaxLen
  BY <1>0, Sizes, RestTyped DEF ValLen
<1>3. b \div SparseValMaxLen \in Int
  BY <1>0, Sizes, RestTyped
<1>4. ValValue(b) \in 1 .. SparseValMaxValue
  BY <1>3, Sizes, RestTyped DEF ValValue
<1>5. XZeroLen(b, c) \in Nat /\ 0 < XZeroLen(b, c)
  <2> DEFINE m == b % XZeroBit
  <2>1. m \in Nat
    BY <1>0, Sizes, RestTyped
  <2> HIDE DEF m
  <2>2. m * ByteSize \in Nat
    BY <2>1, Sizes
  <2> QED
    BY <1>0, <2>2 DEF XZeroLen, m
<1> QED
  BY <1>1, <1>2, <1>4, <1>5

\* HLL_SPARSE_VAL_SET is read back by the macros.
ValByte(v, l) == ValBit + (v - 1) * SparseValMaxLen + (l - 1)

LEMMA ValWritten ==
  ASSUME NEW v \in 1 .. SparseValMaxValue, NEW l \in 1 .. SparseValMaxLen
  PROVE  LET b == ValByte(v, l)
         IN  /\ ValOf(v, l) = <<b>> /\ b \in Byte /\ IsVal(b)
             /\ ValValue(b) = v /\ ValLen(b) = l
<1> DEFINE b == ValByte(v, l)
           V == SparseValMaxValue
           K == SparseValMaxLen
           low == (v - 1) * K + (l - 1)
<1>0. /\ V \in Nat /\ K \in Nat /\ 0 < K /\ 0 < V /\ V * K = ValBit /\ ValBit \in Nat
      /\ v \in Int /\ 1 <= v /\ v <= V /\ l \in Int /\ 1 <= l /\ l <= K
  BY Sizes
<1> HIDE DEF V, K
<1>1. (v - 1) * K \in Nat /\ (v - 1) * K <= (V - 1) * K /\ (V - 1) * K = V * K - K
  <2>1. \A x \in Nat, y \in Nat : x <= y => x * K <= y * K
    BY <1>0
  <2>2. v - 1 \in Nat /\ V - 1 \in Nat /\ v - 1 <= V - 1
    BY <1>0
  <2>3. (v - 1) * K <= (V - 1) * K
    BY <2>1, <2>2
  <2>4. (v - 1) * K \in Nat /\ (V - 1) * K = V * K - K
    BY <1>0, <2>2
  <2> QED
    BY <2>3, <2>4
<1>2. low \in Int /\ 0 <= low /\ low < ValBit
  BY <1>0, <1>1
<1>3. low % ValBit = low
  BY <1>0, <1>2, RestIs
<1>4. b = low + ValBit
  BY <1>0, <1>1 DEF ValByte, K
<1>5. ValOf(v, l) = <<b>>
  BY <1>3, <1>4 DEF ValOf, K
<1>6. b \in Byte /\ IsVal(b)
  BY <1>2, <1>4, Sizes DEF Byte, IsVal
<1>7. b = (V + (v - 1)) * K + (l - 1)
  BY <1>0, <1>1, <1>4
<1>8. b \div K = V + (v - 1) /\ b % K = l - 1
  <2>1. V + (v - 1) \in Int /\ l - 1 \in Int /\ 0 <= l - 1 /\ l - 1 < K
    BY <1>0
  <2> QED
    BY <1>0, <1>7, <2>1, DivIs
<1>9. (V + (v - 1)) % V = v - 1
  <2>1. 1 * V + (v - 1) = V + (v - 1) /\ v - 1 \in Int /\ 0 <= v - 1 /\ v - 1 < V
    BY <1>0
  <2>2. (1 * V + (v - 1)) % V = v - 1
    BY <1>0, <2>1, DivIs
  <2> QED
    BY <2>1, <2>2
<1>10. ValValue(b) = v /\ ValLen(b) = l
  <2> HIDE DEF b
  <2> QED
    BY <1>0, <1>8, <1>9 DEF ValValue, ValLen, V, K
<1> QED
  BY <1>5, <1>6, <1>10

\* HLL_SPARSE_ZERO_SET.
LEMMA ZeroWritten ==
  ASSUME NEW l \in 1 .. SparseZeroMaxLen
  PROVE  /\ ZeroOf(l) = <<l - 1>> /\ l - 1 \in Byte /\ IsZero(l - 1)
         /\ ZeroLen(l - 1) = l
<1>1. /\ l - 1 \in Int /\ 0 <= l - 1 /\ l - 1 < XZeroBit /\ l - 1 < ByteSize
      /\ ByteSize \in Nat /\ XZeroBit \in Nat /\ l - 1 + 1 = l
  BY Sizes
<1>2. (l - 1) % ByteSize = l - 1 /\ (l - 1) % XZeroBit = l - 1
  BY <1>1, RestIs
<1> QED
  BY <1>1, <1>2 DEF ZeroOf, Byte, IsZero, ZeroLen

\* HLL_SPARSE_XZERO_SET.
LEMMA XZeroWritten ==
  ASSUME NEW l \in 1 .. Registers
  PROVE  \E b, c \in Byte : /\ XZeroOf(l) = <<b, c>> /\ IsXZero(b)
                            /\ XZeroLen(b, c) = l
<1> DEFINE q == (l - 1) \div ByteSize
           c == (l - 1) % ByteSize
           b == q + XZeroBit
<1>0. /\ l \in Int /\ 1 <= l /\ l <= XZeroBit * ByteSize /\ l - 1 \in Int
      /\ ByteSize \in Nat /\ 0 < ByteSize /\ XZeroBit \in Nat /\ 0 < XZeroBit
  BY Sizes
<1>1. /\ q \in Int /\ c \in Int /\ 0 <= c /\ c < ByteSize
      /\ l - 1 = ByteSize * q + c
  BY <1>0
<1>2. XZeroOf(l) = <<b, c>>
  BY DEF XZeroOf
<1> HIDE DEF q, c
<1>3. ByteSize * q = q * ByteSize
  BY <1>0, <1>1
<1>4. 0 <= q
  <2>1. SUFFICES ASSUME 0 - q >= 1 PROVE FALSE
    BY <1>1
  <2>2. (0 - q) * ByteSize >= ByteSize
    BY <1>0, <1>1, <2>1, ProductGrows
  <2>3. (0 - q) * ByteSize = 0 - q * ByteSize
    BY <1>0, <1>1
  <2> QED
    BY <1>0, <1>1, <1>3, <2>2, <2>3
<1>5. q < XZeroBit
  <2>1. SUFFICES ASSUME q >= XZeroBit PROVE FALSE
    BY <1>0, <1>1
  <2>2. q * ByteSize >= XZeroBit * ByteSize
    BY <1>0, <1>1, <2>1
  <2> QED
    BY <1>0, <1>1, <1>3, <2>2
<1>6. b \in Byte /\ c \in Byte /\ IsXZero(b)
  BY <1>0, <1>1, <1>4, <1>5, Sizes DEF Byte, IsXZero
<1>7. b % XZeroBit = q
  <2>1. 1 * XZeroBit + q = b
    BY <1>0, <1>1
  <2>2. (1 * XZeroBit + q) % XZeroBit = q
    BY <1>0, <1>1, <1>4, <1>5, DivIs
  <2> QED
    BY <2>1, <2>2
<1>8. XZeroLen(b, c) = l
  BY <1>0, <1>1, <1>3, <1>7 DEF XZeroLen
<1> QED
  BY <1>2, <1>6, <1>8

-----------------------------------------------------------------------------
(* Pieces of a string that opcodes lie in.                                 *)

\* A header that is true to its block, and bytes up to the terminator.
Fit(s) ==
  /\ s = Str(s.len, s.free, s.alloc, s.buf)
  /\ HeaderOK(s)
  /\ s.buf = [i \in Span(0, s.alloc) |-> s.buf[i]]
  /\ HdrSize <= s.len
  /\ \A i \in 0 .. s.len : s.buf[i] \in Byte

LEMMA FitNumbers ==
  ASSUME NEW s, Fit(s)
  PROVE  /\ s.len \in Nat /\ s.free \in Nat /\ s.alloc \in Nat
         /\ s.alloc = s.len + s.free + 1 /\ 0 < s.len /\ HdrSize <= s.len
  BY Sizes DEF Fit, HeaderOK

\* The opcode at p, and the bytes it takes.
LEMMA PlacedFacts ==
  ASSUME NEW s, Fit(s), NEW p \in Nat, p < s.len, NEW first
  PROVE  LET r == Placed(s, p, first)
         IN  /\ r = [op |-> r.op, first |-> r.first, len |-> r.len, val |-> r.val]
             /\ r.first = first /\ r.len = OpLen(s, p) /\ r.len \in Nat /\ 0 < r.len
             /\ Facts!OpLen(r) = OpBytes(s, p) /\ OpBytes(s, p) \in {1, 2}
             /\ \/ r.op = "zero" /\ r.val = 0 /\ r.len <= SparseZeroMaxLen
                \/ r.op = "xzero" /\ r.val = 0
                \/ r.op = "val" /\ r.val \in 1 .. SparseValMaxValue
                                /\ r.len <= SparseValMaxLen
<1> DEFINE b == s.buf[p]
           c == s.buf[p + 1]
           r == Placed(s, p, first)
<1>1. b \in Byte /\ c \in Byte
  <2>1. p \in 0 .. s.len /\ p + 1 \in 0 .. s.len
    BY FitNumbers
  <2> QED
    BY <2>1 DEF Fit
<1>2. /\ ZeroLen(b) \in 1 .. SparseZeroMaxLen /\ ValLen(b) \in 1 .. SparseValMaxLen
      /\ ValValue(b) \in 1 .. SparseValMaxValue
      /\ XZeroLen(b, c) \in Nat /\ 0 < XZeroLen(b, c)
  BY <1>1, FieldsTyped
<1>3. /\ IsZero(b) \/ IsXZero(b) \/ IsVal(b)
      /\ ~(IsZero(b) /\ IsXZero(b)) /\ ~(IsZero(b) /\ IsVal(b))
      /\ ~(IsXZero(b) /\ IsVal(b))
  BY <1>1, Kinds
<1> HIDE DEF b, c
<1>4. CASE IsZero(b)
  <2>1. OpLen(s, p) = ZeroLen(b) /\ OpBytes(s, p) = 1
    BY <1>3, <1>4 DEF OpLen, OpBytes, b
  <2>2. r = [op |-> "zero", first |-> first, len |-> ZeroLen(b), val |-> 0]
    BY <1>3, <1>4, <2>1 DEF Placed, b
  <2> QED
    BY <1>2, <2>1, <2>2, Sizes DEF Facts!OpLen
<1>5. CASE IsXZero(b)
  <2>1. OpLen(s, p) = XZeroLen(b, c) /\ OpBytes(s, p) = 2
    BY <1>3, <1>5 DEF OpLen, OpBytes, b, c
  <2>2. r = [op |-> "xzero", first |-> first, len |-> XZeroLen(b, c), val |-> 0]
    BY <1>3, <1>5, <2>1 DEF Placed, b
  <2> QED
    BY <1>2, <2>1, <2>2, Sizes DEF Facts!OpLen
<1>6. CASE IsVal(b)
  <2>1. OpLen(s, p) = ValLen(b) /\ OpBytes(s, p) = 1
    BY <1>3, <1>6 DEF OpLen, OpBytes, b
  <2>2. r = [op |-> "val", first |-> first, len |-> ValLen(b), val |-> ValValue(b)]
    BY <1>3, <1>6, <2>1 DEF Placed, b
  <2> QED
    BY <1>2, <2>1, <2>2, Sizes DEF Facts!OpLen
<1> QED
  BY <1>3, <1>4, <1>5, <1>6

\* An opcode depends on nothing but its bytes.
LEMMA PlacedElsewhere ==
  ASSUME NEW s, NEW t, NEW p \in Nat, NEW q \in Nat, NEW first,
         t.buf[q] = s.buf[p], OpBytes(s, p) = 2 => t.buf[q + 1] = s.buf[p + 1]
  PROVE  Placed(t, q, first) = Placed(s, p, first) /\ OpBytes(t, q) = OpBytes(s, p)
<1> DEFINE b == s.buf[p]
<1>1. OpBytes(t, q) = OpBytes(s, p)
  BY DEF OpBytes
<1>2. CASE IsXZero(b)
  <2>1. t.buf[q + 1] = s.buf[p + 1]
    BY <1>2 DEF OpBytes
  <2>2. OpLen(t, q) = OpLen(s, p)
    BY <2>1 DEF OpLen
  <2> QED
    BY <1>1, <2>2 DEF Placed
<1>3. CASE ~IsXZero(b)
  <2>2. OpLen(t, q) = OpLen(s, p)
    BY <1>3 DEF OpLen
  <2> QED
    BY <1>1, <2>2 DEF Placed
<1> QED
  BY <1>2, <1>3

\* The opcodes of S, placed by pl, fill the bytes from lo to hi and cover the
\* registers from i to j, in the order of both.
Lay(s, S, pl, lo, hi, i, j) ==
  /\ lo \in Nat /\ hi \in Nat /\ lo <= hi /\ i \in Nat /\ j \in Nat /\ i <= j
  /\ pl \in [S -> Nat]
  /\ \A r \in S :
       /\ r.first \in Nat /\ r.len \in Nat /\ 0 < r.len
       /\ i <= r.first /\ r.first + r.len <= j
       /\ lo <= pl[r] /\ pl[r] + Facts!OpLen(r) <= hi
       /\ Placed(s, pl[r], r.first) = r /\ OpBytes(s, pl[r]) = Facts!OpLen(r)
       /\ r.first = i => pl[r] = lo
       /\ r.first + r.len = j => pl[r] + Facts!OpLen(r) = hi
  /\ \A r, q \in S :
       /\ r.first < q.first => /\ r.first + r.len <= q.first
                               /\ pl[r] + Facts!OpLen(r) <= pl[q]
       /\ r.first = q.first => r = q
       /\ r.first + r.len = q.first => pl[q] = pl[r] + Facts!OpLen(r)
  /\ \A x \in i .. j - 1 : \E r \in S : r.first <= x /\ x < r.first + r.len
  /\ S = {} => lo = hi

Piece(s, S, lo, hi, i, j) == \E pl : Lay(s, S, pl, lo, hi, i, j)

LEMMA WidthIs == \A r : Facts!OpLen(r) \in {1, 2}
  BY DEF Facts!OpLen

LEMMA PieceNumbers ==
  ASSUME NEW s, NEW S, NEW lo, NEW hi, NEW i, NEW j, Piece(s, S, lo, hi, i, j)
  PROVE  /\ lo \in Nat /\ hi \in Nat /\ lo <= hi /\ i \in Nat /\ j \in Nat /\ i <= j
         /\ \A r \in S : /\ r.first \in Nat /\ r.len \in Nat /\ 0 < r.len
                         /\ i <= r.first /\ r.first + r.len <= j
  BY DEF Piece, Lay

LEMMA NoPiece ==
  ASSUME NEW s, NEW lo \in Nat, NEW i \in Nat
  PROVE  Piece(s, {}, lo, lo, i, i)
<1> DEFINE pl == [r \in {} |-> 0]
<1>1. pl \in [{} -> Nat]
  OBVIOUS
<1>2. i .. i - 1 = {}
  OBVIOUS
<1> HIDE DEF pl
<1>3. Lay(s, {}, pl, lo, lo, i, i)
  BY <1>1, <1>2 DEF Lay
<1> QED
  BY <1>3 DEF Piece

\* No bytes, no registers, no opcodes: one of these is the others.
LEMMA EmptyPiece ==
  ASSUME NEW s, NEW S, NEW lo, NEW hi, NEW i, NEW j, Piece(s, S, lo, hi, i, j)
  PROVE  /\ S = {} <=> lo = hi
         /\ S = {} <=> i = j
<1>1. PICK pl : Lay(s, S, pl, lo, hi, i, j)
  BY DEF Piece
<1>2. lo \in Nat /\ hi \in Nat /\ lo <= hi /\ i \in Nat /\ j \in Nat /\ i <= j
  BY <1>1 DEF Lay
<1>3. ASSUME S = {} PROVE lo = hi /\ i = j
  <2>1. \A x \in i .. j - 1 : FALSE
    BY <1>1, <1>3 DEF Lay
  <2>2. ~(i < j)
    <3>1. ASSUME i < j PROVE FALSE
      <4>1. i \in i .. j - 1
        BY <1>2, <3>1
      <4> QED
        BY <2>1, <4>1
    <3> QED
      BY <3>1
  <2> QED
    BY <1>1, <1>2, <1>3, <2>2 DEF Lay
<1>4. ASSUME NEW r \in S PROVE lo # hi /\ i # j
  <2>1. /\ r.first \in Nat /\ r.len \in Nat /\ 0 < r.len
        /\ i <= r.first /\ r.first + r.len <= j
        /\ pl[r] \in Nat /\ lo <= pl[r] /\ pl[r] + Facts!OpLen(r) <= hi
    BY <1>1 DEF Lay
  <2> QED
    BY <1>2, <2>1, WidthIs
<1> QED
  BY <1>3, <1>4

\* One opcode.
LEMMA OnePiece ==
  ASSUME NEW s, NEW p \in Nat, NEW first \in Nat,
         NEW r, Placed(s, p, first) = r, r.first = first, r.len \in Nat, 0 < r.len,
         OpBytes(s, p) = Facts!OpLen(r)
  PROVE  Piece(s, {r}, p, p + Facts!OpLen(r), first, first + r.len)
<1> DEFINE pl == [q \in {r} |-> p]
<1>1. pl \in [{r} -> Nat] /\ pl[r] = p
  OBVIOUS
<1>2. /\ p + Facts!OpLen(r) \in Nat /\ p <= p + Facts!OpLen(r)
      /\ first + r.len \in Nat /\ first <= first + r.len
  BY WidthIs
<1> HIDE DEF pl
<1>3. \A x \in first .. first + r.len - 1 : r.first <= x /\ x < r.first + r.len
  OBVIOUS
<1>4. Lay(s, {r}, pl, p, p + Facts!OpLen(r), first, first + r.len)
  BY <1>1, <1>2, <1>3 DEF Lay
<1> QED
  BY <1>4 DEF Piece

\* Two pieces one behind the other.
LEMMA JoinPieces ==
  ASSUME NEW s, NEW A, NEW B, NEW lo, NEW mid, NEW hi, NEW i, NEW m, NEW j,
         Piece(s, A, lo, mid, i, m), Piece(s, B, mid, hi, m, j)
  PROVE  Piece(s, A \cup B, lo, hi, i, j)
<1>1. PICK f : Lay(s, A, f, lo, mid, i, m)
  BY DEF Piece
<1>2. PICK g : Lay(s, B, g, mid, hi, m, j)
  BY DEF Piece
<1> DEFINE pl == [r \in A \cup B |-> IF r \in A THEN f[r] ELSE g[r]]
<1>3. /\ lo \in Nat /\ mid \in Nat /\ hi \in Nat /\ lo <= mid /\ mid <= hi
      /\ i \in Nat /\ m \in Nat /\ j \in Nat /\ i <= m /\ m <= j
  BY <1>1, <1>2 DEF Lay
<1>4. \A r \in A : /\ r.first \in Nat /\ r.len \in Nat /\ 0 < r.len
                   /\ i <= r.first /\ r.first + r.len <= m
                   /\ f[r] \in Nat /\ lo <= f[r] /\ f[r] + Facts!OpLen(r) <= mid
                   /\ r.first + r.len = m => f[r] + Facts!OpLen(r) = mid
                   /\ r.first = i => f[r] = lo
                   /\ Placed(s, f[r], r.first) = r /\ OpBytes(s, f[r]) = Facts!OpLen(r)
  BY <1>1 DEF Lay
<1>5. \A r \in B : /\ r.first \in Nat /\ r.len \in Nat /\ 0 < r.len
                   /\ m <= r.first /\ r.first + r.len <= j
                   /\ g[r] \in Nat /\ mid <= g[r] /\ g[r] + Facts!OpLen(r) <= hi
                   /\ r.first + r.len = j => g[r] + Facts!OpLen(r) = hi
                   /\ r.first = m => g[r] = mid
                   /\ Placed(s, g[r], r.first) = r /\ OpBytes(s, g[r]) = Facts!OpLen(r)
  BY <1>2 DEF Lay
<1>6. A \cap B = {}
  BY <1>3, <1>4, <1>5
<1>7. pl \in [A \cup B -> Nat]
  BY <1>4, <1>5
<1>8. (\A r \in A : pl[r] = f[r]) /\ (\A r \in B : pl[r] = g[r])
  BY <1>6
<1> HIDE DEF pl
<1>9. ASSUME NEW r \in A \cup B
      PROVE  /\ r.first \in Nat /\ r.len \in Nat /\ 0 < r.len
             /\ i <= r.first /\ r.first + r.len <= j
             /\ lo <= pl[r] /\ pl[r] + Facts!OpLen(r) <= hi
             /\ Placed(s, pl[r], r.first) = r /\ OpBytes(s, pl[r]) = Facts!OpLen(r)
             /\ r.first = i => pl[r] = lo
             /\ r.first + r.len = j => pl[r] + Facts!OpLen(r) = hi
  <2>1. CASE r \in A
    <3>1. ASSUME r.first + r.len = j PROVE pl[r] + Facts!OpLen(r) = hi
      <4>1. m = j
        BY <1>3, <1>4, <2>1, <3>1
      <4>2. mid = hi
        BY <1>2, <4>1, EmptyPiece DEF Piece
      <4> QED
        BY <1>4, <1>8, <2>1, <3>1, <4>1, <4>2
    <3> QED
      BY <1>3, <1>4, <1>8, <2>1, <3>1, WidthIs
  <2>2. CASE r \in B
    <3>1. ASSUME r.first = i PROVE pl[r] = lo
      <4>1. i = m
        BY <1>3, <1>5, <2>2, <3>1
      <4>2. lo = mid
        BY <1>1, <4>1, EmptyPiece DEF Piece
      <4> QED
        BY <1>5, <1>8, <2>2, <3>1, <4>1, <4>2
    <3> QED
      BY <1>3, <1>5, <1>8, <2>2, <3>1, WidthIs
  <2> QED
    BY <2>1, <2>2
<1>10. ASSUME NEW r \in A \cup B, NEW q \in A \cup B
       PROVE  /\ r.first < q.first => /\ r.first + r.len <= q.first
                                      /\ pl[r] + Facts!OpLen(r) <= pl[q]
              /\ r.first = q.first => r = q
              /\ r.first + r.len = q.first => pl[q] = pl[r] + Facts!OpLen(r)
  <2>1. CASE r \in A /\ q \in A
    BY <1>1, <1>8, <2>1 DEF Lay
  <2>2. CASE r \in B /\ q \in B
    BY <1>2, <1>8, <2>2 DEF Lay
  <2>3. CASE r \in A /\ q \in B
    BY <1>3, <1>4, <1>5, <1>8, <2>3, WidthIs
  <2>4. CASE r \in B /\ q \in A
    BY <1>3, <1>4, <1>5, <1>8, <2>4, WidthIs
  <2> QED
    BY <2>1, <2>2, <2>3, <2>4
<1>11. ASSUME NEW x \in i .. j - 1
       PROVE  \E r \in A \cup B : r.first <= x /\ x < r.first + r.len
  <2>1. x \in i .. m - 1 \/ x \in m .. j - 1
    BY <1>3
  <2> QED
    BY <1>1, <1>2, <2>1 DEF Lay
<1>12. A \cup B = {} => lo = hi
  BY <1>1, <1>2 DEF Lay
<1>13. Lay(s, A \cup B, pl, lo, hi, i, j)
  BY <1>3, <1>7, <1>9, <1>10, <1>11, <1>12 DEF Lay
<1> QED
  BY <1>13 DEF Piece

\* A piece whose bytes are found elsewhere, in another string as well.
LEMMA MovedPiece ==
  ASSUME NEW s, NEW S, NEW lo, NEW hi, NEW i, NEW j, Piece(s, S, lo, hi, i, j),
         NEW t, NEW d \in Int, lo + d >= 0,
         \A x \in lo .. hi - 1 : t.buf[x + d] = s.buf[x]
  PROVE  Piece(t, S, lo + d, hi + d, i, j)
<1>1. PICK f : Lay(s, S, f, lo, hi, i, j)
  BY DEF Piece
<1> DEFINE pl == [r \in S |-> f[r] + d]
<1>2. /\ lo \in Nat /\ hi \in Nat /\ lo <= hi /\ i \in Nat /\ j \in Nat /\ i <= j
      /\ lo + d \in Nat /\ hi + d \in Nat /\ lo + d <= hi + d
  BY <1>1 DEF Lay
<1>3. \A r \in S : /\ r.first \in Nat /\ r.len \in Nat /\ 0 < r.len
                   /\ i <= r.first /\ r.first + r.len <= j
                   /\ f[r] \in Nat /\ lo <= f[r] /\ f[r] + Facts!OpLen(r) <= hi
                   /\ r.first + r.len = j => f[r] + Facts!OpLen(r) = hi
                   /\ r.first = i => f[r] = lo
                   /\ Placed(s, f[r], r.first) = r /\ OpBytes(s, f[r]) = Facts!OpLen(r)
  BY <1>1 DEF Lay
<1>4. pl \in [S -> Nat] /\ \A r \in S : pl[r] = f[r] + d /\ pl[r] \in Nat
  BY <1>2, <1>3
<1> HIDE DEF pl
<1>5. ASSUME NEW r \in S
      PROVE  Placed(t, pl[r], r.first) = r /\ OpBytes(t, pl[r]) = Facts!OpLen(r)
  <2> DEFINE p == f[r]
             q == pl[r]
  <2>1. p \in Nat /\ q \in Nat /\ q = p + d
    BY <1>3, <1>4
  <2>2. /\ lo <= p /\ p + OpBytes(s, p) <= hi /\ OpBytes(s, p) \in {1, 2}
        /\ Placed(s, p, r.first) = r /\ OpBytes(s, p) = Facts!OpLen(r)
    BY <1>3, WidthIs
  <2> HIDE DEF p, q
  <2>3. t.buf[q] = s.buf[p]
    <3>1. p \in lo .. hi - 1
      BY <1>2, <2>1, <2>2
    <3> QED
      BY <2>1, <3>1
  <2>4. ASSUME OpBytes(s, p) = 2 PROVE t.buf[q + 1] = s.buf[p + 1]
    <3>1. p + 1 \in lo .. hi - 1 /\ q + 1 = p + 1 + d
      BY <1>2, <2>1, <2>2, <2>4
    <3> QED
      BY <3>1
  <2>5. Placed(t, q, r.first) = Placed(s, p, r.first) /\ OpBytes(t, q) = OpBytes(s, p)
    BY <2>1, <2>3, <2>4, PlacedElsewhere
  <2> QED
    BY <2>2, <2>5 DEF q
<1>6. ASSUME NEW r \in S
      PROVE  /\ lo + d <= pl[r] /\ pl[r] + Facts!OpLen(r) <= hi + d
             /\ r.first = i => pl[r] = lo + d
             /\ r.first + r.len = j => pl[r] + Facts!OpLen(r) = hi + d
  BY <1>2, <1>3, <1>4, WidthIs
<1>7. ASSUME NEW r \in S, NEW q \in S
      PROVE  /\ r.first < q.first => /\ r.first + r.len <= q.first
                                     /\ pl[r] + Facts!OpLen(r) <= pl[q]
             /\ r.first = q.first => r = q
             /\ r.first + r.len = q.first => pl[q] = pl[r] + Facts!OpLen(r)
  <2>1. /\ r.first < q.first => /\ r.first + r.len <= q.first
                                /\ f[r] + Facts!OpLen(r) <= f[q]
        /\ r.first = q.first => r = q
        /\ r.first + r.len = q.first => f[q] = f[r] + Facts!OpLen(r)
    BY <1>1 DEF Lay
  <2> QED
    BY <1>3, <1>4, <2>1, WidthIs
<1>8. S = {} => lo + d = hi + d
  BY <1>1 DEF Lay
<1>9. \A x \in i .. j - 1 : \E r \in S : r.first <= x /\ x < r.first + r.len
  BY <1>1 DEF Lay
<1>10. Lay(t, S, pl, lo + d, hi + d, i, j)
  BY <1>2, <1>3, <1>4, <1>5, <1>6, <1>7, <1>8, <1>9 DEF Lay
<1> QED
  BY <1>10 DEF Piece

\* An opcode of a piece, and what lies before and behind it.
LEMMA CutPiece ==
  ASSUME NEW s, NEW S, NEW lo, NEW hi, NEW i, NEW j, Piece(s, S, lo, hi, i, j),
         NEW r \in S
  PROVE  \E A, B : \E p \in Nat :
           /\ S = (A \cup {r}) \cup B /\ r \notin A /\ r \notin B
           /\ \A q \in A : q.first < r.first
           /\ \A q \in B : q.first > r.first
           /\ Piece(s, A, lo, p, i, r.first)
           /\ Piece(s, B, p + Facts!OpLen(r), hi, r.first + r.len, j)
           /\ Placed(s, p, r.first) = r /\ OpBytes(s, p) = Facts!OpLen(r)
<1> DEFINE A == {q \in S : q.first < r.first}
           B == {q \in S : q.first > r.first}
<1>1. PICK f : Lay(s, S, f, lo, hi, i, j)
  BY DEF Piece
<1> DEFINE p == f[r]
           w == Facts!OpLen(r)
           fA == [q \in A |-> f[q]]
           fB == [q \in B |-> f[q]]
<1>2. lo \in Nat /\ hi \in Nat /\ lo <= hi /\ i \in Nat /\ j \in Nat /\ i <= j
  BY <1>1 DEF Lay
<1>3. \A q \in S : /\ q.first \in Nat /\ q.len \in Nat /\ 0 < q.len
                   /\ i <= q.first /\ q.first + q.len <= j
                   /\ f[q] \in Nat /\ lo <= f[q] /\ f[q] + Facts!OpLen(q) <= hi
                   /\ q.first + q.len = j => f[q] + Facts!OpLen(q) = hi
                   /\ q.first = i => f[q] = lo
                   /\ Placed(s, f[q], q.first) = q /\ OpBytes(s, f[q]) = Facts!OpLen(q)
  BY <1>1 DEF Lay
<1>4. \A q, u \in S :
       /\ q.first < u.first => /\ q.first + q.len <= u.first
                               /\ f[q] + Facts!OpLen(q) <= f[u]
       /\ q.first = u.first => q = u
       /\ q.first + q.len = u.first => f[u] = f[q] + Facts!OpLen(q)
  BY <1>1 DEF Lay
<1>5. \A x \in i .. j - 1 : \E q \in S : q.first <= x /\ x < q.first + q.len
  BY <1>1 DEF Lay
<1>6. p \in Nat /\ w \in {1, 2} /\ p + w \in Nat
  BY <1>3, WidthIs
<1>7. S = (A \cup {r}) \cup B /\ r \notin A /\ r \notin B
  BY <1>3, <1>4
<1>8. /\ A \subseteq S /\ B \subseteq S
      /\ \A q \in A : q.first < r.first
      /\ \A q \in B : q.first > r.first
      /\ \A q \in S : q.first < r.first => q \in A
      /\ \A q \in S : q.first > r.first => q \in B
  OBVIOUS
<1>9. /\ fA \in [A -> Nat] /\ (\A q \in A : fA[q] = f[q])
      /\ fB \in [B -> Nat] /\ (\A q \in B : fB[q] = f[q])
  BY <1>3, <1>8
<1> HIDE DEF A, B, fA, fB
<1>10. Lay(s, A, fA, lo, p, i, r.first)
  <2>1. \A q \in A :
          /\ q.first \in Nat /\ q.len \in Nat /\ 0 < q.len
          /\ i <= q.first /\ q.first + q.len <= r.first
          /\ lo <= fA[q] /\ fA[q] + Facts!OpLen(q) <= p
          /\ Placed(s, fA[q], q.first) = q /\ OpBytes(s, fA[q]) = Facts!OpLen(q)
          /\ q.first = i => fA[q] = lo
          /\ q.first + q.len = r.first => fA[q] + Facts!OpLen(q) = p
    BY <1>3, <1>4, <1>8, <1>9
  <2>2. \A q, u \in A :
          /\ q.first < u.first => /\ q.first + q.len <= u.first
                                  /\ fA[q] + Facts!OpLen(q) <= fA[u]
          /\ q.first = u.first => q = u
          /\ q.first + q.len = u.first => fA[u] = fA[q] + Facts!OpLen(q)
    BY <1>4, <1>8, <1>9
  <2>3. ASSUME NEW x \in i .. r.first - 1
        PROVE  \E q \in A : q.first <= x /\ x < q.first + q.len
    <3>1. x \in i .. j - 1
      BY <1>2, <1>3
    <3>2. PICK q \in S : q.first <= x /\ x < q.first + q.len
      BY <1>5, <3>1
    <3>3. q.first < r.first
      BY <1>3, <3>2
    <3> QED
      BY <1>8, <3>2, <3>3
  <2>4. ASSUME A = {} PROVE lo = p
    <3>1. ~(i < r.first)
      <4>1. SUFFICES ASSUME i < r.first PROVE FALSE
        OBVIOUS
      <4>2. i \in i .. r.first - 1
        BY <1>2, <1>3, <4>1
      <4> QED
        BY <2>3, <2>4, <4>2
    <3> QED
      BY <1>2, <1>3, <3>1
  <2>5. lo <= p /\ i <= r.first /\ r.first \in Nat
    BY <1>3
  <2> HIDE DEF p
  <2> QED
    BY <1>2, <1>6, <1>9, <2>1, <2>2, <2>3, <2>4, <2>5 DEF Lay
<1>11. Lay(s, B, fB, p + w, hi, r.first + r.len, j)
  <2>1. \A q \in B :
          /\ q.first \in Nat /\ q.len \in Nat /\ 0 < q.len
          /\ r.first + r.len <= q.first /\ q.first + q.len <= j
          /\ p + w <= fB[q] /\ fB[q] + Facts!OpLen(q) <= hi
          /\ Placed(s, fB[q], q.first) = q /\ OpBytes(s, fB[q]) = Facts!OpLen(q)
          /\ q.first = r.first + r.len => fB[q] = p + w
          /\ q.first + q.len = j => fB[q] + Facts!OpLen(q) = hi
    BY <1>3, <1>4, <1>8, <1>9
  <2>2. \A q, u \in B :
          /\ q.first < u.first => /\ q.first + q.len <= u.first
                                  /\ fB[q] + Facts!OpLen(q) <= fB[u]
          /\ q.first = u.first => q = u
          /\ q.first + q.len = u.first => fB[u] = fB[q] + Facts!OpLen(q)
    BY <1>4, <1>8, <1>9
  <2>3. ASSUME NEW x \in r.first + r.len .. j - 1
        PROVE  \E q \in B : q.first <= x /\ x < q.first + q.len
    <3>1. x \in i .. j - 1
      BY <1>2, <1>3
    <3>2. PICK q \in S : q.first <= x /\ x < q.first + q.len
      BY <1>5, <3>1
    <3>3. q.first > r.first
      <4>1. SUFFICES ASSUME ~(q.first > r.first) PROVE FALSE
        OBVIOUS
      <4>2. q.first < r.first \/ q = r
        BY <1>3, <1>4, <4>1
      <4> QED
        BY <1>3, <1>4, <3>2, <4>2
    <3> QED
      BY <1>8, <3>2, <3>3
  <2>4. ASSUME B = {} PROVE p + w = hi
    <3>1. ~(r.first + r.len < j)
      <4>1. SUFFICES ASSUME r.first + r.len < j PROVE FALSE
        OBVIOUS
      <4>2. r.first + r.len \in r.first + r.len .. j - 1
        BY <1>2, <1>3, <4>1
      <4> QED
        BY <2>3, <2>4, <4>2
    <3> QED
      BY <1>2, <1>3, <3>1
  <2>5. p + w <= hi /\ r.first + r.len <= j /\ r.first + r.len \in Nat
    BY <1>3
  <2> HIDE DEF p, w
  <2> QED
    BY <1>2, <1>6, <1>9, <2>1, <2>2, <2>3, <2>4, <2>5 DEF Lay
<1>12. Placed(s, p, r.first) = r /\ OpBytes(s, p) = Facts!OpLen(r)
  BY <1>3
<1>13. Piece(s, A, lo, p, i, r.first) /\ Piece(s, B, p + w, hi, r.first + r.len, j)
  BY <1>10, <1>11 DEF Piece
<1> HIDE DEF p, w
<1> QED
  BY <1>6, <1>7, <1>8, <1>12, <1>13 DEF w

-----------------------------------------------------------------------------
(* The loop over the opcodes.                                              *)

\* What is assumed of the constants holds for those of the facts too.
LEMMA FactsConstants ==
  /\ Facts!SparseAssumption /\ Facts!ObjectAssumption /\ Facts!EstimateAssumption
  BY BytesAssumption, Sizes
     DEF Facts!SparseAssumption, Facts!ObjectAssumption, Facts!EstimateAssumption,
         ZeroEstimate, Index, Facts!Index

LEMMA LeastExists ==
  ASSUME NEW T \in SUBSET Nat, T # {}
  PROVE  \E m \in T : \A y \in T : m <= y
<1>0. T \subseteq Nat
  OBVIOUS
<1>1. PICK m \in T : \A y \in T : ~ (<<y, m>> \in OpToRel(<, Nat))
  BY <1>0, NatLessThanWellFounded, WFMin
<1>2. \A y \in T : ~(y < m)
  BY <1>0, <1>1 DEF OpToRel
<1> QED
  BY <1>0, <1>2

LEMMA UpTo ==
  ASSUME NEW N \in Nat, NEW G \in SUBSET (0 .. N), 0 \in G,
         \A n \in G : n < N => n + 1 \in G
  PROVE  N \in G
<1> DEFINE T == {n \in 0 .. N : n \notin G}
<1>1. SUFFICES ASSUME N \notin G PROVE FALSE
  OBVIOUS
<1>2. T \in SUBSET Nat /\ T # {}
  BY <1>1
<1>3. PICK m \in T : \A y \in T : m <= y
  BY <1>2, LeastExists
<1>4. m \in 1 .. N
  BY <1>3
<1>5. m - 1 \in G
  BY <1>3, <1>4
<1>6. m - 1 < N /\ m - 1 + 1 = m
  BY <1>4
<1>7. m \in G
  BY <1>5, <1>6
<1> QED
  BY <1>3, <1>7

LEMMA StandFields ==
  ASSUME NEW p, NEW first, NEW prev, NEW span
  PROVE  LET at == Located(p, first, prev, span)
         IN  at.p = p /\ at.first = first /\ at.prev = prev /\ at.span = span
  BY DEF Located

LEMMA StandTyped ==
  ASSUME NEW at \in Stand
  PROVE  at.p \in Nat /\ at.first \in Nat /\ at.prev \in Nat /\ at.span \in Nat
  BY DEF Stand

LEMMA FirstStandTyped ==
  FirstStand \in Stand /\ FirstStand.p = HdrSize /\ FirstStand.first = 0
    /\ FirstStand.prev = None /\ FirstStand.span = 0
  BY Sizes DEF FirstStand, Located, Stand, None

LEMMA TurnTyped ==
  ASSUME NEW s, Fit(s), NEW at \in Stand, at.p < s.len
  PROVE  /\ Turn(s, at) \in Stand
         /\ Turn(s, at).p = at.p + OpBytes(s, at.p) /\ at.p < Turn(s, at).p
         /\ Turn(s, at).first = at.first + OpLen(s, at.p)
         /\ Turn(s, at).prev = at.p /\ Turn(s, at).span = OpLen(s, at.p)
<1>1. at.p \in Nat /\ at.first \in Nat
  BY StandTyped
<1>2. OpBytes(s, at.p) \in {1, 2} /\ OpLen(s, at.p) \in Nat
  BY <1>1, PlacedFacts
<1> DEFINE w == OpBytes(s, at.p)
           n == OpLen(s, at.p)
<1>3. Turn(s, at) = [p |-> at.p + w, first |-> at.first + n, prev |-> at.p, span |-> n]
  BY DEF Turn, Located
<1> HIDE DEF w, n
<1>4. at.p + w \in Nat /\ at.first + n \in Nat /\ at.p < at.p + w /\ n \in Nat
  BY <1>1, <1>2 DEF w, n
<1> QED
  BY <1>1, <1>3, <1>4 DEF Stand, w, n

\* A function that the loop defines, from its end backwards.
Walked(f, s, base, step) ==
  \A at \in Stand : f[at] = IF at.p >= s.len THEN base[at]
                            ELSE step[<<at, f[Turn(s, at)]>>]

LEMMA WalkExists ==
  ASSUME NEW s, Fit(s), NEW V, NEW base \in [Stand -> V],
         NEW step \in [Stand \X V -> V]
  PROVE  \E f \in [Stand -> V] : Walked(f, s, base, step)
<1> DEFINE D(n) == {at \in Stand : at.p + n >= s.len}
           Step(f, at) == IF at.p >= s.len THEN base[at]
                          ELSE step[<<at, f[Turn(s, at)]>>]
           Fine(f, n) == f \in [D(n) -> V] /\ \A at \in D(n) : f[at] = Step(f, at)
           G == {n \in 0 .. s.len : \E f : Fine(f, n)}
<1>0. s.len \in Nat
  BY FitNumbers
<1>1. 0 \in G
  <2> DEFINE f == [at \in D(0) |-> base[at]]
  <2>1. \A at \in D(0) : at \in Stand /\ at.p >= s.len
    BY <1>0, StandTyped
  <2>2. f \in [D(0) -> V]
    BY <2>1
  <2>3. Fine(f, 0)
    BY <2>1, <2>2
  <2> HIDE DEF f, Fine
  <2>4. 0 \in 0 .. s.len
    BY <1>0
  <2>5. \E g : Fine(g, 0)
    BY <2>3
  <2> QED
    BY <2>4, <2>5
<1>2. ASSUME NEW n \in G, n < s.len PROVE n + 1 \in G
  <2>0. n \in Nat /\ n + 1 \in 0 .. s.len
    BY <1>0, <1>2
  <2>1. PICK f : Fine(f, n)
    OBVIOUS
  <2> DEFINE g == [at \in D(n + 1) |-> Step(f, at)]
  <2>2. D(n) \subseteq D(n + 1)
    BY <1>0, <2>0, StandTyped
  <2>3. ASSUME NEW at \in D(n + 1), ~(at.p >= s.len) PROVE Turn(s, at) \in D(n)
    <3>1. at \in Stand /\ at.p \in Nat /\ at.p < s.len /\ at.p + (n + 1) >= s.len
      BY <1>0, <2>3, StandTyped
    <3>2. Turn(s, at) \in Stand /\ at.p < Turn(s, at).p
      BY <3>1, TurnTyped
    <3>3. Turn(s, at).p \in Nat
      BY <3>2, StandTyped
    <3> QED
      BY <1>0, <2>0, <3>1, <3>2, <3>3
  <2>4. \A at \in D(n) : g[at] = f[at]
    BY <2>1, <2>2
  <2>5. ASSUME NEW at \in D(n + 1) PROVE g[at] \in V /\ g[at] = Step(g, at)
    <3>1. CASE at.p >= s.len
      BY <3>1
    <3>2. CASE ~(at.p >= s.len)
      <4>1. Turn(s, at) \in D(n)
        BY <2>3, <3>2
      <4>2. f[Turn(s, at)] \in V /\ g[Turn(s, at)] = f[Turn(s, at)]
        BY <2>1, <2>4, <4>1
      <4>3. <<at, f[Turn(s, at)]>> \in Stand \X V
        BY <4>2
      <4> QED
        BY <3>2, <4>2, <4>3
    <3> QED
      BY <3>1, <3>2
  <2>6. g \in [D(n + 1) -> V]
    BY <2>5
  <2>7. Fine(g, n + 1)
    BY <2>5, <2>6
  <2> QED
    BY <2>0, <2>7
<1>3. s.len \in G
  <2>1. G \in SUBSET (0 .. s.len)
    OBVIOUS
  <2> HIDE DEF G
  <2> QED
    BY <1>0, <1>1, <1>2, <2>1, UpTo
<1>4. PICK f : Fine(f, s.len)
  BY <1>3
<1>5. D(s.len) = Stand
  BY <1>0, StandTyped
<1> QED
  BY <1>4, <1>5 DEF Walked

\* The stands of a loop that starts at x.
WalkFrom(s, W, x) ==
  /\ x \in W /\ W \subseteq Stand
  /\ \A at \in W : at.p < s.len => Turn(s, at) \in W
  /\ \A at \in W : at = x \/ \E b \in W : b.p < s.len /\ at = Turn(s, b)
  /\ \E at \in W : at.p >= s.len
  /\ \A Z \in SUBSET Stand :
       x \in Z /\ (\A at \in Z : at.p < s.len => Turn(s, at) \in Z) => W \subseteq Z

LEMMA StandsAre ==
  ASSUME NEW s, Fit(s)
  PROVE  WalkFrom(s, Stands(s), FirstStand)
<1> DEFINE V == SUBSET Stand
           base == [at \in Stand |-> {at}]
           step == [x \in Stand \X V |-> {x[1]} \cup x[2]]
           Eq(w) == w = [at \in Stand |-> IF at.p >= s.len THEN {at}
                                          ELSE {at} \cup w[Turn(s, at)]]
           walk == CHOOSE w : Eq(w)
<1>0. s.len \in Nat
  BY FitNumbers
<1>1. base \in [Stand -> V] /\ step \in [Stand \X V -> V]
  OBVIOUS
<1>2. \A at \in Stand : base[at] = {at}
  OBVIOUS
<1>3. \A at \in Stand, v \in V : step[<<at, v>>] = {at} \cup v
  OBVIOUS
<1> HIDE DEF base, step
<1>4. PICK f \in [Stand -> V] : Walked(f, s, base, step)
  BY <1>1, WalkExists
<1>5. Eq(f)
  <2>1. ASSUME NEW at \in Stand
        PROVE  f[at] = IF at.p >= s.len THEN {at} ELSE {at} \cup f[Turn(s, at)]
    <3>1. CASE at.p >= s.len
      BY <1>2, <1>4, <3>1 DEF Walked
    <3>2. CASE ~(at.p >= s.len)
      <4>1. Turn(s, at) \in Stand
        BY <1>0, <3>2, TurnTyped, StandTyped
      <4>2. f[Turn(s, at)] \in V
        BY <4>1
      <4> QED
        BY <1>3, <1>4, <3>2, <4>2 DEF Walked
    <3> QED
      BY <3>1, <3>2
  <2>2. f = [at \in Stand |-> f[at]]
    OBVIOUS
  <2> QED
    BY <2>1, <2>2
<1>6. Eq(walk)
  BY <1>5
<1>7. Stands(s) = walk[FirstStand]
  BY DEF Stands
<1> HIDE DEF walk
<1>8. \A at \in Stand : walk[at] = IF at.p >= s.len THEN {at}
                                   ELSE {at} \cup walk[Turn(s, at)]
  BY <1>6
<1> HIDE DEF Eq
<1> DEFINE D(n) == {at \in Stand : at.p + n >= s.len}
           G == {n \in 0 .. s.len : \A x \in D(n) : WalkFrom(s, walk[x], x)}
<1>9. ASSUME NEW x \in Stand, x.p >= s.len PROVE WalkFrom(s, walk[x], x)
  <2>1. ~(x.p < s.len)
    BY <1>0, <1>9, StandTyped
  <2>2. walk[x] = {x}
    BY <1>8, <1>9
  <2> QED
    BY <1>9, <2>1, <2>2 DEF WalkFrom
<1>10. 0 \in G
  BY <1>0, <1>9, StandTyped
<1>11. ASSUME NEW n \in G, n < s.len PROVE n + 1 \in G
  <2>0. n \in Nat /\ n + 1 \in 0 .. s.len
    BY <1>0, <1>11
  <2>1. SUFFICES ASSUME NEW x \in D(n + 1) PROVE WalkFrom(s, walk[x], x)
    BY <2>0
  <2>2. CASE x.p >= s.len
    BY <1>9, <2>2
  <2>3. CASE ~(x.p >= s.len)
    <3> DEFINE y == Turn(s, x)
               W == walk[y]
    <3>1. x \in Stand /\ x.p \in Nat /\ x.p < s.len /\ x.p + (n + 1) >= s.len
      BY <1>0, <2>3, StandTyped
    <3>2. y \in Stand /\ x.p < y.p
      BY <3>1, TurnTyped
    <3>3. y.p \in Nat
      BY <3>2, StandTyped
    <3>4. y \in D(n)
      BY <1>0, <2>0, <3>1, <3>2, <3>3
    <3>5. WalkFrom(s, W, y)
      BY <3>4
    <3>6. walk[x] = {x} \cup W
      BY <1>8, <2>3, <3>1
    <3>7. y = Turn(s, x)
      OBVIOUS
    <3> HIDE DEF y, W
    <3>8. /\ x \in walk[x] /\ walk[x] \subseteq Stand
          /\ \A at \in walk[x] : at.p < s.len => Turn(s, at) \in walk[x]
          /\ \E at \in walk[x] : at.p >= s.len
      BY <3>1, <3>5, <3>6, <3>7 DEF WalkFrom
    <3>9. \A at \in walk[x] : at = x \/ \E b \in walk[x] : b.p < s.len /\ at = Turn(s, b)
      BY <3>1, <3>5, <3>6, <3>7 DEF WalkFrom
    <3>10. ASSUME NEW Z \in SUBSET Stand, x \in Z,
                  \A at \in Z : at.p < s.len => Turn(s, at) \in Z
           PROVE  walk[x] \subseteq Z
      <4>1. y \in Z
        BY <3>1, <3>7, <3>10
      <4> QED
        BY <3>5, <3>6, <3>10, <4>1 DEF WalkFrom
    <3> QED
      BY <3>8, <3>9, <3>10 DEF WalkFrom
  <2> QED
    BY <2>2, <2>3
<1>12. s.len \in G
  <2>1. G \in SUBSET (0 .. s.len)
    OBVIOUS
  <2> HIDE DEF G
  <2> QED
    BY <1>0, <1>10, <1>11, <2>1, UpTo
<1>13. FirstStand \in D(s.len)
  BY <1>0, FirstStandTyped, StandTyped
<1>14. WalkFrom(s, walk[FirstStand], FirstStand)
  BY <1>12, <1>13
<1> QED
  BY <1>7, <1>14

-----------------------------------------------------------------------------
(* Where the loop stands in a string of opcodes.                           *)

\* A stream of the whole string, over the first N registers.
Streams(s, S, N) == Piece(s, S, HdrSize, s.len, 0, N)

\* Between two opcodes: p bytes and x registers lie before.
Between(s, S, N, p, x) ==
  \E A, B : S = A \cup B /\ Piece(s, A, HdrSize, p, 0, x) /\ Piece(s, B, p, s.len, x, N)

LEMMA BetweenNumbers ==
  ASSUME NEW s, NEW S, NEW N, NEW p, NEW x, Between(s, S, N, p, x)
  PROVE  /\ p \in Nat /\ HdrSize <= p /\ p <= s.len
         /\ x \in Nat /\ N \in Nat /\ x <= N
         /\ p = s.len <=> x = N
  BY PieceNumbers, EmptyPiece DEF Between

LEMMA StreamStarts ==
  ASSUME NEW s, NEW S, NEW N, Streams(s, S, N)
  PROVE  Between(s, S, N, HdrSize, 0)
<1>1. Piece(s, {}, HdrSize, HdrSize, 0, 0)
  BY Sizes, NoPiece
<1>2. S = {} \cup S
  OBVIOUS
<1> QED
  BY <1>1, <1>2 DEF Streams, Between

\* The first opcode of a piece, and the others.
LEMMA HeadPiece ==
  ASSUME NEW s, Fit(s), NEW C, NEW p, NEW hi, NEW x, NEW j,
         Piece(s, C, p, hi, x, j), p < hi, hi <= s.len
  PROVE  LET r == Placed(s, p, x)
         IN  /\ r \in C /\ r.first = x /\ r.len = OpLen(s, p)
             /\ Facts!OpLen(r) = OpBytes(s, p) /\ r.len \in Nat /\ 0 < r.len
             /\ Piece(s, {r}, p, p + OpBytes(s, p), x, x + r.len)
             /\ \E B : /\ C = {r} \cup B /\ r \notin B
                       /\ Piece(s, B, p + OpBytes(s, p), hi, x + r.len, j)
<1> DEFINE r == Placed(s, p, x)
<1>1. p \in Nat /\ x \in Nat /\ j \in Nat /\ hi \in Nat /\ x < j /\ s.len \in Nat
  BY PieceNumbers, EmptyPiece, FitNumbers
<1>2. PICK c \in C : c.first = x
  <2>1. PICK f : Lay(s, C, f, p, hi, x, j)
    BY DEF Piece
  <2>2. x \in x .. j - 1
    BY <1>1
  <2>3. PICK c \in C : c.first <= x /\ x < c.first + c.len
    BY <2>1, <2>2 DEF Lay
  <2>4. c.first \in Nat /\ x <= c.first
    BY PieceNumbers
  <2> QED
    BY <1>1, <2>3, <2>4
<1>3. PICK L, B : \E z \in Nat :
           /\ C = (L \cup {c}) \cup B /\ c \notin L /\ c \notin B
           /\ Piece(s, L, p, z, x, c.first)
           /\ Piece(s, B, z + Facts!OpLen(c), hi, c.first + c.len, j)
           /\ Placed(s, z, c.first) = c /\ OpBytes(s, z) = Facts!OpLen(c)
  BY CutPiece
<1>4. PICK y \in Nat :
           /\ C = (L \cup {c}) \cup B /\ c \notin L /\ c \notin B
           /\ Piece(s, L, p, y, x, c.first)
           /\ Piece(s, B, y + Facts!OpLen(c), hi, c.first + c.len, j)
           /\ Placed(s, y, c.first) = c /\ OpBytes(s, y) = Facts!OpLen(c)
  BY <1>3
<1>5. L = {} /\ y = p
  BY <1>2, <1>4, EmptyPiece
<1>6. c = r
  BY <1>2, <1>4, <1>5
<1>7. /\ r.first = x /\ r.len = OpLen(s, p) /\ r.len \in Nat /\ 0 < r.len
      /\ Facts!OpLen(r) = OpBytes(s, p)
  <2>1. p < s.len
    BY <1>1
  <2> QED
    BY <1>1, <2>1, PlacedFacts
<1>8. Piece(s, {r}, p, p + Facts!OpLen(r), x, x + r.len)
  BY <1>1, <1>7, OnePiece
<1>9. Piece(s, B, p + OpBytes(s, p), hi, x + r.len, j)
  BY <1>2, <1>4, <1>5, <1>6, <1>7
<1>10. C = {r} \cup B /\ r \notin B
  BY <1>4, <1>5, <1>6
<1>11. \E BB : /\ C = {r} \cup BB /\ r \notin BB
                /\ Piece(s, BB, p + OpBytes(s, p), hi, x + r.len, j)
  BY <1>9, <1>10
<1>12. Piece(s, {r}, p, p + OpBytes(s, p), x, x + r.len) /\ r \in C
  BY <1>7, <1>8, <1>10
<1> HIDE DEF r
<1> QED
  BY <1>7, <1>11, <1>12 DEF r

\* The opcode that starts there, and the place behind it.
LEMMA CutAt ==
  ASSUME NEW s, Fit(s), NEW S, NEW N, NEW p, NEW x, Between(s, S, N, p, x), p < s.len
  PROVE  LET r == Placed(s, p, x)
         IN  /\ r \in S /\ r.first = x /\ r.len = OpLen(s, p)
             /\ Facts!OpLen(r) = OpBytes(s, p)
             /\ Between(s, S, N, p + OpBytes(s, p), x + OpLen(s, p))
             /\ \E A, B : /\ S = (A \cup {r}) \cup B /\ r \notin A /\ r \notin B
                          /\ Piece(s, A, HdrSize, p, 0, x)
                          /\ Piece(s, B, p + OpBytes(s, p), s.len, x + r.len, N)
<1> DEFINE r == Placed(s, p, x)
<1>1. PICK A, C : /\ S = A \cup C /\ Piece(s, A, HdrSize, p, 0, x)
                  /\ Piece(s, C, p, s.len, x, N)
  BY DEF Between
<1>2. s.len <= s.len /\ x \in Nat
  BY <1>1, FitNumbers, PieceNumbers
<1>3. /\ r \in C /\ r.first = x /\ r.len = OpLen(s, p)
      /\ Facts!OpLen(r) = OpBytes(s, p) /\ r.len \in Nat /\ 0 < r.len
      /\ Piece(s, {r}, p, p + OpBytes(s, p), x, x + r.len)
      /\ \E B : /\ C = {r} \cup B /\ r \notin B
                /\ Piece(s, B, p + OpBytes(s, p), s.len, x + r.len, N)
  BY <1>1, <1>2, HeadPiece
<1> HIDE DEF r
<1>4. PICK B : /\ C = {r} \cup B /\ r \notin B
               /\ Piece(s, B, p + OpBytes(s, p), s.len, x + r.len, N)
  BY <1>3
<1>5. Piece(s, A \cup {r}, HdrSize, p + OpBytes(s, p), 0, x + r.len)
  BY <1>1, <1>3, JoinPieces
<1>6. S = (A \cup {r}) \cup B /\ r \in S
  BY <1>1, <1>4
<1>7. Between(s, S, N, p + OpBytes(s, p), x + OpLen(s, p))
  BY <1>3, <1>4, <1>5, <1>6 DEF Between
<1>8. r \notin A
  <2>1. SUFFICES ASSUME r \in A PROVE FALSE
    OBVIOUS
  <2>2. r.first \in Nat /\ r.len \in Nat /\ 0 < r.len /\ r.first + r.len <= x
    BY <1>1, <2>1, PieceNumbers
  <2> QED
    BY <1>2, <1>3, <2>2
<1> QED
  BY <1>1, <1>3, <1>4, <1>6, <1>7, <1>8 DEF r

LEMMA NextOpcode ==
  ASSUME NEW s, Fit(s), NEW S, NEW N, NEW p, NEW x, Between(s, S, N, p, x), p < s.len
  PROVE  /\ Placed(s, p, x) \in S
         /\ Placed(s, p, x).first = x /\ Placed(s, p, x).len = OpLen(s, p)
         /\ Facts!OpLen(Placed(s, p, x)) = OpBytes(s, p)
         /\ Between(s, S, N, p + OpBytes(s, p), x + OpLen(s, p))
         /\ OpLen(s, p) \in Nat /\ 0 < OpLen(s, p) /\ OpBytes(s, p) \in {1, 2}
<1>1. p \in Nat
  BY BetweenNumbers
<1>2. OpLen(s, p) \in Nat /\ 0 < OpLen(s, p) /\ OpBytes(s, p) \in {1, 2}
  BY <1>1, PlacedFacts
<1> QED
  BY <1>2, CutAt

\* Where the loop stands, what it remembers of the opcode before.
StandOK(s, S, N, at) ==
  /\ at \in Stand /\ Between(s, S, N, at.p, at.first)
  /\ \/ at.first = 0 /\ at.p = HdrSize /\ at.prev = None /\ at.span = 0
     \/ \E q \in S : /\ q.first + q.len = at.first /\ q.len = at.span
                     /\ HdrSize <= at.prev
                     /\ at.prev + Facts!OpLen(q) = at.p

LEMMA StandOpcode ==
  ASSUME NEW s, Fit(s), NEW S, NEW N, NEW at, Between(s, S, N, at.p, at.first),
         at.p < s.len
  PROVE  /\ Placed(s, at.p, at.first) \in S
         /\ Placed(s, at.p, at.first).first = at.first
         /\ Placed(s, at.p, at.first).len = OpLen(s, at.p)
         /\ Facts!OpLen(Placed(s, at.p, at.first)) = OpBytes(s, at.p)
         /\ Between(s, S, N, at.p + OpBytes(s, at.p), at.first + OpLen(s, at.p))
<1> DEFINE p == at.p
           x == at.first
<1>1. Between(s, S, N, p, x) /\ p < s.len
  OBVIOUS
<1> HIDE DEF p, x
<1>2. /\ Placed(s, p, x) \in S /\ Placed(s, p, x).first = x
      /\ Placed(s, p, x).len = OpLen(s, p)
      /\ Facts!OpLen(Placed(s, p, x)) = OpBytes(s, p)
      /\ Between(s, S, N, p + OpBytes(s, p), x + OpLen(s, p))
  BY <1>1, NextOpcode
<1> QED
  BY <1>2 DEF p, x

LEMMA StandsOK ==
  ASSUME NEW s, Fit(s), NEW S, NEW N, Streams(s, S, N)
  PROVE  \A at \in Stands(s) : StandOK(s, S, N, at)
<1> DEFINE Z == {at \in Stand : StandOK(s, S, N, at)}
<1>1. FirstStand \in Z
  <2>1. Between(s, S, N, FirstStand.p, FirstStand.first)
    BY StreamStarts, FirstStandTyped
  <2> QED
    BY <2>1, FirstStandTyped DEF StandOK
<1>2. ASSUME NEW at \in Z, at.p < s.len PROVE Turn(s, at) \in Z
  <2> DEFINE t == Turn(s, at)
             r == Placed(s, at.p, at.first)
  <2>1. at \in Stand /\ Between(s, S, N, at.p, at.first)
    BY DEF StandOK
  <2>2. /\ t \in Stand /\ t.p = at.p + OpBytes(s, at.p)
        /\ t.first = at.first + OpLen(s, at.p)
        /\ t.prev = at.p /\ t.span = OpLen(s, at.p)
    BY <1>2, <2>1, TurnTyped
  <2>3. /\ r \in S /\ r.first = at.first /\ r.len = OpLen(s, at.p)
        /\ Facts!OpLen(r) = OpBytes(s, at.p)
        /\ Between(s, S, N, at.p + OpBytes(s, at.p), at.first + OpLen(s, at.p))
    BY <1>2, <2>1, StandOpcode
  <2>4. HdrSize <= at.p
    BY <2>1, BetweenNumbers
  <2> HIDE DEF t
  <2> HIDE DEF r
  <2>6. HdrSize <= t.prev /\ t.prev + Facts!OpLen(r) = t.p
    BY <2>2, <2>3, <2>4
  <2>7. r.first + r.len = t.first /\ r.len = t.span
    BY <2>2, <2>3
  <2>8. Between(s, S, N, t.p, t.first)
    BY <2>2, <2>3
  <2>9. StandOK(s, S, N, t)
    BY <2>2, <2>3, <2>6, <2>7, <2>8 DEF StandOK
  <2> QED
    BY <2>2, <2>9 DEF t
<1>3. Z \in SUBSET Stand
  OBVIOUS
<1> HIDE DEF Z
<1>4. Stands(s) \subseteq Z
  BY <1>1, <1>2, <1>3, StandsAre DEF WalkFrom
<1> QED
  BY <1>4 DEF Z

LEMMA LastStandFacts ==
  ASSUME NEW s, Fit(s), NEW S, NEW N, Streams(s, S, N)
  PROVE  /\ LastStand(s) \in Stands(s) /\ LastStand(s).p = s.len
         /\ DecodedLen(s) = N
<1> DEFINE at == LastStand(s)
<1>1. \E b \in Stands(s) : b.p >= s.len
  BY StandsAre DEF WalkFrom
<1>2. at \in Stands(s) /\ at.p >= s.len
  BY <1>1 DEF LastStand
<1> HIDE DEF at
<1>3. Between(s, S, N, at.p, at.first)
  BY <1>2, StandsOK DEF StandOK
<1>4. at.p = s.len /\ at.first = N
  BY <1>2, <1>3, BetweenNumbers, FitNumbers
<1> QED
  BY <1>2, <1>4 DEF at, DecodedLen

\* Where the loop stops.
LEMMA StopFacts ==
  ASSUME NEW s, Fit(s), NEW S, NEW N, Streams(s, S, N), NEW idx \in Nat
  PROVE  LET at == FirstStop(s, idx)
         IN  /\ at \in Stands(s) /\ StandOK(s, S, N, at) /\ at.first <= idx
             /\ at.p < s.len => idx < at.first + OpLen(s, at.p)
             /\ ~(at.p < s.len) => at.p = s.len /\ at.first = N
<1> DEFINE at == FirstStop(s, idx)
           stops == {b \in Stands(s) : Stops(s, idx, b)}
           ps == {b.p : b \in stops}
<1>0. Stands(s) \subseteq Stand
  BY StandsAre DEF WalkFrom
<1>1. stops # {}
  <2>1. PICK b \in Stands(s) : b.p >= s.len
    BY StandsAre DEF WalkFrom
  <2>2. b \in stops
    BY <2>1 DEF Stops
  <2> QED
    BY <2>2
<1>2. ps \in SUBSET Nat /\ ps # {}
  BY <1>0, <1>1, StandTyped
<1>3. PICK m \in ps : \A y \in ps : m <= y
  BY <1>2, LeastExists
<1>4. \E c \in stops : \A b \in stops : c.p <= b.p
  BY <1>3
<1>5. at = CHOOSE c \in stops : \A b \in stops : c.p <= b.p
  BY DEF FirstStop
<1> HIDE DEF at
<1>6. at \in stops /\ \A b \in stops : at.p <= b.p
  BY <1>4, <1>5
<1>7. at \in Stands(s) /\ Stops(s, idx, at)
  BY <1>6
<1>8. StandOK(s, S, N, at) /\ at \in Stand /\ Between(s, S, N, at.p, at.first)
  BY <1>7, StandsOK DEF StandOK
<1>9. \A b \in Stands(s) : b.p < at.p => ~Stops(s, idx, b)
  <2>1. SUFFICES ASSUME NEW b \in Stands(s), b.p < at.p, Stops(s, idx, b) PROVE FALSE
    OBVIOUS
  <2>2. at.p <= b.p
    BY <1>6, <2>1
  <2>3. b.p \in Nat /\ at.p \in Nat
    BY <1>0, <1>8, <2>1, StandTyped
  <2> QED
    BY <2>1, <2>2, <2>3
<1> HIDE DEF stops, ps
<1>10. at.first <= idx
  <2>1. CASE at = FirstStand
    BY <2>1, FirstStandTyped
  <2>2. CASE at # FirstStand
    <3>1. PICK b \in Stands(s) : b.p < s.len /\ at = Turn(s, b)
      BY <1>7, <2>2, StandsAre DEF WalkFrom
    <3>2. b \in Stand /\ b.p < at.p /\ at.first = b.first + OpLen(s, b.p)
      BY <1>0, <3>1, TurnTyped
    <3>3. ~(idx <= b.first + OpLen(s, b.p) - 1)
      BY <1>9, <3>2 DEF Stops
    <3>4. b.first \in Nat /\ b.p \in Nat
      BY <3>2, StandTyped
    <3>5. OpLen(s, b.p) \in Nat
      BY <3>1, <3>4, PlacedFacts
    <3> QED
      BY <3>2, <3>3, <3>4, <3>5
  <2> QED
    BY <2>1, <2>2
<1>11. ASSUME at.p < s.len PROVE idx < at.first + OpLen(s, at.p)
  <2>1. idx <= at.first + OpLen(s, at.p) - 1
    BY <1>7, <1>8, <1>11, FitNumbers, StandTyped DEF Stops
  <2>2. at.first \in Nat /\ at.p \in Nat
    BY <1>8, StandTyped
  <2>3. OpLen(s, at.p) \in Nat
    BY <1>11, <2>2, PlacedFacts
  <2> QED
    BY <2>1, <2>2, <2>3
<1>12. ASSUME ~(at.p < s.len) PROVE at.p = s.len /\ at.first = N
  BY <1>8, <1>12, BetweenNumbers, FitNumbers
<1> QED
  BY <1>7, <1>8, <1>10, <1>11, <1>12 DEF at

\* What the opcodes are that the loops decode.
LEMMA Decodes ==
  ASSUME NEW s, Fit(s), NEW S, NEW N, Streams(s, S, N)
  PROVE  Decode(s) = S
<1>1. ASSUME NEW at \in Stands(s), at.p < s.len
      PROVE  Placed(s, at.p, at.first) \in S
  <2>1. Between(s, S, N, at.p, at.first)
    BY StandsOK DEF StandOK
  <2> QED
    BY <1>1, <2>1, NextOpcode
<1>2. ASSUME NEW r \in S
      PROVE  \E at \in Stands(s) : at.p < s.len /\ r = Placed(s, at.p, at.first)
  <2>1. PICK pl : Lay(s, S, pl, HdrSize, s.len, 0, N)
    BY DEF Streams, Piece
  <2>2. /\ r.first \in Nat /\ r.len \in Nat /\ 0 < r.len /\ r.first + r.len <= N
        /\ N \in Nat
    BY <2>1 DEF Lay
  <2> DEFINE at == FirstStop(s, r.first)
             q == Placed(s, at.p, at.first)
  <2>3. /\ at \in Stands(s) /\ StandOK(s, S, N, at) /\ at.first <= r.first
        /\ at.p < s.len => r.first < at.first + OpLen(s, at.p)
        /\ ~(at.p < s.len) => at.first = N
    BY <2>2, StopFacts
  <2> HIDE DEF at
  <2>4. at.p < s.len
    BY <2>2, <2>3
  <2>5. Between(s, S, N, at.p, at.first)
    BY <2>3 DEF StandOK
  <2>60. /\ Placed(s, at.p, at.first) \in S
         /\ Placed(s, at.p, at.first).first = at.first
         /\ Placed(s, at.p, at.first).len = OpLen(s, at.p)
    BY <2>4, <2>5, StandOpcode
  <2>6. q \in S /\ q.first = at.first /\ q.len = OpLen(s, at.p)
    BY <2>60
  <2>7. q.first <= r.first /\ r.first < q.first + q.len
    BY <2>3, <2>4, <2>6
  <2> HIDE DEF q
  <2>8. /\ q.first < r.first => q.first + q.len <= r.first
        /\ q.first = r.first => q = r
        /\ q.first \in Nat /\ q.len \in Nat
    BY <2>1, <2>6 DEF Lay
  <2>9. q = r
    BY <2>2, <2>7, <2>8
  <2> QED
    BY <2>3, <2>4, <2>9 DEF q
<1>3. Decode(s) \subseteq S
  BY <1>1 DEF Decode
<1>4. S \subseteq Decode(s)
  BY <1>2 DEF Decode
<1> QED
  BY <1>3, <1>4

\* Bytes that end with a whole opcode are a stream.
LEMMA WholeOpcodes ==
  ASSUME NEW s, Fit(s), LastStand(s).p = s.len
  PROVE  \E S : Streams(s, S, DecodedLen(s))
<1> DEFINE Z == {at \in Stand : \E S : Piece(s, S, HdrSize, at.p, 0, at.first)}
<1>1. FirstStand \in Z
  <2>1. Piece(s, {}, HdrSize, HdrSize, 0, 0)
    BY Sizes, NoPiece
  <2>2. \E S : Piece(s, S, HdrSize, FirstStand.p, 0, FirstStand.first)
    BY <2>1, FirstStandTyped
  <2> QED
    BY <2>2, FirstStandTyped
<1>2. ASSUME NEW at \in Z, at.p < s.len PROVE Turn(s, at) \in Z
  <2> DEFINE t == Turn(s, at)
             r == Placed(s, at.p, at.first)
  <2>1. PICK S : Piece(s, S, HdrSize, at.p, 0, at.first)
    OBVIOUS
  <2>2. at \in Stand /\ at.p \in Nat /\ at.first \in Nat
    BY StandTyped
  <2>3. /\ t \in Stand /\ t.p = at.p + OpBytes(s, at.p)
        /\ t.first = at.first + OpLen(s, at.p)
    BY <1>2, <2>2, TurnTyped
  <2>4. /\ r.first = at.first /\ r.len = OpLen(s, at.p) /\ r.len \in Nat /\ 0 < r.len
        /\ Facts!OpLen(r) = OpBytes(s, at.p)
    BY <1>2, <2>2, PlacedFacts
  <2>5. Placed(s, at.p, at.first) = r
    OBVIOUS
  <2> HIDE DEF r, t
  <2>6. Piece(s, {r}, at.p, at.p + Facts!OpLen(r), at.first, at.first + r.len)
    BY <2>2, <2>4, <2>5, OnePiece
  <2>7. Piece(s, S \cup {r}, HdrSize, at.p + Facts!OpLen(r), 0, at.first + r.len)
    BY <2>1, <2>6, JoinPieces
  <2>8. Piece(s, S \cup {r}, HdrSize, t.p, 0, t.first)
    BY <2>3, <2>4, <2>7
  <2> QED
    BY <2>3, <2>8 DEF t
<1>3. Z \in SUBSET Stand
  OBVIOUS
<1> HIDE DEF Z
<1>4. Stands(s) \subseteq Z
  BY <1>1, <1>2, <1>3, StandsAre DEF WalkFrom
<1>5. \E b \in Stands(s) : b.p >= s.len
  BY StandsAre DEF WalkFrom
<1>6. LastStand(s) \in Stands(s)
  BY <1>5 DEF LastStand
<1>7. LastStand(s) \in Z
  BY <1>4, <1>6
<1> QED
  BY <1>7 DEF Z, Streams, DecodedLen

\* Such a stream is one of HLLSparse.
LEMMA StreamsOK ==
  ASSUME NEW s, Fit(s), NEW S, NEW N, Streams(s, S, N), N <= Registers
  PROVE  /\ Facts!StreamOK(S) /\ N \in Nat
         /\ \A x \in Int : Facts!Reaches(S, x) <=> 0 <= x /\ x < N
         /\ Facts!Complete(S) <=> N = Registers
<1>1. PICK pl : Lay(s, S, pl, HdrSize, s.len, 0, N)
  BY DEF Streams, Piece
<1>2. Registers \in Nat /\ 0 < Registers /\ N \in Nat /\ HdrSize \in Nat /\ s.len \in Nat
  BY <1>1, Sizes DEF Lay
<1>3. \A r \in S : /\ r.first \in Nat /\ r.len \in Nat /\ 0 < r.len
                   /\ r.first + r.len <= N
  BY <1>1 DEF Lay
<1>4. ASSUME NEW r \in S PROVE Facts!RunOK(r)
  <2> DEFINE p == pl[r]
  <2>1. /\ p \in Nat /\ p + Facts!OpLen(r) <= s.len /\ Placed(s, p, r.first) = r
    BY <1>1 DEF Lay
  <2> HIDE DEF p
  <2>2. p < s.len
    BY <1>2, <2>1, WidthIs
  <2>3. /\ r = [op |-> r.op, first |-> r.first, len |-> r.len, val |-> r.val]
        /\ \/ r.op = "zero" /\ r.val = 0 /\ r.len <= SparseZeroMaxLen
           \/ r.op = "xzero" /\ r.val = 0
           \/ r.op = "val" /\ r.val \in 1 .. SparseValMaxValue
                           /\ r.len <= SparseValMaxLen
    BY <2>1, <2>2, PlacedFacts
  <2>4. r.first \in Facts!Index /\ r.len \in 1 .. Registers /\ Facts!End(r) <= Registers
    BY <1>2, <1>3 DEF Facts!Index, Facts!End
  <2> QED
    BY <2>3, <2>4 DEF Facts!RunOK
<1>5. ASSUME NEW r \in S, NEW q \in S
      PROVE  r = q \/ Facts!End(r) <= q.first \/ Facts!End(q) <= r.first
  <2>1. /\ r.first < q.first => r.first + r.len <= q.first
        /\ q.first < r.first => q.first + q.len <= r.first
        /\ r.first = q.first => r = q
    BY <1>1 DEF Lay
  <2> QED
    BY <1>3, <2>1 DEF Facts!End
<1>6. ASSUME NEW x \in Int PROVE Facts!Reaches(S, x) <=> 0 <= x /\ x < N
  <2>1. ASSUME Facts!Reaches(S, x) PROVE 0 <= x /\ x < N
    BY <1>2, <1>3, <2>1 DEF Facts!Reaches, Facts!Covers, Facts!End
  <2>2. ASSUME 0 <= x, x < N PROVE Facts!Reaches(S, x)
    <3>1. x \in 0 .. N - 1
      BY <1>2, <2>2
    <3>2. \E r \in S : r.first <= x /\ x < r.first + r.len
      BY <1>1, <3>1 DEF Lay
    <3> QED
      BY <3>2 DEF Facts!Reaches, Facts!Covers, Facts!End
  <2> QED
    BY <2>1, <2>2
<1>7. ASSUME NEW r \in S, NEW i \in 0 .. r.first - 1 PROVE Facts!Reaches(S, i)
  BY <1>2, <1>3, <1>6
<1>8. Facts!StreamOK(S)
  BY <1>4, <1>5, <1>7 DEF Facts!StreamOK
<1>9. Facts!Complete(S) <=> N = Registers
  <2>1. ASSUME N = Registers PROVE Facts!Complete(S)
    BY <1>2, <1>6, <2>1 DEF Facts!Complete, Facts!Index
  <2>2. ASSUME Facts!Complete(S) PROVE N = Registers
    <3>1. Registers - 1 \in Facts!Index
      BY <1>2 DEF Facts!Index
    <3>2. Facts!Reaches(S, Registers - 1)
      BY <2>2, <3>1 DEF Facts!Complete
    <3> QED
      BY <1>2, <1>6, <3>2
  <2> QED
    BY <2>1, <2>2
<1> QED
  BY <1>2, <1>6, <1>8, <1>9

-----------------------------------------------------------------------------
(* The opcode that covers a register, and what lies around it.             *)

\* Where the merging starts.
From(at) == IF at.prev = None THEN HdrSize ELSE at.prev

\* A, the opcodes before the loop's place, falls into those before "prev" and
\* the others; y is the register at which the latter begin.
Behind(s, A, at, y) ==
  \E P, Q : /\ A = P \cup Q
            /\ Piece(s, P, HdrSize, From(at), 0, y)
            /\ Piece(s, Q, From(at), at.p, y, at.first)

LEMMA ScanBehind ==
  ASSUME NEW s, Fit(s), NEW S, NEW N, Streams(s, S, N), N <= Registers,
         NEW at, StandOK(s, S, N, at), NEW A,
         Piece(s, A, HdrSize, at.p, 0, at.first), A \subseteq S,
         \A q \in S : q.first < at.first => q \in A
  PROVE  Behind(s, A, at, Facts!ScanStart(S, at.first))
<1>0. HdrSize \in Nat /\ 0 < HdrSize /\ at.p \in Nat /\ at.first \in Nat
  BY Sizes, PieceNumbers
<1>1. CASE at.first = 0 /\ at.p = HdrSize /\ at.prev = None
  <2>1. From(at) = HdrSize /\ A = {}
    BY <1>1, EmptyPiece DEF From
  <2>2. Facts!ScanStart(S, at.first) = 0
    BY <1>1 DEF Facts!ScanStart
  <2>3. Piece(s, {}, HdrSize, HdrSize, 0, 0)
    BY <1>0, NoPiece
  <2>4. A = {} \cup {} /\ Piece(s, {}, HdrSize, at.p, 0, at.first)
    BY <1>1, <2>1, <2>3
  <2> QED
    BY <2>1, <2>2, <2>3, <2>4 DEF Behind
<1>2. ASSUME NEW q \in S, q.first + q.len = at.first, HdrSize <= at.prev,
             at.prev + Facts!OpLen(q) = at.p
      PROVE  Behind(s, A, at, Facts!ScanStart(S, at.first))
  <2>1. /\ Facts!StreamOK(S)
        /\ q.first \in Nat /\ q.len \in Nat /\ 0 < q.len /\ at.prev \in Nat
    BY <1>2, StreamsOK, PieceNumbers, StandTyped DEF Streams, StandOK
  <2>2. q \in A /\ at.first # 0 /\ at.first - 1 \in Int
    BY <1>0, <1>2, <2>1
  <2>3. Facts!ScanStart(S, at.first) = q.first
    <3>1. Facts!Covers(q, at.first - 1)
      BY <1>0, <1>2, <2>1 DEF Facts!Covers, Facts!End
    <3>2. Facts!RunAt(S, at.first - 1) = q
      BY <2>1, <2>2, <3>1, FactsConstants, Facts!RunAtOnly
    <3> QED
      BY <2>2, <3>2 DEF Facts!ScanStart
  <2>4. From(at) = at.prev
    BY <1>0, <1>2 DEF From, None
  <2>5. PICK P, B : \E y \in Nat :
           /\ A = (P \cup {q}) \cup B
           /\ Piece(s, P, HdrSize, y, 0, q.first)
           /\ Piece(s, B, y + Facts!OpLen(q), at.p, q.first + q.len, at.first)
           /\ Placed(s, y, q.first) = q /\ OpBytes(s, y) = Facts!OpLen(q)
    BY <2>2, CutPiece
  <2>6. PICK y \in Nat :
           /\ A = (P \cup {q}) \cup B
           /\ Piece(s, P, HdrSize, y, 0, q.first)
           /\ Piece(s, B, y + Facts!OpLen(q), at.p, q.first + q.len, at.first)
           /\ Placed(s, y, q.first) = q /\ OpBytes(s, y) = Facts!OpLen(q)
    BY <2>5
  <2>7. B = {} /\ y + Facts!OpLen(q) = at.p
    BY <1>2, <2>6, EmptyPiece
  <2>8. y = at.prev
    BY <1>2, <2>1, <2>7, WidthIs
  <2>9. Piece(s, {q}, y, y + Facts!OpLen(q), q.first, q.first + q.len)
    BY <2>1, <2>6, OnePiece
  <2>10. A = P \cup {q}
    BY <2>6, <2>7
  <2>11. /\ Piece(s, P, HdrSize, From(at), 0, q.first)
         /\ Piece(s, {q}, From(at), at.p, q.first, at.first)
    BY <1>2, <2>4, <2>6, <2>7, <2>8, <2>9
  <2> QED
    BY <2>3, <2>10, <2>11 DEF Behind
<1> QED
  BY <1>1, <1>2 DEF StandOK

\* The register is covered.
LEMMA LocatedInside ==
  ASSUME NEW s, Fit(s), NEW S, NEW N, Streams(s, S, N), N <= Registers,
         NEW idx \in Nat, idx < N
  PROVE  LET at == Locate(s, idx)
             r  == Placed(s, at.p, at.first)
         IN  /\ at.p \in Nat /\ HdrSize <= at.p /\ at.p < s.len /\ at.first \in Nat
             /\ r \in S /\ r.first = at.first /\ r.len = OpLen(s, at.p) /\ at.span = r.len
             /\ Facts!Covers(r, idx) /\ Facts!RunAt(S, idx) = r
             /\ Facts!OpLen(r) = OpBytes(s, at.p)
             /\ \E A, B : /\ S = (A \cup {r}) \cup B /\ r \notin A /\ r \notin B
                          /\ Piece(s, A, HdrSize, at.p, 0, at.first)
                          /\ Piece(s, B, at.p + OpBytes(s, at.p), s.len,
                                   at.first + r.len, N)
                          /\ Behind(s, A, at, Facts!ScanStart(S, at.first))
<1> DEFINE b == FirstStop(s, idx)
           p == b.p
           x == b.first
           r == Placed(s, p, x)
           at == [b EXCEPT !.span = OpLen(s, p)]
<1>0. N \in Nat /\ s.len \in Nat
  BY StreamsOK, FitNumbers
<1>1. /\ StandOK(s, S, N, b) /\ b.first <= idx
      /\ b.p < s.len => idx < b.first + OpLen(s, b.p)
      /\ ~(b.p < s.len) => b.first = N
  BY StopFacts
<1>2. b \in Stand /\ Between(s, S, N, b.p, b.first)
  BY <1>1 DEF StandOK
<1>3. b.p < s.len /\ b.p \in Nat /\ b.first \in Nat
  BY <1>0, <1>1, <1>2, StandTyped
<1>4. Locate(s, idx) = at
  BY <1>0, <1>3 DEF Locate
<1> HIDE DEF b
<1>5. at.p = p /\ at.first = x /\ at.prev = b.prev /\ at.span = OpLen(s, p)
  BY <1>2 DEF Stand
<1> HIDE DEF at
<1>6. /\ r \in S /\ r.first = x /\ r.len = OpLen(s, p)
      /\ Facts!OpLen(r) = OpBytes(s, p)
      /\ Between(s, S, N, p + OpBytes(s, p), x + OpLen(s, p))
      /\ OpLen(s, p) \in Nat /\ 0 < OpLen(s, p)
  BY <1>2, <1>3, NextOpcode
<1>7. PICK A, B : /\ S = (A \cup {r}) \cup B /\ r \notin A /\ r \notin B
                  /\ Piece(s, A, HdrSize, p, 0, x)
                  /\ Piece(s, B, p + OpBytes(s, p), s.len, x + r.len, N)
  BY <1>2, <1>3, CutAt
<1>8. Facts!StreamOK(S)
  BY StreamsOK
<1>9. HdrSize <= p
  BY <1>2, BetweenNumbers
<1> HIDE DEF r, p, x
<1>10. Facts!Covers(r, idx)
  BY <1>1, <1>3, <1>6 DEF Facts!Covers, Facts!End, p, x
<1>11. Facts!RunAt(S, idx) = r
  BY <1>6, <1>8, <1>10, FactsConstants, Facts!RunAtOnly
<1>12. Behind(s, A, b, Facts!ScanStart(S, b.first))
  <2>1. \A q \in S : q.first < x => q \in A
    <3>1. SUFFICES ASSUME NEW q \in B, q.first < x PROVE FALSE
      BY <1>3, <1>6, <1>7 DEF x
    <3>2. q.first \in Nat /\ x + r.len <= q.first
      BY <1>7, <3>1, PieceNumbers
    <3> QED
      BY <1>3, <1>6, <3>1, <3>2 DEF x
  <2>2. A \subseteq S
    BY <1>7
  <2> QED
    BY <1>1, <1>7, <2>1, <2>2, ScanBehind DEF p, x
<1>13. From(at) = From(b)
  BY <1>5 DEF From
<1>14. Behind(s, A, at, Facts!ScanStart(S, x))
  BY <1>5, <1>12, <1>13 DEF Behind, p, x
<1>15. r = Placed(s, p, x)
  BY DEF r
<1>16. \E AA, BB : /\ S = (AA \cup {r}) \cup BB /\ r \notin AA /\ r \notin BB
                  /\ Piece(s, AA, HdrSize, p, 0, x)
                  /\ Piece(s, BB, p + OpBytes(s, p), s.len, x + r.len, N)
                  /\ Behind(s, AA, at, Facts!ScanStart(S, x))
  BY <1>7, <1>14
<1>17. p \in Nat /\ p < s.len /\ x \in Nat
  BY <1>3 DEF p, x
<1> QED
  BY <1>4, <1>5, <1>6, <1>9, <1>10, <1>11, <1>15, <1>16, <1>17

\* The stream ends before the register.
LEMMA LocatedBehind ==
  ASSUME NEW s, Fit(s), NEW S, NEW N, Streams(s, S, N), N <= Registers,
         NEW idx \in Nat, ~(idx < N)
  PROVE  LET at == Locate(s, idx)
         IN  /\ at.p = s.len /\ at.first = N
             /\ at.span = 0 <=> S = {}
             /\ Behind(s, S, at, Facts!ScanStart(S, N))
<1> DEFINE at == FirstStop(s, idx)
<1>0. N \in Nat /\ s.len \in Nat
  BY StreamsOK, FitNumbers
<1>1. /\ StandOK(s, S, N, at) /\ at.first <= idx
      /\ at.p < s.len => idx < at.first + OpLen(s, at.p)
      /\ ~(at.p < s.len) => at.p = s.len /\ at.first = N
  BY StopFacts
<1>2. at \in Stand /\ Between(s, S, N, at.p, at.first)
  BY <1>1 DEF StandOK
<1>3. ~(at.p < s.len)
  <2>1. SUFFICES ASSUME at.p < s.len PROVE FALSE
    OBVIOUS
  <2> HIDE DEF at
  <2>2. Between(s, S, N, at.p + OpBytes(s, at.p), at.first + OpLen(s, at.p))
    BY <1>2, <2>1, NextOpcode
  <2>3. at.first + OpLen(s, at.p) <= N /\ at.first + OpLen(s, at.p) \in Nat
    BY <2>2, BetweenNumbers
  <2> QED
    BY <1>0, <1>1, <2>1, <2>3
<1>4. Locate(s, idx) = at
  BY <1>0, <1>1, <1>3 DEF Locate
<1> HIDE DEF at
<1>5. at.p = s.len /\ at.first = N
  BY <1>1, <1>3
<1>6. Piece(s, S, HdrSize, at.p, 0, at.first)
  BY <1>5 DEF Streams
<1>7. \A q \in S : q.first \in Nat /\ q.len \in Nat /\ 0 < q.len
  BY <1>6, PieceNumbers
<1>8. Behind(s, S, at, Facts!ScanStart(S, N))
  BY <1>1, <1>5, <1>6, ScanBehind
<1>9. at.span = 0 <=> S = {}
  <2>1. CASE at.first = 0 /\ at.span = 0
    BY <1>6, <2>1, EmptyPiece
  <2>2. ASSUME NEW q \in S, q.len = at.span PROVE at.span # 0 /\ S # {}
    BY <1>7, <2>2
  <2> QED
    BY <1>1, <2>1, <2>2 DEF StandOK
<1> QED
  BY <1>4, <1>5, <1>8, <1>9

-----------------------------------------------------------------------------
(* What sds does to the bytes.                                             *)

Sd == INSTANCE SdsStringProofs WITH
    NoStr  <- None,
    Char   <- Byte,
    Text   <- {},
    Pairs  <- {},
    MaxLen <- 0,
    room   <- 0,
    staged <- 0

LEMMA SdConstants == Sd!StringAssumption /\ Sd!SdsAssumption
  BY BytesAssumption, SdsAssumption, Sizes
     DEF Sd!StringAssumption, Sd!SdsAssumption, Byte

\* The same functions.
LEMMA SdSame ==
  /\ \A a, b, c, d : Sd!Str(a, b, c, d) = Str(a, b, c, d)
  /\ \A a, b : Sd!Span(a, b) = Span(a, b)
  /\ \A s, a, b : Sd!Header(s, a, b) = Header(s, a, b)
  /\ \A s, a, b : Sd!Bytes(s, a, b) = Bytes(s, a, b)
  BY DEF Sd!Str, Str, Sd!Span, Span, Sd!Header, Header, Sd!Bytes, Bytes

LEMMA SdStore == \A s, a, t : Sd!Store(s, a, t) = Store(s, a, t)
  BY DEF Sd!Store, Store, Sd!Span, Span

LEMMA SdMove == \A s, a, b, n : Sd!Move(s, a, b, n) = Move(s, a, b, n)
  BY SdSame, SdStore DEF Sd!Move, Move

LEMMA SdMakeRoom == \A s, n : Sd!MakeRoomFor(s, n) = MakeRoomFor(s, n)
<1>1. \A s, n : Sd!Realloc(s, n) = Realloc(s, n)
  BY SdSame DEF Sd!Realloc, Realloc
<1>2. \A n : Sd!Preallocated(n) = Preallocated(n)
  BY DEF Sd!Preallocated, Preallocated
<1> QED
  BY <1>1, <1>2, SdSame DEF Sd!MakeRoomFor, MakeRoomFor

LEMMA SdIncr == \A s, n : Sd!IncrLen(s, n) = IncrLen(s, n)
  BY SdSame, SdStore DEF Sd!IncrLen, IncrLen

LEMMA SdNew ==
  /\ \A v : Sd!NewLen(v) = NewLen(v)
  /\ \A n : Sd!NewZeros(n) = NewZeros(n)
  BY SdSame, SdStore DEF Sd!NewLen, NewLen, Sd!NewZeros, NewZeros

LEMMA SdWords ==
  \A s : /\ Sd!HeaderOK(s) <=> HeaderOK(s)
         /\ Sd!Terminated(s) <=> Terminated(s)
         /\ Sd!Inside(s) <=> Inside(s)
         /\ Sd!Content(s) = Content(s)
  BY SdSame DEF Sd!HeaderOK, HeaderOK, Sd!Terminated, Terminated, Sd!Inside, Inside,
                Sd!Content, Content

LEMMA FitIs ==
  ASSUME NEW s
  PROVE  Fit(s) <=> Sd!Fit(s) /\ HdrSize <= s.len /\ s.buf[s.len] \in Byte
<1>1. ASSUME Fit(s) PROVE Sd!Fit(s) /\ HdrSize <= s.len /\ s.buf[s.len] \in Byte
  <2>1. s.len \in Nat /\ s.alloc \in Nat /\ HdrSize <= s.len
    BY <1>1, FitNumbers
  <2>2. /\ s = Sd!Str(s.len, s.free, s.alloc, s.buf)
        /\ s.buf = [i \in Sd!Span(0, s.alloc) |-> s.buf[i]]
        /\ Sd!HeaderOK(s)
    BY <1>1, SdSame, SdWords DEF Fit
  <2>3. \A i \in 0 .. s.len : s.buf[i] \in Byte
    BY <1>1 DEF Fit
  <2>4. \A i \in 0 .. s.len - 1 : s.buf[i] \in Byte
    BY <2>1, <2>3
  <2>5. s.buf[s.len] \in Byte
    BY <2>1, <2>3
  <2> QED
    BY <2>1, <2>2, <2>4, <2>5 DEF Sd!Fit, Sd!Block
<1>2. ASSUME Sd!Fit(s), HdrSize <= s.len, s.buf[s.len] \in Byte PROVE Fit(s)
  <2>1. s.len \in Nat
    BY <1>2 DEF Sd!Fit, Sd!HeaderOK
  <2>2. \A i \in 0 .. s.len : s.buf[i] \in Byte
    BY <1>2, <2>1 DEF Sd!Fit
  <2>3. /\ s = Str(s.len, s.free, s.alloc, s.buf)
        /\ HeaderOK(s) /\ s.buf = [i \in Span(0, s.alloc) |-> s.buf[i]]
    BY <1>2, SdSame, SdWords DEF Sd!Fit, Sd!Block
  <2> QED
    BY <1>2, <2>2, <2>3 DEF Fit
<1> QED
  BY <1>1, <1>2

LEMMA RoomFacts ==
  ASSUME NEW s, Fit(s), NEW n \in Nat
  PROVE  LET r == MakeRoomFor(s, n)
         IN  /\ Fit(r) /\ r.len = s.len /\ r.free >= n
             /\ \A i \in 0 .. s.len : r.buf[i] = s.buf[i]
<1> DEFINE r == MakeRoomFor(s, n)
<1>1. /\ Sd!Fit(r) /\ r.len = s.len /\ r.free >= n /\ r.alloc >= s.alloc
      /\ \A i \in 0 .. s.alloc - 1 : r.buf[i] = s.buf[i]
  <2>1. Sd!Fit(s) /\ n \in Int
    BY FitIs
  <2> QED
    BY <2>1, SdConstants, SdMakeRoom, Sd!MakeRoomFacts
<1> HIDE DEF r
<1>2. \A i \in 0 .. s.len : r.buf[i] = s.buf[i]
  BY <1>1, FitNumbers
<1>3. Fit(r)
  <2>1. s.len \in 0 .. s.len /\ s.buf[s.len] \in Byte /\ HdrSize <= s.len
    BY FitNumbers, FitIs
  <2> QED
    BY <1>1, <1>2, <2>1, FitIs
<1> QED
  BY <1>1, <1>2, <1>3 DEF r

\* The numbers of a block.
Frame(s, t) == Sd!Block(t) /\ t.alloc = s.alloc /\ t.len = s.len /\ t.free = s.free

LEMMA FitBlock ==
  ASSUME NEW s, Fit(s)
  PROVE  Frame(s, s)
  BY FitIs, Sd!HeaderNumbers, SdConstants DEF Frame

LEMMA BlockFit ==
  ASSUME NEW t, Sd!Block(t), t.len \in Nat, t.free \in Nat,
         t.alloc = t.len + t.free + 1, HdrSize <= t.len,
         \A i \in 0 .. t.len : t.buf[i] \in Byte
  PROVE  Fit(t)
<1>1. \A i \in 0 .. t.len - 1 : t.buf[i] \in Byte
  OBVIOUS
<1>2. Sd!HeaderOK(t)
  BY DEF Sd!HeaderOK
<1>3. Sd!Fit(t)
  BY <1>1, <1>2 DEF Sd!Fit
<1> QED
  BY <1>3, FitIs

\* What a memcpy, a memmove and a change of the length leave.
Stored(s, at, t, n, r) ==
  /\ Frame(s, r)
  /\ \A j \in 1 .. n : r.buf[at + j - 1] = t[j]
  /\ \A i \in 0 .. s.alloc - 1 : i < at \/ i >= at + n => r.buf[i] = s.buf[i]

MovedTo(s, to, from, n, r) ==
  /\ Frame(s, r)
  /\ \A i \in 0 .. s.alloc - 1 :
       r.buf[i] = IF to <= i /\ i < to + n THEN s.buf[i - to + from] ELSE s.buf[i]

Grown(s, n, r) ==
  /\ Sd!Block(r) /\ r.len = s.len + n /\ r.free = s.free - n
  /\ r.alloc = s.alloc
  /\ \A i \in 0 .. s.alloc - 1 : r.buf[i] = IF i = s.len + n THEN Nul ELSE s.buf[i]

LEMMA StoreFacts ==
  ASSUME NEW s, Sd!Block(s), NEW at \in Nat, NEW t, NEW n \in Nat, Len(t) = n,
         at + n <= s.alloc
  PROVE  Stored(s, at, t, n, Store(s, at, t))
<1> DEFINE r == Store(s, at, t)
<1>1. /\ Sd!Block(r) /\ r.len = s.len /\ r.free = s.free /\ r.alloc = s.alloc
      /\ \A j \in 1 .. n : r.buf[at + j - 1] = t[j]
      /\ \A i \in 0 .. s.alloc - 1 : i < at \/ i >= at + n => r.buf[i] = s.buf[i]
  BY SdConstants, SdStore, Sd!StoreFacts
<1> QED
  BY <1>1 DEF Frame, Stored

\* One byte.
LEMMA ByteStored ==
  ASSUME NEW s, Sd!Block(s), NEW at \in Nat, at < s.alloc, NEW b
  PROVE  LET r == Store(s, at, <<b>>)
         IN  /\ Frame(s, r) /\ r.buf[at] = b
             /\ \A i \in 0 .. s.alloc - 1 : i # at => r.buf[i] = s.buf[i]
<1> DEFINE t == <<b>>
           n == 1
           r == Store(s, at, t)
<1>0. t[1] = b /\ n = 1
  OBVIOUS
<1>01. Len(t) = n /\ n \in Nat
  OBVIOUS
<1>1. s.alloc \in Nat
  BY DEF Sd!Block
<1> HIDE DEF t, n
<1>2. at + n <= s.alloc
  BY <1>0, <1>1
<1>21. Stored(s, at, t, n, r)
  BY <1>01, <1>2, StoreFacts
<1> HIDE DEF r
<1>3. /\ Frame(s, r)
      /\ \A j \in 1 .. n : r.buf[at + j - 1] = t[j]
      /\ \A i \in 0 .. s.alloc - 1 : i < at \/ i >= at + n => r.buf[i] = s.buf[i]
  BY <1>21, Zenon DEF Stored
<1>4. 1 \in 1 .. n /\ at + 1 - 1 = at
  BY <1>0
<1>5. r.buf[at] = b
  BY <1>0, <1>3, <1>4
<1>6. \A i \in 0 .. s.alloc - 1 : i # at => i < at \/ i >= at + n
  BY <1>0
<1> QED
  BY <1>3, <1>5, <1>6 DEF r, t

LEMMA MoveFacts ==
  ASSUME NEW s, Sd!Block(s), NEW to \in Nat, NEW from \in Nat, NEW n \in Nat,
         to + n <= s.alloc
  PROVE  MovedTo(s, to, from, n, Move(s, to, from, n))
<1> DEFINE t == Bytes(s, from, n)
           r == Store(s, to, t)
<1>1. Len(t) = n /\ \A j \in 1 .. n : t[j] = s.buf[from + j - 1]
  BY DEF Bytes
<1>2. Move(s, to, from, n) = r
  BY DEF Move
<1> HIDE DEF t
<1>20. Len(t) = n
  BY <1>1
<1>21. Stored(s, to, t, n, r)
  BY <1>20, StoreFacts
<1> HIDE DEF r
<1>3. /\ Frame(s, r)
      /\ \A j \in 1 .. n : r.buf[to + j - 1] = t[j]
      /\ \A i \in 0 .. s.alloc - 1 : i < to \/ i >= to + n => r.buf[i] = s.buf[i]
  BY <1>21, Zenon DEF Stored
<1>4. ASSUME NEW i \in 0 .. s.alloc - 1
      PROVE  r.buf[i] = IF to <= i /\ i < to + n THEN s.buf[i - to + from] ELSE s.buf[i]
  <2>1. CASE to <= i /\ i < to + n
    <3> DEFINE j == i - to + 1
    <3>1. j \in 1 .. n /\ to + j - 1 = i /\ from + j - 1 = i - to + from
      BY <2>1
    <3> HIDE DEF j
    <3>2. r.buf[to + j - 1] = s.buf[from + j - 1]
      BY <1>1, <1>3, <3>1
    <3> QED
      BY <2>1, <3>1, <3>2
  <2>2. CASE ~(to <= i /\ i < to + n)
    <3>1. i < to \/ i >= to + n
      BY <2>2
    <3> QED
      BY <1>3, <2>2, <3>1
  <2> QED
    BY <2>1, <2>2
<1> QED
  BY <1>2, <1>3, <1>4 DEF MovedTo

LEMMA IncrFacts ==
  ASSUME NEW s, Sd!Block(s), s.len \in Nat, s.free \in Nat,
         s.alloc = s.len + s.free + 1, NEW n \in Int, s.len + n >= 0, n <= s.free
  PROVE  Grown(s, n, IncrLen(s, n))
<1> DEFINE m == s.len + n
           h == Header(s, m, s.free - n)
           r == Store(h, m, <<Nul>>)
<1>1. m \in Nat /\ m < s.alloc
  OBVIOUS
<1>2. /\ Sd!Block(h) /\ h.len = m /\ h.free = s.free - n /\ h.alloc = s.alloc
      /\ h.buf = s.buf
  BY SdConstants, SdSame, Sd!HeaderFacts
<1> HIDE DEF h
<1>3. /\ Frame(h, r) /\ r.buf[m] = Nul
      /\ \A i \in 0 .. s.alloc - 1 : i # m => r.buf[i] = s.buf[i]
  BY <1>1, <1>2, ByteStored
<1>4. IncrLen(s, n) = r
  BY DEF IncrLen, h
<1> HIDE DEF r
<1> QED
  BY <1>2, <1>3, <1>4 DEF Frame, Grown

-----------------------------------------------------------------------------
(* The pieces of a split.                                                  *)

\* The bytes u are found at p.
Holds(t, p, u) == \A j \in 1 .. Len(u) : t.buf[p + j - 1] = u[j]

LEMMA CatFacts ==
  ASSUME NEW a \in Seq(Byte), NEW b \in Seq(Byte)
  PROVE  /\ a \o b \in Seq(Byte) /\ Len(a \o b) = Len(a) + Len(b)
         /\ \A t : \A p \in Nat : Holds(t, p, a \o b) =>
              Holds(t, p, a) /\ Holds(t, p + Len(a), b)
<1> DEFINE u == a \o b
           m == Len(a)
           n == Len(b)
<1>1. /\ u \in Seq(Byte) /\ Len(u) = m + n /\ m \in Nat /\ n \in Nat
      /\ \A i \in 1 .. m + n : u[i] = IF i <= m THEN a[i] ELSE b[i - m]
  BY ConcatProperties, LenProperties
<1> HIDE DEF u
<1>2. ASSUME NEW t, NEW p \in Nat, Holds(t, p, u)
      PROVE  Holds(t, p, a) /\ Holds(t, p + m, b)
  <2>1. \A j \in 1 .. m + n : t.buf[p + j - 1] = u[j]
    BY <1>1, <1>2 DEF Holds
  <2>2. ASSUME NEW j \in 1 .. m PROVE t.buf[p + j - 1] = a[j]
    <3>1. j \in 1 .. m + n /\ j <= m
      BY <1>1
    <3> QED
      BY <1>1, <2>1, <3>1
  <2>3. ASSUME NEW j \in 1 .. n PROVE t.buf[p + m + j - 1] = b[j]
    <3>1. m + j \in 1 .. m + n /\ ~(m + j <= m) /\ (m + j) - m = j
          /\ p + (m + j) - 1 = p + m + j - 1
      BY <1>1
    <3>2. t.buf[p + (m + j) - 1] = u[m + j] /\ u[m + j] = b[(m + j) - m]
      BY <1>1, <2>1, <3>1
    <3> QED
      BY <3>1, <3>2
  <2> QED
    BY <2>2, <2>3 DEF Holds
<1> QED
  BY <1>1, <1>2 DEF u

\* One opcode, written as one byte or as two.
LEMMA OneByte ==
  ASSUME NEW b \in Byte
  PROVE  <<b>> \in Seq(Byte) /\ Len(<<b>>) = 1
         /\ \A t : \A p \in Nat : Holds(t, p, <<b>>) <=> t.buf[p] = b
<1>1. <<b>> \in Seq(Byte) /\ Len(<<b>>) = 1 /\ <<b>>[1] = b
  OBVIOUS
<1>2. \A p \in Nat : p + 1 - 1 = p
  OBVIOUS
<1>3. 1 .. 1 = {1}
  OBVIOUS
<1> QED
  BY <1>1, <1>2, <1>3 DEF Holds

LEMMA TwoBytes ==
  ASSUME NEW b \in Byte, NEW c \in Byte
  PROVE  <<b, c>> \in Seq(Byte) /\ Len(<<b, c>>) = 2
         /\ \A t : \A p \in Nat : Holds(t, p, <<b, c>>) =>
              t.buf[p] = b /\ t.buf[p + 1] = c
<1>1. /\ <<b, c>> \in Seq(Byte) /\ Len(<<b, c>>) = 2
      /\ <<b, c>>[1] = b /\ <<b, c>>[2] = c
  OBVIOUS
<1>2. \A p \in Nat : p + 1 - 1 = p /\ p + 2 - 1 = p + 1
  OBVIOUS
<1>3. 1 \in 1 .. 2 /\ 2 \in 1 .. 2
  OBVIOUS
<1> QED
  BY <1>1, <1>2, <1>3 DEF Holds

LEMMA ValPiece ==
  ASSUME NEW v \in 1 .. SparseValMaxValue, NEW l \in 1 .. SparseValMaxLen,
         NEW first \in Nat
  PROVE  /\ ValOf(v, l) \in Seq(Byte) /\ Len(ValOf(v, l)) = 1
         /\ \A t : \A p \in Nat : Holds(t, p, ValOf(v, l)) =>
              Piece(t, {Facts!Val(first, l, v)}, p, p + 1, first, first + l)
<1> DEFINE b == ValByte(v, l)
           r == Facts!Val(first, l, v)
<1>1. /\ ValOf(v, l) = <<b>> /\ b \in Byte /\ IsVal(b)
      /\ ValValue(b) = v /\ ValLen(b) = l
  BY ValWritten
<1>2. ~IsZero(b) /\ ~IsXZero(b)
  BY <1>1, Kinds
<1>3. /\ r.first = first /\ r.len = l /\ l \in Nat /\ 0 < l /\ Facts!OpLen(r) = 1
      /\ r = [op |-> "val", first |-> first, len |-> l, val |-> v]
  BY Sizes DEF Facts!Val, Facts!OpLen
<1> HIDE DEF b, r
<1>4. <<b>> \in Seq(Byte) /\ Len(<<b>>) = 1
  BY <1>1, OneByte
<1>5. ASSUME NEW t, NEW p \in Nat, Holds(t, p, <<b>>)
      PROVE  Piece(t, {r}, p, p + 1, first, first + l)
  <2>1. t.buf[p] = b
    BY <1>1, <1>5, OneByte
  <2>2. OpLen(t, p) = l /\ OpBytes(t, p) = 1
    BY <1>1, <1>2, <2>1 DEF OpLen, OpBytes
  <2>3. Placed(t, p, first) = r
    BY <1>1, <1>2, <1>3, <2>1, <2>2 DEF Placed
  <2>4. Piece(t, {r}, p, p + Facts!OpLen(r), first, first + r.len)
    BY <1>3, <2>2, <2>3, OnePiece
  <2> QED
    BY <1>3, <2>4
<1> QED
  BY <1>1, <1>4, <1>5 DEF r

LEMMA ZeroPiece ==
  ASSUME NEW l \in 1 .. SparseZeroMaxLen, NEW first \in Nat
  PROVE  /\ ZeroOf(l) \in Seq(Byte) /\ Len(ZeroOf(l)) = 1
         /\ \A t : \A p \in Nat : Holds(t, p, ZeroOf(l)) =>
              Piece(t, {Facts!Zero(first, l)}, p, p + 1, first, first + l)
<1> DEFINE b == l - 1
           r == Facts!Zero(first, l)
<1>1. ZeroOf(l) = <<b>> /\ b \in Byte /\ IsZero(b) /\ ZeroLen(b) = l
  BY ZeroWritten
<1>2. ~IsVal(b) /\ ~IsXZero(b)
  BY <1>1, Kinds
<1>3. /\ r.first = first /\ r.len = l /\ l \in Nat /\ 0 < l /\ Facts!OpLen(r) = 1
      /\ r = [op |-> "zero", first |-> first, len |-> l, val |-> 0]
  BY Sizes DEF Facts!Zero, Facts!OpLen
<1> HIDE DEF b, r
<1>4. <<b>> \in Seq(Byte) /\ Len(<<b>>) = 1
  BY <1>1, OneByte
<1>5. ASSUME NEW t, NEW p \in Nat, Holds(t, p, <<b>>)
      PROVE  Piece(t, {r}, p, p + 1, first, first + l)
  <2>1. t.buf[p] = b
    BY <1>1, <1>5, OneByte
  <2>2. OpLen(t, p) = l /\ OpBytes(t, p) = 1
    BY <1>1, <1>2, <2>1 DEF OpLen, OpBytes
  <2>3. Placed(t, p, first) = r
    BY <1>1, <1>2, <1>3, <2>1, <2>2 DEF Placed
  <2>4. Piece(t, {r}, p, p + Facts!OpLen(r), first, first + r.len)
    BY <1>3, <2>2, <2>3, OnePiece
  <2> QED
    BY <1>3, <2>4
<1> QED
  BY <1>1, <1>4, <1>5 DEF r

LEMMA XZeroPiece ==
  ASSUME NEW l \in 1 .. Registers, NEW first \in Nat
  PROVE  /\ XZeroOf(l) \in Seq(Byte) /\ Len(XZeroOf(l)) = 2
         /\ \A t : \A p \in Nat : Holds(t, p, XZeroOf(l)) =>
              Piece(t, {Facts!XZero(first, l)}, p, p + 2, first, first + l)
<1> DEFINE r == Facts!XZero(first, l)
<1>1. PICK b, c \in Byte : /\ XZeroOf(l) = <<b, c>> /\ IsXZero(b)
                           /\ XZeroLen(b, c) = l
  BY XZeroWritten
<1>2. ~IsVal(b) /\ ~IsZero(b)
  BY <1>1, Kinds
<1>3. /\ r.first = first /\ r.len = l /\ l \in Nat /\ 0 < l /\ Facts!OpLen(r) = 2
      /\ r = [op |-> "xzero", first |-> first, len |-> l, val |-> 0]
  BY Sizes DEF Facts!XZero, Facts!OpLen
<1> HIDE DEF r
<1>4. <<b, c>> \in Seq(Byte) /\ Len(<<b, c>>) = 2
  BY TwoBytes
<1>5. ASSUME NEW t, NEW p \in Nat, Holds(t, p, <<b, c>>)
      PROVE  Piece(t, {r}, p, p + 2, first, first + l)
  <2>1. t.buf[p] = b /\ t.buf[p + 1] = c
    BY <1>5, TwoBytes
  <2>2. OpLen(t, p) = l /\ OpBytes(t, p) = 2
    BY <1>1, <1>2, <2>1 DEF OpLen, OpBytes
  <2>3. Placed(t, p, first) = r
    BY <1>1, <1>2, <1>3, <2>1, <2>2 DEF Placed
  <2>4. Piece(t, {r}, p, p + Facts!OpLen(r), first, first + r.len)
    BY <1>3, <2>2, <2>3, OnePiece
  <2> QED
    BY <1>3, <2>4
<1> QED
  BY <1>1, <1>4, <1>5 DEF r

\* One side of the register.
SideOf(r, len) == IF r.op = "val" THEN ValsOf(r.val, len) ELSE ZerosOf(len)

LEMMA SideWritten ==
  ASSUME NEW r, Facts!RunOK(r), NEW first \in Nat, NEW len \in Nat, len <= r.len
  PROVE  /\ SideOf(r, len) \in Seq(Byte)
         /\ Len(SideOf(r, len)) = Facts!SideBytes(r, len)
         /\ Facts!SideBytes(r, len) \in Nat
         /\ \A t : \A p \in Nat : Holds(t, p, SideOf(r, len)) =>
              Piece(t, Facts!Side(r, first, len), p, p + Facts!SideBytes(r, len),
                    first, first + len)
<1>0. /\ r.len \in Nat /\ r.len <= Registers /\ Registers \in Nat
      /\ SparseZeroMaxLen \in Nat /\ SparseValMaxLen \in Nat
      /\ r.op = "val" => r.val \in 1 .. SparseValMaxValue /\ r.len <= SparseValMaxLen
  BY Sizes DEF Facts!RunOK
<1>1. CASE len = 0
  <2>1. /\ SideOf(r, len) = <<>> /\ Facts!SideBytes(r, len) = 0
        /\ Facts!Side(r, first, len) = {}
    BY <1>1, Sizes DEF SideOf, ValsOf, ZerosOf, Facts!SideBytes, Facts!Side
  <2>2. <<>> \in Seq(Byte) /\ Len(<<>>) = 0
    OBVIOUS
  <2>3. \A t : \A p \in Nat : Piece(t, {}, p, p + 0, first, first + len)
    <3>1. \A p \in Nat : p + 0 = p
      OBVIOUS
    <3>2. first + len = first
      BY <1>1
    <3> QED
      BY <3>1, <3>2, NoPiece
  <2> QED
    BY <2>1, <2>2, <2>3
<1>2. CASE len # 0 /\ r.op = "val"
  <2>1. /\ SideOf(r, len) = ValOf(r.val, len) /\ Facts!SideBytes(r, len) = 1
        /\ Facts!Side(r, first, len) = {Facts!Val(first, len, r.val)}
    BY <1>2, Sizes DEF SideOf, ValsOf, Facts!SideBytes, Facts!Side
  <2>2. len \in 1 .. SparseValMaxLen /\ r.val \in 1 .. SparseValMaxValue
    BY <1>0, <1>2
  <2> DEFINE u == ValOf(r.val, len)
             V == {Facts!Val(first, len, r.val)}
  <2>3. /\ u \in Seq(Byte) /\ Len(u) = 1
        /\ \A t : \A p \in Nat : Holds(t, p, u) =>
             Piece(t, V, p, p + 1, first, first + len)
    BY <2>2, ValPiece
  <2>4. SideOf(r, len) = u /\ Facts!Side(r, first, len) = V
    BY <2>1, <2>2
  <2>5. Facts!SideBytes(r, len) = 1
    BY <2>1, <2>2
  <2> HIDE DEF u, V
  <2> QED
    BY <2>3, <2>4, <2>5
<1>3. CASE len # 0 /\ r.op # "val" /\ len > SparseZeroMaxLen
  <2>1. /\ SideOf(r, len) = XZeroOf(len) /\ Facts!SideBytes(r, len) = 2
        /\ Facts!Side(r, first, len) = {Facts!XZero(first, len)}
    BY <1>0, <1>3 DEF SideOf, ZerosOf, Facts!SideBytes, Facts!Side
  <2>2. len \in 1 .. Registers
    BY <1>0, <1>3
  <2> DEFINE u == XZeroOf(len)
             V == {Facts!XZero(first, len)}
  <2>3. /\ u \in Seq(Byte) /\ Len(u) = 2
        /\ \A t : \A p \in Nat : Holds(t, p, u) =>
             Piece(t, V, p, p + 2, first, first + len)
    BY <2>2, XZeroPiece
  <2>4. SideOf(r, len) = u /\ Facts!Side(r, first, len) = V
    BY <2>1, <2>2
  <2>5. Facts!SideBytes(r, len) = 2
    BY <2>1, <2>2
  <2> HIDE DEF u, V
  <2> QED
    BY <2>3, <2>4, <2>5
<1>4. CASE len # 0 /\ r.op # "val" /\ ~(len > SparseZeroMaxLen)
  <2>1. len \in 1 .. SparseZeroMaxLen
    BY <1>0, <1>4
  <2>2. /\ SideOf(r, len) = ZeroOf(len) /\ Facts!SideBytes(r, len) = 1
        /\ Facts!Side(r, first, len) = {Facts!Zero(first, len)}
    BY <1>0, <1>4, <2>1 DEF SideOf, ZerosOf, Facts!SideBytes, Facts!Side
  <2> DEFINE u == ZeroOf(len)
             V == {Facts!Zero(first, len)}
  <2>3. /\ u \in Seq(Byte) /\ Len(u) = 1
        /\ \A t : \A p \in Nat : Holds(t, p, u) =>
             Piece(t, V, p, p + 1, first, first + len)
    BY <2>1, ZeroPiece
  <2>4. SideOf(r, len) = u /\ Facts!Side(r, first, len) = V
    BY <2>1, <2>2
  <2>5. Facts!SideBytes(r, len) = 1
    BY <2>1, <2>2
  <2> HIDE DEF u, V
  <2> QED
    BY <2>3, <2>4, <2>5
<1> QED
  BY <1>1, <1>2, <1>3, <1>4

LEMMA SplitWritten ==
  ASSUME NEW s, NEW at, NEW e, NEW r, Facts!RunOK(r), r = Placed(s, at.p, at.first),
         s.buf[at.p] \in Byte,
         r.first = at.first, at.first \in Nat, r.len = at.span, Facts!Covers(r, e.idx),
         Facts!OpLen(r) = OpBytes(s, at.p),
         e.idx \in Nat, e.pat \in 1 .. SparseValMaxValue, at.p \in Nat
  PROVE  LET seq == SplitBytes(s, at, e)
         IN  /\ seq \in Seq(Byte)
             /\ Len(seq) - OpBytes(s, at.p) = Facts!DeltaLen(r, e.idx)
             /\ \A t : Holds(t, at.p, seq) =>
                  Piece(t, Facts!Split(r, e.idx, e.pat), at.p, at.p + Len(seq),
                        at.first, at.first + r.len)
<1> DEFINE i == e.idx
           m == i - at.first
           n == Facts!End(r) - 1 - i
           a == SideOf(r, m)
           v == ValOf(e.pat, 1)
           c == SideOf(r, n)
           la == Facts!SideBytes(r, m)
           lc == Facts!SideBytes(r, n)
           p == at.p
           u == a \o v
           L == Facts!Side(r, at.first, m)
           M == Facts!Val(i, 1, e.pat)
           R == Facts!Side(r, i + 1, n)
<1>1. /\ m \in Nat /\ m <= r.len /\ n \in Nat /\ n <= r.len /\ r.len \in Nat
      /\ Facts!End(r) = at.first + r.len /\ i + 1 \in Nat
      /\ at.first + m = i /\ i + 1 + n = at.first + r.len
  BY Sizes DEF Facts!RunOK, Facts!Covers, Facts!End
<1>2. IsVal(s.buf[p]) <=> r.op = "val"
  <2>1. /\ IsZero(s.buf[p]) \/ IsXZero(s.buf[p]) \/ IsVal(s.buf[p])
        /\ IsZero(s.buf[p]) => ~IsVal(s.buf[p])
        /\ IsXZero(s.buf[p]) => ~IsVal(s.buf[p]) /\ ~IsZero(s.buf[p])
    BY Kinds
  <2> QED
    BY <2>1 DEF Placed
<1>3. IsVal(s.buf[p]) => r.val = ValValue(s.buf[p])
  BY DEF Placed
<1>4. SplitBytes(s, at, e) = u \o c
  <2>1. \A len : SideOf(r, len) = IF IsVal(s.buf[p]) THEN ValsOf(ValValue(s.buf[p]), len)
                                                    ELSE ZerosOf(len)
    BY <1>2, <1>3 DEF SideOf
  <2>2. at.first + at.span - 1 - e.idx = n
    BY <1>1
  <2> QED
    BY <2>1, <2>2 DEF SplitBytes
<1>5. Facts!DeltaLen(r, i) = la + 1 + lc - OpBytes(s, p)
  BY DEF Facts!DeltaLen
<1>6. Facts!Split(r, i, e.pat) = (L \cup {M}) \cup R
  BY DEF Facts!Split
<1> HIDE DEF m, n
<1>7. /\ a \in Seq(Byte) /\ Len(a) = la /\ la \in Nat
      /\ \A t : \A q \in Nat : Holds(t, q, a) =>
           Piece(t, L, q, q + la, at.first, at.first + m)
  BY <1>1, SideWritten
<1>8. /\ c \in Seq(Byte) /\ Len(c) = lc /\ lc \in Nat
      /\ \A t : \A q \in Nat : Holds(t, q, c) =>
           Piece(t, R, q, q + lc, i + 1, i + 1 + n)
  BY <1>1, SideWritten
<1>9. /\ v \in Seq(Byte) /\ Len(v) = 1
      /\ \A t : \A q \in Nat : Holds(t, q, v) => Piece(t, {M}, q, q + 1, i, i + 1)
  <2>1. 1 \in 1 .. SparseValMaxLen
    BY Sizes
  <2> QED
    BY <2>1, ValPiece
<1> HIDE DEF a, v, c, la, lc, L, M, R
<1>10. /\ u \in Seq(Byte) /\ Len(u) = la + 1
       /\ \A t : \A q \in Nat : Holds(t, q, u) => Holds(t, q, a) /\ Holds(t, q + la, v)
  BY <1>7, <1>9, CatFacts
<1> HIDE DEF u
<1>11. /\ u \o c \in Seq(Byte) /\ Len(u \o c) = la + 1 + lc
       /\ \A t : \A q \in Nat : Holds(t, q, u \o c) =>
             Holds(t, q, u) /\ Holds(t, q + (la + 1), c)
  <2>1. /\ u \o c \in Seq(Byte) /\ Len(u \o c) = Len(u) + Len(c)
        /\ \A t : \A q \in Nat : Holds(t, q, u \o c) =>
              Holds(t, q, u) /\ Holds(t, q + Len(u), c)
    BY <1>8, <1>10, CatFacts
  <2> QED
    BY <1>8, <1>10, <2>1
<1> DEFINE w == u \o c
<1>12. ASSUME NEW t, Holds(t, p, w)
       PROVE  Piece(t, (L \cup {M}) \cup R, p, p + (la + 1 + lc),
                    at.first, at.first + r.len)
  <2>0. p \in Nat /\ la \in Nat /\ lc \in Nat
    BY <1>7, <1>8
  <2>01. Holds(t, p, u) /\ Holds(t, p + (la + 1), c)
    BY <1>11, <1>12, <2>0
  <2>1. /\ Holds(t, p, u) /\ Holds(t, p + (la + 1), c)
        /\ p + (la + 1) \in Nat /\ p + la \in Nat
        /\ p + la + 1 = p + (la + 1)
        /\ p + (la + 1) + lc = p + (la + 1 + lc)
    BY <2>0, <2>01
  <2>2. Holds(t, p, a) /\ Holds(t, p + la, v)
    BY <1>10, <2>1
  <2>3. Piece(t, L, p, p + la, at.first, i)
    <3>1. Piece(t, L, p, p + la, at.first, at.first + m)
      BY <1>7, <2>2
    <3> QED
      BY <1>1, <3>1
  <2>4. Piece(t, {M}, p + la, p + (la + 1), i, i + 1)
    BY <1>9, <2>1, <2>2
  <2>5. Piece(t, R, p + (la + 1), p + (la + 1 + lc), i + 1, at.first + r.len)
    <3>1. Piece(t, R, p + (la + 1), p + (la + 1) + lc, i + 1, i + 1 + n)
      BY <1>8, <2>1
    <3> QED
      BY <1>1, <2>1, <3>1
  <2>6. Piece(t, L \cup {M}, p, p + (la + 1), at.first, i + 1)
    BY <2>3, <2>4, JoinPieces
  <2> QED
    BY <2>5, <2>6, JoinPieces
<1>13. Len(w) = la + 1 + lc /\ w \in Seq(Byte)
  BY <1>11
<1>14. SplitBytes(s, at, e) = w
  BY <1>4
<1> HIDE DEF w, p
<1>15. \A t : Holds(t, p, w) =>
         Piece(t, Facts!Split(r, i, e.pat), p, p + Len(w), at.first, at.first + r.len)
  BY <1>6, <1>12, <1>13
<1>16. Len(w) - OpBytes(s, p) = Facts!DeltaLen(r, i)
  <2>1. OpBytes(s, p) \in {1, 2}
    BY DEF OpBytes
  <2> QED
    BY <1>5, <1>7, <1>8, <1>13, <2>1
<1> HIDE DEF i
<1>17. /\ w \in Seq(Byte)
       /\ Len(w) - OpBytes(s, at.p) = Facts!DeltaLen(r, e.idx)
       /\ \A t : Holds(t, at.p, w) =>
            Piece(t, Facts!Split(r, e.idx, e.pat), at.p, at.p + Len(w),
                  at.first, at.first + r.len)
  BY <1>13, <1>15, <1>16 DEF p, i
<1> QED
  BY <1>14, <1>17

-----------------------------------------------------------------------------
(* The pieces take the place of the opcode.                                *)

LEMMA SubstituteFacts ==
  ASSUME NEW s, Fit(s), NEW p \in Nat, HdrSize <= p, p + OpBytes(s, p) <= s.len,
         NEW seq \in Seq(Byte), Len(seq) - OpBytes(s, p) <= s.free
  PROVE  LET delta == Len(seq) - OpBytes(s, p)
             r == Substitute(s, p, seq)
         IN  /\ Fit(r) /\ r.len = s.len + delta /\ r.buf[r.len] = Nul
             /\ Holds(r, p, seq)
             /\ \A i \in 0 .. p - 1 : r.buf[i] = s.buf[i]
             /\ \A i \in p + OpBytes(s, p) .. s.len - 1 : r.buf[i + delta] = s.buf[i]
<1> DEFINE w == OpBytes(s, p)
           n == Len(seq)
           delta == n - w
           end == p + w
           next == Follower(s, p)
           moved == IF delta # 0 /\ next # None
                    THEN Move(s, next + delta, next, s.len - next) ELSE s
           cut == IncrLen(moved, delta)
           r == Store(cut, p, seq)
<1>1. /\ w \in {1, 2} /\ n \in Nat /\ delta \in Int /\ delta <= s.free /\ end <= s.len
      /\ s.len \in Nat /\ s.free \in Nat /\ s.alloc \in Nat
      /\ s.alloc = s.len + s.free + 1 /\ HdrSize <= s.len /\ HdrSize \in Nat
      /\ 0 < HdrSize
  BY FitNumbers, Sizes, LenProperties DEF OpBytes
<1>2. Substitute(s, p, seq) = r
  BY DEF Substitute
<1>3. next = IF end >= s.len THEN None ELSE end
  BY DEF Follower
<1>30. /\ delta = n - w /\ end = p + w /\ Len(seq) = n
  OBVIOUS
<1> HIDE DEF w, n, delta, end, next
<1>4. /\ s.len + delta >= p + n /\ p + n >= 0 /\ end + delta = p + n /\ end \in Nat
      /\ s.len + delta + (s.free - delta) + 1 = s.alloc /\ 0 < end /\ p < end
      /\ end \in Nat /\ p + n \in Nat
  <2>1. w \in Nat /\ 0 < w /\ delta \in Int
    BY <1>1
  <2>2. end + delta = p + n /\ p < end /\ end \in Nat /\ p + n \in Nat
    BY <1>1, <1>30, <2>1
  <2>3. end <= s.len /\ s.len \in Nat /\ s.free \in Nat
        /\ s.alloc = s.len + s.free + 1
    BY <1>1
  <2>4. s.len + delta >= p + n
    BY <2>1, <2>2, <2>3
  <2>5. s.len + delta + (s.free - delta) + 1 = s.alloc
    BY <2>1, <2>3
  <2> QED
    BY <2>2, <2>4, <2>5
<1>40. /\ n \in Nat /\ delta \in Int /\ end \in Nat /\ p < end /\ end <= s.len
       /\ end + delta = p + n /\ s.len \in Nat /\ s.alloc \in Nat
       /\ s.len + delta < s.alloc /\ s.len < s.alloc
  <2>1. /\ n \in Nat /\ delta \in Int /\ end <= s.len /\ s.len \in Nat
        /\ s.alloc \in Nat /\ delta <= s.free /\ s.free \in Nat
        /\ s.alloc = s.len + s.free + 1
    BY <1>1
  <2>2. end \in Nat /\ p < end /\ end + delta = p + n
    BY <1>4
  <2>3. s.len + delta < s.alloc /\ s.len < s.alloc
    BY <2>1
  <2> QED
    BY <2>1, <2>2, <2>3
<1>5. /\ Frame(s, moved)
      /\ \A i \in 0 .. p - 1 : moved.buf[i] = s.buf[i]
      /\ \A i \in end .. s.len - 1 : moved.buf[i + delta] = s.buf[i]
  <2>1. CASE delta = 0
    <3>1. moved = s
      BY <2>1
    <3> HIDE DEF moved
    <3>2. \A i \in end .. s.len - 1 : i + delta = i
      BY <1>1, <2>1
    <3> QED
      BY <3>1, <3>2, FitBlock
  <2>2. CASE delta # 0 /\ end >= s.len
    <3>1. moved = s
      BY <1>3, <2>2 DEF None
    <3>2. end .. s.len - 1 = {}
      BY <1>1, <1>4, <2>2
    <3> HIDE DEF moved
    <3> QED
      BY <3>1, <3>2, FitBlock
  <2>3. CASE delta # 0 /\ ~(end >= s.len)
    <3> DEFINE to == end + delta
               k == s.len - end
    <3>1. next = end /\ next # None
      BY <1>1, <1>3, <1>4, <2>3 DEF None
    <3>2. moved = Move(s, to, end, k)
      BY <2>3, <3>1
    <3>30. end < s.len /\ p \in Nat /\ p <= p + n
      BY <1>1, <1>40, <2>3
    <3>3. to \in Nat /\ k \in Nat /\ to + k <= s.alloc /\ p <= to
          /\ to + k = s.len + delta
      BY <1>40, <3>30
    <3> HIDE DEF moved
    <3>4. /\ Frame(s, moved)
          /\ \A i \in 0 .. s.alloc - 1 :
               moved.buf[i] = IF to <= i /\ i < to + k THEN s.buf[i - to + end]
                                                       ELSE s.buf[i]
      <4>1. Sd!Block(s)
        BY FitBlock DEF Frame
      <4>2. to \in Nat /\ k \in Nat /\ to + k <= s.alloc
        BY <3>3
      <4>3. end \in Nat
        BY <1>4
      <4> HIDE DEF to, k
      <4>4. MovedTo(s, to, end, k, Move(s, to, end, k))
        BY <4>1, <4>2, <4>3, MoveFacts
      <4> QED
        BY <3>2, <4>4, Zenon DEF MovedTo
    <3>5. ASSUME NEW i \in 0 .. p - 1 PROVE moved.buf[i] = s.buf[i]
      <4> HIDE DEF to, k
      <4>0. i \in Int /\ 0 <= i /\ i < p /\ p \in Int
        BY <3>30
      <4>1. i \in 0 .. s.alloc - 1 /\ ~(to <= i /\ i < to + k)
        BY <1>40, <3>3, <4>0
      <4> QED
        BY <3>4, <4>1
    <3>6. ASSUME NEW i \in end .. s.len - 1 PROVE moved.buf[i + delta] = s.buf[i]
      <4> DEFINE x == i + delta
      <4>0. i \in Int /\ end <= i /\ i < s.len
        BY <1>40
      <4>1. x \in 0 .. s.alloc - 1 /\ to <= x /\ x < to + k /\ x - to + end = i
        <5>1. p + n \in Nat
          BY <1>4
        <5>2. 0 <= x /\ x < s.alloc /\ x \in Int
          BY <1>40, <4>0, <5>1
        <5>3. to <= x /\ x < to + k /\ x - to + end = i
          BY <1>40, <4>0
        <5> HIDE DEF x, to, k
        <5> QED
          BY <1>40, <5>2, <5>3
      <4> HIDE DEF to, k, x
      <4>2. moved.buf[x] = s.buf[x - to + end]
        BY <3>4, <4>1
      <4> QED
        BY <4>1, <4>2 DEF x
    <3> QED
      BY <3>4, <3>5, <3>6
  <2> QED
    BY <2>1, <2>2, <2>3
<1> HIDE DEF moved
<1> DEFINE m == s.len + delta
<1>6. /\ Sd!Block(cut) /\ cut.len = m /\ cut.free = s.free - delta
      /\ cut.alloc = s.alloc
      /\ \A i \in 0 .. s.alloc - 1 : cut.buf[i] = IF i = m THEN Nul ELSE moved.buf[i]
  <2>1. /\ Sd!Block(moved) /\ moved.len = s.len /\ moved.free = s.free
        /\ moved.alloc = s.alloc
    BY <1>5 DEF Frame
  <2>2. delta \in Int /\ s.len + delta >= 0 /\ delta <= s.free
    BY <1>1, <1>4
  <2>3. s.len \in Nat /\ s.free \in Nat /\ s.alloc = s.len + s.free + 1
    BY <1>1
  <2>4. Grown(moved, delta, IncrLen(moved, delta))
    BY <2>1, <2>2, <2>3, IncrFacts
  <2> QED
    BY <2>1, <2>4, Zenon DEF Grown
<1> HIDE DEF cut
<1>7. m \in Nat /\ p + n <= m /\ m < s.alloc /\ HdrSize <= m
  <2>1. HdrSize \in Nat /\ HdrSize <= p
    BY <1>1
  <2>2. p + n \in Nat /\ p + n <= s.len + delta /\ s.len + delta \in Int
    BY <1>4, <1>40
  <2>3. s.len + delta < s.alloc
    BY <1>40
  <2>4. HdrSize <= p + n /\ s.len + delta \in Nat
    BY <1>40, <2>1, <2>2
  <2>5. HdrSize <= s.len + delta
    BY <2>1, <2>2, <2>4
  <2> QED
    BY <2>2, <2>3, <2>4, <2>5
<1>8. /\ Frame(cut, r)
      /\ \A j \in 1 .. n : r.buf[p + j - 1] = seq[j]
      /\ \A i \in 0 .. cut.alloc - 1 : i < p \/ i >= p + n => r.buf[i] = cut.buf[i]
  <2>1. p + n <= cut.alloc
    BY <1>1, <1>6, <1>7
  <2>2. Len(seq) = n
    BY <1>30
  <2>3. Sd!Block(cut) /\ n \in Nat
    BY <1>1, <1>6
  <2>4. Stored(cut, p, seq, n, r)
    BY <2>1, <2>2, <2>3, StoreFacts
  <2> HIDE DEF r
  <2> QED
    BY <2>4, Zenon DEF Stored
<1> HIDE DEF r
<1>9. /\ Sd!Block(r) /\ r.len = m /\ r.free = s.free - delta /\ r.alloc = s.alloc
  BY <1>6, <1>8 DEF Frame
<1>10. \A i \in 0 .. p - 1 : r.buf[i] = s.buf[i]
  <2>1. SUFFICES ASSUME NEW i \in 0 .. p - 1 PROVE r.buf[i] = s.buf[i]
    OBVIOUS
  <2>2. i \in 0 .. s.alloc - 1 /\ i < p /\ i # m
    BY <1>1, <1>7
  <2> QED
    BY <1>5, <1>6, <1>8, <2>2
<1>11. ASSUME NEW i \in end .. s.len - 1 PROVE r.buf[i + delta] = s.buf[i]
  <2> DEFINE x == i + delta
  <2>0. i \in Int /\ end <= i /\ i < s.len
    BY <1>40
  <2>1. x \in 0 .. s.alloc - 1 /\ x >= p + n /\ x # m
    BY <1>40, <2>0
  <2>2. moved.buf[x] = s.buf[i]
    BY <1>5
  <2> HIDE DEF x
  <2>3. r.buf[x] = s.buf[i]
    BY <1>6, <1>8, <2>1, <2>2
  <2> QED
    BY <2>3 DEF x
<1>12. r.buf[m] = Nul
  <2>1. m \in 0 .. s.alloc - 1 /\ m >= p + n
    BY <1>7, <1>40
  <2>2. r.buf[m] = cut.buf[m]
    BY <1>6, <1>8, <2>1
  <2> QED
    BY <1>6, <2>1, <2>2
<1>13. \A i \in 0 .. m : r.buf[i] \in Byte
  <2>1. SUFFICES ASSUME NEW i \in 0 .. m PROVE r.buf[i] \in Byte
    OBVIOUS
  <2>2. \A j \in 0 .. s.len : s.buf[j] \in Byte
    BY DEF Fit
  <2>3. CASE i < p
    <3>1. i \in 0 .. p - 1 /\ i \in 0 .. s.len
      BY <1>40, <2>3
    <3> QED
      BY <1>10, <2>2, <3>1
  <2>4. CASE p <= i /\ i < p + n
    <3>1. i - p + 1 \in 1 .. n /\ p + (i - p + 1) - 1 = i
      BY <1>1, <1>7, <2>4
    <3>2. r.buf[p + (i - p + 1) - 1] = seq[i - p + 1]
      BY <1>8, <3>1
    <3>3. seq[i - p + 1] \in Byte
      BY <1>30, <3>1, ElementOfSeq
    <3> QED
      BY <3>1, <3>2, <3>3
  <2>5. CASE p + n <= i /\ i < m
    <3> DEFINE j == i - delta
    <3>0. i \in Int /\ p + n <= i /\ i < s.len + delta
      BY <2>5
    <3>1. j \in end .. s.len - 1 /\ j + delta = i /\ j \in 0 .. s.len
      <4>1. j \in Int /\ j + delta = i
        BY <1>40, <3>0
      <4>2. end <= j /\ j < s.len
        BY <1>40, <3>0
      <4> HIDE DEF j
      <4> QED
        BY <1>40, <4>1, <4>2
    <3> HIDE DEF j
    <3>2. r.buf[j + delta] = s.buf[j]
      BY <1>11, <3>1
    <3> QED
      BY <2>2, <3>1, <3>2
  <2>6. CASE i = m
    <3>1. Nul \in Byte
      BY Sizes, BytesAssumption DEF Byte
    <3> QED
      BY <1>12, <2>6, <3>1
  <2>7. i \in Int /\ i <= m /\ m \in Nat /\ p + n \in Int /\ p \in Int
    BY <1>7, <1>40
  <2> HIDE DEF m
  <2>8. i < p \/ (p <= i /\ i < p + n) \/ (p + n <= i /\ i < m) \/ i = m
    BY <2>7
  <2> QED
    BY <2>3, <2>4, <2>5, <2>6, <2>8
<1>14. Fit(r)
  <2>0. /\ m \in Nat /\ HdrSize <= m /\ s.free - delta \in Nat
        /\ s.alloc = m + (s.free - delta) + 1
    <3>1. s.free \in Nat /\ delta \in Int /\ delta <= s.free
      BY <1>1
    <3>2. s.alloc = (s.len + delta) + (s.free - delta) + 1
      BY <1>4
    <3> QED
      BY <1>7, <3>1, <3>2
  <2> HIDE DEF m
  <2>1. /\ r.len \in Nat /\ r.free \in Nat /\ r.alloc = r.len + r.free + 1
        /\ HdrSize <= r.len
    BY <2>0, <1>9
  <2>2. \A i \in 0 .. r.len : r.buf[i] \in Byte
    BY <1>9, <1>13
  <2> QED
    BY <1>9, <2>1, <2>2, BlockFit
<1>15. Holds(r, p, seq)
  BY <1>8, <1>30 DEF Holds
<1>16. /\ Fit(r) /\ r.len = s.len + delta /\ r.buf[r.len] = Nul
       /\ Holds(r, p, seq)
       /\ \A i \in 0 .. p - 1 : r.buf[i] = s.buf[i]
       /\ \A i \in end .. s.len - 1 : r.buf[i + delta] = s.buf[i]
  BY <1>9, <1>10, <1>11, <1>12, <1>14, <1>15
<1> QED
  BY <1>2, <1>16 DEF delta, n, w, end

LEMMA SamePiece ==
  ASSUME NEW s, NEW S, NEW lo, NEW hi, NEW i, NEW j, Piece(s, S, lo, hi, i, j),
         NEW t, \A x \in lo .. hi - 1 : t.buf[x] = s.buf[x]
  PROVE  Piece(t, S, lo, hi, i, j)
<1> DEFINE d == 0
<1>1. lo \in Nat /\ hi \in Nat
  BY PieceNumbers
<1>2. d \in Int /\ lo + d >= 0 /\ lo + d = lo /\ hi + d = hi
  BY <1>1
<1>3. \A x \in lo .. hi - 1 : x + d = x
  BY <1>1
<1> HIDE DEF d
<1>4. \A x \in lo .. hi - 1 : t.buf[x + d] = s.buf[x]
  BY <1>3
<1>5. Piece(t, S, lo + d, hi + d, i, j)
  BY <1>2, <1>4, MovedPiece
<1> QED
  BY <1>2, <1>5

-----------------------------------------------------------------------------
(* The merging.                                                            *)

\* What a turn of the merging does to the string otherwise.
Keeps(s, t) ==
  /\ t.len <= s.len
  /\ \A i \in 0 .. HdrSize - 1 : t.buf[i] = s.buf[i]
  /\ t.buf[t.len] = IF t.len = s.len THEN s.buf[s.len] ELSE Nul

LEMMA KeepsOn ==
  ASSUME NEW s, Fit(s), NEW t, Fit(t), NEW u, Fit(u), Keeps(s, t), Keeps(t, u)
  PROVE  Keeps(s, u)
<1>1. s.len \in Nat /\ t.len \in Nat /\ u.len \in Nat
  BY FitNumbers
<1>2. u.len <= s.len /\ (u.len = s.len => t.len = s.len /\ u.len = t.len)
  BY <1>1 DEF Keeps
<1>3. \A i \in 0 .. HdrSize - 1 : u.buf[i] = s.buf[i]
  BY DEF Keeps
<1>4. u.buf[u.len] = IF u.len = s.len THEN s.buf[s.len] ELSE Nul
  <2>1. CASE u.len = s.len
    BY <1>2, <2>1 DEF Keeps
  <2>2. CASE u.len # s.len /\ u.len = t.len
    BY <2>2 DEF Keeps
  <2>3. CASE u.len # s.len /\ u.len # t.len
    BY <2>3 DEF Keeps
  <2> QED
    BY <2>1, <2>2, <2>3
<1> QED
  BY <1>2, <1>3, <1>4 DEF Keeps

LEMMA MergedBytes ==
  ASSUME NEW s, Fit(s), NEW p \in Nat, HdrSize <= p, p + 1 < s.len, NEW b \in Byte,
         ValOf(ValValue(s.buf[p]), ValLen(s.buf[p]) + ValLen(s.buf[p + 1])) = <<b>>
  PROVE  LET r == MergeAt(s, p)
         IN  /\ Fit(r) /\ r.len = s.len - 1 /\ Keeps(s, r)
             /\ \A i \in 0 .. p - 1 : r.buf[i] = s.buf[i]
             /\ r.buf[p] = b
             /\ \A i \in p + 2 .. s.len - 1 : r.buf[i - 1] = s.buf[i]
<1> DEFINE to == p
           from == p + 1
           k == s.len - p
           merged == Store(s, from, <<b>>)
           moved == Move(merged, to, from, k)
           one == -1
           r == IncrLen(moved, one)
<1>1. /\ s.len \in Nat /\ s.free \in Nat /\ s.alloc \in Nat
      /\ s.alloc = s.len + s.free + 1 /\ HdrSize \in Nat /\ 0 < HdrSize
  BY FitNumbers, Sizes
<1>2. MergeAt(s, p) = r
  BY DEF MergeAt
<1>3. Frame(s, merged) /\ merged.buf[from] = b
      /\ \A i \in 0 .. s.alloc - 1 : i # from => merged.buf[i] = s.buf[i]
  <2>1. Sd!Block(s) /\ from \in Nat /\ from < s.alloc
    BY <1>1, FitBlock DEF Frame
  <2> HIDE DEF from
  <2> QED
    BY <2>1, ByteStored
<1> HIDE DEF merged
<1>4. /\ Frame(merged, moved)
      /\ \A i \in 0 .. s.alloc - 1 :
           moved.buf[i] = IF to <= i /\ i < to + k THEN merged.buf[i - to + from]
                                                   ELSE merged.buf[i]
  <2>1. Sd!Block(merged) /\ merged.alloc = s.alloc
    BY <1>3 DEF Frame
  <2>2. to \in Nat /\ from \in Nat /\ k \in Nat /\ to + k <= s.alloc
    BY <1>1
  <2>3. moved = Move(merged, to, from, k)
    OBVIOUS
  <2> HIDE DEF to, from, k, moved
  <2>4. MovedTo(merged, to, from, k, Move(merged, to, from, k))
    BY <2>1, <2>2, MoveFacts
  <2> QED
    BY <2>1, <2>3, <2>4 DEF MovedTo
<1> HIDE DEF moved
<1>5. /\ Sd!Block(r) /\ r.len = s.len + one /\ r.free = s.free - one
      /\ r.alloc = s.alloc
      /\ \A i \in 0 .. s.alloc - 1 :
           r.buf[i] = IF i = s.len + one THEN Nul ELSE moved.buf[i]
  <2>1. /\ Sd!Block(moved) /\ moved.len = s.len /\ moved.free = s.free
        /\ moved.alloc = s.alloc
    BY <1>3, <1>4 DEF Frame
  <2>2. one \in Int /\ s.len + one >= 0 /\ one <= s.free
    BY <1>1
  <2> HIDE DEF one
  <2>3. s.len \in Nat /\ s.free \in Nat /\ s.alloc = s.len + s.free + 1
    BY <1>1
  <2>4. Grown(moved, one, IncrLen(moved, one))
    BY <2>1, <2>2, <2>3, IncrFacts
  <2> QED
    BY <2>1, <2>4, Zenon DEF Grown
<1> HIDE DEF r
<1>6. \A i \in 0 .. p - 1 : r.buf[i] = s.buf[i]
  <2>1. SUFFICES ASSUME NEW i \in 0 .. p - 1 PROVE r.buf[i] = s.buf[i]
    OBVIOUS
  <2>2. /\ i \in 0 .. s.alloc - 1 /\ i # s.len + one /\ i # from
        /\ ~(to <= i /\ i < to + k)
    BY <1>1
  <2>3. r.buf[i] = moved.buf[i] /\ moved.buf[i] = merged.buf[i]
    BY <1>4, <1>5, <2>2
  <2> QED
    BY <1>3, <2>2, <2>3
<1>7. r.buf[p] = b
  <2>1. /\ p \in 0 .. s.alloc - 1 /\ p # s.len + one /\ p - to + from = from
        /\ to <= p /\ p < to + k
    BY <1>1
  <2>2. r.buf[p] = moved.buf[p] /\ moved.buf[p] = merged.buf[p - to + from]
    BY <1>4, <1>5, <2>1
  <2> QED
    BY <1>3, <2>1, <2>2
<1>8. \A i \in p + 2 .. s.len - 1 : r.buf[i - 1] = s.buf[i]
  <2>1. SUFFICES ASSUME NEW i \in p + 2 .. s.len - 1 PROVE r.buf[i - 1] = s.buf[i]
    OBVIOUS
  <2> DEFINE x == i - 1
  <2>2. /\ x \in 0 .. s.alloc - 1 /\ x # s.len + one /\ x - to + from = i
        /\ to <= x /\ x < to + k /\ i # from /\ i \in 0 .. s.alloc - 1
    BY <1>1
  <2> HIDE DEF x
  <2>3. r.buf[x] = moved.buf[x] /\ moved.buf[x] = merged.buf[x - to + from]
    BY <1>4, <1>5, <2>2
  <2>4. merged.buf[i] = s.buf[i]
    BY <1>3, <2>2
  <2> QED
    BY <2>2, <2>3, <2>4 DEF x
<1>9. r.len = s.len - 1 /\ r.len \in Nat /\ r.free = s.free + 1 /\ HdrSize <= r.len
  BY <1>1, <1>5
<1>10. r.buf[r.len] = Nul
  BY <1>1, <1>5, <1>9
<1>11. \A i \in 0 .. r.len : r.buf[i] \in Byte
  <2>1. SUFFICES ASSUME NEW i \in 0 .. r.len PROVE r.buf[i] \in Byte
    OBVIOUS
  <2>2. \A j \in 0 .. s.len : s.buf[j] \in Byte
    BY DEF Fit
  <2>3. CASE i < p
    BY <1>1, <1>6, <2>2, <2>3
  <2>4. CASE i = p
    BY <1>7, <2>4
  <2>5. CASE p < i /\ i < r.len
    <3>1. i + 1 \in p + 2 .. s.len - 1 /\ i + 1 - 1 = i /\ i + 1 \in 0 .. s.len
      BY <1>1, <1>9, <2>5
    <3>2. r.buf[i + 1 - 1] = s.buf[i + 1]
      BY <1>8, <3>1
    <3> QED
      BY <2>2, <3>1, <3>2
  <2>6. CASE i = r.len
    <3>1. Nul \in Byte
      BY Sizes, BytesAssumption DEF Byte
    <3> QED
      BY <1>10, <2>6, <3>1
  <2> QED
    BY <1>1, <1>9, <2>3, <2>4, <2>5, <2>6
<1>12. Fit(r)
  <2>1. r.free \in Nat /\ r.alloc = r.len + r.free + 1
    BY <1>1, <1>5, <1>9
  <2> QED
    BY <1>5, <1>9, <1>11, <2>1, BlockFit
<1>13. Keeps(s, r)
  <2>1. \A i \in 0 .. HdrSize - 1 : r.buf[i] = s.buf[i]
    BY <1>1, <1>6
  <2>2. r.len <= s.len /\ r.len # s.len
    BY <1>1, <1>9
  <2> QED
    BY <1>10, <2>1, <2>2 DEF Keeps
<1> QED
  BY <1>2, <1>6, <1>7, <1>8, <1>9, <1>12, <1>13

\* A place of the scan, in the bytes and in the opcodes.
ScanAt(st, fs, N) ==
  /\ st = Scan(st.s, st.p) /\ Fit(st.s)
  /\ fs = Facts!ScanState(fs.runs, fs.size, fs.at) /\ fs.size = st.s.len
  /\ Streams(st.s, fs.runs, N) /\ Between(st.s, fs.runs, N, st.p, fs.at)

LEMMA HeadOfTwo ==
  ASSUME NEW s, Fit(s), NEW C, NEW p, NEW x, NEW j, Piece(s, C, p, s.len, x, j),
         p < s.len, NEW q, q = Placed(s, p, x), OpBytes(s, p) = 1
  PROVE  \E B : /\ C = {q} \cup B /\ q \notin B
               /\ Piece(s, B, p + 1, s.len, x + q.len, j)
<1> DEFINE w == OpBytes(s, p)
           r == Placed(s, p, x)
<1>1. s.len <= s.len
  BY FitNumbers
<1>2. LET r0 == Placed(s, p, x)
      IN  /\ r0 \in C /\ r0.first = x /\ r0.len = OpLen(s, p)
          /\ Facts!OpLen(r0) = OpBytes(s, p) /\ r0.len \in Nat /\ 0 < r0.len
          /\ Piece(s, {r0}, p, p + OpBytes(s, p), x, x + r0.len)
          /\ \E B : /\ C = {r0} \cup B /\ r0 \notin B
                    /\ Piece(s, B, p + OpBytes(s, p), s.len, x + r0.len, j)
  BY <1>1, HeadPiece
<1>3. \E B : /\ C = {r} \cup B /\ r \notin B
             /\ Piece(s, B, p + w, s.len, x + r.len, j)
  BY <1>2
<1>4. w = 1 /\ q = r
  OBVIOUS
<1> HIDE DEF w, r
<1> QED
  BY <1>3, <1>4

\* The two opcodes at p as one.
LEMMA MergedPieces ==
  ASSUME NEW s, Fit(s), NEW S, NEW N, NEW p, NEW x, Between(s, S, N, p, x),
         NEW q, q = Placed(s, p, x), IsVal(s.buf[p]), p + 1 < s.len,
         NEW c, c = Placed(s, p + 1, x + q.len), IsVal(s.buf[p + 1]),
         ValValue(s.buf[p]) = ValValue(s.buf[p + 1]),
         ValLen(s.buf[p]) + ValLen(s.buf[p + 1]) <= SparseValMaxLen
  PROVE  LET t == MergeAt(s, p)
             T == (S \ {q, c}) \cup {Facts!Val(q.first, q.len + c.len, q.val)}
         IN  /\ Fit(t) /\ t.len = s.len - 1 /\ Keeps(s, t)
             /\ Streams(t, T, N) /\ Between(t, T, N, p, x)
<1> DEFINE b == s.buf[p]
           d == s.buf[p + 1]
           l == ValLen(b) + ValLen(d)
           m == Facts!Val(x, l, ValValue(b))
           t == MergeAt(s, p)
<1>1. PICK A, C : /\ S = A \cup C /\ Piece(s, A, HdrSize, p, 0, x)
                  /\ Piece(s, C, p, s.len, x, N)
  BY DEF Between
<1>2. /\ p \in Nat /\ x \in Nat /\ HdrSize <= p /\ s.len \in Nat /\ p < s.len
      /\ s.len <= s.len /\ p + 1 \in Nat /\ HdrSize \in Nat
  BY <1>1, FitNumbers, PieceNumbers, Sizes
<1>3. b \in Byte /\ d \in Byte
  <2>1. p \in 0 .. s.len /\ p + 1 \in 0 .. s.len
    BY <1>2
  <2> QED
    BY <2>1 DEF Fit
<1>4. ~IsZero(b) /\ ~IsXZero(b) /\ ~IsZero(d) /\ ~IsXZero(d)
  BY <1>3, Kinds
<1>5. /\ OpBytes(s, p) = 1 /\ OpLen(s, p) = ValLen(b)
      /\ OpBytes(s, p + 1) = 1 /\ OpLen(s, p + 1) = ValLen(d)
      /\ q.val = ValValue(b) /\ q.first = x /\ q.len = ValLen(b)
      /\ c.len = ValLen(d)
  <2>1. /\ OpBytes(s, p) = 1 /\ OpLen(s, p) = ValLen(b)
        /\ OpBytes(s, p + 1) = 1 /\ OpLen(s, p + 1) = ValLen(d)
    BY <1>4 DEF OpBytes, OpLen
  <2> QED
    BY <2>1 DEF Placed
<1>6. /\ ValLen(b) \in 1 .. SparseValMaxLen /\ ValLen(d) \in 1 .. SparseValMaxLen
      /\ ValValue(b) \in 1 .. SparseValMaxValue
  BY <1>3, FieldsTyped
<1>7. l \in 1 .. SparseValMaxLen
  BY <1>6, Sizes
<1>8. PICK B : /\ C = {q} \cup B /\ q \notin B
               /\ Piece(s, B, p + 1, s.len, x + q.len, N)
  <2>1. /\ Piece(s, C, p, s.len, x, N) /\ p < s.len /\ q = Placed(s, p, x)
        /\ OpBytes(s, p) = 1
    BY <1>1, <1>2, <1>5
  <2> QED
    BY <2>1, HeadOfTwo
<1>9. PICK D : /\ B = {c} \cup D /\ c \notin D
               /\ Piece(s, D, p + 1 + 1, s.len, x + q.len + c.len, N)
  <2> DEFINE p1 == p + 1
             x1 == x + q.len
  <2>1. /\ Piece(s, B, p1, s.len, x1, N) /\ p1 < s.len /\ c = Placed(s, p1, x1)
        /\ OpBytes(s, p1) = 1
    BY <1>5, <1>8
  <2> HIDE DEF p1, x1
  <2>2. \E D : /\ B = {c} \cup D /\ c \notin D
               /\ Piece(s, D, p1 + 1, s.len, x1 + c.len, N)
    BY <1>2, <2>1, HeadOfTwo
  <2> QED
    BY <2>2 DEF p1, x1
<1>10. PICK v \in Byte : ValOf(ValValue(b), l) = <<v>>
  BY <1>6, <1>7, ValWritten
<1>11. /\ Fit(t) /\ t.len = s.len - 1 /\ Keeps(s, t)
       /\ \A i \in 0 .. p - 1 : t.buf[i] = s.buf[i]
       /\ t.buf[p] = v
       /\ \A i \in p + 2 .. s.len - 1 : t.buf[i - 1] = s.buf[i]
  BY <1>2, <1>10, MergedBytes
<1>12. Piece(t, {m}, p, p + 1, x, x + l)
  <2>1. Holds(t, p, <<v>>)
    BY <1>2, <1>11, OneByte
  <2>2. Holds(t, p, ValOf(ValValue(b), l))
    BY <1>10, <2>1
  <2> HIDE DEF b, l, t
  <2> QED
    BY <1>2, <1>6, <1>7, <2>2, ValPiece
<1> HIDE DEF t, m
<1>13. Piece(t, A, HdrSize, p, 0, x)
  <2>1. \A i \in HdrSize .. p - 1 : t.buf[i] = s.buf[i]
    BY <1>2, <1>11
  <2> QED
    BY <1>1, <2>1, SamePiece
<1>14. Piece(t, D, p + 1, t.len, x + l, N)
  <2> DEFINE e == -1
             lo == p + 1 + 1
  <2>1. /\ lo + e = p + 1 /\ s.len + e = t.len /\ e \in Int /\ lo + e >= 0
        /\ x + q.len + c.len = x + l
    BY <1>2, <1>5, <1>6, <1>11
  <2>2. \A i \in lo .. s.len - 1 : t.buf[i + e] = s.buf[i]
    <3>1. SUFFICES ASSUME NEW i \in lo .. s.len - 1 PROVE t.buf[i + e] = s.buf[i]
      OBVIOUS
    <3>2. i \in p + 2 .. s.len - 1 /\ i + e = i - 1
      BY <1>2
    <3> QED
      BY <1>11, <3>2
  <2> HIDE DEF e, lo
  <2>3. Piece(s, D, lo, s.len, x + l, N)
    BY <1>9, <2>1 DEF lo
  <2>4. Piece(t, D, lo + e, s.len + e, x + l, N)
    BY <2>1, <2>2, <2>3, MovedPiece
  <2> QED
    BY <2>1, <2>4
<1>15. Piece(t, {m} \cup D, p, t.len, x, N)
  BY <1>12, <1>14, JoinPieces
<1>16. (S \ {q, c}) \cup {m} = A \cup ({m} \cup D)
  <2>1. ASSUME NEW y \in A PROVE y # q /\ y # c
    <3>1. y.first \in Nat /\ y.len \in Nat /\ 0 < y.len /\ y.first + y.len <= x
      BY <1>1, <2>1, PieceNumbers
    <3>2. q.first = x /\ c.first = x + q.len /\ q.len \in Nat
      BY <1>5, <1>6 DEF Placed
    <3> QED
      BY <1>2, <3>1, <3>2
  <2> QED
    BY <1>1, <1>8, <1>9, <2>1
<1> DEFINE T == (S \ {q, c}) \cup {m}
<1>17. Between(t, T, N, p, x)
  BY <1>13, <1>15, <1>16 DEF Between
<1>18. Streams(t, T, N)
  <2>1. Piece(t, A \cup ({m} \cup D), HdrSize, t.len, 0, N)
    BY <1>13, <1>15, JoinPieces
  <2> QED
    BY <1>16, <2>1 DEF Streams
<1>19. m = Facts!Val(q.first, q.len + c.len, q.val)
  BY <1>5 DEF m
<1> HIDE DEF T
<1>20. T = (S \ {q, c}) \cup {Facts!Val(q.first, q.len + c.len, q.val)}
  BY <1>19 DEF T
<1> QED
  BY <1>11, <1>17, <1>18, <1>20 DEF t

-----------------------------------------------------------------------------
(* A turn of the merging, in the bytes and in the opcodes.                 *)

LEMMA ScanPlace ==
  ASSUME NEW s, NEW p, NEW runs, NEW size, NEW at
  PROVE  /\ Scan(s, p).s = s /\ Scan(s, p).p = p
         /\ Facts!ScanState(runs, size, at).runs = runs
         /\ Facts!ScanState(runs, size, at).size = size
         /\ Facts!ScanState(runs, size, at).at = at
  BY DEF Scan, Facts!ScanState

\* The opcode at the place is that of the register.
LEMMA PlaceOpcode ==
  ASSUME NEW s, Fit(s), NEW S, NEW N, Streams(s, S, N), N <= Registers,
         NEW p, NEW x, Between(s, S, N, p, x), p < s.len
  PROVE  LET q == Placed(s, p, x)
         IN  /\ Facts!Reaches(S, x) /\ Facts!RunAt(S, x) = q /\ q \in S
             /\ q.first = x /\ q.len = OpLen(s, p) /\ q.len \in Nat /\ 0 < q.len
             /\ Facts!OpLen(q) = OpBytes(s, p) /\ Facts!End(q) = x + q.len
             /\ Between(s, S, N, p + OpBytes(s, p), x + q.len)
<1> DEFINE q == Placed(s, p, x)
<1>1. /\ q \in S /\ q.first = x /\ q.len = OpLen(s, p)
      /\ Facts!OpLen(q) = OpBytes(s, p)
      /\ Between(s, S, N, p + OpBytes(s, p), x + OpLen(s, p))
      /\ OpLen(s, p) \in Nat /\ 0 < OpLen(s, p) /\ OpBytes(s, p) \in {1, 2}
  BY NextOpcode
<1>2. x \in Nat
  BY BetweenNumbers
<1>3. Facts!StreamOK(S)
  BY StreamsOK
<1> HIDE DEF q
<1>4. Facts!End(q) = x + q.len /\ Facts!Covers(q, x)
  BY <1>1, <1>2 DEF Facts!End, Facts!Covers
<1>5. x \in Int
  BY <1>2
<1>6. Facts!Reaches(S, x) /\ Facts!RunAt(S, x) = q
  BY <1>1, <1>3, <1>4, <1>5, FactsConstants, Facts!RunAtOnly
<1> QED
  BY <1>1, <1>4, <1>6 DEF q

\* The branches of a turn.
LEMMA StepCases ==
  ASSUME NEW st
  PROVE  LET stands == st.p < st.s.len
             val    == IsVal(st.s.buf[st.p])
             merges == /\ st.p + 1 < st.s.len
                       /\ Mergeable(st.s.buf[st.p], st.s.buf[st.p + 1])
         IN  /\ ~stands => MergeStep(st) = st
             /\ stands /\ ~val =>
                  MergeStep(st) = Scan(st.s, st.p + OpBytes(st.s, st.p))
             /\ stands /\ val /\ merges =>
                  MergeStep(st) = Scan(MergeAt(st.s, st.p), st.p)
             /\ stands /\ val /\ ~merges => MergeStep(st) = Scan(st.s, st.p + 1)
<1> DEFINE s == st.s
           p == st.p
           stands == p < s.len
           val == IsVal(s.buf[p])
           merges == p + 1 < s.len /\ Mergeable(s.buf[p], s.buf[p + 1])
           far == Scan(s, p + OpBytes(s, p))
           on == Scan(s, p + 1)
           joined == Scan(MergeAt(s, p), p)
           turn == MergeTurn(s, p)
<1>1. MergeStep(st) = IF stands THEN turn ELSE st
  BY Zenon DEF MergeStep
<1>2. turn = IF ~val THEN far ELSE IF merges THEN joined ELSE on
  BY Zenon DEF MergeTurn
<1> HIDE DEF stands, val, merges, far, on, joined, turn
<1>3. /\ ~stands => MergeStep(st) = st
      /\ stands /\ ~val => MergeStep(st) = far
      /\ stands /\ val /\ merges => MergeStep(st) = joined
      /\ stands /\ val /\ ~merges => MergeStep(st) = on
  BY <1>1, <1>2
<1> QED
  BY <1>3, Zenon DEF stands, val, merges, far, on, joined

LEMMA MergeStepFacts ==
  ASSUME NEW st, NEW fs, NEW N, ScanAt(st, fs, N), N <= Registers
  PROVE  /\ ScanAt(MergeStep(st), Facts!MergeStep(fs), N)
         /\ Keeps(st.s, MergeStep(st).s)
<1> DEFINE s == st.s
           p == st.p
           S == fs.runs
           x == fs.at
           q == Placed(s, p, x)
           b == s.buf[p]
<1>1. /\ st = Scan(s, p) /\ Fit(s) /\ fs = Facts!ScanState(S, fs.size, x)
      /\ fs.size = s.len /\ Streams(s, S, N) /\ Between(s, S, N, p, x)
  BY DEF ScanAt
<1>2. /\ p \in Nat /\ HdrSize <= p /\ p <= s.len /\ x \in Nat /\ N \in Nat /\ x <= N
      /\ (p = s.len <=> x = N) /\ s.len \in Nat
  BY <1>1, BetweenNumbers, FitNumbers
<1>3. Keeps(s, s)
  BY <1>2 DEF Keeps
<1>4. \A i \in Int : Facts!Reaches(S, i) <=> 0 <= i /\ i < N
  BY <1>1, StreamsOK
<1>5. CASE p = s.len
  <2>1. ~Facts!Reaches(S, x)
    BY <1>2, <1>4, <1>5
  <2>2. Facts!MergeStep(fs) = fs
    BY <2>1 DEF Facts!MergeStep
  <2>3. MergeStep(st) = st
    <3>1. ~(p < s.len)
      BY <1>2, <1>5
    <3> QED
      BY <3>1, StepCases, Zenon
  <2> QED
    BY <1>3, <2>2, <2>3
<1>6. CASE p < s.len
  <2>1. /\ Facts!Reaches(S, x) /\ Facts!RunAt(S, x) = q /\ q \in S
        /\ q.first = x /\ q.len = OpLen(s, p) /\ q.len \in Nat /\ 0 < q.len
        /\ Facts!OpLen(q) = OpBytes(s, p) /\ Facts!End(q) = x + q.len
        /\ Between(s, S, N, p + OpBytes(s, p), x + q.len)
    BY <1>1, <1>6, PlaceOpcode
  <2>2. b \in Byte
    <3>1. p \in 0 .. s.len
      BY <1>2
    <3> QED
      BY <1>1, <3>1 DEF Fit
  <2>3. Facts!MergeStep(fs) = Facts!MergeAt(fs, q)
    BY <2>1 DEF Facts!MergeStep
  \* What the state is when nothing is merged.
  <2>4. ASSUME ~Facts!Joins(S, q), MergeStep(st) = Scan(s, p + OpBytes(s, p))
        PROVE  ScanAt(MergeStep(st), Facts!MergeStep(fs), N)
                 /\ Keeps(s, MergeStep(st).s)
    <3> DEFINE gs == Facts!ScanState(S, fs.size, x + q.len)
               tt == Scan(s, p + OpBytes(s, p))
    <3>1. Facts!MergeStep(fs) = gs
      BY <2>1, <2>3, <2>4 DEF Facts!MergeAt
    <3>2. /\ gs.runs = S /\ gs.size = fs.size /\ gs.at = x + q.len
          /\ tt.s = s /\ tt.p = p + OpBytes(s, p)
      BY ScanPlace
    <3>3. gs = Facts!ScanState(gs.runs, gs.size, gs.at) /\ tt = Scan(tt.s, tt.p)
      BY <3>2
    <3> HIDE DEF gs, tt
    <3>4. ScanAt(tt, gs, N)
      BY <1>1, <2>1, <3>2, <3>3 DEF ScanAt
    <3> QED
      BY <1>3, <2>4, <3>1, <3>2, <3>4 DEF tt
  <2>5. p < s.len
    BY <1>6
  <2>6. CASE ~IsVal(b)
    <3>1. MergeStep(st) = Scan(s, p + OpBytes(s, p))
      BY <2>5, <2>6, StepCases, Zenon
    <3>2. q.op # "val"
      BY <2>2, <2>6, Kinds DEF Placed
    <3>3. ~Facts!Joins(S, q)
      BY <3>2 DEF Facts!Joins, Facts!Mergeable
    <3> QED
      BY <2>4, <3>1, <3>3
  <2>7. CASE IsVal(b)
    <3>1. OpBytes(s, p) = 1 /\ OpLen(s, p) = ValLen(b)
      BY <2>2, <2>7, Kinds DEF OpBytes, OpLen
    <3>2. q.op = "val" /\ q.val = ValValue(b)
      BY <2>2, <2>7, Kinds DEF Placed
    <3>3. CASE p + 1 = s.len
      <4>1. x + q.len = N
        <5>1. Between(s, S, N, s.len, x + q.len)
          BY <2>1, <3>1, <3>3
        <5> QED
          BY <5>1, BetweenNumbers
      <4>2. ~Facts!Reaches(S, Facts!End(q))
        BY <1>2, <1>4, <2>1, <4>1
      <4>3. ~Facts!Joins(S, q)
        BY <4>2 DEF Facts!Joins
      <4>4. MergeStep(st) = Scan(s, p + OpBytes(s, p))
        <5>1. ~(p + 1 < s.len) /\ OpBytes(s, p) = 1
          BY <1>2, <3>1, <3>3
        <5>2. MergeStep(st) = Scan(s, p + 1)
          BY <2>5, <2>7, <5>1, StepCases, Zenon
        <5> QED
          BY <5>1, <5>2
      <4> QED
        BY <2>4, <4>3, <4>4
    <3>4. CASE p + 1 < s.len
      <4> DEFINE p1 == p + 1
                 x1 == x + q.len
                 d == s.buf[p1]
                 c == Placed(s, p1, x1)
      <4>1. Between(s, S, N, p1, x1) /\ p1 < s.len
        BY <2>1, <3>1, <3>4
      <4> HIDE DEF p1, x1
      <4>2. /\ Facts!Reaches(S, x1) /\ Facts!RunAt(S, x1) = c /\ c \in S
            /\ c.first = x1 /\ c.len = OpLen(s, p1) /\ c.len \in Nat /\ 0 < c.len
            /\ Facts!OpLen(c) = OpBytes(s, p1) /\ Facts!End(c) = x1 + c.len
            /\ Between(s, S, N, p1 + OpBytes(s, p1), x1 + c.len)
        BY <1>1, <4>1, PlaceOpcode
      <4>3. d \in Byte
        <5>1. p1 \in 0 .. s.len
          BY <1>2, <3>4 DEF p1
        <5> QED
          BY <1>1, <5>1 DEF Fit
      <4>4. Facts!After(S, q) = c /\ Facts!End(q) = x1
        BY <2>1, <4>2 DEF Facts!After, x1
      <4>5. Facts!Joins(S, q) <=> Mergeable(b, d)
        <5>1. Facts!Joins(S, q) <=> Facts!Mergeable(q, c)
          BY <4>2, <4>4 DEF Facts!Joins
        <5>2. CASE IsVal(d)
          <6>1. c.op = "val" /\ c.val = ValValue(d) /\ c.len = ValLen(d)
            BY <4>2, <4>3, <5>2, Kinds DEF Placed, OpLen
          <6> QED
            BY <2>1, <2>7, <3>1, <3>2, <4>2, <4>4, <5>1, <5>2, <6>1
               DEF Facts!Mergeable, Mergeable
        <5>3. CASE ~IsVal(d)
          <6>1. c.op # "val"
            BY <4>3, <5>3, Kinds DEF Placed
          <6> QED
            BY <5>1, <5>3, <6>1 DEF Facts!Mergeable, Mergeable
        <5> QED
          BY <5>2, <5>3
      <4>6. CASE ~Mergeable(b, d)
        <5>1. MergeStep(st) = Scan(s, p + OpBytes(s, p))
          <6>1. OpBytes(s, p) = 1
            BY <3>1
          <6>2. MergeStep(st) = Scan(s, p + 1)
            <7>1. ~(p + 1 < s.len /\ Mergeable(s.buf[p], s.buf[p + 1]))
              BY <4>6 DEF p1
            <7> QED
              BY <2>5, <2>7, <7>1, StepCases, Zenon
          <6> QED
            BY <6>1, <6>2
        <5> QED
          BY <2>4, <4>5, <4>6, <5>1
      <4>7. CASE Mergeable(b, d)
        <5> DEFINE t == MergeAt(s, p)
                   T == (S \ {q, c}) \cup {Facts!Val(q.first, q.len + c.len, q.val)}
                   gs == Facts!ScanState(T, fs.size - 1, x)
                   tt == Scan(t, p)
        <5>1. MergeStep(st) = tt
          <6>1. p + 1 < s.len /\ Mergeable(s.buf[p], s.buf[p + 1])
            BY <3>4, <4>7 DEF p1
          <6> QED
            BY <2>5, <2>7, <6>1, StepCases, Zenon
        <5>2. Facts!MergeStep(fs) = gs
          BY <2>3, <4>4, <4>5, <4>7 DEF Facts!MergeAt, Facts!Joined
        <5>3. /\ IsVal(s.buf[p]) /\ IsVal(s.buf[p + 1])
              /\ ValValue(s.buf[p]) = ValValue(s.buf[p + 1])
              /\ ValLen(s.buf[p]) + ValLen(s.buf[p + 1]) <= SparseValMaxLen
          BY <4>7 DEF Mergeable, p1
        <5>4. c = Placed(s, p + 1, x + q.len)
          BY DEF p1, x1
        <5>5. /\ Fit(t) /\ t.len = s.len - 1 /\ Keeps(s, t)
              /\ Streams(t, T, N) /\ Between(t, T, N, p, x)
          <6> HIDE DEF q, c
          <6>1. q = Placed(s, p, x)
            BY DEF q
          <6> QED
            BY <1>1, <3>4, <5>3, <5>4, <6>1, MergedPieces
        <5>6. /\ gs.runs = T /\ gs.size = fs.size - 1 /\ gs.at = x
              /\ tt.s = t /\ tt.p = p
          BY ScanPlace
        <5>7. gs = Facts!ScanState(gs.runs, gs.size, gs.at) /\ tt = Scan(tt.s, tt.p)
          BY <5>6
        <5> HIDE DEF gs, tt, T, t
        <5>8. ScanAt(tt, gs, N)
          BY <1>1, <5>5, <5>6, <5>7 DEF ScanAt
        <5> QED
          BY <5>1, <5>2, <5>5, <5>6, <5>8
      <4> QED
        BY <4>6, <4>7
    <3> QED
      BY <1>2, <1>6, <3>3, <3>4
  <2> QED
    BY <2>6, <2>7
<1> QED
  BY <1>2, <1>5, <1>6

LEMMA MergeLoopFacts ==
  ASSUME NEW s, Fit(s), NEW S, NEW N, Streams(s, S, N), N <= Registers,
         NEW p, NEW x, Between(s, S, N, p, x)
  PROVE  LET t == MergeLoop(s, p)
             scan == Facts!MergeScan(S, s.len, x)
         IN  /\ Fit(t) /\ Streams(t, scan.runs, N) /\ scan.size = t.len /\ Keeps(s, t)
<1> DEFINE b0 == Scan(s, p)
           b1 == MergeStep(b0)
           b2 == MergeStep(b1)
           b3 == MergeStep(b2)
           b4 == MergeStep(b3)
           b5 == MergeStep(b4)
           f0 == Facts!ScanState(S, s.len, x)
           f1 == Facts!MergeStep(f0)
           f2 == Facts!MergeStep(f1)
           f3 == Facts!MergeStep(f2)
           f4 == Facts!MergeStep(f3)
           f5 == Facts!MergeStep(f4)
<1>1. MergeLoop(s, p) = b5.s /\ Facts!MergeScan(S, s.len, x) = f5
  BY DEF MergeLoop, Facts!MergeScan
<1>2. ScanAt(b0, f0, N) /\ b0.s = s
  <2>1. /\ b0.s = s /\ b0.p = p /\ f0.runs = S /\ f0.size = s.len /\ f0.at = x
    BY ScanPlace
  <2>2. f0 = Facts!ScanState(f0.runs, f0.size, f0.at) /\ b0 = Scan(b0.s, b0.p)
    BY <2>1
  <2> HIDE DEF f0, b0
  <2> QED
    BY <2>1, <2>2 DEF ScanAt
<1> HIDE DEF b0, f0
<1>3. ScanAt(b1, f1, N) /\ Keeps(b0.s, b1.s)
  BY <1>2, MergeStepFacts
<1> HIDE DEF b1, f1
<1>4. ScanAt(b2, f2, N) /\ Keeps(b1.s, b2.s)
  BY <1>3, MergeStepFacts
<1> HIDE DEF b2, f2
<1>5. ScanAt(b3, f3, N) /\ Keeps(b2.s, b3.s)
  BY <1>4, MergeStepFacts
<1> HIDE DEF b3, f3
<1>6. ScanAt(b4, f4, N) /\ Keeps(b3.s, b4.s)
  BY <1>5, MergeStepFacts
<1> HIDE DEF b4, f4
<1>7. ScanAt(b5, f5, N) /\ Keeps(b4.s, b5.s)
  BY <1>6, MergeStepFacts
<1> HIDE DEF b5, f5
<1>8. Fit(b0.s) /\ Fit(b1.s) /\ Fit(b2.s) /\ Fit(b3.s) /\ Fit(b4.s) /\ Fit(b5.s)
  BY <1>2, <1>3, <1>4, <1>5, <1>6, <1>7 DEF ScanAt
<1>9. Keeps(b0.s, b2.s)
  BY <1>3, <1>4, <1>8, KeepsOn
<1>10. Keeps(b0.s, b3.s)
  BY <1>5, <1>8, <1>9, KeepsOn
<1>11. Keeps(b0.s, b4.s)
  BY <1>6, <1>8, <1>10, KeepsOn
<1>12. Keeps(b0.s, b5.s)
  BY <1>7, <1>8, <1>11, KeepsOn
<1>13. Streams(b5.s, f5.runs, N) /\ f5.size = b5.s.len
  BY <1>7 DEF ScanAt
<1> QED
  BY <1>1, <1>2, <1>8, <1>12, <1>13

-----------------------------------------------------------------------------
(* What the string of a sparse object holds.                               *)

\* The byte behind the opcodes: the terminator, or the VAL that an add put
\* there.
TailIs(b, tail) ==
  \/ b = Nul /\ tail = 0
  \/ /\ tail \in 1 .. SparseValMaxValue
     /\ b \in Byte /\ IsVal(b) /\ ValValue(b) = tail /\ ValLen(b) = 1

\* The opcodes S over the first N registers, and how HLLObject would call the
\* rest of the string.
Holding(s, S, N, size, tail, card) ==
  /\ Fit(s) /\ Streams(s, S, N) /\ N <= Registers
  /\ size = s.len
  /\ TailIs(s.buf[s.len], tail) /\ (N = Registers => s.buf[s.len] = Nul)
  /\ card = CardOf(s)

LEMMA NulIs ==
  /\ Nul = 0 /\ Nul \in Byte /\ IsZero(Nul) /\ ~IsVal(Nul) /\ ~IsXZero(Nul)
  /\ ZeroLen(Nul) = 1
<1>1. Nul = 0
  BY BytesAssumption
<1>2. Nul \in Byte /\ IsZero(Nul)
  BY <1>1, Sizes DEF Byte, IsZero
<1>3. ZeroLen(Nul) = 1
  <2>1. Nul % XZeroBit = 0
    BY <1>1, Sizes, RestIs
  <2> QED
    BY <2>1 DEF ZeroLen
<1> QED
  BY <1>1, <1>2, <1>3, Kinds

LEMMA TailFacts ==
  ASSUME NEW s, NEW tail, TailIs(s.buf[s.len], tail)
  PROVE  /\ TailOf(s) = tail /\ tail \in 0 .. SparseValMaxValue
         /\ s.buf[s.len] \in Byte
<1> DEFINE b == s.buf[s.len]
<1>1. CASE b = Nul /\ tail = 0
  BY <1>1, NulIs, Sizes DEF TailOf
<1>2. CASE tail # 0 /\ tail \in 1 .. SparseValMaxValue
           /\ b \in Byte /\ IsVal(b) /\ ValValue(b) = tail
  <2>1. b # Nul
    BY <1>2, NulIs
  <2> QED
    BY <1>2, <2>1, Sizes DEF TailOf
<1> QED
  BY <1>1, <1>2, Sizes DEF TailIs

\* HLL_INVALIDATE_CACHE.
LEMMA InvalidateFacts ==
  ASSUME NEW s, Fit(s)
  PROVE  LET r == Invalidate(s)
         IN  /\ Fit(r) /\ r.len = s.len /\ CardOf(r) = -1
             /\ \A i \in 0 .. s.len : i # HdrSize - 1 => r.buf[i] = s.buf[i]
<1> DEFINE at == HdrSize - 1
           b == s.buf[at]
           v == (b % ValBit) + ValBit
           r == Store(s, at, <<v>>)
<1>1. /\ s.len \in Nat /\ s.free \in Nat /\ s.alloc \in Nat
      /\ s.alloc = s.len + s.free + 1 /\ HdrSize <= s.len
      /\ HdrSize \in Nat /\ 0 < HdrSize
  BY FitNumbers, Sizes
<1>2. b \in Byte
  <2>1. at \in 0 .. s.len
    BY <1>1
  <2> QED
    BY <2>1 DEF Fit
<1>3. v \in Byte /\ ValBit <= v /\ ~(v < ValBit)
  <2>1. ValBit \in Nat /\ 0 < ValBit /\ ByteSize = 2 * ValBit /\ b \in Int
    BY <1>2, Sizes, ByteIs
  <2> HIDE DEF b
  <2>2. b % ValBit \in Int /\ 0 <= b % ValBit /\ b % ValBit < ValBit
    BY <2>1, RestTyped
  <2> QED
    BY <2>1, <2>2 DEF Byte
<1>4. Invalidate(s) = r
  BY DEF Invalidate
<1> HIDE DEF v
<1>5. /\ Frame(s, r) /\ r.buf[at] = v
      /\ \A i \in 0 .. s.alloc - 1 : i # at => r.buf[i] = s.buf[i]
  <2>1. Sd!Block(s) /\ at \in Nat /\ at < s.alloc
    BY <1>1, FitBlock DEF Frame
  <2> HIDE DEF at
  <2> QED
    BY <2>1, ByteStored
<1> HIDE DEF r
<1>6. \A i \in 0 .. s.len : i # at => r.buf[i] = s.buf[i]
  <2>1. \A i \in 0 .. s.len : i \in 0 .. s.alloc - 1
    BY <1>1
  <2> QED
    BY <1>5, <2>1
<1>7. r.len = s.len /\ r.free = s.free /\ r.alloc = s.alloc /\ Sd!Block(r)
  BY <1>5 DEF Frame
<1>8. \A i \in 0 .. r.len : r.buf[i] \in Byte
  <2>1. \A i \in 0 .. s.len : s.buf[i] \in Byte
    BY DEF Fit
  <2>2. \A i \in 0 .. s.len : r.buf[i] \in Byte
    BY <1>3, <1>5, <1>6, <2>1
  <2> QED
    BY <1>7, <2>2
<1>9. Fit(r)
  BY <1>1, <1>7, <1>8, BlockFit
<1>10. CardOf(r) = -1
  BY <1>3, <1>5 DEF CardOf, ValidCache
<1> QED
  BY <1>4, <1>6, <1>7, <1>9, <1>10

\* Opcodes whose bytes are the same.
LEMMA SameStream ==
  ASSUME NEW s, NEW t, t.len = s.len, NEW S, NEW N, Streams(s, S, N),
         \A i \in HdrSize .. s.len - 1 : t.buf[i] = s.buf[i]
  PROVE  Streams(t, S, N)
  BY SamePiece DEF Streams

LEMMA SameBetween ==
  ASSUME NEW s, NEW t, t.len = s.len, NEW S, NEW N, NEW p, NEW x,
         Between(s, S, N, p, x),
         \A i \in HdrSize .. s.len - 1 : t.buf[i] = s.buf[i]
  PROVE  Between(t, S, N, p, x)
<1>1. PICK A, B : /\ S = A \cup B /\ Piece(s, A, HdrSize, p, 0, x)
                  /\ Piece(s, B, p, s.len, x, N)
  BY DEF Between
<1>2. HdrSize \in Nat /\ p \in Nat /\ s.len \in Nat /\ HdrSize <= p /\ p <= s.len
  BY <1>1, PieceNumbers
<1>3. /\ \A i \in HdrSize .. p - 1 : t.buf[i] = s.buf[i]
      /\ \A i \in p .. s.len - 1 : t.buf[i] = s.buf[i]
  BY <1>2
<1>4. Piece(t, A, HdrSize, p, 0, x)
  BY <1>1, <1>3, SamePiece
<1>5. Piece(t, B, p, s.len, x, N)
  BY <1>1, <1>3, SamePiece
<1> QED
  BY <1>1, <1>4, <1>5 DEF Between

LEMMA HoldingInvalid ==
  ASSUME NEW s, NEW S, NEW N, NEW size, NEW tail, NEW card,
         Holding(s, S, N, size, tail, card)
  PROVE  Holding(Invalidate(s), S, N, size, tail, -1)
<1> DEFINE r == Invalidate(s)
<1>1. Fit(s) /\ Streams(s, S, N)
  BY DEF Holding
<1>2. /\ Fit(r) /\ r.len = s.len /\ CardOf(r) = -1
      /\ \A i \in 0 .. s.len : i # HdrSize - 1 => r.buf[i] = s.buf[i]
  BY <1>1, InvalidateFacts
<1>3. s.len \in Nat /\ HdrSize \in Nat /\ 0 < HdrSize /\ HdrSize <= s.len
  BY <1>1, FitNumbers, Sizes
<1> HIDE DEF r
<1>4. \A i \in HdrSize .. s.len - 1 : r.buf[i] = s.buf[i]
  <2>1. \A i \in HdrSize .. s.len - 1 : i \in 0 .. s.len /\ i # HdrSize - 1
    BY <1>3
  <2> QED
    BY <1>2, <2>1
<1>5. r.buf[r.len] = s.buf[s.len]
  <2>1. s.len \in 0 .. s.len /\ s.len # HdrSize - 1
    BY <1>3
  <2> QED
    BY <1>2, <2>1
<1>6. Streams(r, S, N)
  BY <1>1, <1>2, <1>4, SameStream
<1>7. Holding(r, S, N, size, tail, -1)
  BY <1>2, <1>5, <1>6 DEF Holding
<1> QED
  BY <1>7 DEF r

-----------------------------------------------------------------------------
(* Other opcodes in the place of one.                                      *)

\* Where the merging starts in a new stream.
Scannable(t, T, N, at, y) == Streams(t, T, N) /\ Between(t, T, N, From(at), y)

\* The string t holds the opcodes New where s held the opcode r, d bytes longer;
\* those on its left are A, those on its right B.
Replaced(s, S, N, at, r, A, B, y, lo, m, t, d, New, mid, T) ==
  /\ S = (A \cup {r}) \cup B /\ r \notin A /\ r \notin B
  /\ Piece(s, B, lo, s.len, m, N) /\ Behind(s, A, at, y) /\ lo \in Nat
  /\ d \in Int /\ t.len = s.len + d /\ mid = lo + d /\ mid >= 0
  /\ Piece(t, New, at.p, mid, at.first, m)
  /\ \A i \in HdrSize .. at.p - 1 : t.buf[i] = s.buf[i]
  /\ \A i \in lo .. s.len - 1 : t.buf[i + d] = s.buf[i]
  /\ T = (S \ {r}) \cup New

LEMMA ReplacedPieces ==
  ASSUME NEW s, NEW S, NEW N, NEW at, NEW r, NEW A, NEW B, NEW y, NEW lo, NEW m,
         NEW t, NEW d, NEW New, NEW mid, NEW T,
         Replaced(s, S, N, at, r, A, B, y, lo, m, t, d, New, mid, T)
  PROVE  Scannable(t, T, N, at, y)
<1> USE DEF Replaced
<1> DEFINE f == From(at)
           p == at.p
           x == at.first
<1>1. PICK P, Q : /\ A = P \cup Q
                  /\ Piece(s, P, HdrSize, f, 0, y)
                  /\ Piece(s, Q, f, p, y, x)
  BY DEF Behind
<1> HIDE DEF f
<1>2. HdrSize \in Nat /\ f \in Nat /\ HdrSize <= f /\ p \in Nat /\ f <= p
  BY <1>1, PieceNumbers
<1>3. Piece(t, P, HdrSize, f, 0, y)
  <2>1. \A i \in HdrSize .. f - 1 : t.buf[i] = s.buf[i]
    BY <1>2
  <2> QED
    BY <1>1, <2>1, SamePiece
<1>4. Piece(t, Q, f, p, y, x)
  <2>1. \A i \in f .. p - 1 : t.buf[i] = s.buf[i]
    BY <1>2
  <2> QED
    BY <1>1, <2>1, SamePiece
<1>5. Piece(t, B, mid, t.len, m, N)
  <2>1. Piece(t, B, lo + d, s.len + d, m, N)
    BY MovedPiece
  <2> QED
    BY <2>1
<1>6. Piece(t, New \cup B, p, t.len, x, N)
  BY <1>5, JoinPieces
<1>7. Piece(t, Q \cup (New \cup B), f, t.len, y, N)
  BY <1>4, <1>6, JoinPieces
<1>8. T = P \cup (Q \cup (New \cup B))
  BY <1>1
<1>9. Between(t, T, N, f, y)
  BY <1>3, <1>7, <1>8 DEF Between
<1>10. Streams(t, T, N)
  <2>1. Piece(t, P \cup (Q \cup (New \cup B)), HdrSize, t.len, 0, N)
    BY <1>3, <1>7, JoinPieces
  <2> QED
    BY <1>8, <2>1 DEF Streams
<1> QED
  BY <1>9, <1>10 DEF Scannable, f

-----------------------------------------------------------------------------
(* What hllSparseAdd on bytes and on opcodes answer.                       *)

\* The header of a dense object.
HeaderIs(h, card) ==
  Fit(h) /\ h.len = HdrSize /\ h.buf[h.len] = Nul /\ card = CardOf(h)

Agrees(a, f, N) ==
  /\ a.val = f.val
  /\ \/ /\ a.obj.enc = "sparse" /\ f.obj.enc = "sparse" /\ a.obj.regs = ZeroRegs
        /\ Holding(a.obj.str, f.obj.runs, N, f.obj.size, f.obj.tail, f.obj.card)
     \/ /\ a.obj.enc = "dense" /\ f.obj = Facts!Dense(a.obj.regs, f.obj.card)
        /\ HeaderIs(a.obj.str, f.obj.card)

\* The label "updated".
LEMMA UpdatedAgrees ==
  ASSUME NEW s, Fit(s), NEW S, NEW N, N <= Registers,
         NEW tail, TailIs(s.buf[s.len], tail), N = Registers => s.buf[s.len] = Nul,
         NEW at, NEW y, Scannable(s, S, N, at, y),
         NEW o, NEW size, size = s.len
  PROVE  Agrees(Updated(s, at.prev), Facts!Updated(o, S, size, tail, y), N)
<1> DEFINE t == MergeLoop(s, From(at))
           scan == Facts!MergeScan(S, s.len, y)
           rest == IF scan.size = s.len THEN tail ELSE 0
<1>1. /\ Fit(t) /\ Streams(t, scan.runs, N) /\ scan.size = t.len /\ Keeps(s, t)
  BY MergeLoopFacts DEF Scannable
<1>2. Holding(t, scan.runs, N, scan.size, rest, CardOf(t))
  <2>1. CASE t.len = s.len
    <3>1. t.buf[t.len] = s.buf[s.len]
      BY <1>1, <2>1 DEF Keeps
    <3>2. rest = tail
      BY <1>1, <2>1
    <3> HIDE DEF rest, t, scan
    <3> QED
      BY <1>1, <3>1, <3>2 DEF Holding
  <2>2. CASE t.len # s.len
    <3>1. t.buf[t.len] = Nul
      BY <1>1, <2>2 DEF Keeps
    <3>2. rest = 0
      BY <1>1, <2>2
    <3> HIDE DEF rest, t, scan
    <3>3. TailIs(t.buf[t.len], rest)
      BY <3>1, <3>2 DEF TailIs
    <3> QED
      BY <1>1, <3>1, <3>3 DEF Holding
  <2> QED
    BY <2>1, <2>2
<1>3. Updated(s, at.prev) = Answer(1, Object("sparse", Invalidate(t), ZeroRegs))
  BY Zenon DEF Updated, From
<1>4. Facts!Updated(o, S, size, tail, y)
        = Facts!Answer(1, Facts!Sparse(scan.runs, scan.size, rest, Facts!Invalid))
  BY DEF Facts!Updated
<1> HIDE DEF t, scan, rest
<1>5. Holding(Invalidate(t), scan.runs, N, scan.size, rest, -1)
  BY <1>2, HoldingInvalid
<1> DEFINE a == Updated(s, at.prev)
           f == Facts!Updated(o, S, size, tail, y)
<1>6. /\ a.val = 1 /\ a.obj.enc = "sparse" /\ a.obj.regs = ZeroRegs
      /\ a.obj.str = Invalidate(t)
  BY <1>3 DEF Answer, Object
<1>7. /\ f.val = 1 /\ f.obj.enc = "sparse" /\ f.obj.runs = scan.runs
      /\ f.obj.size = scan.size /\ f.obj.tail = rest /\ f.obj.card = -1
  BY <1>4 DEF Facts!Answer, Facts!Sparse, Facts!Invalid
<1> HIDE DEF a, f
<1>8. Agrees(a, f, N)
  <2>1. Holding(a.obj.str, f.obj.runs, N, f.obj.size, f.obj.tail, f.obj.card)
    BY <1>5, <1>6, <1>7
  <2> QED
    BY <1>6, <1>7, <2>1 DEF Agrees
<1> QED
  BY <1>8 DEF a, f

-----------------------------------------------------------------------------
(* Conversions.                                                            *)

\* sdsnewlen.
LEMMA NewLenIs ==
  ASSUME NEW v \in Seq(Byte), Len(v) >= HdrSize
  PROVE  LET r == NewLen(v)
         IN  /\ Fit(r) /\ r.len = Len(v) /\ r.buf[r.len] = Nul
             /\ \A j \in 1 .. Len(v) : r.buf[j - 1] = v[j]
<1> DEFINE r == NewLen(v)
           n == Len(v)
<1>1. Sd!Whole(r) /\ r.len = n /\ Content(r) = v
  <2>1. /\ Sd!Whole(Sd!NewLen(v)) /\ Sd!NewLen(v).len = Len(v)
        /\ Sd!Content(Sd!NewLen(v)) = v
    BY Sd!NewLenFacts, SdConstants
  <2>2. Sd!NewLen(v) = r
    BY SdNew
  <2>3. Sd!Content(r) = Content(r)
    BY SdWords
  <2> HIDE DEF r
  <2> QED
    BY <2>1, <2>2, <2>3
<1>2. n \in Nat /\ HdrSize \in Nat /\ 0 < HdrSize
  BY LenProperties, Sizes
<1> HIDE DEF r
<1>3. r.buf[r.len] = Nul
  BY <1>1, SdWords DEF Sd!Whole, Sd!Terminated
<1>4. Fit(r)
  <2>1. Sd!Fit(r) /\ HdrSize <= r.len
    BY <1>1, <1>2 DEF Sd!Whole
  <2> QED
    BY <1>3, <2>1, FitIs, NulIs
<1>5. \A j \in 1 .. n : r.buf[j - 1] = v[j]
  <2>1. SUFFICES ASSUME NEW j \in 1 .. n PROVE r.buf[j - 1] = v[j]
    OBVIOUS
  <2>2. Content(r) = [i \in 1 .. n |-> r.buf[0 + i - 1]]
    BY <1>1 DEF Content, Bytes
  <2>3. Content(r)[j] = r.buf[0 + j - 1]
    BY <2>2
  <2>4. 0 + j - 1 = j - 1
    BY <1>2
  <2> QED
    BY <1>1, <2>3, <2>4
<1> QED
  BY <1>1, <1>3, <1>4, <1>5 DEF r

LEMMA HeaderCopied ==
  ASSUME NEW s, Fit(s)
  PROVE  HeaderIs(NewLen(Bytes(s, 0, HdrSize)), CardOf(s))
<1> DEFINE v == Bytes(s, 0, HdrSize)
           r == NewLen(v)
<1>1. s.len \in Nat /\ HdrSize <= s.len /\ HdrSize \in Nat /\ 0 < HdrSize
  BY FitNumbers, Sizes
<1>2. v = [j \in 1 .. HdrSize |-> s.buf[0 + j - 1]]
  BY DEF Bytes
<1>3. \A j \in 1 .. HdrSize : s.buf[0 + j - 1] \in Byte
  <2>1. \A j \in 1 .. HdrSize : 0 + j - 1 \in 0 .. s.len
    BY <1>1
  <2> QED
    BY <2>1 DEF Fit
<1>4. v \in [1 .. HdrSize -> Byte]
  BY <1>2, <1>3
<1>5. v[HdrSize] = s.buf[HdrSize - 1]
  <2>1. HdrSize \in 1 .. HdrSize /\ 0 + HdrSize - 1 = HdrSize - 1
    BY <1>1
  <2> QED
    BY <1>2, <2>1
<1> HIDE DEF v
<1>6. v \in Seq(Byte) /\ Len(v) = HdrSize
  BY <1>1, <1>4
<1>7. /\ Fit(r) /\ r.len = HdrSize /\ r.buf[r.len] = Nul
      /\ \A j \in 1 .. HdrSize : r.buf[j - 1] = v[j]
  <2>1. Len(v) >= HdrSize
    BY <1>1, <1>6
  <2>2. /\ Fit(r) /\ r.len = Len(v) /\ r.buf[r.len] = Nul
        /\ \A j \in 1 .. Len(v) : r.buf[j - 1] = v[j]
    BY <1>6, <2>1, NewLenIs
  <2> QED
    BY <1>6, <2>2
<1> HIDE DEF r
<1>8. CardOf(r) = CardOf(s)
  <2>1. r.buf[HdrSize - 1] = s.buf[HdrSize - 1]
    BY <1>1, <1>5, <1>7
  <2> QED
    BY <2>1 DEF CardOf, ValidCache
<1> QED
  BY <1>7, <1>8 DEF HeaderIs, r, v

\* hllMerge into zeros reads the registers.
LEMMA MergedIsValues ==
  ASSUME NEW S, Facts!StreamOK(S)
  PROVE  MergedInto(ZeroRegs, S) = Facts!Values(S)
<1> DEFINE in(i) == CHOOSE r \in S : r.first <= i /\ i < r.first + r.len
<1>1. ASSUME NEW i \in Index
      PROVE  (IF \E r \in S : /\ r.first <= i /\ i < r.first + r.len
                              /\ r.val > ZeroRegs[i]
              THEN in(i).val ELSE ZeroRegs[i])
              = IF Facts!Reaches(S, i) THEN Facts!RunAt(S, i).val ELSE 0
  <2>0. ZeroRegs[i] = 0 /\ i \in Int
    BY Sizes DEF ZeroRegs, Index
  <2>1. Facts!RunAt(S, i) = in(i)
    BY DEF Facts!RunAt, Facts!Covers, Facts!End
  <2>2. \A r : Facts!Covers(r, i) <=> r.first <= i /\ i < r.first + r.len
    BY DEF Facts!Covers, Facts!End
  <2>3. \A r \in S : Facts!Covers(r, i) => Facts!RunAt(S, i) = r
    BY <2>0, FactsConstants, Facts!RunAtOnly
  <2>4. \A r \in S : r.val \in Nat
    BY Sizes DEF Facts!StreamOK, Facts!RunOK
  <2> HIDE DEF in
  <2>5. CASE ~Facts!Reaches(S, i)
    BY <2>0, <2>2, <2>5 DEF Facts!Reaches
  <2>6. CASE Facts!Reaches(S, i)
    <3>1. PICK r \in S : Facts!Covers(r, i)
      BY <2>6 DEF Facts!Reaches
    <3>2. in(i) = r
      BY <2>1, <2>3, <3>1
    <3>3. \A q \in S : q.first <= i /\ i < q.first + q.len => q = r
      BY <2>2, <2>3, <3>1
    <3>4. r.first <= i /\ i < r.first + r.len /\ r.val \in Nat
      BY <2>2, <2>4, <3>1
    <3>5. CASE r.val > 0
      BY <2>0, <2>1, <2>6, <3>2, <3>4, <3>5
    <3>6. CASE ~(r.val > 0)
      <4>1. r.val = 0
        BY <3>4, <3>6
      <4>2. ~\E q \in S : /\ q.first <= i /\ i < q.first + q.len
                          /\ q.val > ZeroRegs[i]
        BY <2>0, <3>3, <3>6
      <4> QED
        BY <2>0, <2>1, <2>6, <3>2, <4>1, <4>2
    <3> QED
      BY <3>5, <3>6
  <2> QED
    BY <2>5, <2>6
<1> QED
  BY <1>1 DEF MergedInto, Facts!Values, Facts!Index, Index

-----------------------------------------------------------------------------
(* Answers that need no merging.                                           *)

\* Nothing was changed.
LEMMA UnchangedAgrees ==
  ASSUME NEW s, NEW S, NEW N, NEW size, NEW tail, NEW card,
         Holding(s, S, N, size, tail, card), NEW val
  PROVE  Agrees(Unchanged(val, s),
                Facts!Answer(val, Facts!Sparse(S, size, tail, card)), N)
<1> DEFINE a == Unchanged(val, s)
           o == Facts!Sparse(S, size, tail, card)
           f == Facts!Answer(val, o)
<1>1. a.val = val /\ a.obj.enc = "sparse" /\ a.obj.str = s /\ a.obj.regs = ZeroRegs
  BY DEF Unchanged, Answer, Object
<1>2. f.val = val /\ f.obj = o
  BY DEF Facts!Answer
<1>3. o.enc = "sparse" /\ o.runs = S /\ o.size = size /\ o.tail = tail /\ o.card = card
  BY DEF Facts!Sparse
<1> HIDE DEF a, f, o
<1>4. Agrees(a, f, N)
  BY <1>1, <1>2, <1>3 DEF Agrees
<1> QED
  BY <1>4 DEF a, f, o

\* The label "promote".
LEMMA PromoteAgrees ==
  ASSUME NEW s, NEW S, NEW N, NEW size, NEW tail, NEW card,
         Holding(s, S, N, size, tail, card), NEW e
  PROVE  Agrees(PromoteAdd(s, e),
                Facts!PromoteAdd(Facts!Sparse(S, size, tail, card), e), N)
<1> DEFINE dense == MergedInto(ZeroRegs, Decode(s))
           header == NewLen(Bytes(s, 0, HdrSize))
           o == Facts!Sparse(S, size, tail, card)
           d == Facts!Dense(dense, card)
<1>1. Fit(s) /\ Streams(s, S, N) /\ N <= Registers /\ card = CardOf(s)
  BY DEF Holding
<1>2. o.enc = "sparse" /\ o.runs = S /\ o.card = card
  BY DEF Facts!Sparse
<1>3. DecodedLen(s) = N /\ Decode(s) = S
  BY <1>1, LastStandFacts, Decodes
<1>4. Facts!StreamOK(S) /\ (Facts!Complete(S) <=> N = Registers)
  BY <1>1, StreamsOK
<1>5. dense = Facts!Values(S)
  BY <1>3, <1>4, MergedIsValues
<1>6. HeaderIs(header, card)
  BY <1>1, HeaderCopied
<1>7. Facts!SparseToDense(o) = d
  BY <1>2, <1>5 DEF Facts!SparseToDense
<1>8. CASE N # Registers
  <2>1. PromoteAdd(s, e) = Unchanged(ERR, s)
    BY <1>3, <1>8 DEF PromoteAdd, Unchanged
  <2>2. Facts!PromoteAdd(o, e) = Facts!Answer(ERR, o)
    BY <1>2, <1>4, <1>8 DEF Facts!PromoteAdd, Facts!ERR, ERR
  <2> HIDE DEF o
  <2>3. Agrees(Unchanged(ERR, s), Facts!Answer(ERR, o), N)
    BY UnchangedAgrees DEF o
  <2> QED
    BY <2>1, <2>2, <2>3 DEF o
<1>9. CASE N = Registers
  <2> DEFINE raised == [dense EXCEPT ![e.idx] = e.pat]
             lifted == Facts!Dense(raised, card)
  <2>1. d.regs = dense /\ [d EXCEPT !.regs[e.idx] = e.pat] = lifted
    BY DEF Facts!Dense
  <2>2. lifted.enc = "dense" /\ lifted.card = card /\ d.enc = "dense" /\ d.card = card
    BY DEF Facts!Dense
  <2>3. CASE e.pat > dense[e.idx]
    <3>1. PromoteAdd(s, e) = Answer(1, Object("dense", header, raised))
      BY <1>3, <1>9, <2>3 DEF PromoteAdd
    <3>2. Facts!PromoteAdd(o, e) = Facts!Answer(1, lifted)
      <4>1. Facts!DenseAdd(d, e) = Facts!Answer(1, lifted)
        BY <2>1, <2>3 DEF Facts!DenseAdd
      <4>2. Facts!Answer(1, lifted).val = 1
        BY DEF Facts!Answer
      <4> HIDE DEF lifted, d
      <4> QED
        BY <1>2, <1>4, <1>7, <1>9, <4>1, <4>2 DEF Facts!PromoteAdd
    <3> DEFINE a == PromoteAdd(s, e)
               f == Facts!PromoteAdd(o, e)
    <3> HIDE DEF header, raised
    <3>3. a.val = 1 /\ a.obj.enc = "dense" /\ a.obj.str = header /\ a.obj.regs = raised
      BY <3>1 DEF Answer, Object
    <3>4. f.val = 1 /\ f.obj = lifted
      BY <3>2 DEF Facts!Answer
    <3> HIDE DEF a, f
    <3>5. Agrees(a, f, N)
      BY <1>6, <2>2, <3>3, <3>4 DEF Agrees
    <3> QED
      BY <3>5 DEF a, f
  <2>4. CASE ~(e.pat > dense[e.idx])
    <3>1. PromoteAdd(s, e) = Answer(Abort, Object("dense", header, dense))
      BY <1>3, <1>9, <2>4 DEF PromoteAdd
    <3>2. Facts!PromoteAdd(o, e) = Facts!Answer(Abort, d)
      <4>1. Facts!DenseAdd(d, e) = Facts!Answer(0, d)
        BY <2>1, <2>4 DEF Facts!DenseAdd
      <4>2. Facts!Answer(0, d).val = 0 /\ Facts!Answer(0, d).obj = d
        BY DEF Facts!Answer
      <4> HIDE DEF d
      <4> QED
        BY <1>2, <1>4, <1>7, <1>9, <4>1, <4>2
           DEF Facts!PromoteAdd, Facts!Abort, Abort
    <3> DEFINE a == PromoteAdd(s, e)
               f == Facts!PromoteAdd(o, e)
    <3>3. /\ a.val = Abort /\ a.obj.enc = "dense" /\ a.obj.str = header
          /\ a.obj.regs = dense
      BY <3>1 DEF Answer, Object
    <3>4. f.val = Abort /\ f.obj = d
      BY <3>2 DEF Facts!Answer
    <3> HIDE DEF a, f, header, dense
    <3>5. Agrees(a, f, N)
      BY <1>6, <2>2, <3>3, <3>4 DEF Agrees
    <3> QED
      BY <3>5 DEF a, f
  <2> QED
    BY <2>3, <2>4
<1> QED
  BY <1>8, <1>9

-----------------------------------------------------------------------------
(* The cases of hllSparseAdd.                                              *)

\* The branches that HLLObject takes.
LEMMA Branches ==
  ASSUME NEW o, NEW e, NEW r, r = Facts!RunAt(o.runs, e.idx),
         e.pat <= SparseValMaxValue, ~(e.pat > SparseValMaxValue), o.runs # {}
  PROVE  LET in    == Facts!Reaches(o.runs, e.idx)
             rest  == o.runs \ {r}
             at    == Facts!ScanStart(o.runs, r.first)
             delta == Facts!DeltaLen(r, e.idx)
             one   == r.len = 1 /\ r.op # "xzero"
             a     == Facts!SparseAdd(o, e)
         IN  /\ ~in => a = Facts!TailAdd(o, e)
             /\ in /\ Facts!Settled(r, e.pat) => a = Facts!Answer(0, o)
             /\ in /\ ~Facts!Settled(r, e.pat) /\ one =>
                  a = Facts!Updated(o, rest \cup {Facts!Val(e.idx, 1, e.pat)},
                                    o.size, o.tail, at)
             /\ in /\ ~Facts!Settled(r, e.pat) /\ ~one /\ Facts!Outgrows(o, delta) =>
                  a = Facts!PromoteAdd(o, e)
             /\ in /\ ~Facts!Settled(r, e.pat) /\ ~one /\ ~Facts!Outgrows(o, delta) =>
                  a = Facts!Updated(o, rest \cup Facts!Split(r, e.idx, e.pat),
                                    o.size + delta, 0, at)
  BY DEF Facts!SparseAdd

\* A VAL of one register is stored.
LEMMA ValStored ==
  ASSUME NEW s, Fit(s), NEW p \in Nat, HdrSize <= p, p <= s.len,
         NEW v \in 1 .. SparseValMaxValue
  PROVE  LET t == Store(s, p, ValOf(v, 1))
         IN  /\ Fit(t) /\ t.len = s.len
             /\ Holds(t, p, ValOf(v, 1)) /\ TailIs(t.buf[p], v)
             /\ \A i \in 0 .. s.len : i # p => t.buf[i] = s.buf[i]
<1> DEFINE b == ValByte(v, 1)
           t == Store(s, p, ValOf(v, 1))
<1>1. /\ s.len \in Nat /\ s.free \in Nat /\ s.alloc \in Nat
      /\ s.alloc = s.len + s.free + 1 /\ HdrSize <= s.len
  BY FitNumbers
<1>2. /\ ValOf(v, 1) = <<b>> /\ b \in Byte /\ IsVal(b)
      /\ ValValue(b) = v /\ ValLen(b) = 1
  <2>1. 1 \in 1 .. SparseValMaxLen
    BY Sizes
  <2> QED
    BY <2>1, ValWritten
<1> HIDE DEF b
<1>3. /\ Frame(s, t) /\ t.buf[p] = b
      /\ \A i \in 0 .. s.alloc - 1 : i # p => t.buf[i] = s.buf[i]
  <2>1. Sd!Block(s) /\ p < s.alloc
    BY <1>1, FitBlock DEF Frame
  <2>2. t = Store(s, p, <<b>>)
    BY <1>2
  <2> HIDE DEF t
  <2> QED
    BY <2>1, <2>2, ByteStored
<1>4. Holds(t, p, ValOf(v, 1))
  <2>1. Holds(t, p, <<b>>) <=> t.buf[p] = b
    BY <1>2, OneByte
  <2> QED
    BY <1>2, <1>3, <2>1
<1> HIDE DEF t
<1>5. \A i \in 0 .. s.len : i # p => t.buf[i] = s.buf[i]
  <2>1. \A i \in 0 .. s.len : i \in 0 .. s.alloc - 1
    BY <1>1
  <2> QED
    BY <1>3, <2>1
<1>6. t.len = s.len /\ t.free = s.free /\ t.alloc = s.alloc /\ Sd!Block(t)
  BY <1>3 DEF Frame
<1>7. \A i \in 0 .. t.len : t.buf[i] \in Byte
  <2>1. \A i \in 0 .. s.len : s.buf[i] \in Byte
    BY DEF Fit
  <2> QED
    BY <1>2, <1>3, <1>5, <1>6, <2>1
<1>8. Fit(t)
  BY <1>1, <1>6, <1>7, BlockFit
<1>9. TailIs(t.buf[p], v)
  BY <1>2, <1>3 DEF TailIs
<1> QED
  BY <1>4, <1>5, <1>6, <1>8, <1>9 DEF t

\* What the string becomes when the opcode is replaced, and the merging after
\* that.
LEMMA ReplacedAgrees ==
  ASSUME NEW s, NEW S, NEW N, NEW at, NEW r, NEW A, NEW B, NEW y, NEW lo, NEW m,
         NEW t, NEW d, NEW New, NEW mid, NEW T,
         Replaced(s, S, N, at, r, A, B, y, lo, m, t, d, New, mid, T),
         Fit(t), N <= Registers,
         NEW rear, TailIs(t.buf[t.len], rear), N = Registers => t.buf[t.len] = Nul,
         NEW o, NEW size, size = t.len
  PROVE  Agrees(Updated(t, at.prev), Facts!Updated(o, T, size, rear, y), N)
<1>1. Scannable(t, T, N, at, y)
  BY ReplacedPieces
<1> QED
  BY <1>1, UpdatedAgrees

\* Splits need no more than three bytes.
LEMMA DeltaBound ==
  ASSUME NEW r, Facts!RunOK(r), NEW idx \in Int, Facts!Covers(r, idx)
  PROVE  Facts!DeltaLen(r, idx) \in Int /\ Facts!DeltaLen(r, idx) <= 3
<1> DEFINE l == idx - r.first
           k == Facts!End(r) - 1 - idx
           L == Facts!SideBytes(r, l)
           K == Facts!SideBytes(r, k)
           w == Facts!OpLen(r)
<1>1. /\ r.first \in Int /\ r.len \in Int /\ r.first <= idx /\ idx < r.first + r.len
      /\ Facts!End(r) = r.first + r.len
      /\ r.op \in {"zero", "xzero", "val"}
      /\ r.op = "zero" => r.len <= SparseZeroMaxLen
      /\ SparseZeroMaxLen \in Nat
  BY Sizes DEF Facts!RunOK, Facts!Covers, Facts!End, Facts!Index
<1>2. l \in Int /\ k \in Int /\ l <= r.len /\ k <= r.len
  BY <1>1
<1> HIDE DEF l, k
<1>3. /\ L \in {0, 1, 2} /\ (L = 2 => r.op = "xzero")
  BY <1>1, <1>2 DEF Facts!SideBytes
<1>4. /\ K \in {0, 1, 2} /\ (K = 2 => r.op = "xzero")
  BY <1>1, <1>2 DEF Facts!SideBytes
<1>5. w \in {1, 2} /\ (r.op = "xzero" => w = 2)
  BY DEF Facts!OpLen
<1>6. Facts!DeltaLen(r, idx) = L + 1 + K - w
  BY DEF Facts!DeltaLen, l, k
<1> HIDE DEF L, K, w
<1> QED
  BY <1>3, <1>4, <1>5, <1>6

\* The opcode r that covers the register, what is before and behind it, and the
\* register y at which the merging starts.
Spot(s, S, N, idx, at, r, A, B, y) ==
  /\ at.p \in Nat /\ HdrSize <= at.p /\ at.p < s.len /\ at.first \in Nat
  /\ r = Placed(s, at.p, at.first) /\ Facts!RunOK(r)
  /\ r.first = at.first /\ r.len = OpLen(s, at.p) /\ at.span = r.len
  /\ Facts!Covers(r, idx) /\ Facts!RunAt(S, idx) = r
  /\ Facts!OpLen(r) = OpBytes(s, at.p)
  /\ S = (A \cup {r}) \cup B /\ r \notin A /\ r \notin B
  /\ Piece(s, A, HdrSize, at.p, 0, at.first)
  /\ Piece(s, B, at.p + OpBytes(s, at.p), s.len, at.first + r.len, N)
  /\ Behind(s, A, at, y) /\ y = Facts!ScanStart(S, r.first)

\* What the tests on the byte ask of the opcode.
LEMMA PlacedKind ==
  ASSUME NEW s, NEW p, s.buf[p] \in Byte, NEW first, NEW r, r = Placed(s, p, first)
  PROVE  /\ r.op = "val" <=> IsVal(s.buf[p])
         /\ r.op = "xzero" <=> IsXZero(s.buf[p])
         /\ IsVal(s.buf[p]) => r.val = ValValue(s.buf[p])
<1> DEFINE b == s.buf[p]
<1>1. /\ IsZero(b) \/ IsXZero(b) \/ IsVal(b)
      /\ ~(IsZero(b) /\ IsXZero(b)) /\ ~(IsZero(b) /\ IsVal(b))
      /\ ~(IsXZero(b) /\ IsVal(b))
  BY Kinds
<1> QED
  BY <1>1 DEF Placed

\* Cases B and C: one register, its opcode is overwritten.
LEMMA StoredAgrees ==
  ASSUME NEW s, NEW S, NEW N, NEW size, NEW tail, NEW card,
         Holding(s, S, N, size, tail, card), NEW e, e.idx \in Nat,
         e.pat \in 1 .. SparseValMaxValue,
         NEW at, NEW r, NEW A, NEW B, NEW y, Spot(s, S, N, e.idx, at, r, A, B, y),
         r.len = 1, r.op # "xzero", NEW o
  PROVE  Agrees(Updated(Store(s, at.p, ValOf(e.pat, 1)), at.prev),
                Facts!Updated(o, (S \ {r}) \cup {Facts!Val(e.idx, 1, e.pat)},
                              size, tail, y), N)
<1> DEFINE t == Store(s, at.p, ValOf(e.pat, 1))
           New == {Facts!Val(e.idx, 1, e.pat)}
           T == (S \ {r}) \cup New
           lo == at.p + 1
           m == at.first + 1
<1>1. /\ Fit(s) /\ N <= Registers /\ size = s.len
      /\ TailIs(s.buf[s.len], tail) /\ (N = Registers => s.buf[s.len] = Nul)
  BY DEF Holding
<1>2. at.p \in Nat /\ HdrSize <= at.p /\ at.p < s.len /\ s.len \in Nat
      /\ at.first \in Nat /\ HdrSize \in Nat
  BY <1>1, FitNumbers, Sizes DEF Spot
<1>3. at.first = e.idx
  BY <1>2 DEF Spot, Facts!Covers, Facts!End
<1>4. OpBytes(s, at.p) = 1
  BY DEF Spot, Facts!OpLen
<1>5. /\ Fit(t) /\ t.len = s.len /\ Holds(t, at.p, ValOf(e.pat, 1))
      /\ \A i \in 0 .. s.len : i # at.p => t.buf[i] = s.buf[i]
  <2>1. at.p <= s.len
    BY <1>2
  <2> QED
    BY <1>1, <1>2, <2>1, ValStored
<1> HIDE DEF t
<1>6. Piece(t, New, at.p, lo, at.first, m)
  <2>1. 1 \in 1 .. SparseValMaxLen
    BY Sizes
  <2>2. \A u : \A p \in Nat : Holds(u, p, ValOf(e.pat, 1)) =>
          Piece(u, {Facts!Val(e.idx, 1, e.pat)}, p, p + 1, e.idx, e.idx + 1)
    BY <2>1, ValPiece
  <2> QED
    BY <1>2, <1>3, <1>5, <2>2
<1>7. Piece(s, B, lo, s.len, m, N)
  BY <1>4 DEF Spot
<1>8. /\ \A i \in HdrSize .. at.p - 1 : t.buf[i] = s.buf[i]
      /\ \A i \in lo .. s.len - 1 : t.buf[i + 0] = s.buf[i]
      /\ t.buf[t.len] = s.buf[s.len]
  <2>1. \A i \in HdrSize .. at.p - 1 : i \in 0 .. s.len /\ i # at.p
    BY <1>2
  <2>2. \A i \in lo .. s.len - 1 : i \in 0 .. s.len /\ i # at.p /\ i + 0 = i
    BY <1>2
  <2>3. s.len \in 0 .. s.len /\ s.len # at.p
    BY <1>2
  <2> QED
    BY <1>5, <2>1, <2>2, <2>3
<1>9. lo \in Nat /\ lo = lo + 0 /\ lo >= 0 /\ t.len = s.len + 0 /\ 0 \in Int
  BY <1>2, <1>5
<1> HIDE DEF lo, m, New
<1>10. Replaced(s, S, N, at, r, A, B, y, lo, m, t, 0, New, lo, T)
  BY <1>6, <1>7, <1>8, <1>9 DEF Replaced, Spot
<1> HIDE DEF T
<1>11. Agrees(Updated(t, at.prev), Facts!Updated(o, T, size, tail, y), N)
  <2>1. TailIs(t.buf[t.len], tail) /\ (N = Registers => t.buf[t.len] = Nul)
        /\ size = t.len
    BY <1>1, <1>5, <1>8
  <2> QED
    BY <1>1, <1>5, <1>10, <2>1, ReplacedAgrees
<1> QED
  BY <1>11 DEF t, T, New

\* Case D, the opcode is split in place.
LEMMA SplitAgrees ==
  ASSUME NEW s, NEW S, NEW N, NEW size, NEW tail, NEW card,
         Holding(s, S, N, size, tail, card), s.free >= 3, NEW e, e.idx \in Nat,
         e.pat \in 1 .. SparseValMaxValue,
         NEW at, NEW r, NEW A, NEW B, NEW y, Spot(s, S, N, e.idx, at, r, A, B, y),
         NEW o
  PROVE  LET d == Facts!DeltaLen(r, e.idx)
         IN  /\ Len(SplitBytes(s, at, e)) - OpBytes(s, at.p) = d
             /\ d \in Int /\ IncrAllowed(s, d)
             /\ Agrees(Updated(Substitute(s, at.p, SplitBytes(s, at, e)), at.prev),
                       Facts!Updated(o, (S \ {r}) \cup Facts!Split(r, e.idx, e.pat),
                                     size + d, 0, y), N)
<1> DEFINE d == Facts!DeltaLen(r, e.idx)
           seq == SplitBytes(s, at, e)
           w == OpBytes(s, at.p)
           t == Substitute(s, at.p, seq)
           New == Facts!Split(r, e.idx, e.pat)
           T == (S \ {r}) \cup New
           lo == at.p + w
           mid == at.p + Len(seq)
           m == at.first + r.len
<1>1. Fit(s) /\ N <= Registers /\ size = s.len
  BY DEF Holding
<1>2. /\ at.p \in Nat /\ HdrSize <= at.p /\ at.p < s.len /\ s.len \in Nat
      /\ at.first \in Nat /\ HdrSize \in Nat /\ s.free \in Nat
      /\ s.buf[at.p] \in Byte
  <2>1. /\ at.p \in Nat /\ HdrSize <= at.p /\ at.p < s.len /\ s.len \in Nat
        /\ at.first \in Nat /\ HdrSize \in Nat /\ s.free \in Nat
    BY <1>1, FitNumbers, Sizes DEF Spot
  <2>2. at.p \in 0 .. s.len
    BY <2>1
  <2> QED
    BY <1>1, <2>1, <2>2 DEF Fit
<1>3. d \in Int /\ d <= 3
  <2>1. Facts!RunOK(r) /\ Facts!Covers(r, e.idx) /\ e.idx \in Int
    BY DEF Spot
  <2> QED
    BY <2>1, DeltaBound
<1>4. IncrAllowed(s, d)
  BY <1>2, <1>3 DEF IncrAllowed
<1>5. /\ seq \in Seq(Byte) /\ Len(seq) - w = d
      /\ \A u : Holds(u, at.p, seq) => Piece(u, New, at.p, mid, at.first, m)
  <2>1. /\ Facts!RunOK(r) /\ r = Placed(s, at.p, at.first)
        /\ r.first = at.first /\ r.len = at.span /\ Facts!Covers(r, e.idx)
        /\ Facts!OpLen(r) = OpBytes(s, at.p)
    BY DEF Spot
  <2> QED
    BY <1>2, <2>1, SplitWritten
<1> HIDE DEF d, seq, New
<1>6. w \in Nat /\ Len(seq) \in Nat /\ Len(seq) = w + d
  <2>1. w \in {1, 2}
    BY DEF OpBytes
  <2>2. Len(seq) \in Nat
    BY <1>5, LenProperties
  <2> HIDE DEF w
  <2> QED
    BY <1>3, <1>5, <2>1, <2>2
<1>7. Piece(s, B, lo, s.len, m, N)
  BY DEF Spot
<1>8. lo <= s.len
  BY <1>7, PieceNumbers
<1>9. /\ Fit(t) /\ t.len = s.len + (Len(seq) - w) /\ t.buf[t.len] = Nul
      /\ Holds(t, at.p, seq)
      /\ \A i \in 0 .. at.p - 1 : t.buf[i] = s.buf[i]
      /\ \A i \in lo .. s.len - 1 : t.buf[i + (Len(seq) - w)] = s.buf[i]
  <2>1. Len(seq) - w <= s.free
    BY <1>2, <1>3, <1>5
  <2> QED
    BY <1>1, <1>2, <1>5, <1>8, <2>1, SubstituteFacts
<1>10. /\ t.len = s.len + d
       /\ \A i \in lo .. s.len - 1 : t.buf[i + d] = s.buf[i]
  BY <1>5, <1>9
<1> HIDE DEF t
<1>11. Piece(t, New, at.p, mid, at.first, m)
  BY <1>5, <1>9
<1>12. /\ lo \in Nat /\ mid = lo + d /\ mid >= 0 /\ size + d = t.len
  <2>1. size + d = t.len
    BY <1>1, <1>10
  <2>2. at.p \in Nat
    BY <1>2
  <2> HIDE DEF w
  <2>3. lo \in Nat
    BY <1>6, <2>2
  <2>4. mid = lo + d /\ mid >= 0
    BY <1>3, <1>6, <2>2
  <2> QED
    BY <2>1, <2>3, <2>4
<1>13. \A i \in HdrSize .. at.p - 1 : t.buf[i] = s.buf[i]
  <2>1. \A i \in HdrSize .. at.p - 1 : i \in 0 .. at.p - 1
    BY <1>2
  <2> QED
    BY <1>9, <2>1
<1> HIDE DEF lo, mid, m, w
<1>14. Replaced(s, S, N, at, r, A, B, y, lo, m, t, d, New, mid, T)
  BY <1>3, <1>7, <1>10, <1>11, <1>12, <1>13 DEF Replaced, Spot
<1> HIDE DEF T
<1> DEFINE grown == size + d
<1> HIDE DEF grown
<1>15. grown = t.len
  BY <1>12 DEF grown
<1>16. Agrees(Updated(t, at.prev), Facts!Updated(o, T, grown, 0, y), N)
  <2>1. TailIs(t.buf[t.len], 0) /\ (N = Registers => t.buf[t.len] = Nul)
    BY <1>9 DEF TailIs
  <2> QED
    BY <1>1, <1>9, <1>14, <1>15, <2>1, ReplacedAgrees
<1> QED
  BY <1>3, <1>4, <1>5, <1>16 DEF d, t, T, New, w, seq, grown

\* The opcode that covers the register was found.
LEMMA UpdateInside ==
  ASSUME NEW s, NEW S, NEW N, NEW size, NEW tail, NEW card,
         Holding(s, S, N, size, tail, card), s.free >= 3, NEW e, e.idx \in Nat,
         e.idx < N, e.pat \in 1 .. SparseValMaxValue
  PROVE  Agrees(UpdateAt(s, Locate(s, e.idx), e),
                Facts!SparseAdd(Facts!Sparse(S, size, tail, card), e), N)
         /\ Locate(s, e.idx).span # 0
<1> DEFINE at == Locate(s, e.idx)
           r == Placed(s, at.p, at.first)
           y == Facts!ScanStart(S, r.first)
           o == Facts!Sparse(S, size, tail, card)
           d == Facts!DeltaLen(r, e.idx)
           seq == SplitBytes(s, at, e)
           a == Facts!SparseAdd(o, e)
           b == s.buf[at.p]
<1>1. Fit(s) /\ Streams(s, S, N) /\ N <= Registers /\ size = s.len
  BY DEF Holding
<1>2. PICK A, B : Spot(s, S, N, e.idx, at, r, A, B, y)
  <2>1. /\ at.p \in Nat /\ HdrSize <= at.p /\ at.p < s.len /\ at.first \in Nat
        /\ r \in S /\ r.first = at.first /\ r.len = OpLen(s, at.p) /\ at.span = r.len
        /\ Facts!Covers(r, e.idx) /\ Facts!RunAt(S, e.idx) = r
        /\ Facts!OpLen(r) = OpBytes(s, at.p)
        /\ \E A, B : /\ S = (A \cup {r}) \cup B /\ r \notin A /\ r \notin B
                     /\ Piece(s, A, HdrSize, at.p, 0, at.first)
                     /\ Piece(s, B, at.p + OpBytes(s, at.p), s.len,
                              at.first + r.len, N)
                     /\ Behind(s, A, at, Facts!ScanStart(S, at.first))
    BY <1>1, LocatedInside
  <2>2. PICK A, B : /\ S = (A \cup {r}) \cup B /\ r \notin A /\ r \notin B
                    /\ Piece(s, A, HdrSize, at.p, 0, at.first)
                    /\ Piece(s, B, at.p + OpBytes(s, at.p), s.len,
                             at.first + r.len, N)
                    /\ Behind(s, A, at, Facts!ScanStart(S, at.first))
    BY <2>1
  <2>3. Facts!RunOK(r)
    BY <1>1, <2>1, StreamsOK DEF Facts!StreamOK
  <2>4. Behind(s, A, at, y)
    BY <2>1, <2>2
  <2>5. r = Placed(s, at.p, at.first) /\ y = Facts!ScanStart(S, r.first)
    OBVIOUS
  <2> HIDE DEF at, r, y
  <2>6. Spot(s, S, N, e.idx, at, r, A, B, y)
    BY <2>1, <2>2, <2>3, <2>4, <2>5 DEF Spot
  <2> QED
    BY <2>6
<1>3. o.enc = "sparse" /\ o.runs = S /\ o.size = size /\ o.tail = tail
  BY DEF Facts!Sparse
<1>4. /\ at.p \in Nat /\ at.p < s.len /\ r.len = OpLen(s, at.p)
      /\ Facts!RunOK(r) /\ Facts!Covers(r, e.idx) /\ Facts!RunAt(S, e.idx) = r /\ r \in S
      /\ at.span = r.len
  BY <1>2 DEF Spot
<1>5. b \in Byte
  <2>1. s.len \in Nat
    BY <1>1, FitNumbers
  <2>2. at.p \in 0 .. s.len
    BY <1>4, <2>1
  <2> QED
    BY <1>1, <2>2 DEF Fit
<1>6. /\ r.op = "val" <=> IsVal(b)
      /\ r.op = "xzero" <=> IsXZero(b)
      /\ IsVal(b) => r.val = ValValue(b)
  BY <1>5, PlacedKind
<1> HIDE DEF at
<1> DEFINE held == IsVal(b) /\ ValValue(b) >= e.pat
           one == ~IsXZero(b) /\ OpLen(s, at.p) = 1
<1>7. (Facts!Settled(r, e.pat) <=> held) /\ (r.len = 1 /\ r.op # "xzero" <=> one)
  BY <1>4, <1>6 DEF Facts!Settled
<1>8. /\ Len(seq) - OpBytes(s, at.p) = d
      /\ d \in Int /\ IncrAllowed(s, d)
      /\ Agrees(Updated(Substitute(s, at.p, seq), at.prev),
                Facts!Updated(o, (S \ {r}) \cup Facts!Split(r, e.idx, e.pat),
                              size + d, 0, y), N)
  <2> HIDE DEF r, y, o
  <2>1. /\ Len(SplitBytes(s, at, e)) - OpBytes(s, at.p) = Facts!DeltaLen(r, e.idx)
        /\ Facts!DeltaLen(r, e.idx) \in Int /\ IncrAllowed(s, Facts!DeltaLen(r, e.idx))
        /\ Agrees(Updated(Substitute(s, at.p, SplitBytes(s, at, e)), at.prev),
                  Facts!Updated(o, (S \ {r}) \cup Facts!Split(r, e.idx, e.pat),
                                size + Facts!DeltaLen(r, e.idx), 0, y), N)
    BY <1>2, SplitAgrees
  <2> QED
    BY <2>1
<1>9. /\ held => a = Facts!Answer(0, o)
      /\ ~held /\ one =>
           a = Facts!Updated(o, (S \ {r}) \cup {Facts!Val(e.idx, 1, e.pat)},
                             size, tail, y)
      /\ ~held /\ ~one /\ Facts!Outgrows(o, d) => a = Facts!PromoteAdd(o, e)
      /\ ~held /\ ~one /\ ~Facts!Outgrows(o, d) =>
           a = Facts!Updated(o, (S \ {r}) \cup Facts!Split(r, e.idx, e.pat),
                             size + d, 0, y)
  <2>1. Facts!Reaches(S, e.idx) /\ S # {}
    BY <1>4 DEF Facts!Reaches
  <2>2. e.pat <= SparseValMaxValue /\ ~(e.pat > SparseValMaxValue)
    BY Sizes
  <2>3. r = Facts!RunAt(o.runs, e.idx) /\ o.runs # {}
    BY <1>3, <1>4, <2>1
  <2> HIDE DEF r, o, held, one
  <2>4. LET in    == Facts!Reaches(o.runs, e.idx)
            rest  == o.runs \ {r}
            start == Facts!ScanStart(o.runs, r.first)
            delta == Facts!DeltaLen(r, e.idx)
            only  == r.len = 1 /\ r.op # "xzero"
            ans   == Facts!SparseAdd(o, e)
        IN  /\ ~in => ans = Facts!TailAdd(o, e)
            /\ in /\ Facts!Settled(r, e.pat) => ans = Facts!Answer(0, o)
            /\ in /\ ~Facts!Settled(r, e.pat) /\ only =>
                 ans = Facts!Updated(o, rest \cup {Facts!Val(e.idx, 1, e.pat)},
                                     o.size, o.tail, start)
            /\ in /\ ~Facts!Settled(r, e.pat) /\ ~only /\ Facts!Outgrows(o, delta) =>
                 ans = Facts!PromoteAdd(o, e)
            /\ in /\ ~Facts!Settled(r, e.pat) /\ ~only /\ ~Facts!Outgrows(o, delta) =>
                 ans = Facts!Updated(o, rest \cup Facts!Split(r, e.idx, e.pat),
                                     o.size + delta, 0, start)
    BY <2>2, <2>3, Branches
  <2> QED
    BY <1>3, <1>7, <2>1, <2>4
<1>10. Facts!Outgrows(o, d) <=> d > 0 /\ s.len + d > SparseMaxBytes
  BY <1>1, <1>3 DEF Facts!Outgrows
<1>11. Agrees(Unchanged(0, s), Facts!Answer(0, o), N)
  BY UnchangedAgrees
<1>12. Agrees(PromoteAdd(s, e), Facts!PromoteAdd(o, e), N)
  BY PromoteAgrees
<1>13. one => Agrees(Updated(Store(s, at.p, ValOf(e.pat, 1)), at.prev),
                     Facts!Updated(o, (S \ {r}) \cup {Facts!Val(e.idx, 1, e.pat)},
                                   size, tail, y), N)
  <2>1. SUFFICES ASSUME one
                 PROVE Agrees(Updated(Store(s, at.p, ValOf(e.pat, 1)), at.prev),
                     Facts!Updated(o, (S \ {r}) \cup {Facts!Val(e.idx, 1, e.pat)},
                                   size, tail, y), N)
    OBVIOUS
  <2>2. r.len = 1 /\ r.op # "xzero"
    BY <1>7, <2>1
  <2> HIDE DEF r, y, o, one
  <2> QED
    BY <1>2, <2>2, StoredAgrees
<1> DEFINE u == UpdateAt(s, at, e)
<1>14. /\ held => u = Unchanged(0, s)
       /\ ~held /\ one => u = Updated(Store(s, at.p, ValOf(e.pat, 1)), at.prev)
       /\ ~held /\ ~one => u = SplitAdd(s, at, e)
  BY DEF UpdateAt
<1>15. /\ Facts!Outgrows(o, d) => SplitAdd(s, at, e) = PromoteAdd(s, e)
       /\ ~Facts!Outgrows(o, d) =>
            SplitAdd(s, at, e) = Updated(Substitute(s, at.p, seq), at.prev)
  <2>1. SplitAdd(s, at, e)
          = LET sq == seq
                delta == Len(sq) - OpBytes(s, at.p)
            IN  IF delta > 0 /\ s.len + delta > SparseMaxBytes THEN PromoteAdd(s, e)
                ELSE IF ~IncrAllowed(s, delta) THEN Unchanged(Abort, s)
                ELSE Updated(Substitute(s, at.p, sq), at.prev)
    BY DEF SplitAdd
  <2> HIDE DEF seq, d
  <2> QED
    BY <1>8, <1>10, <2>1
<1>16. Agrees(u, a, N)
  <2> HIDE DEF a, u, o, r, y, seq, d, held, one
  <2>1. CASE held
    BY <1>9, <1>11, <1>14, <2>1
  <2>2. CASE ~held /\ one
    BY <1>9, <1>13, <1>14, <2>2
  <2>3. CASE ~held /\ ~one /\ Facts!Outgrows(o, d)
    BY <1>9, <1>12, <1>14, <1>15, <2>3
  <2>4. CASE ~held /\ ~one /\ ~Facts!Outgrows(o, d)
    BY <1>8, <1>9, <1>14, <1>15, <2>4
  <2> QED
    BY <2>1, <2>2, <2>3, <2>4
<1>17. at.span # 0
  <2>1. r.len \in 1 .. Registers
    BY <1>4 DEF Facts!RunOK
  <2> HIDE DEF r
  <2> QED
    BY <1>4, <2>1, Sizes
<1> QED
  BY <1>16, <1>17 DEF at

\* Behind the last opcode there is nothing to merge.
LEMMA TailScan ==
  ASSUME NEW S, Facts!StreamOK(S), S # {}, NEW N \in Nat,
         \A x \in Int : Facts!Reaches(S, x) <=> 0 <= x /\ x < N, NEW size
  PROVE  LET scan == Facts!MergeScan(S, size, Facts!ScanStart(S, N))
         IN  scan.runs = S /\ scan.size = size
<1> DEFINE q == Facts!RunAt(S, N - 1)
           y == Facts!ScanStart(S, N)
<1>1. \A r \in S : /\ r.first \in Int /\ r.len \in Int /\ r.len >= 1
                   /\ Facts!End(r) = r.first + r.len
                   /\ \A x \in Int : Facts!Covers(r, x)
                        <=> r.first <= x /\ x < r.first + r.len
  BY Sizes DEF Facts!StreamOK, Facts!RunOK, Facts!End, Facts!Covers, Facts!Index
<1>2. N # 0 /\ N - 1 \in Int
  <2>1. PICK r \in S : TRUE
    OBVIOUS
  <2>2. Facts!Covers(r, r.first) /\ r.first \in Int
    BY <1>1
  <2>3. Facts!Reaches(S, r.first)
    BY <2>2 DEF Facts!Reaches
  <2> QED
    BY <2>2, <2>3
<1>3. q \in S /\ Facts!Covers(q, N - 1)
  <2>1. Facts!Reaches(S, N - 1)
    BY <1>2
  <2> QED
    BY <2>1 DEF Facts!Reaches, Facts!RunAt
<1>4. y = q.first
  BY <1>2 DEF Facts!ScanStart
<1> HIDE DEF q, y
<1>5. Facts!End(q) = N
  <2>1. q.first <= N - 1 /\ N - 1 < q.first + q.len /\ q.first \in Int /\ q.len \in Int
        /\ Facts!End(q) = q.first + q.len
    BY <1>1, <1>2, <1>3
  <2>2. q.first + q.len - 1 \in Int /\ Facts!Covers(q, q.first + q.len - 1)
    BY <1>1, <1>3, <2>1
  <2>3. Facts!Reaches(S, q.first + q.len - 1)
    BY <1>3, <2>2 DEF Facts!Reaches
  <2>4. q.first + q.len - 1 < N
    BY <2>2, <2>3
  <2> QED
    BY <2>1, <2>4
<1>6. Facts!Covers(q, y) /\ y \in Int
  BY <1>1, <1>3, <1>4
<1>7. Facts!Reaches(S, y) /\ Facts!RunAt(S, y) = q
  <2>1. Facts!RunAt(S, y) = q
    BY <1>3, <1>6, FactsConstants, Facts!RunAtOnly
  <2> QED
    BY <1>3, <1>6, <2>1 DEF Facts!Reaches
<1>8. ~Facts!Reaches(S, N)
  BY <1>2
<1> DEFINE st == Facts!ScanState(S, size, y)
           ed == Facts!ScanState(S, size, N)
<1>9. /\ st.runs = S /\ st.at = y /\ st.size = size
      /\ ed.runs = S /\ ed.at = N /\ ed.size = size
  BY DEF Facts!ScanState
<1>10. Facts!MergeStep(st) = ed
  <2>1. ~Facts!Joins(S, q)
    BY <1>5, <1>8 DEF Facts!Joins
  <2>2. Facts!MergeAt(st, q) = ed
    BY <1>5, <1>9, <2>1 DEF Facts!MergeAt
  <2> HIDE DEF st, ed
  <2> QED
    BY <1>7, <1>9, <2>2 DEF Facts!MergeStep
<1>11. Facts!MergeStep(ed) = ed
  <2> HIDE DEF ed
  <2> QED
    BY <1>8, <1>9 DEF Facts!MergeStep
<1>12. Facts!MergeScan(S, size, y) = ed
  <2>1. Facts!MergeScan(S, size, y)
          = Facts!MergeStep(Facts!MergeStep(Facts!MergeStep(Facts!MergeStep(
              Facts!MergeStep(st)))))
    BY DEF Facts!MergeScan
  <2> HIDE DEF st, ed
  <2> QED
    BY <1>10, <1>11, <2>1
<1> QED
  BY <1>9, <1>12 DEF y

\* The stream ends before the register, and its terminator is read as an opcode.
LEMMA UpdateBehind ==
  ASSUME NEW s, NEW S, NEW N, NEW size, NEW tail, NEW card,
         Holding(s, S, N, size, tail, card), NEW e, e.idx \in Nat, ~(e.idx < N),
         e.idx < Registers, S # {}, e.pat \in 1 .. SparseValMaxValue
  PROVE  Agrees(UpdateAt(s, Locate(s, e.idx), e),
                Facts!SparseAdd(Facts!Sparse(S, size, tail, card), e), N)
<1> DEFINE at == Locate(s, e.idx)
           y == Facts!ScanStart(S, N)
           o == Facts!Sparse(S, size, tail, card)
           b == s.buf[s.len]
           t == Store(s, s.len, ValOf(e.pat, 1))
           a == Facts!SparseAdd(o, e)
           u == UpdateAt(s, at, e)
<1>1. Fit(s) /\ Streams(s, S, N) /\ N <= Registers /\ size = s.len /\ TailIs(b, tail)
  BY DEF Holding
<1>2. at.p = s.len /\ at.first = N /\ Behind(s, S, at, y)
  BY <1>1, LocatedBehind
<1>3. Facts!StreamOK(S) /\ N \in Nat
      /\ \A x \in Int : Facts!Reaches(S, x) <=> 0 <= x /\ x < N
  BY <1>1, StreamsOK
<1>4. N # Registers
  BY <1>3, Sizes
<1>5. s.len \in Nat /\ HdrSize <= s.len /\ HdrSize \in Nat
  BY <1>1, FitNumbers, Sizes
<1> HIDE DEF at
<1>6. ~IsXZero(b) /\ OpLen(s, s.len) = 1
      /\ (IsVal(b) /\ ValValue(b) >= e.pat <=> tail >= e.pat)
  <2>1. CASE b = Nul /\ tail = 0
    BY <2>1, NulIs DEF OpLen
  <2>2. CASE tail \in 1 .. SparseValMaxValue
             /\ b \in Byte /\ IsVal(b) /\ ValValue(b) = tail /\ ValLen(b) = 1
    <3>1. ~IsXZero(b) /\ ~IsZero(b)
      BY <2>2, Kinds
    <3> QED
      BY <2>2, <3>1 DEF OpLen
  <2> QED
    BY <1>1, <2>1, <2>2 DEF TailIs
<1>7. o.runs = S /\ o.size = size /\ o.tail = tail
  BY DEF Facts!Sparse
<1>8. a = Facts!TailAdd(o, e)
  <2>1. e.pat <= SparseValMaxValue /\ ~(e.pat > SparseValMaxValue)
    BY Sizes
  <2>2. ~Facts!Reaches(S, e.idx)
    BY <1>3
  <2> HIDE DEF o
  <2> QED
    BY <1>7, <2>1, <2>2 DEF Facts!SparseAdd
<1>9. CASE tail >= e.pat
  <2>1. u = Unchanged(0, s)
    BY <1>2, <1>6, <1>9 DEF UpdateAt
  <2>2. a = Facts!Answer(0, o)
    BY <1>7, <1>8, <1>9 DEF Facts!TailAdd
  <2>3. Agrees(Unchanged(0, s), Facts!Answer(0, o), N)
    BY UnchangedAgrees
  <2> QED
    BY <2>1, <2>2, <2>3 DEF at
<1>10. CASE ~(tail >= e.pat)
  <2>1. u = Updated(t, at.prev)
    BY <1>2, <1>6, <1>10 DEF UpdateAt
  <2>2. a = Facts!Updated(o, S, size, e.pat, y)
    <3>1. LET scan == Facts!MergeScan(S, size, y)
          IN  scan.runs = S /\ scan.size = size
      BY <1>3, TailScan
    <3>2. Facts!Updated(o, S, size, e.pat, y)
            = Facts!Answer(1, Facts!Sparse(S, size, e.pat, Facts!Invalid))
      BY <3>1 DEF Facts!Updated
    <3>3. Facts!TailAdd(o, e)
            = Facts!Answer(1, Facts!Sparse(S, size, e.pat, Facts!Invalid))
      BY <1>7, <1>10 DEF Facts!TailAdd
    <3> QED
      BY <1>8, <3>2, <3>3
  <2>3. /\ Fit(t) /\ t.len = s.len /\ TailIs(t.buf[s.len], e.pat)
        /\ \A i \in 0 .. s.len : i # s.len => t.buf[i] = s.buf[i]
    <3>1. s.len <= s.len
      BY <1>5
    <3> QED
      BY <1>1, <1>5, <3>1, ValStored
  <2> HIDE DEF t
  <2>4. \A i \in HdrSize .. s.len - 1 : t.buf[i] = s.buf[i]
    <3>1. \A i \in HdrSize .. s.len - 1 : i \in 0 .. s.len /\ i # s.len
      BY <1>5
    <3> QED
      BY <2>3, <3>1
  <2>5. Streams(t, S, N)
    BY <1>1, <2>3, <2>4, SameStream
  <2>6. Between(s, S, N, From(at), y)
    BY <1>2 DEF Between, Behind
  <2>7. Between(t, S, N, From(at), y)
    BY <2>3, <2>4, <2>6, SameBetween
  <2>8. Scannable(t, S, N, at, y)
    BY <2>5, <2>7 DEF Scannable
  <2>9. TailIs(t.buf[t.len], e.pat) /\ size = t.len
    BY <1>1, <2>3
  <2> HIDE DEF y, o
  <2>10. Agrees(Updated(t, at.prev), Facts!Updated(o, S, size, e.pat, y), N)
    BY <1>1, <1>4, <2>3, <2>8, <2>9, UpdatedAgrees
  <2> QED
    BY <2>1, <2>2, <2>10 DEF at, o
<1> QED
  BY <1>9, <1>10

\* hllSparseAdd.
LEMMA SparseAddAgrees ==
  ASSUME NEW s, NEW S, NEW N, NEW size, NEW tail, NEW card,
         Holding(s, S, N, size, tail, card), NEW e \in Elements
  PROVE  Agrees(HllSparseAdd(s, e),
                Facts!SparseAdd(Facts!Sparse(S, size, tail, card), e), N)
<1> DEFINE t == MakeRoomFor(s, 3)
           at == Locate(t, e.idx)
           o == Facts!Sparse(S, size, tail, card)
           a == Facts!SparseAdd(o, e)
           u == HllSparseAdd(s, e)
<1>1. /\ Fit(s) /\ Streams(s, S, N) /\ N <= Registers /\ size = s.len
      /\ TailIs(s.buf[s.len], tail) /\ (N = Registers => s.buf[s.len] = Nul)
      /\ card = CardOf(s)
  BY DEF Holding
<1>2. e.idx \in Nat /\ e.idx < Registers /\ e.pat \in Nat /\ e.pat >= 1
  <2>1. e \in [idx : Index, pat : 1 .. RegisterMax]
    BY BytesAssumption
  <2> QED
    BY <2>1, Sizes DEF Index
<1>3. s.len \in Nat /\ HdrSize <= s.len /\ HdrSize \in Nat /\ 0 < HdrSize
  BY <1>1, FitNumbers, Sizes
<1>4. /\ Fit(t) /\ t.len = s.len /\ t.free >= 3
      /\ \A i \in 0 .. s.len : t.buf[i] = s.buf[i]
  BY <1>1, RoomFacts
<1> HIDE DEF t
<1>5. Holding(t, S, N, size, tail, card)
  <2>1. \A i \in HdrSize .. s.len - 1 : t.buf[i] = s.buf[i]
    <3>1. \A i \in HdrSize .. s.len - 1 : i \in 0 .. s.len
      BY <1>3
    <3> QED
      BY <1>4, <3>1
  <2>2. t.buf[s.len] = s.buf[s.len] /\ t.buf[HdrSize - 1] = s.buf[HdrSize - 1]
    <3>1. s.len \in 0 .. s.len /\ HdrSize - 1 \in 0 .. s.len
      BY <1>3
    <3> QED
      BY <1>4, <3>1
  <2>3. Streams(t, S, N)
    BY <1>1, <1>4, <2>1, SameStream
  <2>4. CardOf(t) = CardOf(s)
    BY <2>2 DEF CardOf, ValidCache
  <2> QED
    BY <1>1, <1>4, <2>2, <2>3, <2>4 DEF Holding
<1>6. o.runs = S
  BY DEF Facts!Sparse
<1>7. CASE e.pat > SparseValMaxValue
  <2>1. u = PromoteAdd(s, e)
    BY <1>7 DEF HllSparseAdd
  <2>2. a = Facts!PromoteAdd(o, e)
    <3>1. ~(e.pat <= SparseValMaxValue)
      BY <1>2, <1>7, Sizes
    <3> HIDE DEF o
    <3> QED
      BY <1>7, <3>1 DEF Facts!SparseAdd
  <2>3. Agrees(PromoteAdd(s, e), Facts!PromoteAdd(o, e), N)
    BY PromoteAgrees
  <2> HIDE DEF u, a, o
  <2> QED
    BY <2>1, <2>2, <2>3 DEF u, a, o
<1>8. CASE ~(e.pat > SparseValMaxValue)
  <2>1. e.pat \in 1 .. SparseValMaxValue /\ e.pat <= SparseValMaxValue
    BY <1>2, <1>8, Sizes
  <2>2. u = IF at.span = 0 THEN Unchanged(ERR, t) ELSE UpdateAt(t, at, e)
    BY <1>8 DEF HllSparseAdd, t
  <2>3. S = {} <=> 0 = N
    BY <1>1, EmptyPiece DEF Streams
  <2>4. CASE e.idx < N
    <3>1. Agrees(UpdateAt(t, at, e), a, N) /\ at.span # 0
      BY <1>2, <1>4, <1>5, <2>1, <2>4, UpdateInside
    <3> HIDE DEF u, a, at
    <3> QED
      BY <2>2, <3>1 DEF u, a
  <2>5. CASE ~(e.idx < N) /\ S # {}
    <3>1. at.span # 0
      BY <1>1, <1>2, <1>4, <1>5, <2>5, LocatedBehind DEF Holding
    <3>2. Agrees(UpdateAt(t, at, e), a, N)
      BY <1>2, <1>5, <2>1, <2>5, UpdateBehind
    <3> HIDE DEF u, a, at
    <3> QED
      BY <2>2, <3>1, <3>2 DEF u, a
  <2>6. CASE ~(e.idx < N) /\ S = {}
    <3>1. at.span = 0
      BY <1>1, <1>2, <1>4, <1>5, <2>6, LocatedBehind DEF Holding
    <3>2. a = Facts!Answer(ERR, o)
      <4> HIDE DEF o
      <4> QED
        BY <1>6, <1>8, <2>1, <2>6 DEF Facts!SparseAdd, Facts!ERR, ERR
    <3>3. Agrees(Unchanged(ERR, t), Facts!Answer(ERR, o), N)
      BY <1>5, UnchangedAgrees
    <3> HIDE DEF u, a, at, o
    <3> QED
      BY <2>2, <3>1, <3>2, <3>3 DEF u, a, o
  <2>7. S = {} => ~(e.idx < N)
    BY <1>2, <2>3
  <2> QED
    BY <2>4, <2>5, <2>6, <2>7
<1> QED
  BY <1>7, <1>8

-----------------------------------------------------------------------------
(* The operators of HLLObject, under both names.                           *)

LEMMA SameConstants ==
  /\ Obj!Index = Facts!Index /\ Obj!RegValue = Facts!RegValue
  /\ Obj!RegArray = Facts!RegArray /\ Obj!ZeroRegs = Facts!ZeroRegs
  /\ Obj!ERR = Facts!ERR /\ Obj!Abort = Facts!Abort /\ Obj!Invalid = Facts!Invalid
  /\ Obj!CardValue = Facts!CardValue /\ Obj!Null = Facts!Null
  BY DEF Obj!Index, Facts!Index, Obj!RegValue, Facts!RegValue, Obj!RegArray,
         Facts!RegArray, Obj!ZeroRegs, Facts!ZeroRegs, Obj!ERR, Facts!ERR,
         Obj!Abort, Facts!Abort, Obj!Invalid, Facts!Invalid, Obj!CardValue,
         Facts!CardValue, Obj!Null, Facts!Null

LEMMA SameOpcodes ==
  /\ \A r, i : Obj!Covers(r, i) = Facts!Covers(r, i)
  /\ \A S, i : /\ Obj!Reaches(S, i) = Facts!Reaches(S, i)
               /\ Obj!RunAt(S, i) = Facts!RunAt(S, i)
  /\ \A S : /\ Obj!Complete(S) = Facts!Complete(S) /\ Obj!Values(S) = Facts!Values(S)
            /\ Obj!StreamOK(S) = Facts!StreamOK(S)
  /\ Obj!EmptyStream = Facts!EmptyStream
  BY DEF Obj!Covers, Facts!Covers, Obj!End, Facts!End, Obj!Reaches, Facts!Reaches,
         Obj!RunAt, Facts!RunAt, Obj!Complete, Facts!Complete, Obj!Values,
         Facts!Values, Obj!StreamOK, Facts!StreamOK, Obj!RunOK, Facts!RunOK,
         Obj!Index, Facts!Index, Obj!EmptyStream, Facts!EmptyStream, Obj!XZero,
         Facts!XZero

LEMMA SameMergeable == \A p, q : Obj!Mergeable(p, q) = Facts!Mergeable(p, q)
  BY DEF Obj!Mergeable, Facts!Mergeable, Obj!End, Facts!End

LEMMA SameCanonical == \A S : Obj!Canonical(S) = Facts!Canonical(S)
  BY SameMergeable DEF Obj!Canonical, Facts!Canonical, Obj!End, Facts!End

LEMMA SameObjects ==
  /\ \A o : /\ Obj!IsHLLObject(o) = Facts!IsHLLObject(o)
            /\ Obj!SparseToDense(o) = Facts!SparseToDense(o)
            /\ Obj!InvalidateCache(o) = Facts!InvalidateCache(o)
            /\ Obj!ObjectOK(o) = Facts!ObjectOK(o)
  /\ \A r, card : Obj!Dense(r, card) = Facts!Dense(r, card)
  /\ Obj!Created = Facts!Created
  BY SameConstants, SameOpcodes
     DEF Obj!IsHLLObject, Facts!IsHLLObject,
         Obj!SparseToDense, Facts!SparseToDense,
         Obj!InvalidateCache, Facts!InvalidateCache, Obj!ObjectOK, Facts!ObjectOK,
         Obj!Dense, Facts!Dense, Obj!Sparse, Facts!Sparse, Obj!Created,
         Facts!Created

LEMMA SameScan ==
  \A S, size, at : Obj!MergeScan(S, size, at) = Facts!MergeScan(S, size, at)
<1>2. \A S, p : /\ Obj!Joins(S, p) = Facts!Joins(S, p)
                /\ Obj!Joined(S, p) = Facts!Joined(S, p)
  BY SameMergeable, SameOpcodes
     DEF Obj!Joins, Facts!Joins, Obj!Joined, Facts!Joined, Obj!After, Facts!After,
         Obj!Val, Facts!Val, Obj!End, Facts!End
<1>3. \A runs, size, at : Obj!ScanState(runs, size, at) = Facts!ScanState(runs, size, at)
  BY DEF Obj!ScanState, Facts!ScanState
<1>4. \A st, p : Obj!MergeAt(st, p) = Facts!MergeAt(st, p)
  BY <1>2, <1>3 DEF Obj!MergeAt, Facts!MergeAt, Obj!End, Facts!End
<1>5. \A st : Obj!MergeStep(st) = Facts!MergeStep(st)
  BY <1>4, SameOpcodes DEF Obj!MergeStep, Facts!MergeStep
<1> QED
  BY <1>3, <1>5 DEF Obj!MergeScan, Facts!MergeScan

LEMMA SameUpdated ==
  \A o, runs, size, tail, at :
    Obj!Updated(o, runs, size, tail, at) = Facts!Updated(o, runs, size, tail, at)
  BY SameScan, SameConstants
     DEF Obj!Updated, Facts!Updated, Obj!Answer, Facts!Answer, Obj!Sparse, Facts!Sparse

LEMMA SamePromote ==
  \A o, e : /\ Obj!PromoteAdd(o, e) = Facts!PromoteAdd(o, e)
            /\ Obj!DenseAdd(o, e) = Facts!DenseAdd(o, e)
            /\ Obj!TailAdd(o, e) = Facts!TailAdd(o, e)
  BY SameOpcodes, SameObjects, SameConstants
     DEF Obj!PromoteAdd, Facts!PromoteAdd, Obj!DenseAdd, Facts!DenseAdd, Obj!TailAdd,
         Facts!TailAdd, Obj!Answer, Facts!Answer, Obj!Sparse, Facts!Sparse

LEMMA SameAdd == \A o, e : Obj!HllAdd(o, e) = Facts!HllAdd(o, e)
<1>1. \A r, i : Obj!DeltaLen(r, i) = Facts!DeltaLen(r, i)
  BY DEF Obj!DeltaLen, Facts!DeltaLen, Obj!SideBytes, Facts!SideBytes, Obj!OpLen,
         Facts!OpLen, Obj!End, Facts!End
<1>2. \A r, i, c : Obj!Split(r, i, c) = Facts!Split(r, i, c)
  BY DEF Obj!Split, Facts!Split, Obj!Side, Facts!Side, Obj!End, Facts!End, Obj!Zero,
         Facts!Zero, Obj!XZero, Facts!XZero, Obj!Val, Facts!Val
<1>3. \A S, i : Obj!ScanStart(S, i) = Facts!ScanStart(S, i)
  BY SameOpcodes DEF Obj!ScanStart, Facts!ScanStart
<1>4. /\ \A r, c : Obj!Settled(r, c) = Facts!Settled(r, c)
      /\ \A o, d : Obj!Outgrows(o, d) = Facts!Outgrows(o, d)
      /\ \A v, o : Obj!Answer(v, o) = Facts!Answer(v, o)
      /\ \A f, l, v : Obj!Val(f, l, v) = Facts!Val(f, l, v)
  BY DEF Obj!Settled, Facts!Settled, Obj!Outgrows, Facts!Outgrows,
         Obj!Answer, Facts!Answer, Obj!Val, Facts!Val
<1>5. \A o, e : Obj!SparseAdd(o, e) = Facts!SparseAdd(o, e)
  BY <1>1, <1>2, <1>3, <1>4, SameUpdated, SamePromote, SameOpcodes, SameConstants
     DEF Obj!SparseAdd, Facts!SparseAdd
<1> QED
  BY <1>5, SamePromote DEF Obj!HllAdd, Facts!HllAdd

-----------------------------------------------------------------------------
(* The invariant: the string and the registers represent an object of      *)
(* HLLObject.                                                              *)

Represents(e, s, r, f, N) ==
  \/ /\ e = "sparse" /\ r = ZeroRegs
     /\ f = Facts!Sparse(f.runs, f.size, f.tail, f.card)
     /\ Holding(s, f.runs, N, f.size, f.tail, f.card)
  \/ /\ e = "dense" /\ f = Facts!Dense(r, f.card) /\ HeaderIs(s, f.card)

\* An object that HLLObject could hold.
Proper(f) == Facts!ObjectOK(f) /\ Facts!Canon(f)

Good(e, s, r) ==
  \/ e = "none" /\ s = NoString /\ r = ZeroRegs
  \/ \E f, N : Represents(e, s, r, f, N) /\ Proper(f)

BInv == Good(enc, str, regs) /\ ret.val \in {OK, 1, ERR}

LEMMA SparseParts ==
  ASSUME NEW f, NEW a, NEW b, NEW c, NEW d, f = Facts!Sparse(a, b, c, d)
  PROVE  /\ f.enc = "sparse" /\ f.runs = a /\ f.size = b /\ f.tail = c /\ f.card = d
         /\ f.regs = ZeroRegs
  BY DEF Facts!Sparse, Facts!ZeroRegs, ZeroRegs, Facts!Index, Index

LEMMA DenseParts ==
  ASSUME NEW f, NEW r, NEW c, f = Facts!Dense(r, c)
  PROVE  /\ f.enc = "dense" /\ f.regs = r /\ f.card = c /\ f.tail = 0
         /\ f.size = HdrSize /\ f.runs = {}
  BY DEF Facts!Dense

LEMMA DecodedIs ==
  ASSUME NEW e, NEW s, NEW r, NEW f, NEW N, Represents(e, s, r, f, N)
  PROVE  Decoded(e, s, r) = f /\ f.enc = e /\ e \in {"sparse", "dense"}
<1>1. CASE /\ e = "sparse" /\ r = ZeroRegs
           /\ f = Facts!Sparse(f.runs, f.size, f.tail, f.card)
           /\ Holding(s, f.runs, N, f.size, f.tail, f.card)
  <2>1. /\ Fit(s) /\ Streams(s, f.runs, N) /\ f.size = s.len
        /\ TailIs(s.buf[s.len], f.tail) /\ f.card = CardOf(s)
    BY <1>1 DEF Holding
  <2>2. Decode(s) = f.runs
    BY <2>1, Decodes
  <2>3. TailOf(s) = f.tail
    BY <2>1, TailFacts
  <2>4. Facts!ZeroRegs = ZeroRegs
    BY DEF Facts!ZeroRegs, ZeroRegs, Facts!Index, Index
  <2> QED
    BY <1>1, <2>1, <2>2, <2>3, <2>4 DEF Decoded, Facts!Sparse
<1>2. CASE e = "dense" /\ f = Facts!Dense(r, f.card) /\ HeaderIs(s, f.card)
  <2>1. s.len = HdrSize /\ s.buf[s.len] = Nul /\ f.card = CardOf(s)
    BY <1>2 DEF HeaderIs
  <2>2. TailOf(s) = 0
    BY <2>1 DEF TailOf
  <2> QED
    BY <1>2, <2>1, <2>2 DEF Decoded, Facts!Dense
<1> QED
  BY <1>1, <1>2 DEF Represents

LEMMA InvalidIs ==
  ASSUME NEW e, NEW s, NEW r, NEW f, NEW N, Represents(e, s, r, f, N), Proper(f)
  PROVE  /\ Represents(e, Invalidate(s), r, Facts!InvalidateCache(f), N)
         /\ Proper(Facts!InvalidateCache(f))
<1> DEFINE g == Facts!InvalidateCache(f)
<1>1. g = [f EXCEPT !.card = -1]
  BY DEF Facts!InvalidateCache, Facts!Invalid
<1>2. -1 \in Facts!CardValue
  BY DEF Facts!CardValue, Facts!Invalid
<1>3. Facts!ObjectOK(f) /\ Facts!Canon(f)
  BY DEF Proper
<1> HIDE DEF g
<1>4. CASE /\ e = "sparse" /\ r = ZeroRegs
           /\ f = Facts!Sparse(f.runs, f.size, f.tail, f.card)
           /\ Holding(s, f.runs, N, f.size, f.tail, f.card)
  <2>1. g = Facts!Sparse(f.runs, f.size, f.tail, -1)
    BY <1>1, <1>4 DEF Facts!Sparse
  <2>2. g.enc = "sparse" /\ g.runs = f.runs /\ g.size = f.size /\ g.tail = f.tail
        /\ g.card = -1 /\ f.enc = "sparse"
    BY <1>4, <2>1, SparseParts
  <2>3. Holding(Invalidate(s), g.runs, N, g.size, g.tail, g.card)
    <3>1. Holding(Invalidate(s), f.runs, N, f.size, f.tail, -1)
      BY <1>4, HoldingInvalid
    <3> QED
      BY <2>2, <3>1
  <2>4. Represents(e, Invalidate(s), r, g, N)
    BY <1>4, <2>1, <2>2, <2>3 DEF Represents
  <2>5. Facts!StreamOK(f.runs) /\ f.size \in Int /\ f.tail \in 0 .. SparseValMaxValue
    BY <1>3, <2>2, FactsConstants, Facts!ObjectCases
  <2>6. Facts!ObjectOK(g)
    BY <1>2, <2>1, <2>5, FactsConstants, Facts!SparseObject
  <2>7. Facts!Canon(g)
    BY <1>3, <2>2 DEF Facts!Canon
  <2> QED
    BY <2>4, <2>6, <2>7 DEF Proper, g
<1>5. CASE e = "dense" /\ f = Facts!Dense(r, f.card) /\ HeaderIs(s, f.card)
  <2>1. g = Facts!Dense(r, -1)
    BY <1>1, <1>5 DEF Facts!Dense
  <2>2. g.enc = "dense" /\ g.card = -1 /\ f.enc = "dense" /\ f.regs = r
    BY <1>5, <2>1, DenseParts
  <2>3. Fit(s) /\ s.len = HdrSize /\ s.buf[s.len] = Nul
    BY <1>5 DEF HeaderIs
  <2>4. LET t == Invalidate(s)
        IN  /\ Fit(t) /\ t.len = s.len /\ CardOf(t) = -1
            /\ \A i \in 0 .. s.len : i # HdrSize - 1 => t.buf[i] = s.buf[i]
    BY <2>3, InvalidateFacts
  <2>5. s.len \in 0 .. s.len /\ s.len # HdrSize - 1
    BY <2>3, Sizes
  <2>6. HeaderIs(Invalidate(s), g.card)
    BY <2>2, <2>3, <2>4, <2>5 DEF HeaderIs
  <2>7. Represents(e, Invalidate(s), r, g, N)
    BY <1>5, <2>1, <2>2, <2>6 DEF Represents
  <2>8. r \in Facts!RegArray
    BY <1>3, <2>2, FactsConstants, Facts!ObjectCases
  <2>9. Facts!ObjectOK(g)
    BY <1>2, <2>1, <2>8, FactsConstants, Facts!DenseObject
  <2>10. Facts!Canon(g)
    BY <2>2 DEF Facts!Canon
  <2> QED
    BY <2>7, <2>9, <2>10 DEF Proper, g
<1> QED
  BY <1>4, <1>5 DEF Represents

-----------------------------------------------------------------------------
(* The calls.                                                              *)

\* pfAdd: what is stored afterwards, and what HLLObject stores.
LEMMA AddRepresents ==
  ASSUME NEW e, NEW s, NEW r, e = "sparse", NEW o, NEW N, Represents(e, s, r, o, N),
         Proper(o), NEW x \in Elements
  PROVE  LET a == HllSparseAdd(s, x)
             f == Facts!HllAdd(o, x)
             b == IF a.val = 1 THEN [a.obj EXCEPT !.str = Invalidate(@)] ELSE a.obj
             g == IF f.val = 1 THEN Facts!InvalidateCache(f.obj) ELSE f.obj
         IN  /\ a.val = f.val /\ a.val \in {0, 1, ERR}
             /\ Represents(b.enc, b.str, b.regs, g, N) /\ Proper(g)
<1> DEFINE a == HllSparseAdd(s, x)
           f == Facts!HllAdd(o, x)
           b == IF a.val = 1 THEN [a.obj EXCEPT !.str = Invalidate(@)] ELSE a.obj
           g == IF f.val = 1 THEN Facts!InvalidateCache(f.obj) ELSE f.obj
<1>1. /\ o = Facts!Sparse(o.runs, o.size, o.tail, o.card)
      /\ Holding(s, o.runs, N, o.size, o.tail, o.card)
  BY DEF Represents
<1>2. o.enc = "sparse" /\ Facts!ObjectOK(o) /\ Facts!Canon(o)
  BY <1>1, SparseParts DEF Proper
<1>3. f = Facts!SparseAdd(o, x)
  BY <1>2 DEF Facts!HllAdd
<1>4. Agrees(a, f, N)
  <2>1. Agrees(HllSparseAdd(s, x),
               Facts!SparseAdd(Facts!Sparse(o.runs, o.size, o.tail, o.card), x), N)
    BY <1>1, SparseAddAgrees
  <2> QED
    BY <1>1, <1>3, <2>1
<1>5. Facts!AddFacts(o, x, f)
  BY <1>2, <1>3, FactsConstants, Facts!SparseAddFacts
<1>6. f.val \in {0, 1, ERR} /\ Facts!ObjectOK(f.obj) /\ Facts!Canon(f.obj)
  BY <1>2, <1>5 DEF Facts!AddFacts, Facts!ERR, ERR
<1>7. a.obj = Object(a.obj.enc, a.obj.str, a.obj.regs)
  <2>1. \A v, q : Answer(v, q).obj = q
    BY DEF Answer
  <2>2. \A q : PromoteAdd(q, x).obj
                 = Object(PromoteAdd(q, x).obj.enc, PromoteAdd(q, x).obj.str,
                          PromoteAdd(q, x).obj.regs)
    BY <2>1 DEF PromoteAdd, Object
  <2>3. \A v, q : Unchanged(v, q).obj
                    = Object(Unchanged(v, q).obj.enc, Unchanged(v, q).obj.str,
                             Unchanged(v, q).obj.regs)
    BY <2>1 DEF Unchanged, Object
  <2>4. \A q, p : Updated(q, p).obj
                    = Object(Updated(q, p).obj.enc, Updated(q, p).obj.str,
                             Updated(q, p).obj.regs)
    BY <2>1 DEF Updated, Object
  <2>5. \A q, at : SplitAdd(q, at, x).obj
                     = Object(SplitAdd(q, at, x).obj.enc, SplitAdd(q, at, x).obj.str,
                              SplitAdd(q, at, x).obj.regs)
    BY <2>2, <2>3, <2>4 DEF SplitAdd
  <2>6. \A q, at : UpdateAt(q, at, x).obj
                     = Object(UpdateAt(q, at, x).obj.enc, UpdateAt(q, at, x).obj.str,
                              UpdateAt(q, at, x).obj.regs)
    BY <2>3, <2>4, <2>5 DEF UpdateAt
  <2> QED
    BY <2>2, <2>3, <2>6 DEF HllSparseAdd
<1> HIDE DEF a, f
<1>8. Represents(a.obj.enc, a.obj.str, a.obj.regs, f.obj, N)
  <2>1. CASE /\ a.obj.enc = "sparse" /\ f.obj.enc = "sparse" /\ a.obj.regs = ZeroRegs
             /\ Holding(a.obj.str, f.obj.runs, N, f.obj.size, f.obj.tail, f.obj.card)
    <3>1. f.obj = Facts!Sparse(f.obj.runs, f.obj.size, f.obj.tail, f.obj.card)
      BY <1>6, <2>1, FactsConstants, Facts!ObjectCases
    <3> QED
      BY <2>1, <3>1 DEF Represents
  <2>2. CASE /\ a.obj.enc = "dense" /\ f.obj = Facts!Dense(a.obj.regs, f.obj.card)
             /\ HeaderIs(a.obj.str, f.obj.card)
    BY <2>2 DEF Represents
  <2> QED
    BY <1>4, <2>1, <2>2 DEF Agrees
<1>9. a.val = f.val
  BY <1>4 DEF Agrees
<1>10. Represents(b.enc, b.str, b.regs, g, N) /\ Proper(g)
  <2>1. Proper(f.obj)
    BY <1>6 DEF Proper
  <2>2. CASE a.val = 1
    <3>1. b.enc = a.obj.enc /\ b.regs = a.obj.regs /\ b.str = Invalidate(a.obj.str)
      BY <1>7, <2>2 DEF Object
    <3> HIDE DEF b
    <3> QED
      BY <1>8, <1>9, <2>1, <2>2, <3>1, InvalidIs
  <2>3. CASE a.val # 1
    BY <1>8, <1>9, <2>1, <2>3
  <2> QED
    BY <2>2, <2>3
<1> QED
  BY <1>6, <1>9, <1>10 DEF a, f

\* hllCreate.
LEMMA CreateRepresents ==
  LET s == Store(NewZeros(HdrSize + 2), HdrSize, XZeroOf(Registers))
  IN  Represents("sparse", s, ZeroRegs, Facts!Created, Registers)
      /\ Proper(Facts!Created)
<1> DEFINE z == NewZeros(HdrSize + 2)
           s == Store(z, HdrSize, XZeroOf(Registers))
           R == {Facts!XZero(0, Registers)}
           n == HdrSize + 2
<1>1. n \in Nat /\ HdrSize \in Nat /\ 0 < HdrSize
  BY Sizes
<1>2. Fit(z) /\ z.len = n /\ z.alloc = n + 1 /\ z.free = 0
      /\ \A i \in 0 .. n : z.buf[i] = Nul
  <2>1. Sd!Whole(Sd!NewZeros(n)) /\ Sd!NewZeros(n).len = n
    BY <1>1, SdConstants, Sd!NewZerosFacts
  <2>2. Sd!NewZeros(n) = z
    BY SdNew
  <2>3. z.len = n /\ z.free = 0 /\ z.alloc = n + 1 /\ z.buf = [i \in 0 .. n |-> Nul]
    BY DEF NewZeros, Str
  <2>4. z.buf[z.len] \in Byte
    BY <1>1, <2>3, NulIs
  <2> HIDE DEF z
  <2>5. Sd!Fit(z) /\ HdrSize <= z.len
    BY <1>1, <2>1, <2>2, <2>3 DEF Sd!Whole
  <2> QED
    BY <2>3, <2>4, <2>5, FitIs
<1>3. /\ XZeroOf(Registers) \in Seq(Byte) /\ Len(XZeroOf(Registers)) = 2
      /\ \A t : \A p \in Nat : Holds(t, p, XZeroOf(Registers)) =>
           Piece(t, R, p, p + 2, 0, 0 + Registers)
  <2>1. Registers \in 1 .. Registers /\ 0 \in Nat
    BY Sizes
  <2> QED
    BY <2>1, XZeroPiece
<1> HIDE DEF z
<1>4. /\ Frame(z, s)
      /\ \A j \in 1 .. 2 : s.buf[HdrSize + j - 1] = XZeroOf(Registers)[j]
      /\ \A i \in 0 .. z.alloc - 1 : i < HdrSize \/ i >= HdrSize + 2 =>
           s.buf[i] = z.buf[i]
  <2> DEFINE u == XZeroOf(Registers)
             w == Len(u)
  <2>1. Sd!Block(z) /\ w = 2 /\ w \in Nat /\ HdrSize + w <= z.alloc
    BY <1>1, <1>2, <1>3, FitBlock DEF Frame
  <2> HIDE DEF u, w
  <2>2. Stored(z, HdrSize, u, w, Store(z, HdrSize, u))
    <3>1. Len(u) = w /\ HdrSize \in Nat
      BY <1>1 DEF w
    <3>2. Sd!Block(z) /\ w \in Nat /\ HdrSize + w <= z.alloc
      BY <2>1
    <3> QED
      BY <3>1, <3>2, StoreFacts
  <2> QED
    BY <2>1, <2>2 DEF u, Stored
<1>5. s.len = n /\ s.free = 0 /\ s.alloc = n + 1 /\ Sd!Block(s)
  BY <1>2, <1>4 DEF Frame
<1>6. /\ \A i \in 0 .. HdrSize - 1 : s.buf[i] = Nul
      /\ s.buf[n] = Nul
  <2>1. \A i \in 0 .. HdrSize - 1 : /\ i \in 0 .. z.alloc - 1 /\ i < HdrSize
                                    /\ i \in 0 .. n
    BY <1>1, <1>2
  <2>2. n \in 0 .. z.alloc - 1 /\ n >= HdrSize + 2 /\ n \in 0 .. n
    BY <1>1, <1>2
  <2> QED
    BY <1>2, <1>4, <2>1, <2>2
<1>7. Holds(s, HdrSize, XZeroOf(Registers))
  BY <1>3, <1>4 DEF Holds
<1> HIDE DEF s
<1>8. Piece(s, R, HdrSize, n, 0, Registers)
  <2>1. Piece(s, R, HdrSize, HdrSize + 2, 0, 0 + Registers)
    BY <1>1, <1>3, <1>7
  <2>2. 0 + Registers = Registers
    BY Sizes
  <2> QED
    BY <2>1, <2>2
<1>9. Fit(s)
  <2>1. \A i \in 0 .. s.len : s.buf[i] \in Byte
    <3>1. SUFFICES ASSUME NEW i \in 0 .. n PROVE s.buf[i] \in Byte
      BY <1>5
    <3>2. CASE i < HdrSize \/ i = n
      <4>1. i \in 0 .. HdrSize - 1 \/ i = n
        BY <1>1, <3>2
      <4> QED
        BY <1>6, <4>1, NulIs
    <3>3. CASE ~(i < HdrSize) /\ i # n
      <4>1. i = HdrSize + 1 - 1 \/ i = HdrSize + 2 - 1
        BY <1>1, <3>3
      <4>2. XZeroOf(Registers)[1] \in Byte /\ XZeroOf(Registers)[2] \in Byte
        BY <1>3
      <4>3. 1 \in 1 .. 2 /\ 2 \in 1 .. 2
        OBVIOUS
      <4>4. /\ s.buf[HdrSize + 1 - 1] = XZeroOf(Registers)[1]
            /\ s.buf[HdrSize + 2 - 1] = XZeroOf(Registers)[2]
        BY <1>3, <1>7, <4>3 DEF Holds
      <4> QED
        BY <4>1, <4>2, <4>4
    <3> QED
      BY <3>2, <3>3
  <2>2. /\ s.len \in Nat /\ s.free \in Nat /\ s.alloc = s.len + s.free + 1
        /\ HdrSize <= s.len
    BY <1>1, <1>5
  <2> QED
    BY <1>5, <2>1, <2>2, BlockFit
<1>10. CardOf(s) = 0
  <2>1. s.buf[HdrSize - 1] = Nul
    BY <1>1, <1>6
  <2> QED
    BY <2>1, NulIs, Sizes DEF CardOf, ValidCache
<1>11. Holding(s, R, Registers, n, 0, 0)
  <2>1. TailIs(s.buf[s.len], 0) /\ s.buf[s.len] = Nul
    BY <1>5, <1>6 DEF TailIs
  <2>2. Registers <= Registers
    BY Sizes
  <2> QED
    BY <1>5, <1>8, <1>9, <1>10, <2>1, <2>2 DEF Holding, Streams
<1>12. Facts!Created = Facts!Sparse(R, n, 0, 0)
  BY DEF Facts!Created, Facts!EmptyStream
<1>13. Proper(Facts!Created)
  <2>1. Facts!ObjectOK(Facts!Created)
    BY FactsConstants, Facts!CreatedGood DEF Facts!Good
  <2>2. Facts!Canon(Facts!Created)
    BY FactsConstants, Facts!CreatedKept DEF Facts!Kept
  <2> QED
    BY <2>1, <2>2 DEF Proper
<1> HIDE DEF R, n
<1>14. Represents("sparse", s, ZeroRegs, Facts!Created, Registers)
  <2> DEFINE f == Facts!Created
  <2>1. f.runs = R /\ f.size = n /\ f.tail = 0 /\ f.card = 0
    BY <1>12, SparseParts
  <2> HIDE DEF f
  <2>2. f = Facts!Sparse(R, n, 0, 0)
    BY <1>12 DEF f
  <2>3. Represents("sparse", s, ZeroRegs, f, Registers)
    BY <1>11, <2>1, <2>2 DEF Represents
  <2> QED
    BY <2>3 DEF f
<1> QED
  BY <1>13, <1>14 DEF s, z

\* hllLoad.
LEMMA LoadRepresents ==
  ASSUME NEW bytes \in Loaded
  PROVE  \E f, N : Represents("sparse", NewLen(bytes), ZeroRegs, f, N) /\ Proper(f)
<1> DEFINE s == NewLen(bytes)
           N == DecodedLen(s)
<1>1. /\ bytes \in Seq(Byte) /\ Len(bytes) >= HdrSize
      /\ LastStand(s).p = s.len /\ N <= Registers
  BY LoadedAssumption
<1>2. Facts!Canonical(Decode(s))
  BY CanonicalAssumption, SameCanonical
<1>3. Fit(s) /\ s.buf[s.len] = Nul
  BY <1>1, NewLenIs
<1> HIDE DEF s
<1>4. PICK S : Streams(s, S, N)
  BY <1>1, <1>3, WholeOpcodes
<1>5. Decode(s) = S /\ Facts!StreamOK(S)
  BY <1>1, <1>3, <1>4, Decodes, StreamsOK
<1> HIDE DEF N
<1> DEFINE f == Facts!Sparse(S, s.len, 0, CardOf(s))
<1>6. /\ f.enc = "sparse" /\ f.runs = S /\ f.size = s.len /\ f.tail = 0
      /\ f.card = CardOf(s)
  BY SparseParts
<1>7. Facts!ObjectOK(f)
  <2>1. s.len \in Int /\ 0 \in 0 .. SparseValMaxValue
    BY <1>3, FitNumbers, Sizes
  <2>2. CardOf(s) \in Facts!CardValue
    BY DEF CardOf, Facts!CardValue, Facts!Invalid
  <2> QED
    BY <1>5, <2>1, <2>2, FactsConstants, Facts!SparseObject
<1>8. Facts!Canon(f)
  BY <1>2, <1>5, <1>6 DEF Facts!Canon
<1>9. f = Facts!Sparse(f.runs, f.size, f.tail, f.card)
  BY <1>6
<1> HIDE DEF f
<1>10. Holding(s, f.runs, N, f.size, f.tail, f.card)
  <2>1. TailIs(s.buf[s.len], 0)
    BY <1>3 DEF TailIs
  <2> QED
    BY <1>1, <1>3, <1>4, <1>6, <2>1 DEF Holding
<1>11. Represents("sparse", s, ZeroRegs, f, N) /\ Proper(f)
  BY <1>7, <1>8, <1>9, <1>10 DEF Represents, Proper
<1> QED
  BY <1>11 DEF s

-----------------------------------------------------------------------------
(* The invariant is inductive, and every step is HLLObject's.              *)

LEMMA GoodStart == Init => BInv
  BY DEF Init, BInv, Good, OK

\* An object in use is represented.
LEMMA InUse ==
  ASSUME BInv, enc # "none"
  PROVE  \E f, N : Represents(enc, str, regs, f, N) /\ Proper(f)
  BY DEF BInv, Good

LEMMA CreateGood ==
  ASSUME BInv, Create
  PROVE  BInv' /\ SameCall
<1> DEFINE s == Store(NewZeros(HdrSize + 2), HdrSize, XZeroOf(Registers))
<1>1. /\ enc = "none" /\ enc' = "sparse" /\ str' = s /\ regs' = ZeroRegs
      /\ ret' = [op |-> "create", val |-> OK]
  BY DEF Create, Become, Object
<1>2. Represents("sparse", s, ZeroRegs, Facts!Created, Registers)
      /\ Proper(Facts!Created)
  BY CreateRepresents
<1> HIDE DEF s
<1>3. Represents(enc', str', regs', Facts!Created, Registers)
  BY <1>1, <1>2
<1>4. BInv'
  BY <1>1, <1>2, <1>3 DEF BInv, Good
<1>5. Decoded(enc', str', regs') = Facts!Created
  BY <1>3, DecodedIs
<1>6. Decoded(enc, str, regs) = Obj!Null
  BY <1>1 DEF Decoded, Obj!Null, Obj!ZeroRegs, ZeroRegs, Obj!Index, Index, Obj!Invalid
<1>7. ret.val # Abort
  BY DEF BInv, OK, ERR, Abort
<1>8. Obj!Create(TheHandle)
  <2>1. /\ Obj!Ready
        /\ ret'.op = "create" /\ ret'.val = OK
    BY <1>1, <1>7 DEF Obj!Ready, Obj!Abort, Abort
  <2>2. [h \in {TheHandle} |-> Decoded(enc, str, regs)]'
          = [[h \in {TheHandle} |-> Decoded(enc, str, regs)]
               EXCEPT ![TheHandle] = Obj!Created]
    BY <1>5, SameObjects
  <2>3. [op |-> ret.op, on |-> TheHandle, val |-> ret.val]'
          = Obj!Reply("create", TheHandle, Obj!OK)
    BY <2>1 DEF Obj!Reply, Obj!OK, OK
  <2> QED
    BY <1>6, <2>1, <2>2, <2>3 DEF Obj!Create
<1> QED
  BY <1>1, <1>4, <1>8 DEF SameCall

LEMMA LoadGood ==
  ASSUME BInv, Load
  PROVE  BInv' /\ SameCall
<1>1. PICK bytes \in Loaded :
        /\ enc = "none" /\ enc' = "sparse" /\ str' = NewLen(bytes) /\ regs' = ZeroRegs
        /\ ret' = [op |-> "load", val |-> OK]
  BY DEF Load, Become, Object
<1>2. PICK f, N : Represents("sparse", NewLen(bytes), ZeroRegs, f, N) /\ Proper(f)
  BY LoadRepresents
<1>3. Represents(enc', str', regs', f, N)
  BY <1>1, <1>2
<1>4. BInv'
  BY <1>1, <1>2, <1>3 DEF BInv, Good
<1>5. Decoded(enc', str', regs') = f
  BY <1>3, DecodedIs
<1>6. LoadsObject
  BY <1>1, <1>2, <1>5, SameObjects DEF LoadsObject, Proper
<1> QED
  BY <1>1, <1>4, <1>6 DEF SameCall

LEMMA FreeGood ==
  ASSUME BInv, Free
  PROVE  BInv' /\ SameCall
<1>1. /\ enc # "none" /\ ret.val # Abort
      /\ enc' = "none" /\ str' = NoString /\ regs' = ZeroRegs
      /\ ret' = [op |-> "free", val |-> OK]
  BY DEF Free, Become, Object
<1>2. BInv'
  BY <1>1 DEF BInv, Good
<1>3. Decoded(enc', str', regs') = Obj!Null
  BY <1>1 DEF Decoded, Obj!Null, Obj!ZeroRegs, ZeroRegs, Obj!Index, Index, Obj!Invalid
<1>4. Decoded(enc, str, regs) # Obj!Null
  <2>1. Decoded(enc, str, regs).enc = enc
    BY <1>1 DEF Decoded
  <2>2. Obj!Null.enc = "none"
    BY DEF Obj!Null
  <2> QED
    BY <1>1, <2>1, <2>2
<1>5. Obj!Free(TheHandle)
  <2>1. Obj!Ready
    BY <1>1 DEF Obj!Ready, Obj!Abort, Abort
  <2>2. [h \in {TheHandle} |-> Decoded(enc, str, regs)]'
          = [[h \in {TheHandle} |-> Decoded(enc, str, regs)]
               EXCEPT ![TheHandle] = Obj!Null]
    BY <1>3
  <2>3. [op |-> ret.op, on |-> TheHandle, val |-> ret.val]'
          = Obj!Reply("free", TheHandle, Obj!OK)
    BY <1>1 DEF Obj!Reply, Obj!OK, OK
  <2> QED
    BY <1>4, <2>1, <2>2, <2>3 DEF Obj!Free
<1> QED
  BY <1>1, <1>2, <1>5 DEF SameCall

LEMMA AddGood ==
  ASSUME BInv, NEW e \in Elements, PfAdd(e)
  PROVE  BInv' /\ SameCall
<1> DEFINE a == HllSparseAdd(str, e)
           b == IF a.val = 1 THEN [a.obj EXCEPT !.str = Invalidate(@)] ELSE a.obj
<1>1. /\ enc = "sparse" /\ ret.val # Abort
      /\ ret' = [op |-> "add", val |-> a.val]
      /\ enc' = b.enc /\ str' = b.str /\ regs' = b.regs
  BY DEF PfAdd, Become
<1>2. PICK o, N : Represents(enc, str, regs, o, N) /\ Proper(o)
  BY <1>1, InUse
<1> DEFINE f == Facts!HllAdd(o, e)
           g == IF f.val = 1 THEN Facts!InvalidateCache(f.obj) ELSE f.obj
<1>3. /\ a.val = f.val /\ a.val \in {0, 1, ERR}
      /\ Represents(b.enc, b.str, b.regs, g, N) /\ Proper(g)
  BY <1>1, <1>2, AddRepresents
<1> HIDE DEF a, b
<1>4. Represents(enc', str', regs', g, N)
  BY <1>1, <1>3
<1>5. BInv'
  <2> HIDE DEF g
  <2> QED
    BY <1>1, <1>3, <1>4 DEF BInv, Good, OK
<1>6. Decoded(enc', str', regs') = g
  BY <1>4, DecodedIs
<1>7. Decoded(enc, str, regs) = o /\ o.enc = "sparse"
  BY <1>1, <1>2, DecodedIs
<1>8. Obj!PfAdd(TheHandle, e)
  <2> DEFINE h0 == [h \in {TheHandle} |-> Decoded(enc, str, regs)]
  <2>1. Obj!Ready
    BY <1>1 DEF Obj!Ready, Obj!Abort, Abort
  <2>2. h0[TheHandle] = o
    BY <1>7
  <2>3. Obj!IsHLLObject(o)
    BY <1>7 DEF Obj!IsHLLObject
  <2>4. Obj!HllAdd(o, e) = f
    BY SameAdd
  <2>5. Obj!InvalidateCache(f.obj) = Facts!InvalidateCache(f.obj)
    BY SameObjects
  <2>6. [op |-> ret.op, on |-> TheHandle, val |-> ret.val]'
          = Obj!Reply("add", TheHandle, f.val)
    BY <1>1, <1>3 DEF Obj!Reply
  <2>7. [h \in {TheHandle} |-> Decoded(enc, str, regs)]'
          = [h0 EXCEPT ![TheHandle] =
               IF f.val = 1 THEN Obj!InvalidateCache(f.obj) ELSE f.obj]
    BY <1>6, <2>5
  <2> HIDE DEF f
  <2> QED
    BY <2>1, <2>2, <2>3, <2>4, <2>6, <2>7 DEF Obj!PfAdd
<1> QED
  BY <1>1, <1>5, <1>8 DEF SameCall

LEMMA StepGood == BInv /\ [Next]_vars => BInv' /\ [SameCall]_vars
<1> SUFFICES ASSUME BInv, [Next]_vars
             PROVE  BInv' /\ [SameCall]_vars
  OBVIOUS
<1>1. CASE Create
  BY <1>1, CreateGood
<1>2. CASE Load
  BY <1>2, LoadGood
<1>3. CASE Free
  BY <1>3, FreeGood
<1>4. ASSUME NEW e \in Elements, PfAdd(e)
      PROVE  BInv' /\ SameCall
  BY <1>4, AddGood
<1>5. CASE UNCHANGED vars
  BY <1>5 DEF vars, BInv
<1> QED
  BY <1>1, <1>2, <1>3, <1>4, <1>5 DEF Next

LEMMA GoodAlways == Spec => []BInv
<1>1. Init => BInv
  BY GoodStart
<1>2. BInv /\ [Next]_vars => BInv'
  BY StepGood
<1> QED
  BY <1>1, <1>2, PTL DEF Spec

\* The string of an object keeps its type: whatever elements are added in
\* whatever order, each byte up to the terminator is one that hllSparseAdd
\* wrote, never one of the room that sdsMakeRoomFor added.
THEOREM BytesTyped == Spec => []TypeOK
<1>1. BInv => TypeOK
  <2> SUFFICES ASSUME BInv PROVE TypeOK
    OBVIOUS
  <2>1. ret.val \in {OK, 1, ERR, Abort}
    BY DEF BInv
  <2>2. CASE enc = "none" /\ str = NoString /\ regs = ZeroRegs
    <3>1. str = Str(str.len, str.free, str.alloc, str.buf) /\ str.len = 0
      BY <2>2 DEF NoString, Str
    <3>2. Span(0, str.len) = {}
      BY <3>1 DEF Span
    <3>3. regs \in [Index -> 0 .. RegisterMax]
      BY <2>2, BytesAssumption DEF ZeroRegs
    <3> QED
      BY <2>1, <2>2, <3>1, <3>2, <3>3 DEF TypeOK
  <2>3. ASSUME NEW f, NEW N, Represents(enc, str, regs, f, N), Proper(f)
        PROVE  TypeOK
    <3>1. enc \in {"sparse", "dense"}
      BY <2>3, DecodedIs
    <3>2. Fit(str)
      BY <2>3 DEF Represents, Holding, HeaderIs
    <3>3. \A i \in Span(0, str.len) : str.buf[i] \in Byte
      <4>1. \A i \in Span(0, str.len) : i \in 0 .. str.len
        BY <3>2, FitNumbers DEF Span
      <4> QED
        BY <3>2, <4>1 DEF Fit
    <3>4. regs \in [Index -> 0 .. RegisterMax]
      <4>1. CASE regs = ZeroRegs
        BY <4>1, BytesAssumption DEF ZeroRegs
      <4>2. CASE f = Facts!Dense(regs, f.card)
        <5>1. f.enc = "dense" /\ f.regs = regs
          BY <4>2, DenseParts
        <5>2. regs \in Facts!RegArray
          BY <2>3, <5>1, FactsConstants, Facts!ObjectCases DEF Proper
        <5> QED
          BY <5>2 DEF Facts!RegArray, Facts!RegValue, Facts!Index, Index
      <4> QED
        BY <2>3, <4>1, <4>2 DEF Represents
    <3> QED
      BY <2>1, <3>1, <3>2, <3>3, <3>4 DEF TypeOK, Fit
  <2> QED
    BY <2>2, <2>3 DEF BInv, Good
<1> QED
  BY <1>1, GoodAlways, PTL

\* hllSparseAdd keeps sds's promises through every split, merge and promotion:
\* no memmove, memcpy or terminator lies outside the block, the header
\* describes it, and a complete stream has its terminator behind it.
THEOREM BytesKept == Spec => []StringKept
<1>1. BInv => StringKept
  <2> SUFFICES ASSUME BInv PROVE StringKept
    OBVIOUS
  <2>1. CASE enc = "none"
    BY <2>1 DEF StringKept
  <2>2. CASE enc # "none"
    <3>1. PICK f, N : Represents(enc, str, regs, f, N) /\ Proper(f)
      BY <2>2, InUse
    <3>2. Fit(str)
      BY <3>1 DEF Represents, Holding, HeaderIs
    <3>3. HeaderOK(str)
      BY <3>2 DEF Fit
    <3>4. Inside(str)
      BY <3>2 DEF Fit, Inside
    <3>5. ASSUME enc = "sparse", DecodedLen(str) = Registers
          PROVE  Terminated(str)
      <4>1. Holding(str, f.runs, N, f.size, f.tail, f.card)
        BY <3>1, <3>5 DEF Represents
      <4>2. DecodedLen(str) = N
        BY <4>1, LastStandFacts DEF Holding
      <4>3. str.buf[str.len] = Nul
        BY <3>5, <4>1, <4>2 DEF Holding
      <4> QED
        BY <4>3 DEF Terminated
    <3> QED
      BY <3>3, <3>4, <3>5 DEF StringKept
  <2> QED
    BY <2>1, <2>2
<1> QED
  BY <1>1, GoodAlways, PTL

\* The merge loop's five opcodes are enough: after any sequence of adds no two
\* neighbours are left in the bytes that one opcode could hold.
THEOREM BytesStayCanonical == Spec => []BytesCanonical
<1>1. BInv => BytesCanonical
  <2> SUFFICES ASSUME BInv PROVE BytesCanonical
    OBVIOUS
  <2> DEFINE o == Decoded(enc, str, regs)
  <2>1. CASE enc = "none"
    <3>1. o.enc = "none"
      BY <2>1 DEF Decoded
    <3> HIDE DEF o
    <3> QED
      BY <3>1 DEF BytesCanonical, Obj!SparseCanonical, o
  <2>2. CASE enc # "none"
    <3>1. PICK f, N : Represents(enc, str, regs, f, N) /\ Proper(f)
      BY <2>2, InUse
    <3>2. o = f
      BY <3>1, DecodedIs
    <3>3. f.enc = "sparse" => Obj!Canonical(f.runs)
      BY <3>1, SameCanonical DEF Proper, Facts!Canon
    <3> QED
      BY <3>2, <3>3 DEF BytesCanonical, Obj!SparseCanonical
  <2> QED
    BY <2>1, <2>2
<1> QED
  BY <1>1, GoodAlways, PTL

\* No assertion fails: the three bytes that hllSparseAdd makes room for are
\* enough for each sdsIncrLen, and the hllDenseAdd after a promotion raises the
\* register, as its redisAssert demands.
THEOREM AddsNeverAbort == Spec => [](ret.val # Abort)
<1>1. BInv => ret.val # Abort
  BY DEF BInv, OK, ERR, Abort
<1> QED
  BY <1>1, GoodAlways, PTL

\* The bytes implement the objects of HLLObject: decoded, each call of
\* hllSparseAdd, hllCreate, hllLoad and hllFree does to the string, its length,
\* its terminator and its cache flag what the action of HLLObject does, and
\* gives its answer.
THEOREM BytesImplementObjects == Spec => ImplementsObject
<1>1. BInv /\ [Next]_vars => [SameCall]_vars
  BY StepGood
<1>2. Spec => [][SameCall]_vars
  BY <1>1, GoodAlways, PTL DEF Spec
<1> QED
  BY <1>2 DEF ImplementsObject

-----------------------------------------------------------------------------
(* hllSparseSum.                                                           *)

\* The registers from x on, below N, that hold v.
Count(a, x, N, v) == Cardinality({i \in x .. N - 1 : a[i] = v})

LEMMA CountTyped ==
  ASSUME NEW a, NEW x \in Int, NEW N \in Int, NEW v
  PROVE  Count(a, x, N, v) \in Nat
<1>1. IsFiniteSet(x .. N - 1)
  BY FS_Interval
<1>2. {i \in x .. N - 1 : a[i] = v} \in SUBSET (x .. N - 1)
  OBVIOUS
<1>3. IsFiniteSet({i \in x .. N - 1 : a[i] = v})
  BY <1>1, <1>2, FS_Subset
<1> QED
  BY <1>3, FS_CardinalityType DEF Count

LEMMA CountNone ==
  ASSUME NEW a, NEW N \in Int, NEW v
  PROVE  Count(a, N, N, v) = 0
<1>1. {i \in N .. N - 1 : a[i] = v} = {}
  OBVIOUS
<1> QED
  BY <1>1, FS_EmptySet DEF Count

\* The registers of one opcode hold one value.
Alike(a, x, q, w) == \A i \in x .. q - 1 : a[i] = w

Gains(a, x, q, N, w, v) ==
  Count(a, x, N, v) = Count(a, q, N, v) + (IF v = w THEN q - x ELSE 0)

LEMMA CountRun ==
  ASSUME NEW a, NEW x \in Int, NEW q \in Int, NEW N \in Int, x <= q, q <= N,
         NEW w, Alike(a, x, q, w), NEW v
  PROVE  Gains(a, x, q, N, w, v)
<1> USE DEF Alike, Gains
<1> DEFINE A == {i \in x .. N - 1 : a[i] = v}
           B == {i \in q .. N - 1 : a[i] = v}
           C == x .. q - 1
<1>1. \A i \in x .. N - 1 : i \in C \/ i \in q .. N - 1
  OBVIOUS
<1>2. \A i \in q .. N - 1 : i \in x .. N - 1 /\ i \notin C
  OBVIOUS
<1>3. \A i \in C : i \in x .. N - 1
  OBVIOUS
<1>4. IsFiniteSet(C) /\ Cardinality(C) = q - x
  BY FS_Interval
<1>5. IsFiniteSet(B)
  <2>1. IsFiniteSet(q .. N - 1) /\ B \in SUBSET (q .. N - 1)
    BY FS_Interval
  <2> QED
    BY <2>1, FS_Subset
<1>6. Cardinality(B) \in Nat
  BY <1>5, FS_CardinalityType
<1> HIDE DEF C
<1>7. CASE v = w
  <2>1. A = B \cup C /\ B \cap C = {}
    BY <1>1, <1>2, <1>3, <1>7 DEF C
  <2> HIDE DEF A, B
  <2>2. Cardinality(B \cup C) = Cardinality(B) + Cardinality(C) - Cardinality({})
    BY <1>4, <1>5, <2>1, FS_Union
  <2>3. Cardinality(A) = Cardinality(B) + (q - x)
    BY <1>4, <1>6, <2>1, <2>2, FS_EmptySet
  <2> QED
    BY <1>7, <2>3 DEF Count, A, B
<1>8. CASE v # w
  <2>1. A = B
    BY <1>1, <1>2, <1>8 DEF C
  <2> HIDE DEF A, B
  <2> QED
    BY <1>6, <1>8, <2>1 DEF Count, A, B
<1> QED
  BY <1>7, <1>8

Sums == [ez : Nat, E : [1 .. SparseValMaxValue -> Nat]]

\* The sum of the registers from x on.
Summed(sum, a, x, N) ==
  /\ sum \in Sums
  /\ sum.ez = Count(a, x, N, 0)
  /\ \A v \in 1 .. SparseValMaxValue : sum.E[v] = Count(a, x, N, v)

LEMMA SummedNone ==
  ASSUME NEW a, NEW N \in Int
  PROVE  Summed(NoSum, a, N, N)
<1>1. NoSum \in Sums /\ NoSum.ez = 0
      /\ \A v \in 1 .. SparseValMaxValue : NoSum.E[v] = 0
  BY DEF NoSum, Sums
<1> QED
  BY <1>1, CountNone DEF Summed

\* An opcode's registers are added to those behind it.
LEMMA Raised ==
  ASSUME NEW n \in Nat, NEW E \in [1 .. n -> Nat], NEW w \in 1 .. n, NEW l \in Nat
  PROVE  LET F == [E EXCEPT ![w] = @ + l]
         IN  /\ F \in [1 .. n -> Nat]
             /\ \A v \in 1 .. n : F[v] = IF v = w THEN E[w] + l ELSE E[v]
<1>1. E[w] + l \in Nat
  OBVIOUS
<1> QED
  BY <1>1

LEMMA SummedRun ==
  ASSUME NEW s, NEW p, s.buf[p] \in Byte, NEW l \in Nat, OpLen(s, p) = l,
         NEW a, NEW x \in Int, NEW q \in Int, NEW N \in Int, q = x + l, q <= N,
         NEW w, w = (IF IsVal(s.buf[p]) THEN ValValue(s.buf[p]) ELSE 0),
         Alike(a, x, q, w), NEW sum, Summed(sum, a, q, N)
  PROVE  Summed(Counted(s, p, sum), a, x, N)
<1> DEFINE new == Counted(s, p, sum)
<1>0. x <= q /\ q - x = l
  OBVIOUS
<1>1. \A v : Count(a, x, N, v) = Count(a, q, N, v) + (IF v = w THEN l ELSE 0)
  <2>1. \A v : Gains(a, x, q, N, w, v)
    BY <1>0, CountRun
  <2> QED
    BY <1>0, <2>1 DEF Gains
<1>2. \A v : Count(a, q, N, v) \in Nat
  BY CountTyped
<1>3. /\ sum \in Sums /\ sum.ez = Count(a, q, N, 0)
      /\ \A v \in 1 .. SparseValMaxValue : sum.E[v] = Count(a, q, N, v)
  BY DEF Summed
<1>4. sum.ez \in Nat /\ sum.E \in [1 .. SparseValMaxValue -> Nat]
  BY <1>3 DEF Sums
<1>5. sum = [ez |-> sum.ez, E |-> sum.E]
  BY <1>3 DEF Sums
<1>6. CASE IsVal(s.buf[p])
  <2>1. w \in 1 .. SparseValMaxValue /\ w # 0 /\ w = ValValue(s.buf[p])
    <3>1. ValValue(s.buf[p]) \in 1 .. SparseValMaxValue
      BY FieldsTyped
    <3> QED
      BY <1>6, <3>1, Sizes
  <2>2. new = [sum EXCEPT !.E[w] = @ + l]
    BY <1>6, <2>1 DEF Counted
  <2> DEFINE F == [sum.E EXCEPT ![w] = @ + l]
  <2>3. F \in [1 .. SparseValMaxValue -> Nat]
        /\ \A v \in 1 .. SparseValMaxValue :
             F[v] = IF v = w THEN sum.E[w] + l ELSE sum.E[v]
    BY <1>4, <2>1, Raised, Sizes
  <2>4. new = [ez |-> sum.ez, E |-> F]
    BY <1>5, <2>2
  <2> HIDE DEF new, F
  <2>5. new.ez = sum.ez /\ new.E = F /\ new \in Sums
    BY <1>4, <2>3, <2>4 DEF Sums
  <2>6. new.ez = Count(a, x, N, 0)
    BY <1>1, <1>2, <1>3, <2>1, <2>5
  <2>7. ASSUME NEW v \in 1 .. SparseValMaxValue PROVE new.E[v] = Count(a, x, N, v)
    <3>1. new.E[v] = IF v = w THEN sum.E[w] + l ELSE sum.E[v]
      BY <2>3, <2>5
    <3>2. sum.E[v] = Count(a, q, N, v) /\ (v = w => sum.E[w] = Count(a, q, N, v))
      BY <1>3
    <3>3. Count(a, q, N, v) \in Nat
      BY <1>2
    <3>4. Count(a, x, N, v) = Count(a, q, N, v) + (IF v = w THEN l ELSE 0)
      BY <1>1
    <3> QED
      BY <3>1, <3>2, <3>3, <3>4
  <2> QED
    BY <2>5, <2>6, <2>7 DEF Summed, new
<1>7. CASE ~IsVal(s.buf[p])
  <2>1. w = 0
    BY <1>7
  <2>2. new = [sum EXCEPT !.ez = @ + l]
    BY <1>7 DEF Counted
  <2>3. new = [ez |-> sum.ez + l, E |-> sum.E]
    BY <1>5, <2>2
  <2> HIDE DEF new
  <2>4. new.ez = sum.ez + l /\ new.E = sum.E /\ new \in Sums
    BY <1>4, <2>3 DEF Sums
  <2>5. new.ez = Count(a, x, N, 0)
    BY <1>1, <1>2, <1>3, <2>1, <2>4
  <2>6. ASSUME NEW v \in 1 .. SparseValMaxValue PROVE new.E[v] = Count(a, x, N, v)
    <3>1. v # w
      BY <2>1
    <3> QED
      BY <1>1, <1>2, <1>3, <2>4, <3>1
  <2> QED
    BY <2>4, <2>5, <2>6 DEF Summed, new
<1> QED
  BY <1>6, <1>7

LEMMA CountedTyped ==
  ASSUME NEW s, Fit(s), NEW p \in Nat, p < s.len, NEW sum \in Sums
  PROVE  Counted(s, p, sum) \in Sums
<1> DEFINE w == ValValue(s.buf[p])
           l == OpLen(s, p)
<1>1. l \in Nat
  BY PlacedFacts DEF Placed
<1>2. w \in 1 .. SparseValMaxValue
  <2>1. s.len \in Nat
    BY FitNumbers
  <2>2. p \in 0 .. s.len
    BY <2>1
  <2>3. s.buf[p] \in Byte
    BY <2>2 DEF Fit
  <2> QED
    BY <2>3, FieldsTyped
<1>3. /\ sum.ez \in Nat /\ sum.E \in [1 .. SparseValMaxValue -> Nat]
      /\ sum = [ez |-> sum.ez, E |-> sum.E]
  BY DEF Sums
<1>4. /\ IsVal(s.buf[p]) => Counted(s, p, sum) = [sum EXCEPT !.E[w] = @ + l]
      /\ ~IsVal(s.buf[p]) => Counted(s, p, sum) = [sum EXCEPT !.ez = @ + l]
  BY DEF Counted
<1> HIDE DEF w, l
<1> DEFINE F == [sum.E EXCEPT ![w] = @ + l]
<1>5. F \in [1 .. SparseValMaxValue -> Nat] /\ sum.ez + l \in Nat
  <2>1. F \in [1 .. SparseValMaxValue -> Nat]
    BY <1>1, <1>2, <1>3, Raised, Sizes
  <2>2. sum.ez + l \in Nat
    BY <1>1, <1>3
  <2> QED
    BY <2>1, <2>2
<1>6. /\ [sum EXCEPT !.E[w] = @ + l] = [ez |-> sum.ez, E |-> F]
      /\ [sum EXCEPT !.ez = @ + l] = [ez |-> sum.ez + l, E |-> sum.E]
  BY <1>3
<1> HIDE DEF F
<1>7. [ez |-> sum.ez, E |-> F] \in Sums /\ [ez |-> sum.ez + l, E |-> sum.E] \in Sums
  BY <1>3, <1>5 DEF Sums
<1> QED
  BY <1>4, <1>6, <1>7

\* The whole loop.
LEMMA SumFacts ==
  ASSUME NEW s, Fit(s), NEW S, NEW N, Streams(s, S, N), N <= Registers
  PROVE  Summed(SparseSum(s), Facts!Values(S), 0, N)
<1> DEFINE a == Facts!Values(S)
           base == [at \in Stand |-> NoSum]
           step == [z \in Stand \X Sums |->
                      IF z[1].p < s.len THEN Counted(s, z[1].p, z[2]) ELSE NoSum]
           Eq(w) == w = [at \in Stand |-> IF at.p >= s.len THEN NoSum
                                          ELSE Counted(s, at.p, w[Turn(s, at)])]
           walk == CHOOSE w : Eq(w)
<1>0. s.len \in Nat
  BY FitNumbers
<1>1. base \in [Stand -> Sums] /\ step \in [Stand \X Sums -> Sums]
  <2>1. NoSum \in Sums
    BY DEF NoSum, Sums
  <2>2. ASSUME NEW z \in Stand \X Sums, z[1].p < s.len
        PROVE  Counted(s, z[1].p, z[2]) \in Sums
    <3>1. z[1] \in Stand /\ z[2] \in Sums
      OBVIOUS
    <3>2. z[1].p \in Nat
      BY <3>1, StandTyped
    <3> QED
      BY <2>2, <3>1, <3>2, CountedTyped
  <2> QED
    BY <2>1, <2>2
<1>2. \A at \in Stand : base[at] = NoSum
  OBVIOUS
<1>3. \A at \in Stand, v \in Sums : at.p < s.len =>
        step[<<at, v>>] = Counted(s, at.p, v)
  OBVIOUS
<1> HIDE DEF base, step
<1>4. PICK f \in [Stand -> Sums] : Walked(f, s, base, step)
  BY <1>1, WalkExists
<1>5. Eq(f)
  <2>1. ASSUME NEW at \in Stand
        PROVE  f[at] = IF at.p >= s.len THEN NoSum
                       ELSE Counted(s, at.p, f[Turn(s, at)])
    <3>1. CASE at.p >= s.len
      BY <1>2, <1>4, <3>1 DEF Walked
    <3>2. CASE ~(at.p >= s.len)
      <4>1. at.p < s.len /\ Turn(s, at) \in Stand
        BY <1>0, <3>2, TurnTyped, StandTyped
      <4>2. f[Turn(s, at)] \in Sums
        BY <4>1
      <4> QED
        BY <1>3, <1>4, <3>2, <4>1, <4>2 DEF Walked
    <3> QED
      BY <3>1, <3>2
  <2>2. f = [at \in Stand |-> f[at]]
    OBVIOUS
  <2> QED
    BY <2>1, <2>2
<1>6. Eq(walk)
  BY <1>5
<1>7. SparseSum(s) = walk[FirstStand]
  BY DEF SparseSum
<1> HIDE DEF walk
<1>8. \A at \in Stand : walk[at] = IF at.p >= s.len THEN NoSum
                                   ELSE Counted(s, at.p, walk[Turn(s, at)])
  BY <1>6
<1> HIDE DEF Eq, a
<1> DEFINE On(at) == Between(s, S, N, at.p, at.first)
           D(n) == {at \in Stand : at.p + n >= s.len /\ On(at)}
           Fine(at) == Summed(walk[at], a, at.first, N)
           G == {n \in 0 .. s.len : \A at \in D(n) : Fine(at)}
<1>9. ASSUME NEW at \in Stand, On(at), at.p >= s.len PROVE Fine(at)
  <2>1. at.first = N /\ N \in Nat
    BY <1>0, <1>9, BetweenNumbers, StandTyped
  <2>2. walk[at] = NoSum
    BY <1>8, <1>9
  <2> QED
    BY <2>1, <2>2, SummedNone
<1>10. 0 \in G
  BY <1>0, <1>9, StandTyped
<1>11. ASSUME NEW n \in G, n < s.len PROVE n + 1 \in G
  <2>0. n \in Nat /\ n + 1 \in 0 .. s.len /\ \A at \in D(n) : Fine(at)
    BY <1>0, <1>11
  <2>1. SUFFICES ASSUME NEW at \in D(n + 1) PROVE Fine(at)
    BY <2>0
  <2>2. CASE at.p >= s.len
    BY <1>9, <2>2
  <2>3. CASE ~(at.p >= s.len)
    <3> DEFINE b == Turn(s, at)
               r == Placed(s, at.p, at.first)
    <3>1. /\ at \in Stand /\ at.p \in Nat /\ at.first \in Nat /\ at.p < s.len
          /\ at.p + (n + 1) >= s.len /\ On(at)
      BY <1>0, <2>3, StandTyped
    <3>2. /\ b \in Stand /\ at.p < b.p /\ b.p = at.p + OpBytes(s, at.p)
          /\ b.first = at.first + OpLen(s, at.p)
      BY <3>1, TurnTyped
    <3>3. /\ r \in S /\ r.first = at.first /\ r.len = OpLen(s, at.p)
          /\ Between(s, S, N, at.p + OpBytes(s, at.p), at.first + OpLen(s, at.p))
          /\ OpLen(s, at.p) \in Nat
      BY <3>1, NextOpcode
    <3>4. On(b)
      BY <3>2, <3>3
    <3>5. b.p \in Nat /\ b.first \in Nat
      BY <3>2, StandTyped
    <3>6. b \in D(n)
      BY <1>0, <2>0, <3>1, <3>2, <3>4, <3>5
    <3>7. Summed(walk[b], a, b.first, N)
      BY <2>0, <3>6
    <3>8. b.first <= N /\ N \in Nat
      BY <3>4, BetweenNumbers
    <3>9. s.buf[at.p] \in Byte
      <4>1. at.p \in 0 .. s.len
        BY <1>0, <3>1
      <4> QED
        BY <4>1 DEF Fit
    <3>10. r.val = IF IsVal(s.buf[at.p]) THEN ValValue(s.buf[at.p]) ELSE 0
      BY DEF Placed
    <3> HIDE DEF b, r, On
    <3>11. ASSUME NEW i \in at.first .. b.first - 1 PROVE a[i] = r.val
      <4>1. i \in Int /\ i \in Facts!Index
        BY <3>1, <3>5, <3>8, Sizes DEF Facts!Index
      <4>2. Facts!Covers(r, i)
        BY <3>1, <3>2, <3>3, <3>5, <4>1 DEF Facts!Covers, Facts!End
      <4>3. Facts!StreamOK(S)
        BY StreamsOK
      <4>4. Facts!Reaches(S, i) /\ Facts!RunAt(S, i) = r
        BY <3>3, <4>1, <4>2, <4>3, FactsConstants, Facts!RunAtOnly
      <4> QED
        BY <4>1, <4>4 DEF a, Facts!Values
    <3>12. walk[at] = Counted(s, at.p, walk[b])
      BY <1>8, <2>3, <3>1 DEF b
    <3>13. Summed(Counted(s, at.p, walk[b]), a, at.first, N)
      <4> DEFINE l == OpLen(s, at.p)
                 x == at.first
                 q == b.first
                 w == r.val
                 sum == walk[b]
      <4>1. l \in Nat /\ x \in Int /\ q \in Int /\ N \in Int /\ q = x + l /\ q <= N
        BY <3>1, <3>2, <3>3, <3>5, <3>8
      <4>2. Alike(a, x, q, w)
        BY <3>11 DEF Alike
      <4>3. OpLen(s, at.p) = l /\ Summed(sum, a, q, N)
        BY <3>7
      <4> HIDE DEF l, q, w, sum
      <4>4. w = IF IsVal(s.buf[at.p]) THEN ValValue(s.buf[at.p]) ELSE 0
        BY <3>10 DEF w
      <4>5. Summed(Counted(s, at.p, sum), a, x, N)
        BY <3>9, <4>1, <4>2, <4>3, <4>4, SummedRun
      <4> QED
        BY <4>5 DEF sum
    <3> QED
      BY <3>12, <3>13
  <2> QED
    BY <2>2, <2>3
<1>12. G \in SUBSET (0 .. s.len)
  OBVIOUS
<1> HIDE DEF G
<1>13. s.len \in G
  BY <1>0, <1>10, <1>11, <1>12, UpTo
<1>14. FirstStand \in D(s.len)
  <2>1. Between(s, S, N, HdrSize, 0)
    BY StreamStarts
  <2>2. HdrSize + s.len >= s.len
    BY <1>0, Sizes
  <2> QED
    BY <2>1, <2>2, FirstStandTyped
<1>15. Fine(FirstStand)
  BY <1>13, <1>14 DEF G
<1> QED
  BY <1>7, <1>15, FirstStandTyped DEF a

\* hllSparseSum counts every register of a complete stream once, under the
\* value that hllSparseToDense and hllMerge read for it.
THEOREM SumRight == Spec => []SumOfRegisters
<1>1. BInv => SumOfRegisters
  <2> SUFFICES ASSUME BInv, enc = "sparse", DecodedLen(str) = Registers
               PROVE  LET array == MergedInto(ZeroRegs, Decode(str))
                      IN  /\ SparseSum(str).ez = Cardinality({i \in Index : array[i] = 0})
                          /\ \A v \in 1 .. SparseValMaxValue :
                               SparseSum(str).E[v]
                                 = Cardinality({i \in Index : array[i] = v})
    BY DEF SumOfRegisters
  <2>1. PICK f, N : Represents(enc, str, regs, f, N) /\ Proper(f)
    BY InUse
  <2>2. Fit(str) /\ Streams(str, f.runs, N) /\ N <= Registers
    BY <2>1 DEF Represents, Holding
  <2>3. N = Registers /\ Decode(str) = f.runs
    BY <2>2, LastStandFacts, Decodes
  <2>4. Facts!StreamOK(f.runs)
    BY <2>2, StreamsOK
  <2>5. MergedInto(ZeroRegs, Decode(str)) = Facts!Values(f.runs)
    BY <2>3, <2>4, MergedIsValues
  <2>6. Summed(SparseSum(str), Facts!Values(f.runs), 0, Registers)
    BY <2>2, <2>3, SumFacts
  <2>7. \A v : Count(Facts!Values(f.runs), 0, Registers, v)
              = Cardinality({i \in Index : Facts!Values(f.runs)[i] = v})
    BY DEF Count, Index
  <2> QED
    BY <2>5, <2>6, <2>7 DEF Summed
<1> QED
  BY <1>1, GoodAlways, PTL
=============================================================================
