----------------------------- MODULE HLLSparse -----------------------------
(***************************************************************************)
(* The sparse representation of a HyperLogLog (hyperloglog.c): a stream of *)
(* ZERO, XZERO and VAL opcodes that covers the registers from 0 upwards.   *)
(* The stream is modelled as the set of its opcodes, each one placed at    *)
(* the first register it covers ("first" in hllSparseAdd), so that the     *)
(* order of the stream is the order of the "first" fields.                 *)
(***************************************************************************)
EXTENDS Integers, FiniteSets

CONSTANTS
    Registers,          \* HLL_REGISTERS
    SparseValMaxValue,  \* HLL_SPARSE_VAL_MAX_VALUE
    SparseValMaxLen,    \* HLL_SPARSE_VAL_MAX_LEN
    SparseZeroMaxLen    \* HLL_SPARSE_ZERO_MAX_LEN

ASSUME SparseAssumption ==
    /\ Registers \in Nat \ {0}
    /\ SparseValMaxValue \in Nat \ {0}
    /\ SparseValMaxLen \in Nat \ {0}
    /\ SparseZeroMaxLen \in Nat \ {0}

Index == 0 .. Registers - 1

-----------------------------------------------------------------------------
(* Opcodes.                                                                *)

Zero(first, len)     == [op |-> "zero",  first |-> first, len |-> len, val |-> 0]
XZero(first, len)    == [op |-> "xzero", first |-> first, len |-> len, val |-> 0]
Val(first, len, val) == [op |-> "val",   first |-> first, len |-> len, val |-> val]

\* The bytes an opcode takes.
OpLen(r) == IF r.op = "xzero" THEN 2 ELSE 1

End(r) == r.first + r.len

Covers(r, i) == r.first <= i /\ i < End(r)

\* What the bits of an opcode can hold.  XZERO may hold any length
\* (HLL_SPARSE_XZERO_MAX_LEN is HLL_REGISTERS).
RunOK(r) ==
    /\ r = [op |-> r.op, first |-> r.first, len |-> r.len, val |-> r.val]
    /\ r.first \in Index /\ r.len \in 1 .. Registers /\ End(r) <= Registers
    /\ \/ r.op = "zero"  /\ r.val = 0 /\ r.len <= SparseZeroMaxLen
       \/ r.op = "xzero" /\ r.val = 0
       \/ r.op = "val"   /\ r.val \in 1 .. SparseValMaxValue
                         /\ r.len <= SparseValMaxLen

-----------------------------------------------------------------------------
(* Streams.                                                                *)

Reaches(S, i) == \E r \in S : Covers(r, i)

Covered(S) == {i \in Index : Reaches(S, i)}

\* The opcode that covers register i: where the locating loop stops.
RunAt(S, i) == CHOOSE r \in S : Covers(r, i)

\* A decodable stream: no register twice, no register skipped.
StreamOK(S) ==
    /\ \A r \in S : RunOK(r)
    /\ \A r, s \in S : r = s \/ End(r) <= s.first \/ End(s) <= r.first
    /\ \A r \in S : \A i \in 0 .. r.first - 1 : Reaches(S, i)

\* The check made once the stream is decoded: idx == HLL_REGISTERS.
Complete(S) == \A i \in Index : Reaches(S, i)

\* The registers as every decoder reads them.
Values(S) ==
    [i \in Index |-> IF Reaches(S, i) THEN RunAt(S, i).val ELSE 0]

\* The stream of hllCreate.
EmptyStream == {XZero(0, Registers)}

StreamBytes(S) == Cardinality(S) + Cardinality({r \in S : r.op = "xzero"})

-----------------------------------------------------------------------------
(* Case D of hllSparseAdd: an opcode is split around the updated register. *)

\* What is left of opcode r on one side of the register.
Side(r, first, len) ==
    CASE len = 0 -> {}
      [] len > 0 /\ r.op = "val" -> {Val(first, len, r.val)}
      [] r.op # "val" /\ len > SparseZeroMaxLen -> {XZero(first, len)}
      [] r.op # "val" /\ len \in 1 .. SparseZeroMaxLen -> {Zero(first, len)}

\* Mistake: the right piece starts at the register itself.
SplitOverlapping(r, idx, count) ==
    Side(r, r.first, idx - r.first)
      \cup {Val(idx, 1, count)}
      \cup Side(r, idx, End(r) - 1 - idx)

\* Mistake: the right piece is forgotten.
SplitWithoutRight(r, idx, count) ==
    Side(r, r.first, idx - r.first) \cup {Val(idx, 1, count)}

Split(r, idx, count) ==
    Side(r, r.first, idx - r.first)
      \cup {Val(idx, 1, count)}
      \cup Side(r, idx + 1, End(r) - 1 - idx)

SideBytes(r, len) ==
    CASE len = 0 -> 0
      [] r.op # "val" /\ len > SparseZeroMaxLen -> 2
      [] OTHER -> 1

\* Mistake: the old opcode is always taken for one byte.
DeltaLenOfOneByte(r, idx) ==
    SideBytes(r, idx - r.first) + SideBytes(r, End(r) - 1 - idx)

\* deltalen: the bytes of the new sequence less those of the old opcode.
DeltaLen(r, idx) ==
    SideBytes(r, idx - r.first) + 1 + SideBytes(r, End(r) - 1 - idx) - OpLen(r)

-----------------------------------------------------------------------------
(* Step 4 of hllSparseAdd: adjacent VAL opcodes of one value are merged    *)
(* while they fit.  The scan's state is the stream, its bytes and the      *)
(* register at which the opcode under "p" starts.                          *)

Mergeable(p, q) ==
    /\ p.op = "val" /\ q.op = "val"
    /\ End(p) = q.first
    /\ p.val = q.val
    /\ p.len + q.len <= SparseValMaxLen

ScanState(runs, size, at) == [runs |-> runs, size |-> size, at |-> at]

After(S, p) == RunAt(S, End(p))                         \* p + 1
Joins(S, p) == Reaches(S, End(p)) /\ Mergeable(p, After(S, p))
Joined(S, p) ==
    (S \ {p, After(S, p)}) \cup {Val(p.first, p.len + After(S, p).len, p.val)}

MergeAt(st, p) ==
    IF Joins(st.runs, p)
    THEN ScanState(Joined(st.runs, p), st.size - 1, st.at)   \* p stays
    ELSE ScanState(st.runs, st.size, End(p))

MergeStep(st) ==
    IF Reaches(st.runs, st.at) THEN MergeAt(st, RunAt(st.runs, st.at))
                               ELSE st                       \* p >= end

\* Where the scan starts: at "prev", or at the start of the stream.
ScanStart(S, first) == IF first = 0 THEN 0 ELSE RunAt(S, first - 1).first

\* scanlen = 5.
MergeScan(S, size, at) ==
    MergeStep(MergeStep(MergeStep(MergeStep(MergeStep(
        ScanState(S, size, at))))))

\* No two neighbours that could be one opcode.
Canonical(S) ==
    \A p, q \in S :
        /\ ~Mergeable(p, q)
        /\ ~(p.op # "val" /\ q.op # "val" /\ End(p) = q.first)
=============================================================================
