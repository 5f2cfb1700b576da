--------------------------- MODULE HLLSparseBytes ---------------------------
(***************************************************************************)
(* hllSparseAdd on the bytes of the sds string it works on: the macros     *)
(* that read and write opcodes, the loop that locates the opcode, the      *)
(* buffer for a split, the memmove that makes place for it, the loop that  *)
(* merges neighbours, and sds's length and terminator through all of it.   *)
(* HLLObject describes the same call on a set of opcodes; here is shown    *)
(* that the bytes implement it.                                            *)
(*                                                                         *)
(* The widths of the fields are given by what they hold at most: a ZERO's  *)
(* length, a VAL's value and its length; with 64, 32 and 4 a byte has      *)
(* eight bits.  The header is HdrSize bytes, the last one card[7], whose   *)
(* top bit says that no cardinality is cached.                             *)
(***************************************************************************)
EXTENDS Sds, FiniteSets

CONSTANTS
    Registers,          \* HLL_REGISTERS
    RegisterMax,        \* HLL_REGISTER_MAX
    SparseValMaxValue,  \* HLL_SPARSE_VAL_MAX_VALUE: 32
    SparseValMaxLen,    \* HLL_SPARSE_VAL_MAX_LEN: 4
    SparseZeroMaxLen,   \* HLL_SPARSE_ZERO_MAX_LEN: 64
    HdrSize,            \* HLL_HDR_SIZE
    SparseMaxBytes,     \* server.hll_sparse_max_bytes
    Elements,           \* the elements a client adds, [idx, pat] records
    Loaded              \* the opcode streams a client loads, as bytes

XZeroBit == SparseZeroMaxLen   \* 0x40
ValBit == 2 * XZeroBit         \* 0x80
ByteSize == 2 * ValBit         \* 1 << 8

Byte == 0 .. ByteSize - 1
Index == 0 .. Registers - 1

\* A VAL opcode's value and length fill the bits below its mark; an XZERO's
\* length is as long as the registers need.
ASSUME BytesAssumption ==
    /\ Nul = 0
    /\ Registers \in Nat \ {0} /\ RegisterMax \in Nat
    /\ SparseValMaxValue \in Nat \ {0} /\ SparseValMaxLen \in Nat \ {0}
    /\ SparseZeroMaxLen \in Nat \ {0}
    /\ SparseValMaxValue * SparseValMaxLen = ValBit
    /\ SparseValMaxValue <= RegisterMax
    /\ Registers <= XZeroBit * ByteSize
    /\ HdrSize \in Nat \ {0} /\ SparseMaxBytes \in Nat
    /\ HdrSize + 2 <= SparseMaxBytes
    /\ Elements \subseteq [idx : Index, pat : 1 .. RegisterMax]

OK == 0
ERR == -1
Abort == -2        \* redisAssert, or sds's assert

-----------------------------------------------------------------------------
(* The opcodes: 00xxxxxx, 01xxxxxx xxxxxxxx and 1vvvvvxx.                  *)

IsZero(b)  == b < XZeroBit
IsXZero(b) == XZeroBit <= b /\ b < ValBit
IsVal(b)   == ValBit <= b

ZeroLen(b)       == (b % XZeroBit) + 1
XZeroLen(b0, b1) == (b0 % XZeroBit) * ByteSize + b1 + 1
ValLen(b)        == (b % SparseValMaxLen) + 1
ValValue(b)      == ((b \div SparseValMaxLen) % SparseValMaxValue) + 1

\* The stores keep the low bits of what they are given.
ValOf(val, len) == <<(((val - 1) * SparseValMaxLen + (len - 1)) % ValBit) + ValBit>>
ZeroOf(len)     == <<(len - 1) % ByteSize>>
XZeroOf(len)    == <<((len - 1) \div ByteSize) + XZeroBit, (len - 1) % ByteSize>>

\* The opcode at s + p: its bytes and the registers it covers.
OpBytes(s, p) == IF IsXZero(s.buf[p]) THEN 2 ELSE 1

OpLen(s, p) ==
    CASE IsZero(s.buf[p])  -> ZeroLen(s.buf[p])
      [] IsVal(s.buf[p])   -> ValLen(s.buf[p])
      [] IsXZero(s.buf[p]) -> XZeroLen(s.buf[p], s.buf[p + 1])

-----------------------------------------------------------------------------
(* The loop over the opcodes, the same in hllSparseAdd, hllSparseToDense,  *)
(* hllMerge and hllSparseSum: the opcode under "p", the register at which  *)
(* it starts, the opcode before it and how many registers that one covers. *)

None == 0          \* a NULL "prev" or "next": no opcode is in the header

Stand == [p : Nat, first : Nat, prev : Nat, span : Nat]

Located(p, first, prev, span) ==
    [p |-> p, first |-> first, prev |-> prev, span |-> span]

FirstStand == Located(HdrSize, 0, None, 0)

Turn(s, at) ==
    Located(at.p + OpBytes(s, at.p), at.first + OpLen(s, at.p), at.p, OpLen(s, at.p))

\* Where the loop stands before each turn and after the last one.
Stands(s) ==
    LET walk[at \in Stand] ==
            IF at.p >= s.len THEN {at} ELSE {at} \cup walk[Turn(s, at)]
    IN  walk[FirstStand]

LastStand(s) == CHOOSE at \in Stands(s) : at.p >= s.len

-----------------------------------------------------------------------------
(* Step 1: the opcode that covers the register.                            *)

Stops(s, index, at) == at.p >= s.len \/ index <= at.first + OpLen(s, at.p) - 1

FirstStop(s, index) ==
    LET stops == {at \in Stands(s) : Stops(s, index, at)}
    IN  CHOOSE at \in stops : \A b \in stops : at.p <= b.p

\* "span" is that of the opcode itself, unless the loop ran to the end.
Locate(s, index) ==
    LET at == FirstStop(s, index)
    IN  IF at.p >= s.len THEN at ELSE [at EXCEPT !.span = OpLen(s, at.p)]

Follower(s, p) == IF p + OpBytes(s, p) >= s.len THEN None ELSE p + OpBytes(s, p)

-----------------------------------------------------------------------------
(* Steps 2 and 3: the opcode at "p" is split and the pieces are put in its *)
(* place.                                                                  *)

ZerosOf(len) ==
    IF len = 0 THEN <<>>
    ELSE IF len > SparseZeroMaxLen THEN XZeroOf(len) ELSE ZeroOf(len)

ValsOf(val, len) == IF len = 0 THEN <<>> ELSE ValOf(val, len)

\* Mistake: the pieces on both sides keep the new value.
SplitBytesSpreading(s, at, e) ==
    LET b == s.buf[at.p]
        Side(len) == IF IsVal(b) THEN ValsOf(e.pat, len) ELSE ZerosOf(len)
    IN  Side(e.idx - at.first) \o ValOf(e.pat, 1)
          \o Side(at.first + at.span - 1 - e.idx)

\* The buffer "seq".
SplitBytes(s, at, e) ==
    LET b == s.buf[at.p]
        Side(len) == IF IsVal(b) THEN ValsOf(ValValue(b), len) ELSE ZerosOf(len)
    IN  Side(e.idx - at.first) \o ValOf(e.pat, 1)
          \o Side(at.first + at.span - 1 - e.idx)

\* Mistake: only as many bytes as the old opcode had are written.
SubstituteShort(s, p, seq) ==
    LET delta == Len(seq) - OpBytes(s, p)
        next  == Follower(s, p)
        moved == IF delta # 0 /\ next # None
                 THEN Move(s, next + delta, next, s.len - next) ELSE s
    IN  Store(IncrLen(moved, delta), p, SubSeq(seq, 1, OpBytes(s, p)))

\* Mistake: the pieces are written before the bytes on the right move.
SubstituteFirst(s, p, seq) ==
    LET delta   == Len(seq) - OpBytes(s, p)
        next    == Follower(s, p)
        written == Store(s, p, seq)
    IN  IncrLen(IF delta # 0 /\ next # None
                THEN Move(written, next + delta, next, s.len - next)
                ELSE written, delta)

\* memmove, sdsIncrLen, memcpy, in this order.
Substitute(s, p, seq) ==
    LET delta == Len(seq) - OpBytes(s, p)
        next  == Follower(s, p)
        moved == IF delta # 0 /\ next # None
                 THEN Move(s, next + delta, next, s.len - next) ELSE s
    IN  Store(IncrLen(moved, delta), p, seq)

-----------------------------------------------------------------------------
(* Step 4: merge neighbours, five opcodes from "prev" on.                  *)

Scan(s, p) == [s |-> s, p |-> p]

Mergeable(b, c) ==
    /\ IsVal(b) /\ IsVal(c)
    /\ ValValue(b) = ValValue(c)
    /\ ValLen(b) + ValLen(c) <= SparseValMaxLen

\* Mistake: the move stops before the terminator, and so does sdsIncrLen.
MergeAtShort(s, p) ==
    LET b == s.buf[p]
        c == s.buf[p + 1]
        merged == Store(s, p + 1, ValOf(ValValue(b), ValLen(b) + ValLen(c)))
        moved  == Move(merged, p, p + 1, s.len - p - 1)
    IN  Header(moved, s.len - 1, s.free + 1)

\* Both opcodes become the second one, which is moved over the first with
\* all that follows it, the terminator included.
MergeAt(s, p) ==
    LET b == s.buf[p]
        c == s.buf[p + 1]
        merged == Store(s, p + 1, ValOf(ValValue(b), ValLen(b) + ValLen(c)))
    IN  IncrLen(Move(merged, p, p + 1, s.len - p), -1)

\* Mistake: "p" moves on after a merge.
MergeTurnOn(s, p) ==
    IF ~IsVal(s.buf[p]) THEN Scan(s, p + OpBytes(s, p))
    ELSE IF p + 1 < s.len /\ Mergeable(s.buf[p], s.buf[p + 1])
    THEN Scan(MergeAt(s, p), p + 1)
    ELSE Scan(s, p + 1)

\* Mistake: the terminator is taken for an opcode.
MergeTurnPastEnd(s, p) ==
    IF ~IsVal(s.buf[p]) THEN Scan(s, p + OpBytes(s, p))
    ELSE IF Mergeable(s.buf[p], s.buf[p + 1])
    THEN Scan(MergeAt(s, p), p)
    ELSE Scan(s, p + 1)

\* A turn of the scan.
MergeTurn(s, p) ==
    IF ~IsVal(s.buf[p]) THEN Scan(s, p + OpBytes(s, p))
    ELSE IF p + 1 < s.len /\ Mergeable(s.buf[p], s.buf[p + 1])
    THEN Scan(MergeAt(s, p), p)
    ELSE Scan(s, p + 1)

MergeStep(st) == IF st.p < st.s.len THEN MergeTurn(st.s, st.p) ELSE st

\* Mistake: the last piece of a split and its right neighbour are not reached.
MergeLoopOfThree(s, p) == MergeStep(MergeStep(MergeStep(Scan(s, p)))).s

\* scanlen = 5.
MergeLoop(s, p) ==
    MergeStep(MergeStep(MergeStep(MergeStep(MergeStep(Scan(s, p)))))).s

-----------------------------------------------------------------------------
(* Decoding: the loop of hllSparseToDense, of hllMerge and of              *)
(* hllSparseSum.                                                           *)

Placed(s, p, first) ==
    [op    |-> CASE IsZero(s.buf[p])  -> "zero"
                 [] IsXZero(s.buf[p]) -> "xzero"
                 [] IsVal(s.buf[p])   -> "val",
     first |-> first,
     len   |-> OpLen(s, p),
     val   |-> IF IsVal(s.buf[p]) THEN ValValue(s.buf[p]) ELSE 0]

Decode(s) == {Placed(s, at.p, at.first) : at \in {b \in Stands(s) : b.p < s.len}}

\* idx after the loop; it is compared with HLL_REGISTERS.
DecodedLen(s) == LastStand(s).first

\* hllMerge into an array of zeros: the largest value seen for a register.
MergedInto(max, runs) ==
    [i \in Index |->
        IF \E r \in runs : r.first <= i /\ i < r.first + r.len /\ r.val > max[i]
        THEN (CHOOSE r \in runs : r.first <= i /\ i < r.first + r.len).val
        ELSE max[i]]

NoSum == [ez |-> 0, E |-> [v \in 1 .. SparseValMaxValue |-> 0]]

\* Mistake: ZERO and XZERO opcodes count as one register each.
CountedOnce(s, p, sum) ==
    IF IsVal(s.buf[p]) THEN [sum EXCEPT !.E[ValValue(s.buf[p])] = @ + OpLen(s, p)]
                       ELSE [sum EXCEPT !.ez = @ + 1]

Counted(s, p, sum) ==
    IF IsVal(s.buf[p]) THEN [sum EXCEPT !.E[ValValue(s.buf[p])] = @ + OpLen(s, p)]
                       ELSE [sum EXCEPT !.ez = @ + OpLen(s, p)]

\* hllSparseSum: the zero registers, and for each value v the registers whose
\* PE[v] is added to E.
SparseSum(s) ==
    LET walk[at \in Stand] ==
            IF at.p >= s.len THEN NoSum
            ELSE Counted(s, at.p, walk[Turn(s, at)])
    IN  walk[FirstStand]

-----------------------------------------------------------------------------
(* The object.                                                             *)

\* The bytes of a dump are those of hllRaw, or what is left of them: whole
\* opcodes, and no more registers than there are.
ASSUME LoadedAssumption ==
    \A bytes \in Loaded :
        LET s == NewLen(bytes)
        IN  /\ bytes \in Seq(Byte) /\ Len(bytes) >= HdrSize
            /\ LastStand(s).p = s.len /\ DecodedLen(s) <= Registers

VARIABLES
    enc,     \* "none", "sparse" or "dense"
    str,     \* the sds string; of a dense one only the header
    regs,    \* the registers of a dense object (HLLDense packs them)
    ret      \* the last call's answer

vars == <<enc, str, regs, ret>>

ZeroRegs == [i \in Index |-> 0]
NoString == Str(0, 0, 0, <<>>)

Object(e, s, r) == [enc |-> e, str |-> s, regs |-> r]
Answer(val, o) == [val |-> val, obj |-> o]

\* HLL_INVALIDATE_CACHE, HLL_VALID_CACHE
Invalidate(s) == Store(s, HdrSize - 1, <<(s.buf[HdrSize - 1] % ValBit) + ValBit>>)
ValidCache(s) == s.buf[HdrSize - 1] < ValBit

\* hllSparseToDense and hllDenseAdd.
PromoteAdd(s, e) ==
    LET dense == MergedInto(ZeroRegs, Decode(s))
        header == NewLen(Bytes(s, 0, HdrSize))
    IN  IF DecodedLen(s) # Registers
        THEN Answer(ERR, Object("sparse", s, ZeroRegs))
        ELSE IF e.pat > dense[e.idx]
        THEN Answer(1, Object("dense", header, [dense EXCEPT ![e.idx] = e.pat]))
        ELSE Answer(Abort, Object("dense", header, dense))

\* The label "updated": merge, then invalidate.
Updated(s, prev) ==
    Answer(1, Object("sparse",
        Invalidate(MergeLoop(s, IF prev = None THEN HdrSize ELSE prev)),
        ZeroRegs))

Unchanged(val, s) == Answer(val, Object("sparse", s, ZeroRegs))

\* Case D.
SplitAdd(s, at, e) ==
    LET seq   == SplitBytes(s, at, e)
        delta == Len(seq) - OpBytes(s, at.p)
    IN  IF delta > 0 /\ s.len + delta > SparseMaxBytes THEN PromoteAdd(s, e)
        ELSE IF ~IncrAllowed(s, delta) THEN Unchanged(Abort, s)
        ELSE Updated(Substitute(s, at.p, seq), at.prev)

\* What is done with the opcode that was located: cases A, B and C, and D.
\* Behind the last opcode of a stream that ends too early it is the
\* terminator that is read as one.
UpdateAt(s, at, e) ==
    LET b == s.buf[at.p]
    IN  IF IsVal(b) /\ ValValue(b) >= e.pat THEN Unchanged(0, s)
        ELSE IF ~IsXZero(b) /\ OpLen(s, at.p) = 1
        THEN Updated(Store(s, at.p, ValOf(e.pat, 1)), at.prev)
        ELSE SplitAdd(s, at, e)

\* Mistake: room for what a ZERO's split needs.
HllSparseAddTight(s, e) ==
    LET roomy == MakeRoomFor(s, 2)
        at    == Locate(roomy, e.idx)
    IN  IF e.pat > SparseValMaxValue THEN PromoteAdd(s, e)
        ELSE IF at.span = 0 THEN Unchanged(ERR, roomy)
        ELSE UpdateAt(roomy, at, e)

\* hllSparseAdd.
HllSparseAdd(s, e) ==
    LET roomy == MakeRoomFor(s, 3)
        at    == Locate(roomy, e.idx)
    IN  IF e.pat > SparseValMaxValue THEN PromoteAdd(s, e)
        ELSE IF at.span = 0 THEN Unchanged(ERR, roomy)
        ELSE UpdateAt(roomy, at, e)

Become(o) == enc' = o.enc /\ str' = o.str /\ regs' = o.regs

Init ==
    /\ enc = "none" /\ str = NoString /\ regs = ZeroRegs
    /\ ret = [op |-> "none", val |-> OK]

\* hllCreate: one XZERO; the card bytes hold the cardinality 0.
Create ==
    /\ enc = "none"
    /\ Become(Object("sparse", Store(NewZeros(HdrSize + 2), HdrSize,
                                     XZeroOf(Registers)), ZeroRegs))
    /\ ret' = [op |-> "create", val |-> OK]

\* hllLoad: sdsdup of bytes that pass isHLLObjectOrReply.
Load ==
    /\ enc = "none"
    /\ \E bytes \in Loaded : Become(Object("sparse", NewLen(bytes), ZeroRegs))
    /\ ret' = [op |-> "load", val |-> OK]

\* pfAdd of a sparse object.
PfAdd(e) ==
    /\ enc = "sparse" /\ ret.val # Abort
    /\ LET added == HllSparseAdd(str, e)
       IN  /\ ret' = [op |-> "add", val |-> added.val]
           /\ Become(IF added.val = 1
                     THEN [added.obj EXCEPT !.str = Invalidate(@)]
                     ELSE added.obj)

Free ==
    /\ enc # "none" /\ ret.val # Abort
    /\ Become(Object("none", NoString, ZeroRegs))
    /\ ret' = [op |-> "free", val |-> OK]

Next == Create \/ Load \/ Free \/ \E e \in Elements : PfAdd(e)

Spec == Init /\ [][Next]_vars

-----------------------------------------------------------------------------

\* The type invariant: the string of a sparse object holds bytes, none of them
\* left over from memory that sdsMakeRoomFor or a split did not write.
TypeOK ==
    /\ enc \in {"none", "sparse", "dense"}
    /\ str = Str(str.len, str.free, str.alloc, str.buf)
    /\ \A i \in Span(0, str.len) : str.buf[i] \in Byte
    /\ regs \in [Index -> 0 .. RegisterMax]
    /\ ret.val \in {OK, 1, ERR, Abort}

\* hllSparseAdd keeps the promises sds makes to every other user of the
\* string: nothing is stored outside the block, not even when a split or a
\* merge moves the terminator, the header stays true to the block, and behind
\* a stream that covers the registers is the terminator, not a byte that the
\* next call would read as an opcode.
StringKept ==
    /\ enc # "none" => Inside(str) /\ HeaderOK(str)
    /\ enc = "sparse" /\ DecodedLen(str) = Registers => Terminated(str)

\* hllSparseSum counts every register of a complete stream once, under the
\* value that hllMerge and hllSparseToDense read for it.
SumOfRegisters ==
    enc = "sparse" /\ DecodedLen(str) = Registers =>
        LET array == MergedInto(ZeroRegs, Decode(str))
        IN  /\ SparseSum(str).ez = Cardinality({i \in Index : array[i] = 0})
            /\ \A v \in 1 .. SparseValMaxValue :
                 SparseSum(str).E[v] = Cardinality({i \in Index : array[i] = v})
=============================================================================
