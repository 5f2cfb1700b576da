------------------------------ MODULE HLLDense ------------------------------
(***************************************************************************)
(* The dense representation: Registers registers of Bits bits packed in    *)
(* bytes, least significant bits first, read and written by the two macros *)
(* HLL_DENSE_GET_REGISTER and HLL_DENSE_SET_REGISTER, which always touch   *)
(* two bytes: for the last register the second one is the terminator that  *)
(* sds keeps after every string.                                           *)
(***************************************************************************)
EXTENDS Integers

CONSTANTS
    Registers,   \* HLL_REGISTERS
    Bits,        \* HLL_BITS
    Inputs       \* bound: the register values that are written

RegisterMax == 2^Bits - 1

ASSUME DenseAssumption ==
    /\ Registers \in Nat \ {0} /\ Bits \in 1 .. 8
    /\ (Registers * Bits) % 8 = 0
    /\ Inputs \subseteq 0 .. RegisterMax

Index == 0 .. Registers - 1
Byte == 0 .. 255
Terminator == (Registers * Bits) \div 8        \* the byte after the registers

VARIABLES
    bytes,   \* hdr->registers and the terminator
    regs     \* the array of numbers the bytes stand for

vars == <<bytes, regs>>

\* The C shifts and masks on small non-negative numbers.
ShiftLeft(v, n)  == v * 2^n
ShiftRight(v, n) == v \div 2^n
LowBits(v, n)    == v % 2^n

\* b & ~m, where m has its 1s in the places lo .. hi - 1.
Clear(b, lo, hi) ==
    IF hi <= lo THEN b ELSE LowBits(b, lo) + ShiftLeft(ShiftRight(b, hi), hi)

At(i)    == (i * Bits) \div 8                   \* _byte
First(i) == (i * Bits) % 8                      \* _fb
Rest(i)  == 8 - First(i)                        \* _fb8

\* HLL_DENSE_GET_REGISTER
GetRegister(p, i) ==
    LowBits(ShiftRight(p[At(i)], First(i)) + ShiftLeft(p[At(i) + 1], Rest(i)), Bits)

\* Mistake: the bits of the first byte are not cut at 8.
SetRegisterWide(p, i, v) ==
    [p EXCEPT
        ![At(i)]     = Clear(@, First(i), First(i) + Bits) + ShiftLeft(v, First(i)),
        ![At(i) + 1] = Clear(@, 0, Bits - Rest(i)) + ShiftRight(v, Rest(i))]

\* Mistake: the second byte is not cleared first.
SetRegisterDirty(p, i, v) ==
    [p EXCEPT
        ![At(i)]     = Clear(@, First(i), First(i) + Bits)
                         + LowBits(ShiftLeft(v, First(i)), 8),
        ![At(i) + 1] = @ + ShiftRight(v, Rest(i))]

\* Mistake: the part for the second byte is one bit too high.
SetRegisterSpilling(p, i, v) ==
    [p EXCEPT
        ![At(i)]     = Clear(@, First(i), First(i) + Bits)
                         + LowBits(ShiftLeft(v, First(i)), 8),
        ![At(i) + 1] = Clear(@, 0, Bits - Rest(i)) + ShiftRight(v, Rest(i) - 1)]

\* HLL_DENSE_SET_REGISTER: the stores keep the low 8 bits.
SetRegister(p, i, v) ==
    [p EXCEPT
        ![At(i)]     = Clear(@, First(i), First(i) + Bits)
                         + LowBits(ShiftLeft(v, First(i)), 8),
        ![At(i) + 1] = Clear(@, 0, Bits - Rest(i)) + ShiftRight(v, Rest(i))]

\* Mistake: the shifts of the second and third registers are exchanged.
UnrolledReadSwapped(p, i) ==
    LET b == 3 * (i \div 4)
    IN  CASE i % 4 = 0 -> LowBits(p[b], 6)
          [] i % 4 = 1 -> LowBits(ShiftRight(p[b], 4) + ShiftLeft(p[b + 1], 4), 6)
          [] i % 4 = 2 -> LowBits(ShiftRight(p[b + 1], 6) + ShiftLeft(p[b + 2], 2), 6)
          [] i % 4 = 3 -> LowBits(ShiftRight(p[b + 2], 2), 6)

\* The unrolled loop of hllDenseSum: four registers from every three bytes.
UnrolledRead(p, i) ==
    LET b == 3 * (i \div 4)
    IN  CASE i % 4 = 0 -> LowBits(p[b], 6)
          [] i % 4 = 1 -> LowBits(ShiftRight(p[b], 6) + ShiftLeft(p[b + 1], 2), 6)
          [] i % 4 = 2 -> LowBits(ShiftRight(p[b + 1], 4) + ShiftLeft(p[b + 2], 4), 6)
          [] i % 4 = 3 -> LowBits(ShiftRight(p[b + 2], 2), 6)

-----------------------------------------------------------------------------
Init ==
    /\ bytes = [b \in 0 .. Terminator |-> 0]    \* sdsnewlen(NULL, HLL_DENSE_SIZE)
    /\ regs = [i \in Index |-> 0]

\* hllDenseAdd
DenseAdd(i, count) ==
    /\ IF count > GetRegister(bytes, i)
       THEN /\ bytes' = SetRegister(bytes, i, count)
            /\ regs' = [regs EXCEPT ![i] = count]
       ELSE UNCHANGED <<bytes, regs>>

\* pfMerge and hllSparseToDense write registers whatever they held.
Write(i, v) ==
    /\ bytes' = SetRegister(bytes, i, v)
    /\ regs' = [regs EXCEPT ![i] = v]

Next == \E i \in Index, v \in Inputs : DenseAdd(i, v) \/ Write(i, v)

Spec == Init /\ [][Next]_vars

-----------------------------------------------------------------------------
TypeOK == bytes \in [0 .. Terminator -> Byte] /\ regs \in [Index -> 0 .. RegisterMax]

\* The macros are an array: reading gives what was last written to that
\* register, and writing one register leaves alone its neighbours in the two
\* bytes and the terminator that they touch behind the last one.
PackedArray ==
    /\ \A i \in Index : GetRegister(bytes, i) = regs[i]
    /\ bytes[Terminator] = 0
=============================================================================
