--------------------------- MODULE HLLCountProofs ---------------------------
(* hllPatLen ends at the lowest 1 bit, for every hash and all widths; the    *)
(* macros of the dense representation are an array and the counts of all     *)
(* threads agree, for any number of registers of six bits, which is what     *)
(* HLL_BITS is, any values and any number of threads.                        *)
EXTENDS HLLCount, HLLPatLen, TLAPS, FiniteSetTheorems, NaturalsInduction, WellFoundedInduction

-----------------------------------------------------------------------------
(* Four registers in three bytes.                                          *)

LEMMA Powers ==
  /\ 2^0 = 1 /\ 2^2 = 4 /\ 2^4 = 16 /\ 2^6 = 64 /\ 2^8 = 256
  /\ 2^10 = 1024 /\ 2^12 = 4096
OBVIOUS

LEMMA RightShifts ==
  /\ \A v \in Int : ShiftRight(v, 0) = v
  /\ \A v \in Int : ShiftRight(v, 2) = v \div 4
  /\ \A v \in Int : ShiftRight(v, 4) = v \div 16
  /\ \A v \in Int : ShiftRight(v, 6) = v \div 64
  /\ \A v \in Int : ShiftRight(v, 8) = v \div 256
  /\ \A v \in Int : ShiftRight(v, 10) = v \div 1024
  /\ \A v \in Int : ShiftRight(v, 12) = v \div 4096
BY Powers DEF ShiftRight

LEMMA LeftShifts ==
  /\ \A v \in Int : ShiftLeft(v, 0) = v
  /\ \A v \in Int : ShiftLeft(v, 2) = v * 4
  /\ \A v \in Int : ShiftLeft(v, 4) = v * 16
  /\ \A v \in Int : ShiftLeft(v, 6) = v * 64
  /\ \A v \in Int : ShiftLeft(v, 8) = v * 256
  /\ \A v \in Int : ShiftLeft(v, 10) = v * 1024
  /\ \A v \in Int : ShiftLeft(v, 12) = v * 4096
BY Powers DEF ShiftLeft

LEMMA LowParts ==
  /\ \A v \in Int : LowBits(v, 0) = 0
  /\ \A v \in Int : LowBits(v, 2) = v % 4
  /\ \A v \in Int : LowBits(v, 4) = v % 16
  /\ \A v \in Int : LowBits(v, 6) = v % 64
  /\ \A v \in Int : LowBits(v, 8) = v % 256
BY Powers DEF LowBits

\* The groups of four registers.
LEMMA Groups ==
  ASSUME Bits = 6
  PROVE  \E n \in Nat : Registers = 4 * n /\ Terminator = 3 * n
<1> DEFINE n == Registers \div 4
<1>1. Registers \in Nat /\ (Registers * 6) % 8 = 0 /\ Terminator = (Registers * 6) \div 8
  BY DenseAssumption DEF Terminator
<1>2. n \in Nat /\ Registers = 4 * n
  BY <1>1
<1> HIDE DEF n
<1>3. Terminator = 3 * n
  BY <1>1, <1>2
<1> QED
  BY <1>2, <1>3

LEMMA TerminatorNat ==
  ASSUME Bits = 6
  PROVE  Terminator \in Nat
<1>1. PICK n \in Nat : Terminator = 3 * n
  BY Groups
<1> QED
  BY <1>1

\* The place of a register: its group of three bytes and its place in there.
LEMMA Places ==
  ASSUME Bits = 6, NEW i \in Index
  PROVE  \E q \in Nat :
            /\ i \in 4 * q .. 4 * q + 3
            /\ {3 * q, 3 * q + 1, 3 * q + 2, 3 * q + 3} \subseteq 0 .. Terminator
            /\ 3 * q + 2 < Terminator
<1> DEFINE q == i \div 4
<1>1. PICK n \in Nat : Registers = 4 * n /\ Terminator = 3 * n
  BY Groups
<1>2. i \in Nat /\ i < 4 * n
  BY <1>1 DEF Index
<1>3. q \in Nat /\ 4 * q <= i /\ i <= 4 * q + 3
  BY <1>2
<1> HIDE DEF q
<1>4. q < n
  BY <1>2, <1>3
<1>5. 3 * q + 3 <= Terminator
  BY <1>1, <1>3, <1>4
<1> QED
  BY <1>1, <1>2, <1>3, <1>5

LEMMA PlaceOf ==
  ASSUME Bits = 6, NEW q \in Nat
  PROVE  /\ At(4 * q) = 3 * q /\ First(4 * q) = 0
         /\ At(4 * q + 1) = 3 * q /\ First(4 * q + 1) = 6
         /\ At(4 * q + 2) = 3 * q + 1 /\ First(4 * q + 2) = 4
         /\ At(4 * q + 3) = 3 * q + 2 /\ First(4 * q + 3) = 2
  BY DEF At, First

\* The bytes, the terminator among them.
Block == [0 .. Terminator -> Byte]

\* The macro, by the place of the register in its first byte.
LEMMA GetFacts ==
  ASSUME Bits = 6, NEW p, NEW i, NEW x, NEW y, At(i) = x, x + 1 = y,
         NEW a \in Byte, NEW b \in Byte, p[x] = a, p[y] = b
  PROVE  /\ First(i) = 0 => GetRegister(p, i) = a % 64
         /\ First(i) = 6 => GetRegister(p, i) = ((a \div 64) + b * 4) % 64
         /\ First(i) = 4 => GetRegister(p, i) = ((a \div 16) + b * 16) % 64
         /\ First(i) = 2 => GetRegister(p, i) = a \div 4
<1>1. GetRegister(p, i) = LowBits(ShiftRight(a, First(i)) + ShiftLeft(b, Rest(i)), 6)
  BY DEF GetRegister
<1>2. a \in Int /\ b \in Int
  BY DEF Byte
<1>3. \A w \in Int : LowBits(w, 6) = w % 64
  BY LowParts
<1>4. ASSUME First(i) = 0 PROVE GetRegister(p, i) = a % 64
  <2> DEFINE u == a
             w == b * 256
             z == u + w
  <2>1. Rest(i) = 8
    BY <1>4 DEF Rest
  <2>2. ShiftRight(a, 0) = u /\ ShiftLeft(b, 8) = w /\ z \in Int
    BY <1>2, RightShifts, LeftShifts
  <2>3. z % 64 = a % 64
    BY <1>2
  <2> HIDE DEF u, w
  <2>4. GetRegister(p, i) = LowBits(z, 6)
    BY <1>1, <1>4, <2>1, <2>2
  <2> HIDE DEF z
  <2>5. LowBits(z, 6) = z % 64
    BY <2>2, <1>3
  <2> QED
    BY <2>3, <2>4, <2>5
<1>5. ASSUME First(i) = 6 PROVE GetRegister(p, i) = ((a \div 64) + b * 4) % 64
  <2> DEFINE u == a \div 64
             w == b * 4
             z == u + w
  <2>1. Rest(i) = 2
    BY <1>5 DEF Rest
  <2>2. ShiftRight(a, 6) = u /\ ShiftLeft(b, 2) = w /\ z \in Int
    BY <1>2, RightShifts, LeftShifts
  <2>3. z % 64 = ((a \div 64) + b * 4) % 64
    OBVIOUS
  <2> HIDE DEF u, w
  <2>4. GetRegister(p, i) = LowBits(z, 6)
    BY <1>1, <1>5, <2>1, <2>2
  <2> HIDE DEF z
  <2>5. LowBits(z, 6) = z % 64
    BY <2>2, <1>3
  <2> QED
    BY <2>3, <2>4, <2>5
<1>6. ASSUME First(i) = 4 PROVE GetRegister(p, i) = ((a \div 16) + b * 16) % 64
  <2> DEFINE u == a \div 16
             w == b * 16
             z == u + w
  <2>1. Rest(i) = 4
    BY <1>6 DEF Rest
  <2>2. ShiftRight(a, 4) = u /\ ShiftLeft(b, 4) = w /\ z \in Int
    BY <1>2, RightShifts, LeftShifts
  <2>3. z % 64 = ((a \div 16) + b * 16) % 64
    OBVIOUS
  <2> HIDE DEF u, w
  <2>4. GetRegister(p, i) = LowBits(z, 6)
    BY <1>1, <1>6, <2>1, <2>2
  <2> HIDE DEF z
  <2>5. LowBits(z, 6) = z % 64
    BY <2>2, <1>3
  <2> QED
    BY <2>3, <2>4, <2>5
<1>7. ASSUME First(i) = 2 PROVE GetRegister(p, i) = a \div 4
  <2> DEFINE u == a \div 4
             w == b * 64
             z == u + w
  <2>1. Rest(i) = 6
    BY <1>7 DEF Rest
  <2>2. ShiftRight(a, 2) = u /\ ShiftLeft(b, 6) = w /\ z \in Int
    BY <1>2, RightShifts, LeftShifts
  <2>3. z % 64 = a \div 4
    BY DEF Byte
  <2> HIDE DEF u, w
  <2>4. GetRegister(p, i) = LowBits(z, 6)
    BY <1>1, <1>7, <2>1, <2>2
  <2> HIDE DEF z
  <2>5. LowBits(z, 6) = z % 64
    BY <2>2, <1>3
  <2> QED
    BY <2>3, <2>4, <2>5
<1> QED
  BY <1>4, <1>5, <1>6, <1>7

\* The masks of the macro: what they leave of a byte.
LEMMA Masks ==
  ASSUME NEW v \in Byte
  PROVE  /\ Clear(v, 0, 6) = (v \div 64) * 64 /\ Clear(v, 6, 12) = v % 64
         /\ Clear(v, 4, 10) = v % 16 /\ Clear(v, 2, 8) = v % 4
         /\ Clear(v, 0, -2) = v /\ Clear(v, 0, 4) = (v \div 16) * 16
         /\ Clear(v, 0, 2) = (v \div 4) * 4 /\ Clear(v, 0, 0) = v
<1>0. v \in Int /\ v \div 256 = 0 /\ v \div 1024 = 0 /\ v \div 4096 = 0
  BY DEF Byte
<1>1. /\ LowBits(v, 0) = 0 /\ LowBits(v, 6) = v % 64 /\ LowBits(v, 4) = v % 16
      /\ LowBits(v, 2) = v % 4
  <2>1. v \in Int
    BY <1>0
  <2>2. LowBits(v, 0) = 0 /\ LowBits(v, 6) = v % 64
    BY <2>1, LowParts
  <2>3. LowBits(v, 4) = v % 16 /\ LowBits(v, 2) = v % 4
    BY <2>1, LowParts
  <2> QED
    BY <2>2, <2>3
<1>2. /\ ShiftLeft(ShiftRight(v, 12), 12) = 0 /\ ShiftLeft(ShiftRight(v, 10), 10) = 0
      /\ ShiftLeft(ShiftRight(v, 8), 8) = 0
  <2>1. ShiftRight(v, 12) = 0 /\ ShiftRight(v, 10) = 0 /\ ShiftRight(v, 8) = 0
    BY <1>0, RightShifts
  <2>2. ShiftLeft(0, 12) = 0 /\ ShiftLeft(0, 10) = 0 /\ ShiftLeft(0, 8) = 0
    BY Powers DEF ShiftLeft
  <2> QED
    BY <2>1, <2>2
<1>3. ASSUME NEW w \in Int
      PROVE  ShiftLeft(w, 6) = w * 64 /\ ShiftLeft(w, 4) = w * 16 /\ ShiftLeft(w, 2) = w * 4
  BY LeftShifts
<1>4. ShiftLeft(ShiftRight(v, 6), 6) = (v \div 64) * 64
  <2>1. ShiftRight(v, 6) = v \div 64 /\ v \div 64 \in Int
    BY <1>0, RightShifts
  <2> QED
    BY <1>3, <2>1
<1>5. ShiftLeft(ShiftRight(v, 4), 4) = (v \div 16) * 16
  <2>1. ShiftRight(v, 4) = v \div 16 /\ v \div 16 \in Int
    BY <1>0, RightShifts
  <2> QED
    BY <1>3, <2>1
<1>6. ShiftLeft(ShiftRight(v, 2), 2) = (v \div 4) * 4
  <2>1. ShiftRight(v, 2) = v \div 4 /\ v \div 4 \in Int
    BY <1>0, RightShifts
  <2> QED
    BY <1>3, <2>1
<1>7. /\ Clear(v, 0, 6) = LowBits(v, 0) + ShiftLeft(ShiftRight(v, 6), 6)
      /\ Clear(v, 6, 12) = LowBits(v, 6) + ShiftLeft(ShiftRight(v, 12), 12)
      /\ Clear(v, 4, 10) = LowBits(v, 4) + ShiftLeft(ShiftRight(v, 10), 10)
      /\ Clear(v, 2, 8) = LowBits(v, 2) + ShiftLeft(ShiftRight(v, 8), 8)
  BY DEF Clear
<1>8. /\ Clear(v, 0, -2) = v /\ Clear(v, 0, 0) = v
      /\ Clear(v, 0, 4) = LowBits(v, 0) + ShiftLeft(ShiftRight(v, 4), 4)
      /\ Clear(v, 0, 2) = LowBits(v, 0) + ShiftLeft(ShiftRight(v, 2), 2)
  BY DEF Clear
<1>9. Clear(v, 0, 6) = (v \div 64) * 64 /\ Clear(v, 6, 12) = v % 64
  BY <1>0, <1>1, <1>2, <1>4, <1>7
<1>10. Clear(v, 4, 10) = v % 16 /\ Clear(v, 2, 8) = v % 4
  BY <1>0, <1>1, <1>2, <1>7
<1>11. Clear(v, 0, 4) = (v \div 16) * 16 /\ Clear(v, 0, 2) = (v \div 4) * 4
  BY <1>0, <1>1, <1>5, <1>6, <1>8
<1> QED
  BY <1>8, <1>9, <1>10, <1>11

\* The part of a value that goes into the first byte, and the part for the second.
LEMMA Parts ==
  ASSUME NEW v \in 0 .. 63
  PROVE  /\ LowBits(ShiftLeft(v, 0), 8) = v /\ LowBits(ShiftLeft(v, 6), 8) = (v % 4) * 64
         /\ LowBits(ShiftLeft(v, 4), 8) = (v % 16) * 16 /\ LowBits(ShiftLeft(v, 2), 8) = v * 4
         /\ ShiftRight(v, 8) = 0 /\ ShiftRight(v, 2) = v \div 4
         /\ ShiftRight(v, 4) = v \div 16 /\ ShiftRight(v, 6) = 0
<1>1. \A w \in Int : LowBits(w, 8) = w % 256
  BY LowParts
<1>2. /\ ShiftLeft(v, 0) = v /\ ShiftLeft(v, 6) = v * 64 /\ ShiftLeft(v, 4) = v * 16
      /\ ShiftLeft(v, 2) = v * 4
  BY LeftShifts
<1>3. /\ LowBits(v, 8) = v % 256 /\ LowBits(v * 64, 8) = (v * 64) % 256
      /\ LowBits(v * 16, 8) = (v * 16) % 256 /\ LowBits(v * 4, 8) = (v * 4) % 256
  BY <1>1
<1>4. v % 256 = v /\ (v * 64) % 256 = (v % 4) * 64
  OBVIOUS
<1>5. (v * 16) % 256 = (v % 16) * 16 /\ (v * 4) % 256 = v * 4
  OBVIOUS
<1>6. /\ ShiftRight(v, 8) = v \div 256 /\ ShiftRight(v, 2) = v \div 4
      /\ ShiftRight(v, 4) = v \div 16 /\ ShiftRight(v, 6) = v \div 64
  <2>1. \A w \in Int : ShiftRight(w, 8) = w \div 256
    BY RightShifts
  <2>2. \A w \in Int : ShiftRight(w, 2) = w \div 4
    BY RightShifts
  <2>3. \A w \in Int : ShiftRight(w, 4) = w \div 16
    BY RightShifts
  <2>4. \A w \in Int : ShiftRight(w, 6) = w \div 64
    BY RightShifts
  <2>5. v \in Int
    OBVIOUS
  <2>6. ShiftRight(v, 8) = v \div 256
    BY <2>1, <2>5
  <2>7. ShiftRight(v, 2) = v \div 4
    BY <2>2, <2>5
  <2>8. ShiftRight(v, 4) = v \div 16
    BY <2>3, <2>5
  <2>9. ShiftRight(v, 6) = v \div 64
    BY <2>4, <2>5
  <2> QED
    BY <2>6, <2>7, <2>8, <2>9
<1>7. v \div 256 = 0 /\ v \div 64 = 0
  OBVIOUS
<1> QED
  BY <1>2, <1>3, <1>4, <1>5, <1>6, <1>7

\* What the macro stores in the two bytes x and y, by the place f of the
\* register in the first one.
Stored(r, p, x, y, f, v) ==
  /\ r = [j \in 0 .. Terminator |-> r[j]]
  /\ \A j \in 0 .. Terminator : j # x /\ j # y => r[j] = p[j]
  /\ f = 0 => r[x] = (p[x] \div 64) * 64 + v /\ r[y] = p[y]
  /\ f = 6 => r[x] = (p[x] % 64) + (v % 4) * 64 /\ r[y] = (p[y] \div 16) * 16 + (v \div 4)
  /\ f = 4 => r[x] = (p[x] % 16) + (v % 16) * 16 /\ r[y] = (p[y] \div 4) * 4 + (v \div 16)
  /\ f = 2 => r[x] = (p[x] % 4) + v * 4 /\ r[y] = p[y]

LEMMA SetFacts ==
  ASSUME Bits = 6, NEW p \in Block, NEW i, At(i) \in Nat, At(i) + 1 \in 0 .. Terminator,
         NEW v \in 0 .. 63
  PROVE  Stored(SetRegister(p, i, v), p, At(i), At(i) + 1, First(i), v)
<1> DEFINE x == At(i)
           y == At(i) + 1
           a == p[x]
           b == p[y]
<1>x. /\ x \in Nat /\ x \in 0 .. Terminator /\ y \in 0 .. Terminator /\ x # y
      /\ At(i) = x /\ At(i) + 1 = y /\ p[x] = a /\ p[y] = b
  BY TerminatorNat
<1>y. a \in Byte /\ b \in Byte
  BY <1>x DEF Block
<1> HIDE DEF x, y, a, b
<1> DEFINE lo == Clear(a, First(i), First(i) + 6) + LowBits(ShiftLeft(v, First(i)), 8)
           hi == Clear(b, 0, 6 - Rest(i)) + ShiftRight(v, Rest(i))
           r == SetRegister(p, i, v)
<1>1. r = [[p EXCEPT ![x] = lo] EXCEPT ![y] = hi]
  BY <1>x DEF SetRegister, Block
<1>2. a \in Int /\ b \in Int /\ v \in Int
  BY <1>y DEF Byte
<1>3. First(i) = 0 => lo = (a \div 64) * 64 + v /\ hi = b
  <2> SUFFICES ASSUME First(i) = 0 PROVE lo = (a \div 64) * 64 + v /\ hi = b
    OBVIOUS
  <2>1. Rest(i) = 8 /\ First(i) + 6 = 6 /\ 6 - Rest(i) = -2
    BY DEF Rest
  <2>2. lo = Clear(a, 0, 6) + LowBits(ShiftLeft(v, 0), 8)
    BY <2>1
  <2>3. hi = Clear(b, 0, -2) + ShiftRight(v, 8)
    BY <2>1
  <2>4. Clear(b, 0, -2) = b /\ ShiftRight(v, 8) = 0
    BY <1>y, Masks, Parts
  <2>5. Clear(a, 0, 6) = (a \div 64) * 64 /\ LowBits(ShiftLeft(v, 0), 8) = v
    BY <1>y, Masks, Parts
  <2> HIDE DEF lo, hi
  <2> QED
    BY <1>2, <2>2, <2>3, <2>4, <2>5
<1>4. First(i) = 6 => lo = (a % 64) + (v % 4) * 64 /\ hi = (b \div 16) * 16 + (v \div 4)
  <2> SUFFICES ASSUME First(i) = 6
               PROVE  lo = (a % 64) + (v % 4) * 64 /\ hi = (b \div 16) * 16 + (v \div 4)
    OBVIOUS
  <2>1. Rest(i) = 2 /\ First(i) + 6 = 12 /\ 6 - Rest(i) = 4
    BY DEF Rest
  <2>2. lo = Clear(a, 6, 12) + LowBits(ShiftLeft(v, 6), 8)
    BY <2>1
  <2>3. hi = Clear(b, 0, 4) + ShiftRight(v, 2)
    BY <2>1
  <2>4. Clear(a, 6, 12) = a % 64 /\ Clear(b, 0, 4) = (b \div 16) * 16
    BY <1>y, Masks
  <2>5. LowBits(ShiftLeft(v, 6), 8) = (v % 4) * 64 /\ ShiftRight(v, 2) = v \div 4
    BY Parts
  <2> HIDE DEF lo, hi
  <2> QED
    BY <1>2, <2>2, <2>3, <2>4, <2>5
<1>5. First(i) = 4 => lo = (a % 16) + (v % 16) * 16 /\ hi = (b \div 4) * 4 + (v \div 16)
  <2> SUFFICES ASSUME First(i) = 4
               PROVE  lo = (a % 16) + (v % 16) * 16 /\ hi = (b \div 4) * 4 + (v \div 16)
    OBVIOUS
  <2>1. Rest(i) = 4 /\ First(i) + 6 = 10 /\ 6 - Rest(i) = 2
    BY DEF Rest
  <2>2. lo = Clear(a, 4, 10) + LowBits(ShiftLeft(v, 4), 8)
    BY <2>1
  <2>3. hi = Clear(b, 0, 2) + ShiftRight(v, 4)
    BY <2>1
  <2>4. Clear(a, 4, 10) = a % 16 /\ Clear(b, 0, 2) = (b \div 4) * 4
    BY <1>y, Masks
  <2>5. LowBits(ShiftLeft(v, 4), 8) = (v % 16) * 16 /\ ShiftRight(v, 4) = v \div 16
    BY Parts
  <2> HIDE DEF lo, hi
  <2> QED
    BY <1>2, <2>2, <2>3, <2>4, <2>5
<1>6. First(i) = 2 => lo = (a % 4) + v * 4 /\ hi = b
  <2> SUFFICES ASSUME First(i) = 2 PROVE lo = (a % 4) + v * 4 /\ hi = b
    OBVIOUS
  <2>1. Rest(i) = 6 /\ First(i) + 6 = 8 /\ 6 - Rest(i) = 0
    BY DEF Rest
  <2>2. lo = Clear(a, 2, 8) + LowBits(ShiftLeft(v, 2), 8)
    BY <2>1
  <2>3. hi = Clear(b, 0, 0) + ShiftRight(v, 6)
    BY <2>1
  <2>4. Clear(a, 2, 8) = a % 4 /\ Clear(b, 0, 0) = b
    BY <1>y, Masks
  <2>5. LowBits(ShiftLeft(v, 2), 8) = v * 4 /\ ShiftRight(v, 6) = 0
    BY Parts
  <2> HIDE DEF lo, hi
  <2> QED
    BY <1>2, <2>2, <2>3, <2>4, <2>5
<1> HIDE DEF lo, hi, r
<1>7. /\ r[x] = lo /\ r[y] = hi /\ r = [j \in 0 .. Terminator |-> r[j]]
      /\ \A j \in 0 .. Terminator : j # x /\ j # y => r[j] = p[j]
  BY <1>1, <1>x DEF Block
<1>8. Stored(r, p, x, y, First(i), v)
  BY <1>3, <1>4, <1>5, <1>6, <1>7, <1>x DEF Stored
<1> QED
  BY <1>8, <1>x DEF r

\* The registers of a group, from its three bytes.
LEMMA ReadBytes ==
  ASSUME Bits = 6, NEW q \in Nat, NEW p,
         NEW b0 \in Byte, NEW b1 \in Byte, NEW b2 \in Byte, NEW b3 \in Byte,
         p[3 * q] = b0, p[3 * q + 1] = b1, p[3 * q + 2] = b2, p[3 * q + 3] = b3
  PROVE  /\ GetRegister(p, 4 * q) = b0 % 64
         /\ GetRegister(p, 4 * q + 1) = ((b0 \div 64) + b1 * 4) % 64
         /\ GetRegister(p, 4 * q + 2) = ((b1 \div 16) + b2 * 16) % 64
         /\ GetRegister(p, 4 * q + 3) = b2 \div 4
<1> DEFINE x == 3 * q
<1>1. /\ At(4 * q) = x /\ At(4 * q + 1) = x /\ At(4 * q + 2) = x + 1
      /\ At(4 * q + 3) = x + 2 /\ x + 1 + 1 = x + 2 /\ x + 2 + 1 = x + 3
  BY PlaceOf
<1>2. First(4 * q) = 0 /\ First(4 * q + 1) = 6 /\ First(4 * q + 2) = 4 /\ First(4 * q + 3) = 2
  BY PlaceOf
<1>3. p[x] = b0 /\ p[x + 1] = b1 /\ p[x + 2] = b2 /\ p[x + 3] = b3
  OBVIOUS
<1> HIDE DEF x
<1>4. GetRegister(p, 4 * q) = b0 % 64
  BY <1>1, <1>2, <1>3, GetFacts
<1>5. GetRegister(p, 4 * q + 1) = ((b0 \div 64) + b1 * 4) % 64
  BY <1>1, <1>2, <1>3, GetFacts
<1>6. GetRegister(p, 4 * q + 2) = ((b1 \div 16) + b2 * 16) % 64
  BY <1>1, <1>2, <1>3, GetFacts
<1>7. GetRegister(p, 4 * q + 3) = b2 \div 4
  BY <1>1, <1>2, <1>3, GetFacts
<1> QED
  BY <1>4, <1>5, <1>6, <1>7

LEMMA ReadGroup ==
  ASSUME Bits = 6, NEW q \in Nat, NEW p, p[3 * q] \in Byte, p[3 * q + 1] \in Byte,
         p[3 * q + 2] \in Byte, p[3 * q + 3] \in Byte
  PROVE  /\ GetRegister(p, 4 * q) = p[3 * q] % 64
         /\ GetRegister(p, 4 * q + 1) = ((p[3 * q] \div 64) + p[3 * q + 1] * 4) % 64
         /\ GetRegister(p, 4 * q + 2) = ((p[3 * q + 1] \div 16) + p[3 * q + 2] * 16) % 64
         /\ GetRegister(p, 4 * q + 3) = p[3 * q + 2] \div 4
<1> DEFINE b0 == p[3 * q]
           b1 == p[3 * q + 1]
           b2 == p[3 * q + 2]
           b3 == p[3 * q + 3]
<1>1. b0 \in Byte /\ b1 \in Byte /\ b2 \in Byte /\ b3 \in Byte
  OBVIOUS
<1>2. p[3 * q] = b0 /\ p[3 * q + 1] = b1 /\ p[3 * q + 2] = b2 /\ p[3 * q + 3] = b3
  OBVIOUS
<1> HIDE DEF b0, b1, b2, b3
<1>3. /\ GetRegister(p, 4 * q) = b0 % 64
      /\ GetRegister(p, 4 * q + 1) = ((b0 \div 64) + b1 * 4) % 64
      /\ GetRegister(p, 4 * q + 2) = ((b1 \div 16) + b2 * 16) % 64
      /\ GetRegister(p, 4 * q + 3) = b2 \div 4
  BY <1>1, <1>2, ReadBytes
<1> QED
  BY <1>3 DEF b0, b1, b2

\* What a write does to the bytes of a group, by the place it writes to, and
\* what the registers are then.
\* The two bytes of the registers that straddle them, as they are written.
InSecond(n, m, a, b, v) ==
  n = (a % 64) + (v % 4) * 64 /\ m = (b \div 16) * 16 + (v \div 4)

InThird(n, m, a, b, v) ==
  n = (a % 16) + (v % 16) * 16 /\ m = (b \div 4) * 4 + (v \div 16)

LEMMA WriteSecond ==
  ASSUME NEW a \in Byte, NEW b \in Byte, NEW v \in 0 .. 63,
         NEW n, NEW m, InSecond(n, m, a, b, v)
  PROVE  /\ n \in Byte /\ m \in Byte /\ n % 64 = a % 64
         /\ ((n \div 64) + m * 4) % 64 = v /\ m \div 16 = b \div 16
<1>1. n \in Byte /\ n % 64 = a % 64 /\ n \div 64 = v % 4
  BY DEF Byte, InSecond
<1>2. m \in Byte /\ m \div 16 = b \div 16 /\ m % 16 = v \div 4
  BY DEF Byte, InSecond
<1>3. ((v % 4) + m * 4) % 64 = (v % 4) + (m % 16) * 4
  BY <1>2 DEF Byte
<1>4. ((n \div 64) + m * 4) % 64 = v
  BY <1>1, <1>2, <1>3
<1> QED
  BY <1>1, <1>2, <1>4

LEMMA WriteThird ==
  ASSUME NEW a \in Byte, NEW b \in Byte, NEW v \in 0 .. 63, NEW c \in Byte,
         NEW n, NEW m, InThird(n, m, a, b, v)
  PROVE  /\ n \in Byte /\ m \in Byte
         /\ ((c \div 64) + n * 4) % 64 = ((c \div 64) + a * 4) % 64
         /\ ((n \div 16) + m * 16) % 64 = v /\ m \div 4 = b \div 4
<1>1. n \in Byte /\ n % 16 = a % 16 /\ n \div 16 = v % 16
  BY DEF Byte, InThird
<1>2. m \in Byte /\ m \div 4 = b \div 4 /\ m % 4 = v \div 16
  BY DEF Byte, InThird
<1>3. ((v % 16) + m * 16) % 64 = (v % 16) + (m % 4) * 16
  BY <1>2 DEF Byte
<1>4. ((n \div 16) + m * 16) % 64 = v
  BY <1>1, <1>2, <1>3
<1>5. ((c \div 64) + n * 4) % 64 = ((c \div 64) + a * 4) % 64
  <2>1. c \div 64 \in 0 .. 3
    BY DEF Byte, InThird
  <2>2. ASSUME NEW d \in 0 .. 3, NEW e \in Byte
        PROVE  (d + e * 4) % 64 = d + (e % 16) * 4
    BY DEF Byte, InThird
  <2> QED
    BY <1>1, <2>1, <2>2
<1> QED
  BY <1>1, <1>2, <1>4, <1>5

LEMMA WriteFourth ==
  ASSUME NEW a \in Byte, NEW v \in 0 .. 63, NEW c \in Byte, NEW n, n = (a % 4) + v * 4
  PROVE  /\ n \in Byte /\ n \div 4 = v
         /\ ((c \div 16) + n * 16) % 64 = ((c \div 16) + a * 16) % 64
<1>1. n \in Byte /\ n \div 4 = v /\ n % 4 = a % 4
  BY DEF Byte
<1>2. c \div 16 \in 0 .. 15
  BY DEF Byte
<1>3. ASSUME NEW d \in 0 .. 15, NEW e \in Byte
      PROVE  (d + e * 16) % 64 = d + (e % 4) * 16
  BY DEF Byte
<1> QED
  BY <1>1, <1>2, <1>3

\* The three bytes of a group, as numbers.
\* The four places of a group.
LEMMA FourPlaces ==
  ASSUME NEW q \in Nat, NEW k \in 4 * q .. 4 * q + 3
  PROVE  k \in {4 * q, 4 * q + 1, 4 * q + 2, 4 * q + 3}
OBVIOUS

LEMMA GroupBytes ==
  ASSUME Bits = 6, NEW p \in Block, NEW q \in Nat, 3 * q + 2 < Terminator
  PROVE  /\ p[3 * q] \in Byte /\ p[3 * q + 1] \in Byte
         /\ p[3 * q + 2] \in Byte /\ p[3 * q + 3] \in Byte
<1>1. Terminator \in Nat
  BY TerminatorNat
<1>2. {3 * q, 3 * q + 1, 3 * q + 2, 3 * q + 3} \subseteq 0 .. Terminator
  BY <1>1
<1> QED
  BY <1>2 DEF Block

\* Another group has other bytes.
LEMMA Apart ==
  ASSUME NEW q \in Nat, NEW g \in Nat, q # g
  PROVE  \A n, m \in 0 .. 2 : 3 * q + n # 3 * g + m
OBVIOUS

\* The macro as an assignment, within a group: it changes bytes of the group
\* only, and of the four registers only the one it writes.
WrittenAt(p, q, r, i, v) ==
  /\ r \in Block
  /\ \A j \in 0 .. Terminator :
       j \notin {3 * q, 3 * q + 1, 3 * q + 2} => r[j] = p[j]
  /\ \A k \in 4 * q .. 4 * q + 3 :
       GetRegister(r, k) = IF k = i THEN v ELSE GetRegister(p, k)

\* The same in terms of the bytes at x, x + 1 and x + 2; n is the place.
Rewritten(p, r, x, n, v) ==
  /\ r = [j \in 0 .. Terminator |-> r[j]]
  /\ \A j \in 0 .. Terminator : j \notin {x, x + 1, x + 2} => r[j] = p[j]
  /\ r[x] \in Byte /\ r[x + 1] \in Byte /\ r[x + 2] \in Byte
  /\ r[x] % 64 = IF n = 0 THEN v ELSE p[x] % 64
  /\ ((r[x] \div 64) + r[x + 1] * 4) % 64 =
       IF n = 1 THEN v ELSE ((p[x] \div 64) + p[x + 1] * 4) % 64
  /\ ((r[x + 1] \div 16) + r[x + 2] * 16) % 64 =
       IF n = 2 THEN v ELSE ((p[x + 1] \div 16) + p[x + 2] * 16) % 64
  /\ r[x + 2] \div 4 = IF n = 3 THEN v ELSE p[x + 2] \div 4

LEMMA ByBytes ==
  ASSUME Bits = 6, NEW p \in Block, NEW q \in Nat, 3 * q + 2 < Terminator,
         NEW r, NEW v, NEW n \in 0 .. 3, Rewritten(p, r, 3 * q, n, v)
  PROVE  WrittenAt(p, q, r, 4 * q + n, v)
<1>1. ASSUME NEW j \in 0 .. Terminator PROVE r[j] \in Byte
  <2>1. CASE j \in {3 * q, 3 * q + 1, 3 * q + 2}
    BY <2>1 DEF Rewritten
  <2>2. CASE j \notin {3 * q, 3 * q + 1, 3 * q + 2}
    BY <2>2 DEF Block, Rewritten
  <2> QED
    BY <2>1, <2>2
<1>2. r \in Block
  BY <1>1 DEF Block, Rewritten
<1>3. /\ GetRegister(p, 4 * q) = p[3 * q] % 64
      /\ GetRegister(p, 4 * q + 1) = ((p[3 * q] \div 64) + p[3 * q + 1] * 4) % 64
      /\ GetRegister(p, 4 * q + 2) = ((p[3 * q + 1] \div 16) + p[3 * q + 2] * 16) % 64
      /\ GetRegister(p, 4 * q + 3) = p[3 * q + 2] \div 4
  <2>1. /\ p[3 * q] \in Byte /\ p[3 * q + 1] \in Byte
        /\ p[3 * q + 2] \in Byte /\ p[3 * q + 3] \in Byte
    BY GroupBytes
  <2> QED
    BY <2>1, ReadGroup
<1>4. /\ GetRegister(r, 4 * q) = r[3 * q] % 64
      /\ GetRegister(r, 4 * q + 1) = ((r[3 * q] \div 64) + r[3 * q + 1] * 4) % 64
      /\ GetRegister(r, 4 * q + 2) = ((r[3 * q + 1] \div 16) + r[3 * q + 2] * 16) % 64
      /\ GetRegister(r, 4 * q + 3) = r[3 * q + 2] \div 4
  <2>1. /\ r[3 * q] \in Byte /\ r[3 * q + 1] \in Byte
        /\ r[3 * q + 2] \in Byte /\ r[3 * q + 3] \in Byte
    BY <1>2, GroupBytes
  <2> QED
    BY <2>1, ReadGroup
<1>5. /\ GetRegister(r, 4 * q) = IF n = 0 THEN v ELSE GetRegister(p, 4 * q)
      /\ GetRegister(r, 4 * q + 1) = IF n = 1 THEN v ELSE GetRegister(p, 4 * q + 1)
      /\ GetRegister(r, 4 * q + 2) = IF n = 2 THEN v ELSE GetRegister(p, 4 * q + 2)
      /\ GetRegister(r, 4 * q + 3) = IF n = 3 THEN v ELSE GetRegister(p, 4 * q + 3)
  BY <1>3, <1>4 DEF Rewritten
<1>6. ASSUME NEW k \in 4 * q .. 4 * q + 3
      PROVE  GetRegister(r, k) = IF k = 4 * q + n THEN v ELSE GetRegister(p, k)
  <2>1. k \in {4 * q, 4 * q + 1, 4 * q + 2, 4 * q + 3}
    BY FourPlaces
  <2> QED
    BY <1>5, <2>1
<1>7. \A j \in 0 .. Terminator :
        j \notin {3 * q, 3 * q + 1, 3 * q + 2} => r[j] = p[j]
  BY DEF Rewritten
<1> QED
  BY <1>2, <1>6, <1>7 DEF WrittenAt

\* A write at each of the four places of a group at x.
LEMMA FourWrites ==
  ASSUME Bits = 6, NEW p \in Block, NEW x \in Nat, x + 3 \in 0 .. Terminator, NEW r,
         NEW v \in 0 .. 63
  PROVE  /\ Stored(r, p, x, x + 1, 0, v) => Rewritten(p, r, x, 0, v)
         /\ Stored(r, p, x, x + 1, 6, v) => Rewritten(p, r, x, 1, v)
         /\ Stored(r, p, x + 1, x + 2, 4, v) => Rewritten(p, r, x, 2, v)
         /\ Stored(r, p, x + 2, x + 3, 2, v) => Rewritten(p, r, x, 3, v)
<1> DEFINE a == p[x]
           b == p[x + 1]
           c == p[x + 2]
           n == r[x]
           m == r[x + 1]
           l == r[x + 2]
<1>1. /\ a \in Byte /\ b \in Byte /\ c \in Byte
      /\ x \in 0 .. Terminator /\ x + 1 \in 0 .. Terminator /\ x + 2 \in 0 .. Terminator
  BY TerminatorNat DEF Block
<1>2. ASSUME Stored(r, p, x, x + 1, 0, v) PROVE Rewritten(p, r, x, 0, v)
  <2>1. n = (a \div 64) * 64 + v /\ m = b /\ l = c
    BY <1>1, <1>2 DEF Stored
  <2>2. /\ r = [j \in 0 .. Terminator |-> r[j]]
        /\ \A j \in 0 .. Terminator : j \notin {x, x + 1, x + 2} => r[j] = p[j]
    BY <1>2 DEF Stored
  <2> HIDE DEF a, b, c, n, m, l
  <2>3. n \in Byte /\ n % 64 = v /\ n \div 64 = a \div 64
    BY <1>1, <2>1 DEF Byte
  <2>4. /\ n \in Byte /\ m \in Byte /\ l \in Byte /\ n % 64 = v
        /\ ((n \div 64) + m * 4) % 64 = ((a \div 64) + b * 4) % 64
        /\ ((m \div 16) + l * 16) % 64 = ((b \div 16) + c * 16) % 64
        /\ l \div 4 = c \div 4
    BY <1>1, <2>1, <2>3
  <2> QED
    BY <2>2, <2>4 DEF Rewritten, a, b, c, n, m, l
<1>3. ASSUME Stored(r, p, x, x + 1, 6, v) PROVE Rewritten(p, r, x, 1, v)
  <2>1. n = (a % 64) + (v % 4) * 64 /\ m = (b \div 16) * 16 + (v \div 4) /\ l = c
    BY <1>1, <1>3 DEF Stored
  <2>2. /\ r = [j \in 0 .. Terminator |-> r[j]]
        /\ \A j \in 0 .. Terminator : j \notin {x, x + 1, x + 2} => r[j] = p[j]
    BY <1>3 DEF Stored
  <2> HIDE DEF a, b, c, n, m, l
  <2>a. InSecond(n, m, a, b, v)
    BY <2>1 DEF InSecond
  <2>3. /\ n \in Byte /\ m \in Byte /\ n % 64 = a % 64
        /\ ((n \div 64) + m * 4) % 64 = v /\ m \div 16 = b \div 16
    BY <1>1, <2>a, WriteSecond
  <2>4. /\ n \in Byte /\ m \in Byte /\ l \in Byte /\ n % 64 = a % 64
        /\ ((n \div 64) + m * 4) % 64 = v
        /\ ((m \div 16) + l * 16) % 64 = ((b \div 16) + c * 16) % 64
        /\ l \div 4 = c \div 4
    BY <1>1, <2>1, <2>3
  <2> QED
    BY <2>2, <2>4 DEF Rewritten, a, b, c, n, m, l
<1>4. ASSUME Stored(r, p, x + 1, x + 2, 4, v) PROVE Rewritten(p, r, x, 2, v)
  <2>1. n = a /\ m = (b % 16) + (v % 16) * 16 /\ l = (c \div 4) * 4 + (v \div 16)
    BY <1>1, <1>4 DEF Stored
  <2>2. /\ r = [j \in 0 .. Terminator |-> r[j]]
        /\ \A j \in 0 .. Terminator : j \notin {x, x + 1, x + 2} => r[j] = p[j]
    BY <1>4 DEF Stored
  <2> HIDE DEF a, b, c, n, m, l
  <2>a. InThird(m, l, b, c, v)
    BY <2>1 DEF InThird
  <2>3. /\ m \in Byte /\ l \in Byte
        /\ ((a \div 64) + m * 4) % 64 = ((a \div 64) + b * 4) % 64
        /\ ((m \div 16) + l * 16) % 64 = v /\ l \div 4 = c \div 4
    BY <1>1, <2>a, WriteThird
  <2>4. /\ n \in Byte /\ m \in Byte /\ l \in Byte /\ n % 64 = a % 64
        /\ ((n \div 64) + m * 4) % 64 = ((a \div 64) + b * 4) % 64
        /\ ((m \div 16) + l * 16) % 64 = v
        /\ l \div 4 = c \div 4
    BY <1>1, <2>1, <2>3
  <2> QED
    BY <2>2, <2>4 DEF Rewritten, a, b, c, n, m, l
<1>5. ASSUME Stored(r, p, x + 2, x + 3, 2, v) PROVE Rewritten(p, r, x, 3, v)
  <2>1. n = a /\ m = b /\ l = (c % 4) + v * 4
    BY <1>1, <1>5 DEF Stored
  <2>2. /\ r = [j \in 0 .. Terminator |-> r[j]]
        /\ \A j \in 0 .. Terminator : j \notin {x, x + 1, x + 2} => r[j] = p[j]
    BY <1>5 DEF Stored
  <2> HIDE DEF a, b, c, n, m, l
  <2>3. /\ l \in Byte /\ l \div 4 = v
        /\ ((b \div 16) + l * 16) % 64 = ((b \div 16) + c * 16) % 64
    BY <1>1, <2>1, WriteFourth
  <2>4. /\ n \in Byte /\ m \in Byte /\ l \in Byte /\ n % 64 = a % 64
        /\ ((n \div 64) + m * 4) % 64 = ((a \div 64) + b * 4) % 64
        /\ ((m \div 16) + l * 16) % 64 = ((b \div 16) + c * 16) % 64
        /\ l \div 4 = v
    BY <1>1, <2>1, <2>3
  <2> QED
    BY <2>2, <2>4 DEF Rewritten, a, b, c, n, m, l
<1> QED
  BY <1>2, <1>3, <1>4, <1>5

LEMMA WriteGroup ==
  ASSUME Bits = 6, NEW p \in Block, NEW q \in Nat, 3 * q + 2 < Terminator,
         NEW i \in 4 * q .. 4 * q + 3, NEW v \in 0 .. 63
  PROVE  WrittenAt(p, q, SetRegister(p, i, v), i, v)
<1> DEFINE r == SetRegister(p, i, v)
           x == 3 * q
<1>1. /\ x \in Nat /\ x + 3 \in 0 .. Terminator /\ x + 1 \in 0 .. Terminator
      /\ x + 2 \in 0 .. Terminator /\ x + 1 + 1 = x + 2 /\ x + 2 + 1 = x + 3
      /\ x + 1 \in Nat /\ x + 2 \in Nat
  BY TerminatorNat
<1>2. i \in {4 * q, 4 * q + 1, 4 * q + 2, 4 * q + 3}
  BY FourPlaces
<1>3. /\ At(4 * q) = x /\ At(4 * q + 1) = x /\ At(4 * q + 2) = x + 1 /\ At(4 * q + 3) = x + 2
      /\ First(4 * q) = 0 /\ First(4 * q + 1) = 6
      /\ First(4 * q + 2) = 4 /\ First(4 * q + 3) = 2
  BY PlaceOf
<1>4. \A n \in 0 .. 3 : Rewritten(p, r, x, n, v) => WrittenAt(p, q, r, 4 * q + n, v)
  BY ByBytes
<1> HIDE DEF x, r
<1>5. CASE i = 4 * q
  <2>1. Stored(r, p, x, x + 1, 0, v)
    BY <1>1, <1>3, <1>5, SetFacts DEF r
  <2>2. Rewritten(p, r, x, 0, v)
    BY <1>1, <2>1, FourWrites
  <2> QED
    BY <1>4, <1>5, <2>2 DEF r
<1>6. CASE i = 4 * q + 1
  <2>1. Stored(r, p, x, x + 1, 6, v)
    BY <1>1, <1>3, <1>6, SetFacts DEF r
  <2>2. Rewritten(p, r, x, 1, v)
    BY <1>1, <2>1, FourWrites
  <2> QED
    BY <1>4, <1>6, <2>2 DEF r
<1>7. CASE i = 4 * q + 2
  <2>1. Stored(r, p, x + 1, x + 2, 4, v)
    BY <1>1, <1>3, <1>7, SetFacts DEF r
  <2>2. Rewritten(p, r, x, 2, v)
    BY <1>1, <2>1, FourWrites
  <2> QED
    BY <1>4, <1>7, <2>2 DEF r
<1>8. CASE i = 4 * q + 3
  <2>1. Stored(r, p, x + 2, x + 3, 2, v)
    BY <1>1, <1>3, <1>8, SetFacts DEF r
  <2>2. Rewritten(p, r, x, 3, v)
    BY <1>1, <2>1, FourWrites
  <2> QED
    BY <1>4, <1>8, <2>2 DEF r
<1> QED
  BY <1>2, <1>5, <1>6, <1>7, <1>8 DEF r

-----------------------------------------------------------------------------
(* The registers are an array.                                             *)

\* r has the registers of p, but v at i, and the terminator of p.
Assigned(r, p, i, v) ==
  /\ r \in Block /\ r[Terminator] = p[Terminator]
  /\ \A k \in Index : GetRegister(r, k) = IF k = i THEN v ELSE GetRegister(p, k)

LEMMA Writing ==
  ASSUME Bits = 6, NEW p \in Block, NEW i \in Index, NEW v \in 0 .. 63
  PROVE  Assigned(SetRegister(p, i, v), p, i, v)
<1> DEFINE r == SetRegister(p, i, v)
<1>1. PICK q \in Nat : i \in 4 * q .. 4 * q + 3 /\ 3 * q + 2 < Terminator
  BY Places
<1>2. WrittenAt(p, q, r, i, v)
  BY <1>1, WriteGroup
<1> HIDE DEF r
<1>3. r \in Block
  BY <1>2 DEF WrittenAt
<1>4. r[Terminator] = p[Terminator]
  <2>1. Terminator \in 0 .. Terminator /\ Terminator \notin {3 * q, 3 * q + 1, 3 * q + 2}
    BY <1>1, TerminatorNat
  <2> QED
    BY <1>2, <2>1 DEF WrittenAt
<1>5. ASSUME NEW k \in Index
      PROVE  GetRegister(r, k) = IF k = i THEN v ELSE GetRegister(p, k)
  <2>1. PICK g \in Nat : k \in 4 * g .. 4 * g + 3 /\ 3 * g + 2 < Terminator
    BY Places
  <2>2. CASE g = q
    BY <1>2, <2>1, <2>2 DEF WrittenAt
  <2>3. CASE g # q
    <3>1. k # i
      BY <1>1, <2>1, <2>3
    <3>2. r[3 * g] = p[3 * g] /\ r[3 * g + 1] = p[3 * g + 1] /\ r[3 * g + 2] = p[3 * g + 2]
      <4>1. /\ 3 * g \in 0 .. Terminator /\ 3 * g + 1 \in 0 .. Terminator
            /\ 3 * g + 2 \in 0 .. Terminator
        BY <2>1, TerminatorNat
      <4>2. /\ 3 * g \notin {3 * q, 3 * q + 1, 3 * q + 2}
            /\ 3 * g + 1 \notin {3 * q, 3 * q + 1, 3 * q + 2}
            /\ 3 * g + 2 \notin {3 * q, 3 * q + 1, 3 * q + 2}
        BY <2>3
      <4> QED
        BY <1>2, <4>1, <4>2 DEF WrittenAt
    <3>3. /\ p[3 * g] \in Byte /\ p[3 * g + 1] \in Byte
          /\ p[3 * g + 2] \in Byte /\ p[3 * g + 3] \in Byte
      BY <2>1, GroupBytes
    <3>4. /\ r[3 * g] \in Byte /\ r[3 * g + 1] \in Byte
          /\ r[3 * g + 2] \in Byte /\ r[3 * g + 3] \in Byte
      BY <1>3, <2>1, GroupBytes
    <3>5. /\ GetRegister(p, 4 * g) = p[3 * g] % 64
          /\ GetRegister(p, 4 * g + 1) = ((p[3 * g] \div 64) + p[3 * g + 1] * 4) % 64
          /\ GetRegister(p, 4 * g + 2) = ((p[3 * g + 1] \div 16) + p[3 * g + 2] * 16) % 64
          /\ GetRegister(p, 4 * g + 3) = p[3 * g + 2] \div 4
      BY <3>3, ReadGroup
    <3>6. /\ GetRegister(r, 4 * g) = r[3 * g] % 64
          /\ GetRegister(r, 4 * g + 1) = ((r[3 * g] \div 64) + r[3 * g + 1] * 4) % 64
          /\ GetRegister(r, 4 * g + 2) = ((r[3 * g + 1] \div 16) + r[3 * g + 2] * 16) % 64
          /\ GetRegister(r, 4 * g + 3) = r[3 * g + 2] \div 4
      BY <3>4, ReadGroup
    <3>7. /\ GetRegister(r, 4 * g) = GetRegister(p, 4 * g)
          /\ GetRegister(r, 4 * g + 1) = GetRegister(p, 4 * g + 1)
          /\ GetRegister(r, 4 * g + 2) = GetRegister(p, 4 * g + 2)
          /\ GetRegister(r, 4 * g + 3) = GetRegister(p, 4 * g + 3)
      BY <3>2, <3>5, <3>6
    <3>8. k \in {4 * g, 4 * g + 1, 4 * g + 2, 4 * g + 3}
      BY <2>1, FourPlaces
    <3> QED
      BY <3>1, <3>7, <3>8
  <2> QED
    BY <2>2, <2>3
<1> QED
  BY <1>3, <1>4, <1>5 DEF r, Assigned

\* hllDenseSum's unrolled loop and the macro read the same numbers.
LEMMA Reading ==
  ASSUME Bits = 6, NEW p \in Block, NEW i \in Index
  PROVE  GetRegister(p, i) \in 0 .. 63 /\ UnrolledRead(p, i) = GetRegister(p, i)
<1>1. PICK q \in Nat : i \in 4 * q .. 4 * q + 3 /\ 3 * q + 2 < Terminator
  BY Places
<1> DEFINE a == p[3 * q]
           b == p[3 * q + 1]
           c == p[3 * q + 2]
<1>2. a \in Byte /\ b \in Byte /\ c \in Byte /\ p[3 * q + 3] \in Byte
  BY <1>1, GroupBytes
<1>3. /\ GetRegister(p, 4 * q) = a % 64
      /\ GetRegister(p, 4 * q + 1) = ((a \div 64) + b * 4) % 64
      /\ GetRegister(p, 4 * q + 2) = ((b \div 16) + c * 16) % 64
      /\ GetRegister(p, 4 * q + 3) = c \div 4
  BY <1>2, ReadGroup
<1>4. i \in {4 * q, 4 * q + 1, 4 * q + 2, 4 * q + 3}
  BY <1>1, FourPlaces
<1>5. i \div 4 = q /\ i \in Nat
  BY <1>1
<1>6. /\ i = 4 * q => i % 4 = 0
      /\ i = 4 * q + 1 => i % 4 = 1
      /\ i = 4 * q + 2 => i % 4 = 2
      /\ i = 4 * q + 3 => i % 4 = 3
  BY <1>1
<1> DEFINE d == i % 4
           U == CASE d = 0 -> LowBits(a, 6)
                  [] d = 1 -> LowBits(ShiftRight(a, 6) + ShiftLeft(b, 2), 6)
                  [] d = 2 -> LowBits(ShiftRight(b, 4) + ShiftLeft(c, 4), 6)
                  [] d = 3 -> LowBits(ShiftRight(c, 2), 6)
<1>7. UnrolledRead(p, i) = U
  BY <1>5 DEF UnrolledRead
<1>8. d = i % 4
  OBVIOUS
<1> HIDE DEF a, b, c, d
<1>9. a \in Int /\ b \in Int /\ c \in Int
  BY <1>2 DEF Byte
<1>10. /\ ShiftRight(a, 6) = a \div 64 /\ ShiftRight(b, 4) = b \div 16
       /\ ShiftRight(c, 2) = c \div 4
  <2>1. \A v \in Int : ShiftRight(v, 6) = v \div 64
    BY RightShifts
  <2>2. \A v \in Int : ShiftRight(v, 4) = v \div 16
    BY RightShifts
  <2>3. \A v \in Int : ShiftRight(v, 2) = v \div 4
    BY RightShifts
  <2> QED
    BY <1>9, <2>1, <2>2, <2>3
<1>11. ShiftLeft(b, 2) = b * 4 /\ ShiftLeft(c, 4) = c * 16
  BY <1>9, LeftShifts
<1>12. /\ LowBits(a, 6) = a % 64 /\ LowBits(c \div 4, 6) = (c \div 4) % 64
       /\ LowBits((a \div 64) + b * 4, 6) = ((a \div 64) + b * 4) % 64
       /\ LowBits((b \div 16) + c * 16, 6) = ((b \div 16) + c * 16) % 64
  <2>1. /\ c \div 4 \in Int /\ (a \div 64) + b * 4 \in Int /\ (b \div 16) + c * 16 \in Int
    BY <1>9
  <2>2. \A v \in Int : LowBits(v, 6) = v % 64
    BY LowParts
  <2> QED
    BY <1>9, <2>1, <2>2
<1>13. (c \div 4) % 64 = c \div 4
  BY <1>2 DEF Byte
<1>14. CASE i = 4 * q
  <2>1. d = 0
    BY <1>6, <1>8, <1>14
  <2>2. U = LowBits(a, 6)
    BY <2>1
  <2>3. a % 64 \in 0 .. 63
    BY <1>9
  <2> QED
    BY <1>3, <1>7, <1>12, <1>14, <2>2, <2>3
<1>15. CASE i = 4 * q + 1
  <2>1. d = 1
    BY <1>6, <1>8, <1>15
  <2>2. U = LowBits(ShiftRight(a, 6) + ShiftLeft(b, 2), 6)
    BY <2>1
  <2>3. ((a \div 64) + b * 4) % 64 \in 0 .. 63
    BY <1>9
  <2> QED
    BY <1>3, <1>7, <1>10, <1>11, <1>12, <1>15, <2>2, <2>3
<1>16. CASE i = 4 * q + 2
  <2>1. d = 2
    BY <1>6, <1>8, <1>16
  <2>2. U = LowBits(ShiftRight(b, 4) + ShiftLeft(c, 4), 6)
    BY <2>1
  <2>3. ((b \div 16) + c * 16) % 64 \in 0 .. 63
    BY <1>9
  <2> QED
    BY <1>3, <1>7, <1>10, <1>11, <1>12, <1>16, <2>2, <2>3
<1>17. CASE i = 4 * q + 3
  <2>1. d = 3
    BY <1>6, <1>8, <1>17
  <2>2. U = LowBits(ShiftRight(c, 2), 6)
    BY <2>1
  <2>3. c \div 4 \in 0 .. 63
    BY <1>2 DEF Byte
  <2> QED
    BY <1>3, <1>7, <1>10, <1>12, <1>13, <1>17, <2>2, <2>3
<1> QED
  BY <1>4, <1>14, <1>15, <1>16, <1>17

-----------------------------------------------------------------------------
Array == TypeOK /\ PackedArray

LEMMA Values == Bits = 6 => RegisterMax = 63 /\ Inputs \subseteq 0 .. 63
BY Powers, DenseAssumption DEF RegisterMax

LEMMA InitArray == Bits = 6 /\ Init => Array
<1> SUFFICES ASSUME Bits = 6, Init PROVE Array
  OBVIOUS
<1>1. bytes \in Block /\ regs \in [Index -> 0 .. RegisterMax]
  BY Values DEF Init, Block, Byte
<1>2. bytes[Terminator] = 0
  BY TerminatorNat DEF Init
<1>3. ASSUME NEW i \in Index PROVE GetRegister(bytes, i) = regs[i]
  <2>1. PICK q \in Nat : i \in 4 * q .. 4 * q + 3 /\ 3 * q + 2 < Terminator
    BY Places
  <2>2. /\ bytes[3 * q] = 0 /\ bytes[3 * q + 1] = 0
        /\ bytes[3 * q + 2] = 0 /\ bytes[3 * q + 3] = 0
    BY <2>1, TerminatorNat DEF Init
  <2>3. 0 \in Byte
    BY DEF Byte
  <2>4. /\ GetRegister(bytes, 4 * q) = bytes[3 * q] % 64
        /\ GetRegister(bytes, 4 * q + 1) =
             ((bytes[3 * q] \div 64) + bytes[3 * q + 1] * 4) % 64
        /\ GetRegister(bytes, 4 * q + 2) =
             ((bytes[3 * q + 1] \div 16) + bytes[3 * q + 2] * 16) % 64
        /\ GetRegister(bytes, 4 * q + 3) = bytes[3 * q + 2] \div 4
    BY <2>2, <2>3, ReadGroup
  <2>5. i \in {4 * q, 4 * q + 1, 4 * q + 2, 4 * q + 3}
    BY <2>1, FourPlaces
  <2>6. GetRegister(bytes, i) = 0
    BY <2>2, <2>4, <2>5
  <2> QED
    BY <2>6 DEF Init
<1> QED
  BY <1>1, <1>2, <1>3 DEF Array, TypeOK, PackedArray, Block

LEMMA WriteArray ==
  ASSUME Bits = 6, Array, NEW i \in Index, NEW v \in Inputs, Write(i, v)
  PROVE  Array'
<1>1. bytes \in Block /\ v \in 0 .. 63 /\ regs \in [Index -> 0 .. 63]
  BY Values DEF Array, TypeOK, Block
<1> DEFINE r == SetRegister(bytes, i, v)
<1>2. /\ r \in Block /\ r[Terminator] = bytes[Terminator]
      /\ \A k \in Index : GetRegister(r, k) = IF k = i THEN v ELSE GetRegister(bytes, k)
  <2>1. Assigned(r, bytes, i, v)
    BY <1>1, Writing
  <2> QED
    BY <2>1 DEF Assigned
<1>3. bytes' = r /\ regs' = [regs EXCEPT ![i] = v]
  BY DEF Write
<1> HIDE DEF r
<1>4. regs' \in [Index -> 0 .. 63]
  BY <1>1, <1>3
<1>5. ASSUME NEW k \in Index PROVE GetRegister(r, k) = regs'[k]
  BY <1>1, <1>2, <1>3 DEF Array, PackedArray
<1> QED
  BY <1>2, <1>3, <1>4, <1>5, Values DEF Array, TypeOK, PackedArray, Block

LEMMA DenseAddArray ==
  ASSUME Bits = 6, Array, NEW i \in Index, NEW v \in Inputs, DenseAdd(i, v)
  PROVE  Array'
<1>1. CASE v > GetRegister(bytes, i)
  <2>1. Write(i, v)
    BY <1>1 DEF DenseAdd, Write
  <2> QED
    BY <2>1, WriteArray
<1>2. CASE ~(v > GetRegister(bytes, i))
  BY <1>2 DEF DenseAdd, Array, TypeOK, PackedArray
<1> QED
  BY <1>1, <1>2

-----------------------------------------------------------------------------
(* The sum of the array of a merged count, in words of eight registers.    *)

\* The registers of the words of s that are zero.
Zeros(array, s) == {i \in Index : array[i] = 0 /\ \E w \in s : i \in Word(w)}

Words == 0 .. (Registers \div 8) - 1

LEMMA WordsAre ==
  /\ Words \in SUBSET Nat /\ IsFiniteSet(Words)
  /\ \A w \in Words : Word(w) \subseteq Index
  /\ \A i \in Index : \E w \in Words : i \in Word(w)
<1> DEFINE n == Registers \div 8
<1>1. Registers \in Nat /\ Registers % 8 = 0
  BY DenseAssumption, CountAssumption
<1>2. n \in Nat /\ Registers = 8 * n /\ Words = 0 .. n - 1
  BY <1>1 DEF Words
<1> HIDE DEF n
<1>3. Words \in SUBSET Nat /\ IsFiniteSet(Words)
  BY <1>2, FS_Interval
<1>4. ASSUME NEW w \in Words PROVE Word(w) \subseteq Index
  BY <1>2 DEF Word, Index
<1>5. ASSUME NEW i \in Index PROVE \E w \in Words : i \in Word(w)
  <2> DEFINE w == i \div 8
  <2>1. i \in Nat /\ i < 8 * n
    BY <1>2 DEF Index
  <2>2. w \in Nat /\ 8 * w <= i /\ i <= 8 * w + 7
    BY <2>1
  <2> HIDE DEF w
  <2>3. w \in Words /\ i \in Word(w)
    BY <1>2, <2>1, <2>2 DEF Word
  <2> QED
    BY <2>3
<1> QED
  BY <1>3, <1>4, <1>5

LEMMA IndexFinite == IsFiniteSet(Index)
BY DenseAssumption, FS_Interval DEF Index

LEMMA ZerosFinite ==
  ASSUME NEW array, NEW s
  PROVE  IsFiniteSet(Zeros(array, s)) /\ Cardinality(Zeros(array, s)) \in Nat
<1>1. Zeros(array, s) \in SUBSET Index
  BY DEF Zeros
<1>2. IsFiniteSet(Zeros(array, s))
  BY <1>1, IndexFinite, FS_Subset
<1> QED
  BY <1>2, FS_CardinalityType

\* What one turn of the loop adds are the zeros of its word.
LEMMA WordZeros ==
  ASSUME NEW array, NEW w \in Words
  PROVE  EmptyInWord(array, w) = Cardinality(Zeros(array, {w}))
<1>1. Word(w) \subseteq Index /\ w \in Nat
  BY WordsAre
<1>2. Zeros(array, {w}) = {i \in Word(w) : array[i] = 0}
  BY <1>1 DEF Zeros
<1>3. CASE \A i \in Word(w) : array[i] = 0
  <2>1. Zeros(array, {w}) = 8 * w .. 8 * w + 7
    BY <1>2, <1>3 DEF Word
  <2>2. 8 * w \in Int /\ 8 * w + 7 \in Int
    BY <1>1
  <2>3. Cardinality(8 * w .. 8 * w + 7) = 8
    <3> DEFINE a == 8 * w
               b == 8 * w + 7
    <3>1. Cardinality(a .. b) = IF a > b THEN 0 ELSE b - a + 1
      BY <2>2, FS_Interval
    <3> QED
      BY <1>1, <3>1
  <2> QED
    BY <1>3, <2>1, <2>3 DEF EmptyInWord
<1>4. CASE ~(\A i \in Word(w) : array[i] = 0)
  BY <1>2, <1>4 DEF EmptyInWord
<1> QED
  BY <1>3, <1>4

\* One word more.
LEMMA ZerosAdd ==
  ASSUME NEW array, NEW s \in SUBSET Words, NEW w \in s
  PROVE  Cardinality(Zeros(array, s)) =
           EmptyInWord(array, w) + Cardinality(Zeros(array, s \ {w}))
<1> DEFINE A == Zeros(array, {w})
           B == Zeros(array, s \ {w})
<1>1. Zeros(array, s) = A \cup B
  BY DEF Zeros
<1>2. A \cap B = {}
  <2>1. ASSUME NEW i \in A, i \in B PROVE FALSE
    <3>1. i \in Word(w)
      BY DEF Zeros
    <3>2. PICK u \in s \ {w} : i \in Word(u)
      BY <2>1 DEF Zeros
    <3>3. u \in Nat /\ w \in Nat /\ u # w
      BY WordsAre
    <3> QED
      BY <3>1, <3>2, <3>3 DEF Word
  <2> QED
    BY <2>1
<1>3. /\ IsFiniteSet(A) /\ IsFiniteSet(B)
      /\ Cardinality(A) \in Nat /\ Cardinality(B) \in Nat
  BY ZerosFinite
<1>4. EmptyInWord(array, w) = Cardinality(A)
  BY WordZeros
<1> HIDE DEF A, B
<1>5. Cardinality(A \cup B) = Cardinality(A) + Cardinality(B) - Cardinality(A \cap B)
  BY <1>3, FS_Union
<1>6. Cardinality(A \cap B) = 0
  BY <1>2, FS_EmptySet
<1> QED
  BY <1>1, <1>3, <1>4, <1>5, <1>6 DEF B

\* g is the function that the sum over the words defines by recursion.
Sums(g, array) ==
  g = [s \in SUBSET Words |->
         IF s = {} THEN 0
         ELSE LET w == CHOOSE x \in s : TRUE
              IN  EmptyInWord(array, w) + g[s \ {w}]]

LEMMA SumExists ==
  ASSUME NEW array
  PROVE  Sums([s \in SUBSET Words |-> Cardinality(Zeros(array, s))], array)
<1> DEFINE G == [s \in SUBSET Words |-> Cardinality(Zeros(array, s))]
<1>1. ASSUME NEW s \in SUBSET Words
      PROVE  G[s] = IF s = {} THEN 0
                    ELSE LET w == CHOOSE x \in s : TRUE
                         IN  EmptyInWord(array, w) + G[s \ {w}]
  <2>1. CASE s = {}
    <3>1. Zeros(array, s) = {}
      BY <2>1 DEF Zeros
    <3> QED
      BY <2>1, <3>1, FS_EmptySet
  <2>2. CASE s # {}
    <3> DEFINE w == CHOOSE x \in s : TRUE
    <3>1. w \in s
      BY <2>2
    <3> HIDE DEF w
    <3>2. s \ {w} \in SUBSET Words
      OBVIOUS
    <3>3. G[s] = EmptyInWord(array, w) + G[s \ {w}]
      BY <3>1, <3>2, ZerosAdd
    <3> QED
      BY <2>2, <3>3 DEF w
  <2> QED
    BY <2>1, <2>2
<1> HIDE DEF G
<1>2. G = [s \in SUBSET Words |-> G[s]]
  BY DEF G
<1>3. Sums(G, array)
  BY <1>1, <1>2 DEF Sums
<1> QED
  BY <1>3 DEF G

LEMMA SumUnique ==
  ASSUME NEW array, NEW g, Sums(g, array)
  PROVE  g[Words] = Cardinality(Zeros(array, Words))
<1> DEFINE T == {s \in SUBSET Words : g[s] # Cardinality(Zeros(array, s))}
           F == FiniteSubsetsOf(Words)
           R == StrictSubsetOrdering(Words)
<1>1. IsWellFoundedOn(R, F)
  BY FS_StrictSubsetOrderingWellFounded
<1>2. T \subseteq F
  BY WordsAre, FS_Subset DEF FiniteSubsetsOf
<1>3. SUFFICES ASSUME T # {} PROVE FALSE
  OBVIOUS
<1>4. PICK s \in T : \A r \in T : ~(<<r, s>> \in R)
  <2> HIDE DEF T, F, R
  <2> QED
    BY <1>1, <1>2, <1>3, WFMin
<1>5. s \in SUBSET Words /\ g[s] # Cardinality(Zeros(array, s))
  OBVIOUS
<1>6. CASE s = {}
  <2>1. Zeros(array, s) = {}
    BY <1>6 DEF Zeros
  <2>2. g[s] = 0
    BY <1>5, <1>6 DEF Sums
  <2> QED
    BY <1>5, <2>1, <2>2, FS_EmptySet
<1>7. CASE s # {}
  <2> DEFINE w == CHOOSE x \in s : TRUE
             r == s \ {w}
  <2>1. w \in s
    BY <1>7
  <2>2. g[s] = EmptyInWord(array, w) + g[r]
    BY <1>5, <1>7 DEF Sums
  <2> HIDE DEF w
  <2>3. r \in SUBSET Words /\ r \subseteq s /\ r # s
    BY <1>5, <2>1
  <2>4. r \notin T
    <3>1. <<r, s>> \in R
      BY <1>2, <2>3, <1>5, FS_Subset, WordsAre DEF StrictSubsetOrdering, FiniteSubsetsOf
    <3> QED
      BY <1>4, <3>1
  <2>5. g[r] = Cardinality(Zeros(array, r))
    BY <2>3, <2>4
  <2> QED
    BY <1>5, <2>1, <2>2, <2>5, ZerosAdd
<1> QED
  BY <1>6, <1>7

\* Eight at a time the zeros are counted as one at a time.
LEMMA WordsCount ==
  ASSUME NEW array
  PROVE  MapThenSumSet(LAMBDA w : EmptyInWord(array, w), Words) = Count(array, 0)
<1> DEFINE f == CHOOSE g : Sums(g, array)
<1>1. Sums(f, array)
  BY SumExists
<1>2. f[Words] = Cardinality(Zeros(array, Words))
  BY <1>1, SumUnique
<1>3. MapThenSumSet(LAMBDA w : EmptyInWord(array, w), Words) = f[Words]
  BY DEF MapThenSumSet, MapThenFoldSet, Sums
<1>4. Zeros(array, Words) = {i \in Index : array[i] = 0}
  BY WordsAre DEF Zeros
<1> QED
  BY <1>2, <1>3, <1>4 DEF Count

-----------------------------------------------------------------------------
(* The table and the threads.                                              *)

Whole == Sum([v \in Entry |-> Count(regs, v)], Count(regs, 0))

\* A thread in the loop has filled the entries before its own; one that is
\* past the flag finds all of them, and its sum is that of the registers.
ThreadOK(t) ==
  \/ thread[t] = Idle
  \/ \E j \in Entry : thread[t] = Filling(j) /\ \A k \in Entry : k < j => k \in PE
  \/ thread[t] \in {Filled, Summing} /\ Entry \subseteq PE
  \/ thread[t] = Done(Whole) /\ Entry \subseteq PE

CInv ==
  /\ Array
  /\ thread = [t \in Thread |-> thread[t]]
  /\ initialized => Entry \subseteq PE
  /\ \A t \in Thread : ThreadOK(t)

\* No two of the states of a thread are the same.
LEMMA States ==
  /\ Idle # Filled /\ Idle # Summing /\ Filled # Summing
  /\ Idle.pc = "idle" /\ Filled.pc = "filled" /\ Summing.pc = "sum"
  /\ \A j : Filling(j).pc = "fill" /\ Filling(j).j = j
  /\ \A sum : Done(sum).pc = "done" /\ Done(sum).sum = sum
BY DEF Idle, Filled, Summing, Filling, Done

LEMMA EntryNat == Bits = 6 => Entry \in SUBSET (0 .. 63)
BY Values DEF Entry

\* The next entry of the loop is the least one that follows.
LEMMA NextEntry ==
  ASSUME Bits = 6, NEW j \in Entry, Following(j) # {}
  PROVE  /\ Min(Following(j)) \in Entry
         /\ \A k \in Entry : k < Min(Following(j)) => k <= j
<1>1. Following(j) \in SUBSET Nat
  BY EntryNat DEF Following
<1>2. PICK m \in Following(j) : \A y \in Following(j) : ~(<<y, m>> \in OpToRel(<, Nat))
  BY <1>1, NatLessThanWellFounded, WFMin
<1>3. \A y \in Following(j) : m <= y
  <2> DEFINE F == Following(j)
  <2>1. \A y \in F : ~(<<y, m>> \in OpToRel(<, Nat))
    BY <1>2
  <2>0. F \subseteq Nat /\ m \in F
    BY <1>1
  <2> HIDE DEF F
  <2>2. \A y \in F : ~(y < m)
    BY <2>0, <2>1 DEF OpToRel
  <2>3. \A y \in F : y \in Int /\ m \in Int
    BY <2>0
  <2>4. \A y \in F : m <= y
    BY <2>2, <2>3
  <2> QED
    BY <2>4 DEF F
<1>4. Min(Following(j)) \in Following(j) /\ \A y \in Following(j) : Min(Following(j)) <= y
  BY <1>3 DEF Min
<1> DEFINE l == Min(Following(j))
<1>5. l \in Entry /\ \A y \in Following(j) : l <= y
  BY <1>4 DEF Following
<1> HIDE DEF l
<1>6. ASSUME NEW k \in Entry, k < l PROVE k <= j
  <2>1. k \in Int /\ j \in Int /\ l \in Int
    BY <1>5, EntryNat
  <2>2. CASE k > j
    BY <1>5, <1>6, <2>1, <2>2 DEF Following
  <2> QED
    BY <2>1, <2>2
<1> QED
  BY <1>5, <1>6 DEF l

LEMMA CountInitInv == Bits = 6 /\ CountInit => CInv
BY InitArray DEF CountInit, CInv, ThreadOK

\* The content changes only when no thread is counting.
LEMMA ChangeInv ==
  ASSUME Bits = 6, CInv, NEW i \in Index, NEW v \in Inputs, Change(i, v)
  PROVE  CInv'
<1>1. Array'
  BY WriteArray, DenseAddArray DEF Change, CInv
<1>2. \A t \in Thread : thread'[t] = Idle
  BY DEF Change
<1> QED
  BY <1>1, <1>2 DEF Change, CInv, ThreadOK

\* A step of one thread that leaves the content alone.
LEMMA ThreadStep ==
  ASSUME CInv, NEW t \in Thread, NEW state, thread' = [thread EXCEPT ![t] = state],
         UNCHANGED <<bytes, regs>>, PE \subseteq PE',
         initialized' => Entry \subseteq PE',
         \/ state = Idle
         \/ \E j \in Entry : state = Filling(j) /\ \A k \in Entry : k < j => k \in PE'
         \/ state \in {Filled, Summing} /\ Entry \subseteq PE'
         \/ state = Done(Whole) /\ Entry \subseteq PE'
  PROVE  CInv'
<1>1. Array'
  BY DEF CInv, Array, TypeOK, PackedArray
<1>2. Whole' = Whole
  BY DEF Whole, Sum, Count
<1>3. thread' = [u \in Thread |-> thread'[u]] /\ thread'[t] = state
  BY DEF CInv
<1>4. ASSUME NEW u \in Thread PROVE ThreadOK(u)'
  <2>1. CASE u = t
    BY <1>2, <1>3, <2>1 DEF ThreadOK
  <2>2. CASE u # t
    <3>1. thread'[u] = thread[u] /\ ThreadOK(u)
      BY <2>2 DEF CInv
    <3> QED
      BY <1>2, <3>1 DEF ThreadOK
  <2> QED
    BY <2>1, <2>2
<1> QED
  BY <1>1, <1>3, <1>4 DEF CInv

LEMMA EnterInv == ASSUME Bits = 6, CInv, NEW t \in Thread, Enter(t) PROVE CInv'
<1>1. 0 \in Entry /\ \A k \in Entry : ~(k < 0)
  BY EntryNat DEF Entry
<1> DEFINE state == IF initialized THEN Summing ELSE Filling(0)
<1>2. thread' = [thread EXCEPT ![t] = state]
  BY DEF Enter
<1>3. CASE initialized
  <2>1. state \in {Filled, Summing} /\ Entry \subseteq PE'
    BY <1>3 DEF CInv, Enter
  <2> HIDE DEF state
  <2> QED
    BY <1>2, <2>1, ThreadStep DEF Enter
<1>4. CASE ~initialized
  <2>1. state = Filling(0) /\ ~initialized'
    BY <1>4 DEF Enter
  <2> HIDE DEF state
  <2> QED
    BY <1>1, <1>2, <2>1, ThreadStep DEF Enter
<1> QED
  BY <1>3, <1>4

LEMMA FillInv == ASSUME Bits = 6, CInv, NEW t \in Thread, Fill(t) PROVE CInv'
<1> DEFINE j == thread[t].j
           state == IF Following(j) = {} THEN Filled ELSE Filling(Min(Following(j)))
<1>1. j \in Entry /\ \A k \in Entry : k < j => k \in PE
  <2>1. ThreadOK(t) /\ thread[t].pc = "fill"
    BY DEF CInv, Fill
  <2>2. PICK i \in Entry : thread[t] = Filling(i) /\ \A k \in Entry : k < i => k \in PE
    BY <2>1, States DEF ThreadOK
  <2> QED
    BY <2>2, States
<1>2. thread' = [thread EXCEPT ![t] = state] /\ PE' = PE \cup {j}
  BY DEF Fill
<1>3. initialized' => Entry \subseteq PE'
  BY <1>2 DEF CInv, Fill
<1>4. CASE Following(j) = {}
  <2>1. state = Filled
    BY <1>4
  <2> HIDE DEF j, state
  <2>2. ASSUME NEW k \in Entry PROVE k \in PE'
    <3>1. ~(k > j) /\ k \in Int /\ j \in Int
      BY <1>1, <1>4, EntryNat DEF Following
    <3>2. k < j \/ k = j
      BY <3>1
    <3> QED
      BY <1>1, <1>2, <3>2
  <2>3. state \in {Filled, Summing} /\ Entry \subseteq PE'
    BY <2>1, <2>2
  <2> QED
    BY <1>2, <1>3, <2>3, ThreadStep DEF Fill
<1>5. CASE Following(j) # {}
  <2> DEFINE l == Min(Following(j))
  <2>1. state = Filling(l)
    BY <1>5
  <2>2. l \in Entry /\ \A k \in Entry : k < l => k <= j
    BY <1>1, <1>5, NextEntry
  <2> HIDE DEF j, l, state
  <2>3. ASSUME NEW k \in Entry, k < l PROVE k \in PE'
    <3>1. k <= j /\ k \in Int /\ j \in Int
      BY <1>1, <2>2, <2>3, EntryNat
    <3>2. k < j \/ k = j
      BY <3>1
    <3> QED
      BY <1>1, <1>2, <3>2
  <2> QED
    BY <1>2, <1>3, <2>1, <2>2, <2>3, ThreadStep DEF Fill
<1> QED
  BY <1>4, <1>5

LEMMA PublishInv == ASSUME CInv, NEW t \in Thread, Publish(t) PROVE CInv'
<1>1. ThreadOK(t) /\ thread[t] = Filled
  BY DEF CInv, Publish
<1>2. Entry \subseteq PE
  BY <1>1, States DEF ThreadOK
<1> QED
  BY <1>2, ThreadStep DEF Publish

\* Both sums are those of the registers when the table is full.
LEMMA SumsAgree ==
  ASSUME Bits = 6, Array, Entry \subseteq PE
  PROVE  DenseSum(bytes) = Whole /\ RawSum(MergedArray(bytes)) = Whole
<1>1. bytes \in Block /\ regs = [i \in Index |-> regs[i]]
  BY DEF Array, TypeOK, Block
<1>2. \A i \in Index : UnrolledRead(bytes, i) = regs[i] /\ GetRegister(bytes, i) = regs[i]
  BY <1>1, Reading DEF Array, PackedArray
<1>3. [i \in Index |-> UnrolledRead(bytes, i)] = regs /\ MergedArray(bytes) = regs
  BY <1>1, <1>2 DEF MergedArray
<1>4. DenseSum(bytes) = Whole
  BY <1>3 DEF DenseSum, Whole
<1>5. MapThenSumSet(LAMBDA w : EmptyInWord(regs, w), Words) = Count(regs, 0)
  BY WordsCount
<1>6. RawSum(regs) = Whole
  BY <1>5 DEF RawSum, Whole, Words
<1> QED
  BY <1>3, <1>4, <1>6

LEMMA SumInv ==
  ASSUME Bits = 6, CInv, NEW t \in Thread, SumDense(t) \/ SumRaw(t)
  PROVE  CInv'
<1>1. /\ ThreadOK(t) /\ thread[t] = Summing
      /\ UNCHANGED <<bytes, regs, PE, initialized>>
  BY DEF CInv, SumDense, SumRaw, Summed
<1>2. Entry \subseteq PE
  BY <1>1, States DEF ThreadOK
<1>3. DenseSum(bytes) = Whole /\ RawSum(MergedArray(bytes)) = Whole
  BY <1>2, SumsAgree DEF CInv
<1>4. thread' = [thread EXCEPT ![t] = Done(Whole)]
  BY <1>3 DEF SumDense, SumRaw, Summed
<1> QED
  BY <1>1, <1>2, <1>4, ThreadStep

LEMMA ReturnInv == ASSUME CInv, NEW t \in Thread, Return(t) PROVE CInv'
BY ThreadStep DEF Return, CInv

LEMMA StepInv == Bits = 6 /\ CInv /\ [CountNext]_countVars => CInv'
<1> SUFFICES ASSUME Bits = 6, CInv, [CountNext]_countVars PROVE CInv'
  OBVIOUS
<1>1. CASE \E i \in Index, v \in Inputs : Change(i, v)
  BY <1>1, ChangeInv
<1>2. CASE \E t \in Thread : \/ Enter(t) \/ Fill(t) \/ Publish(t)
                             \/ SumDense(t) \/ SumRaw(t) \/ Return(t)
  BY <1>2, EnterInv, FillInv, PublishInv, SumInv, ReturnInv
<1>3. CASE UNCHANGED countVars
  BY <1>3 DEF countVars, CInv, Array, TypeOK, PackedArray, ThreadOK, Whole, Count, Sum
<1> QED
  BY <1>1, <1>2, <1>3 DEF CountNext

\* Everything below is about registers of six bits; how many there are, the
\* values written and the threads are not fixed.
THEOREM CountInvariant == ASSUME Bits = 6 PROVE CountSpec => []CInv
<1>1. CountInit => CInv
  BY CountInitInv
<1>2. CInv /\ [CountNext]_countVars => CInv'
  BY StepInv
<1> QED
  BY <1>1, <1>2, PTL DEF CountSpec

\* The bytes stay bytes and the registers stay within six bits: no store of
\* HLL_DENSE_SET_REGISTER (hyperloglog.c:341-353) leaves more than eight.
THEOREM BytesTyped == ASSUME Bits = 6 PROVE CountSpec => []TypeOK
<1>1. CInv => TypeOK
  BY DEF CInv, Array
<1> QED
  BY <1>1, CountInvariant, PTL

\* The macros are an array whatever is written in whatever order, and the
\* terminator that they touch behind the last register stays 0.
THEOREM ArrayIsPacked == ASSUME Bits = 6 PROVE CountSpec => []PackedArray
<1>1. CInv => PackedArray
  BY DEF CInv, Array
<1> QED
  BY <1>1, CountInvariant, PTL

\* hllCount's threads never use a part of the table, and the unrolled sum of
\* the bytes and the word-wise sum of a merged array add the same terms.
THEOREM CountsAlwaysAgree == ASSUME Bits = 6 PROVE CountSpec => []CountsAgree
<1>1. CInv => CountsAgree
  BY States DEF CInv, ThreadOK, CountsAgree, Whole
<1> QED
  BY <1>1, CountInvariant, PTL

-----------------------------------------------------------------------------
(* hllPatLen, for every hash width, index width and hash.                  *)

\* The loop's invariant: every bit passed so far is 0, and the count is the
\* distance walked.
LoopInv ==
    /\ hash = element \cup {W - 1}
    /\ count = bit - P + 1
    /\ \A b \in P .. bit - 1 : b \notin hash
    /\ done => bit \in hash

PatLenInv == PatLenTypeOK /\ LoopInv

LEMMA PatLenInitInv == PatLenInit => PatLenInv
<1> SUFFICES ASSUME PatLenInit PROVE PatLenInv
  OBVIOUS
<1>1. W \in Nat /\ P \in Nat /\ P < W
  BY WidthAssumption
<1>2. element \in SUBSET (0 .. W - 1) /\ hash \in SUBSET (0 .. W - 1)
      /\ index \in SUBSET (0 .. P - 1)
  BY <1>1 DEF PatLenInit
<1>3. bit \in P .. W - 1 /\ count \in Nat
  BY <1>1 DEF PatLenInit
<1>4. done \in BOOLEAN /\ ~done
  BY DEF PatLenInit
<1>5. hash = element \cup {W - 1} /\ count = bit - P + 1
      /\ \A b \in P .. bit - 1 : b \notin hash
  BY <1>1 DEF PatLenInit
<1> QED
  BY <1>2, <1>3, <1>4, <1>5 DEF PatLenInv, PatLenTypeOK, LoopInv

LEMMA PatLenStepInv == PatLenInv /\ [PatLenNext]_patLenVars => PatLenInv'
<1> SUFFICES ASSUME PatLenInv, [PatLenNext]_patLenVars PROVE PatLenInv'
  OBVIOUS
<1> USE WidthAssumption DEF PatLenInv, PatLenTypeOK, LoopInv
<1>1. CASE Shift
  <2>1. bit # W - 1
    BY <1>1 DEF Shift
  <2>2. bit' \in P .. W - 1 /\ count' \in Nat
    BY <1>1, <2>1 DEF Shift
  <2>3. \A b \in P .. bit' - 1 : b \notin hash'
    BY <1>1 DEF Shift
  <2> QED
    BY <1>1, <2>2, <2>3 DEF Shift
<1>2. CASE ReturnCount
  BY <1>2 DEF ReturnCount
<1>3. CASE UNCHANGED patLenVars
  BY <1>3 DEF patLenVars
<1> QED
  BY <1>1, <1>2, <1>3 DEF PatLenNext

\* The loop never leaves the word (the forced bit stops it), for every width.
THEOREM PatLenTyped == PatLenSpec => []PatLenTypeOK
<1>1. PatLenInv => PatLenTypeOK
  BY DEF PatLenInv
<1> QED
  BY PatLenInitInv, PatLenStepInv, <1>1, PTL DEF PatLenSpec

\* For every hash, the count that hllPatLen returns fits a register of
\* HLL_BITS bits and is at least 1, so 0 stays free to mean "no element".
THEOREM PatLenFitsRegister == PatLenSpec => []CountFitsRegister
<1>1. PatLenInv => CountFitsRegister
  <2> SUFFICES ASSUME PatLenInv PROVE CountFitsRegister
    OBVIOUS
  <2>1. bit \in P .. W - 1 /\ count = bit - P + 1 /\ count <= W - P
    BY WidthAssumption DEF PatLenInv, PatLenTypeOK, LoopInv
  <2>2. 2^RegisterBits \in Int /\ W - P < 2^RegisterBits
    BY WidthAssumption
  <2> QED
    BY <2>1, <2>2, WidthAssumption DEF CountFitsRegister
<1> QED
  BY PatLenInitInv, PatLenStepInv, <1>1, PTL DEF PatLenSpec

\* The count is the position of the lowest 1 above the index bits, or of the
\* forced bit, whatever the hash.
THEOREM PatLenRight == PatLenSpec => []PatternRight
<1>1. PatLenInv => PatternRight
  <2> SUFFICES ASSUME PatLenInv, done PROVE PatternRight
    BY DEF PatternRight
  <2> DEFINE Ones == {b \in P .. W - 1 : b \in element \/ b = W - 1}
  <2>1. bit \in Ones /\ \A b \in Ones : bit <= b
    BY WidthAssumption DEF PatLenInv, PatLenTypeOK, LoopInv
  <2>2. Ones \subseteq Int
    BY WidthAssumption
  <2>3. Min(Ones) \in Ones /\ \A b \in Ones : Min(Ones) <= b
    BY <2>1 DEF Min
  <2>4. Min(Ones) = bit
    BY <2>1, <2>2, <2>3
  <2> QED
    BY <2>4 DEF PatLenInv, LoopInv, PatternRight
<1> QED
  BY PatLenInitInv, PatLenStepInv, <1>1, PTL DEF PatLenSpec
=============================================================================
