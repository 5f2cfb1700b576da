----------------------------- MODULE HLLPatLen -----------------------------
(***************************************************************************)
(* hllPatLen: from a hash of W bits, the register its low P bits name and  *)
(* the length of the pattern 0...01 above them.  The hash (MurmurHash64A   *)
(* of the element) is any number of W bits, held as the set of its 1 bits. *)
(***************************************************************************)
EXTENDS Integers, FiniteSetsExt

CONSTANTS
    W,             \* the width of a hash: 64
    P,             \* HLL_P
    RegisterBits   \* HLL_BITS: the width of a dense register

ASSUME WidthAssumption ==
    /\ W \in Nat /\ P \in Nat /\ RegisterBits \in Nat /\ P < W
    /\ W - P < 2^RegisterBits   \* "Enough to count up to 63 leading zeroes"

VARIABLES
    hash,    \* the bits of hash that are 1
    index,   \* *regp, also as a set of bits
    bit,     \* the position of the 1 in bit
    count,
    done,
    element  \* the hash as MurmurHash64A answered it, never changed

patLenVars == <<hash, index, bit, count, done, element>>

\* Mistake: the highest bit is not forced.
InitUnforced ==
    /\ element \in SUBSET (0 .. W - 1)
    /\ index = element \cap (0 .. P - 1)
    /\ hash = element
    /\ bit = P
    /\ count = 1
    /\ done = FALSE

\* Mistake: the count starts at no zeroes.
InitFromZero ==
    /\ element \in SUBSET (0 .. W - 1)
    /\ index = element \cap (0 .. P - 1)
    /\ hash = element \cup {W - 1}
    /\ bit = P
    /\ count = 0
    /\ done = FALSE

PatLenInit ==
    /\ element \in SUBSET (0 .. W - 1)
    /\ index = element \cap (0 .. P - 1)        \* hash & HLL_P_MASK
    /\ hash = element \cup {W - 1}              \* hash |= 1 << 63
    /\ bit = P
    /\ count = 1
    /\ done = FALSE

\* Mistake: bit and count get their first values inside the loop.
ShiftRestarting ==
    /\ ~done /\ bit \notin hash
    /\ count' = 1
    /\ bit' = P
    /\ UNCHANGED <<hash, index, done, element>>

\* Mistake: the count is one shift behind.
ShiftFirst ==
    /\ ~done /\ bit \notin hash
    /\ count' = IF bit = P THEN count ELSE count + 1
    /\ bit' = bit + 1
    /\ UNCHANGED <<hash, index, done, element>>

Shift ==
    /\ ~done /\ bit \notin hash
    /\ count' = count + 1
    /\ bit' = bit + 1
    /\ UNCHANGED <<hash, index, done, element>>

ReturnCount ==
    /\ ~done /\ bit \in hash
    /\ done' = TRUE
    /\ UNCHANGED <<hash, index, bit, count, element>>

PatLenNext == Shift \/ ReturnCount

\* The function runs to its end.
PatLenSpec == PatLenInit /\ [][PatLenNext]_patLenVars /\ WF_patLenVars(PatLenNext)

-----------------------------------------------------------------------------
PatLenTypeOK ==
    /\ element \in SUBSET (0 .. W - 1) /\ hash \in SUBSET (0 .. W - 1)
    /\ index \in SUBSET (0 .. P - 1)
    /\ bit \in P .. W - 1 /\ count \in Nat /\ done \in BOOLEAN

\* The answer is the position, from 1, of the lowest 1 bit above the index,
\* or of the forced bit W - 1 when there is none.
PatternRight ==
    done => count = Min({b \in P .. W - 1 : b \in element \/ b = W - 1}) - P + 1

\* The count fits a dense register and is never 0, so that a register of 0
\* means that no element reached it; the shifts stay inside the word.
CountFitsRegister == bit < W /\ count \in 1 .. 2^RegisterBits - 1

\* while ((hash & bit) == 0) ends: bit 63 is forced for it.
Terminates == <>done
=============================================================================
