------------------------------ MODULE HLLCount ------------------------------
(***************************************************************************)
(* hllCount: the table PE that its first call fills behind a plain static  *)
(* flag, and the sums of 2^-register that it takes from a dense object     *)
(* (hllDenseSum) or from the array of a merged count (hllMerge into an     *)
(* array, then hllRawSum).  The table and the flag are all that threads    *)
(* share: each counts an object of its own, here of the same content.      *)
(* Their stores are seen in program order, as x86 does and C does not      *)
(* promise.  E is kept as the number of times each PE[v] is added to it;   *)
(* what follows from E and ez is floating point and not modelled.          *)
(***************************************************************************)
EXTENDS HLLDense, FiniteSets, FiniteSetsExt

CONSTANTS
    Thread,     \* the threads that call hllCount
    MaxSet      \* bound: the registers that are not zero

ASSUME CountAssumption == Registers % 8 = 0 /\ MaxSet \in Nat

VARIABLES
    PE,           \* the entries of the table that hold their value
    initialized,  \* the flag behind which they are filled
    thread        \* what each thread does, and the sums it got

countVars == <<bytes, regs, PE, initialized, thread>>

\* The entries that registers of this instance use, in the loop's order.
Entry == {0} \cup Inputs
Following(j) == {k \in Entry : k > j}

Idle == [pc |-> "idle"]
Filling(j) == [pc |-> "fill", j |-> j]
Filled == [pc |-> "filled"]
Summing == [pc |-> "sum"]
Done(sum) == [pc |-> "done", sum |-> sum]

-----------------------------------------------------------------------------
Sum(E, ez) == [E |-> E, ez |-> ez]

\* How often a value occurs in an array of registers.
Count(array, v) == Cardinality({i \in Index : array[i] = v})

\* Mistake: the loop skips the zero registers but adds nothing for them.
DenseSumWithoutZeros(p) ==
    LET array == [i \in Index |-> UnrolledRead(p, i)]
    IN  Sum([v \in Entry |-> IF v \in PE /\ v # 0 THEN Count(array, v) ELSE 0],
            Count(array, 0))

\* hllDenseSum, its unrolled loop: PE[0] is added for each zero register.
DenseSum(p) ==
    LET array == [i \in Index |-> UnrolledRead(p, i)]
    IN  Sum([v \in Entry |-> IF v \in PE THEN Count(array, v) ELSE 0],
            Count(array, 0))

\* The bytes of a word of the array.
Word(w) == 8 * w .. 8 * w + 7

\* Mistake: a word with a register in it is taken to have no zeros.
EmptyInWordCoarse(array, w) ==
    IF \A i \in Word(w) : array[i] = 0 THEN 8 ELSE 0

\* What one turn of the loop adds to ez.
EmptyInWord(array, w) ==
    IF \A i \in Word(w) : array[i] = 0 THEN 8
    ELSE Cardinality({i \in Word(w) : array[i] = 0})

\* hllRawSum, eight registers at a time: E gets ez at the end.
RawSum(array) ==
    LET ez == MapThenSumSet(LAMBDA w : EmptyInWord(array, w),
                            0 .. (Registers \div 8) - 1)
    IN  Sum([v \in Entry |->
               IF v = 0 THEN ez ELSE IF v \in PE THEN Count(array, v) ELSE 0], ez)

\* hllMerge of a dense object into an array of zeros.
MergedArray(p) == [i \in Index |-> GetRegister(p, i)]

-----------------------------------------------------------------------------
CountInit ==
    /\ Init
    /\ PE = {} /\ initialized = FALSE       \* static storage
    /\ thread = [t \in Thread |-> Idle]

\* Mistake: the flag is set before the table is filled.
EnterEarly(t) ==
    /\ thread[t] = Idle
    /\ thread' = [thread EXCEPT ![t] = IF initialized THEN Summing ELSE Filling(0)]
    /\ initialized' = TRUE
    /\ UNCHANGED <<bytes, regs, PE>>

\* if (!initialized)
Enter(t) ==
    /\ thread[t] = Idle
    /\ thread' = [thread EXCEPT ![t] = IF initialized THEN Summing ELSE Filling(0)]
    /\ UNCHANGED <<bytes, regs, PE, initialized>>

\* One entry, PE[0] = 1 or a turn of the loop; then the next one or the flag.
Fill(t) ==
    /\ thread[t].pc = "fill"
    /\ LET j == thread[t].j
       IN  /\ PE' = PE \cup {j}
           /\ thread' = [thread EXCEPT ![t] =
                IF Following(j) = {} THEN Filled ELSE Filling(Min(Following(j)))]
    /\ UNCHANGED <<bytes, regs, initialized>>

\* initialized = 1
Publish(t) ==
    /\ thread[t] = Filled
    /\ initialized' = TRUE
    /\ thread' = [thread EXCEPT ![t] = Summing]
    /\ UNCHANGED <<bytes, regs, PE>>

\* The sum of the object's encoding: HLL_DENSE, or HLL_RAW in a merged count.
Summed(t, sum) ==
    /\ thread[t] = Summing
    /\ thread' = [thread EXCEPT ![t] = Done(sum)]
    /\ UNCHANGED <<bytes, regs, PE, initialized>>

SumDense(t) == Summed(t, DenseSum(bytes))
SumRaw(t) == Summed(t, RawSum(MergedArray(bytes)))

Return(t) ==
    /\ thread[t].pc = "done"
    /\ thread' = [thread EXCEPT ![t] = Idle]
    /\ UNCHANGED <<bytes, regs, PE, initialized>>

\* The content changes between the counts, never while a thread reads it.
Change(i, v) ==
    /\ \A t \in Thread : thread[t] = Idle
    /\ Cardinality({k \in Index : regs[k] # 0} \cup {i}) =< MaxSet
    /\ DenseAdd(i, v) \/ Write(i, v)
    /\ UNCHANGED <<PE, initialized, thread>>

CountNext ==
    \/ \E i \in Index, v \in Inputs : Change(i, v)
    \/ \E t \in Thread :
         \/ Enter(t) \/ Fill(t) \/ Publish(t)
         \/ SumDense(t) \/ SumRaw(t) \/ Return(t)

CountSpec == CountInit /\ [][CountNext]_countVars

-----------------------------------------------------------------------------
\* Whichever thread filled the table, and on either path, a count adds PE[v]
\* once for every register of value v and finds every zero register: so a
\* merged count of one object is its own count, and no thread sees a part
\* of the table.
CountsAgree ==
    \A t \in Thread : thread[t].pc = "done" =>
        thread[t].sum = Sum([v \in Entry |-> Count(regs, v)], Count(regs, 0))
=============================================================================
