----------------------------- MODULE HLLHistory -----------------------------
(***************************************************************************)
(* HLLObject with a history: the elements each object has been given, by   *)
(* adding them, by merging another object or by loading stored bytes.  It  *)
(* states what a HyperLogLog is for: its registers are a function of the   *)
(* SET of those elements, whatever the order, the repetitions, the merges, *)
(* the encodings and the trips through storage on the way.                 *)
(***************************************************************************)
EXTENDS ObjectRefinement

\* A handle is a pointer, never a list of them.
ASSUME HandleAssumption == \A hs \in ArgLists : hs \notin Handle

VARIABLES
    given,      \* given[h]: the elements in the object of h
    givenKept   \* the elements in the stored bytes

varsH == <<vars, given, givenKept>>

InitH ==
    /\ Init
    /\ given = [h \in Handle |-> {}]
    /\ givenKept = {}

\* An add that answers 0 or 1 has taken the element into account.
Give(h, e, taken) ==
    /\ given' = IF taken THEN [given EXCEPT ![h] = @ \cup {e}] ELSE given
    /\ UNCHANGED givenKept

Keep == UNCHANGED <<given, givenKept>>

CreateH(h) ==
    Create(h) /\ given' = [given EXCEPT ![h] = {}] /\ UNCHANGED givenKept

FreeH(h) ==
    Free(h) /\ given' = [given EXCEPT ![h] = {}] /\ UNCHANGED givenKept

PfAddH(h, e) == PfAdd(h, e) /\ Give(h, e, ret'.val \in {0, 1})

AddManyStepH(e) == AddManyStep(e) /\ Give(call.h, e, call'.busy)

PfMergeH(t, hs) ==
    /\ PfMerge(t, hs)
    /\ given' = IF ret'.val = OK
                THEN [given EXCEPT ![t] = UNION {given[hs[j]] : j \in DOMAIN hs}]
                ELSE given
    /\ UNCHANGED givenKept

DumpH(h) == Dump(h) /\ givenKept' = given[h] /\ UNCHANGED given

LoadH(h) ==
    /\ Load(h)
    /\ given' = IF ret'.val = OK THEN [given EXCEPT ![h] = givenKept] ELSE given
    /\ UNCHANGED givenKept

NextH ==
    \/ \E h \in Handle :
        \/ CreateH(h) \/ FreeH(h) \/ DumpH(h) \/ LoadH(h)
        \/ PfCount(h) /\ Keep
        \/ Promote(h) /\ Keep
        \/ \E e \in Elements : PfAddH(h, e)
        \/ \E n \in 0 .. MaxBatch : AddManyBegin(h, n) /\ Keep
        \/ \E hs \in ArgLists : PfMergeH(h, hs)
    \/ \E hs \in ArgLists : PfCountMerged(hs) /\ Keep
    \/ \E e \in Elements : AddManyStepH(e)
    \/ AddManyEnd /\ Keep
    \/ StorageDamage /\ Keep

SpecH == InitH /\ [][NextH]_varsH

-----------------------------------------------------------------------------
\* The registers a set of elements makes: in each the longest pattern.
RegsFor(E) ==
    [i \in Index |-> Max({0} \cup {e.pat : e \in {x \in E : x.idx = i}})]

\* The registers of every readable object are those of the set of elements it
\* has been given: adds commute and repeat without effect, pfMerge is the
\* union of its sources, and neither a promotion nor a store and load lose or
\* invent one.
RegistersAreSketch ==
    \A h \in Handle :
        Readable(objs[h]) => RegsOf(objs[h]) = RegsFor(given[h])

\* A merged count answers the estimate of the union of the objects' elements,
\* and a count the estimate of its object's, cached or not.
CountsAreOfUnion ==
    [][/\ ret'.op \in {"count", "countmerged"} /\ ret'.on \in Handle
            /\ Readable(objs[ret'.on])
            => ret'.val = Estimate(RegsFor(given[ret'.on]))
       /\ ret'.op = "countmerged" /\ ret'.on \notin Handle /\ AllReadable(ret'.on)
            => ret'.val = Estimate(RegsFor(UNION {given[ret'.on[j]] :
                                                     j \in DOMAIN ret'.on}))]_varsH
=============================================================================
