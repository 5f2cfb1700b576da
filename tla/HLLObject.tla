----------------------------- MODULE HLLObject -----------------------------
(***************************************************************************)
(* The HyperLogLog objects of hyperloglog.c and the calls a client makes   *)
(* on them: hllCreate, hllLoad, hllRaw, hllFree, pfAdd, pfAddMany,         *)
(* pfCount, pfCountMerged, pfMerge and hllSparseToDense.                   *)
(*                                                                         *)
(* An object is its encoding, the registers (dense) or the opcode stream   *)
(* (sparse), the length of its sds string, the byte after the last opcode  *)
(* and the cached cardinality of its header.  Elements are what hllPatLen  *)
(* makes of them: a register and a pattern length.  hllCount is a function *)
(* of the registers, the constant operator Estimate.                       *)
(***************************************************************************)
EXTENDS HLLSparse, FiniteSetsExt

CONSTANTS
    Handle,          \* the client's hll variables
    Elements,        \* the elements a client adds, [idx, pat] records
    RegisterMax,     \* HLL_REGISTER_MAX
    HdrSize,         \* HLL_HDR_SIZE
    DenseSize,       \* HLL_DENSE_SIZE
    SparseMaxBytes,  \* server.hll_sparse_max_bytes
    Estimate(_),     \* hllCount of a register array
    MaxArgs,         \* bound: objects given to one merge or merged count
    MaxBatch,        \* bound: elements given to one pfAddMany
    Dumpable,        \* bound: the handles whose bytes a client stores
    Lossy            \* whether the client's storage may damage the bytes

RegValue == 0 .. RegisterMax
RegArray == [Index -> RegValue]
ZeroRegs == [i \in Index |-> 0]

ASSUME ObjectAssumption ==
    /\ RegisterMax \in Nat /\ SparseValMaxValue <= RegisterMax
    /\ Elements \subseteq [idx : Index, pat : 1 .. RegisterMax]
    /\ HdrSize \in Nat /\ DenseSize \in Nat /\ SparseMaxBytes \in Nat
    /\ HdrSize + 2 <= SparseMaxBytes
    /\ MaxArgs \in Nat /\ MaxBatch \in Nat
    /\ Dumpable \subseteq Handle
    /\ Lossy \in BOOLEAN

\* hllCount answers a natural number, 0 for the empty sketch: the card bytes
\* of hllCreate are a valid cache of it.
ASSUME EstimateAssumption ==
    /\ \A regs \in RegArray : Estimate(regs) \in Nat
    /\ Estimate(ZeroRegs) = 0

VARIABLES
    objs,    \* objs[h]: the object a handle points to
    stored,  \* the bytes a client keeps outside (hllRaw, for hllLoad)
    call,    \* the pfAddMany in progress: its loop over the elements
    ret      \* the last call's answer

vars == <<objs, stored, call, ret>>

OK == 0            \* C_OK
ERR == -1          \* C_ERR, and hllSparseAdd's "invalid representation"
Abort == -2        \* a redisAssert that fails ends the process
Invalid == -1      \* the MSB of card[7] is set: no valid cached cardinality

-----------------------------------------------------------------------------
(* Objects.                                                                *)

Null == [enc |-> "none", regs |-> ZeroRegs, runs |-> {}, size |-> 0,
         tail |-> 0, card |-> Invalid]

\* Bytes that isHLLObjectOrReply refuses: too short, no magic, an unknown
\* encoding, a dense string of the wrong length.
Junk == [Null EXCEPT !.enc = "junk"]

Dense(regs, card) ==
    [enc |-> "dense", regs |-> regs, runs |-> {}, size |-> DenseSize,
     tail |-> 0, card |-> card]

Sparse(runs, size, tail, card) ==
    [enc |-> "sparse", regs |-> ZeroRegs, runs |-> runs, size |-> size,
     tail |-> tail, card |-> card]

\* hllCreate: one XZERO over all the registers, cardinality 0 cached.
Created == Sparse(EmptyStream, HdrSize + 2, 0, 0)

IsHLLObject(o) == o.enc \in {"dense", "sparse"}

\* hllSparseToDense and hllMerge find idx = HLL_REGISTERS.
Readable(o) == o.enc = "dense" \/ (o.enc = "sparse" /\ Complete(o.runs))

\* The registers of an object, whatever its encoding.
RegsOf(o) == IF o.enc = "sparse" THEN Values(o.runs) ELSE o.regs

\* hllSparseToDense, on an object it can read; the header, with its cached
\* cardinality, is copied.
SparseToDense(o) == IF o.enc = "dense" THEN o ELSE Dense(Values(o.runs), o.card)

-----------------------------------------------------------------------------
(* Adding an element: the answer and the object after it.                  *)

Answer(val, o) == [val |-> val, obj |-> o]

\* Mistake: the old register is not compared.
DenseAddAlways(o, e) == Answer(1, [o EXCEPT !.regs[e.idx] = e.pat])

\* Mistake: ">=" for ">".
DenseAddEqual(o, e) ==
    IF e.pat >= o.regs[e.idx]
    THEN Answer(1, [o EXCEPT !.regs[e.idx] = e.pat])
    ELSE Answer(0, o)

DenseAdd(o, e) ==
    IF e.pat > o.regs[e.idx]
    THEN Answer(1, [o EXCEPT !.regs[e.idx] = e.pat])
    ELSE Answer(0, o)

\* Mistake: converted, but the element is not added.
PromoteAddForgets(o, e) ==
    IF ~Complete(o.runs) THEN Answer(ERR, o) ELSE Answer(1, SparseToDense(o))

\* Mistake: idx is not compared with HLL_REGISTERS.
PromoteAddUnchecked(o, e) == DenseAdd(SparseToDense(o), e)

\* The "promote:" label of hllSparseAdd, with its redisAssert.
PromoteAdd(o, e) ==
    IF ~Complete(o.runs) THEN Answer(ERR, o)
    ELSE LET added == DenseAdd(SparseToDense(o), e)
         IN  IF added.val = 1 THEN added ELSE Answer(Abort, added.obj)

\* The "updated:" label: merge neighbours from "prev" on, invalidate the
\* cache.  sdsIncrLen writes the terminator, which a merge calls.
Updated(o, runs, size, tail, at) ==
    LET scan == MergeScan(runs, size, at)
    IN  Answer(1, Sparse(scan.runs, scan.size,
                         IF scan.size = size THEN tail ELSE 0, Invalid))

\* The locating loop ran past the last opcode: "p" is the string's
\* terminator, read as ZERO:1 or as the VAL:1 written there before.
TailAdd(o, e) ==
    IF o.tail >= e.pat THEN Answer(0, o)
    ELSE Answer(1, Sparse(o.runs, o.size, e.pat, Invalid))

\* Mistake: ">" for ">=".
SettledBelow(r, count) == r.op = "val" /\ r.val > count

\* Case A: the register is there already.
Settled(r, count) == r.op = "val" /\ r.val >= count

\* Mistake: the limit is compared with the length before the growth.
OutgrowsBefore(o, delta) == delta > 0 /\ o.size > SparseMaxBytes

Outgrows(o, delta) == delta > 0 /\ o.size + delta > SparseMaxBytes

SparseAdd(o, e) ==
    LET r    == RunAt(o.runs, e.idx)
        rest == o.runs \ {r}
        at   == ScanStart(o.runs, r.first)
        delta == DeltaLen(r, e.idx)
    IN  CASE e.pat > SparseValMaxValue -> PromoteAdd(o, e)
          [] e.pat <= SparseValMaxValue /\ o.runs = {} -> Answer(ERR, o)
          [] e.pat <= SparseValMaxValue /\ o.runs # {}
               /\ ~Reaches(o.runs, e.idx) -> TailAdd(o, e)
          [] OTHER ->
               CASE Settled(r, e.pat) -> Answer(0, o)                  \* A
                 [] ~Settled(r, e.pat) /\ r.len = 1 /\ r.op # "xzero" -> \* B, C
                      Updated(o, rest \cup {Val(e.idx, 1, e.pat)},
                              o.size, o.tail, at)
                 [] OTHER ->                                            \* D
                      IF Outgrows(o, delta)
                      THEN PromoteAdd(o, e)
                      ELSE Updated(o, rest \cup Split(r, e.idx, e.pat),
                                   o.size + delta, 0, at)

\* hllAdd.
HllAdd(o, e) == IF o.enc = "dense" THEN DenseAdd(o, e) ELSE SparseAdd(o, e)

\* Mistake: the call is forgotten.
KeepCache(o) == o

InvalidateCache(o) == [o EXCEPT !.card = Invalid]

-----------------------------------------------------------------------------
Idle == [busy |-> FALSE]
Busy(h, left, updated) ==
    [busy |-> TRUE, h |-> h, left |-> left, updated |-> updated]

\* What the last call answered; "on" is the handle or the list it worked on.
Reply(op, on, val) == [op |-> op, on |-> on, val |-> val]
Silent == Reply("none", <<>>, OK)

Init ==
    /\ objs = [h \in Handle |-> Null]
    /\ stored = Null
    /\ call = Idle
    /\ ret = Silent

\* One thread: no call starts while pfAddMany runs, none after an abort.
Ready == ~call.busy /\ ret.val # Abort

Create(h) ==
    /\ Ready
    /\ objs[h] = Null
    /\ objs' = [objs EXCEPT ![h] = Created]
    /\ ret' = Reply("create", h, OK)
    /\ UNCHANGED <<stored, call>>

Free(h) ==
    /\ Ready
    /\ objs[h] # Null
    /\ objs' = [objs EXCEPT ![h] = Null]
    /\ ret' = Reply("free", h, OK)
    /\ UNCHANGED <<stored, call>>

PfAdd(h, e) ==
    /\ Ready
    /\ IF ~IsHLLObject(objs[h])
       THEN /\ ret' = Reply("add", h, ERR)
            /\ UNCHANGED objs
       ELSE LET added == HllAdd(objs[h], e)
            IN  /\ ret' = Reply("add", h, added.val)
                /\ objs' = [objs EXCEPT ![h] =
                              IF added.val = 1 THEN InvalidateCache(added.obj)
                                               ELSE added.obj]
    /\ UNCHANGED <<stored, call>>

\* pfAddMany, one element of its loop at a time.
AddManyBegin(h, n) ==
    /\ Ready
    /\ IF IsHLLObject(objs[h])
       THEN /\ call' = Busy(h, n, FALSE)
            /\ ret' = Silent
       ELSE /\ call' = call
            /\ ret' = Reply("addmany", h, ERR)
    /\ UNCHANGED <<objs, stored>>

AddManyStep(e) ==
    /\ call.busy /\ call.left > 0
    /\ LET added == HllAdd(objs[call.h], e)
       IN  /\ objs' = [objs EXCEPT ![call.h] = added.obj]
           /\ IF added.val \in {0, 1}
              THEN /\ call' = Busy(call.h, call.left - 1,
                                   call.updated \/ added.val = 1)
                   /\ ret' = ret
              ELSE /\ call' = Idle
                   /\ ret' = Reply("addmany", call.h, added.val)
    /\ UNCHANGED stored

\* Mistake: only pfAdd invalidates.
AddManyEndKeepingCache ==
    /\ call.busy /\ call.left = 0
    /\ ret' = Reply("addmany", call.h, IF call.updated THEN 1 ELSE 0)
    /\ call' = Idle
    /\ UNCHANGED <<objs, stored>>

AddManyEnd ==
    /\ call.busy /\ call.left = 0
    /\ IF call.updated
       THEN objs' = [objs EXCEPT ![call.h] = InvalidateCache(@)]
       ELSE UNCHANGED objs
    /\ ret' = Reply("addmany", call.h, IF call.updated THEN 1 ELSE 0)
    /\ call' = Idle
    /\ UNCHANGED stored

\* The body of pfCount, for an object of its own or the only one of a list.
CountOne(op, h) ==
    LET o == objs[h]
        n == Estimate(RegsOf(o))
    IN  /\ IF ~IsHLLObject(o)
           THEN ret' = Reply(op, h, ERR) /\ UNCHANGED objs
           ELSE IF o.card # Invalid
           THEN ret' = Reply(op, h, o.card) /\ UNCHANGED objs
           ELSE IF ~Readable(o)
           THEN ret' = Reply(op, h, ERR) /\ UNCHANGED objs
           ELSE /\ ret' = Reply(op, h, n)
                /\ objs' = [objs EXCEPT ![h].card = n]
        /\ UNCHANGED <<stored, call>>

PfCount(h) == Ready /\ CountOne("count", h)

\* The argument lists of pfCountMerged and pfMerge.
ArgLists == UNION {[1 .. n -> Handle] : n \in 0 .. MaxArgs}

\* Mistake: the last source wins.
MergedRegsOfLast(hs) ==
    [i \in Index |->
        IF DOMAIN hs = {} THEN 0 ELSE RegsOf(objs[hs[Max(DOMAIN hs)]])[i]]

\* The registers hllMerge accumulates from the objects of a list; NULL
\* entries are skipped.
MergedRegs(hs) ==
    [i \in Index |->
        Max({0} \cup {RegsOf(objs[hs[j]])[i] : j \in DOMAIN hs})]

AllReadable(hs) ==
    \A j \in DOMAIN hs : objs[hs[j]] = Null \/ Readable(objs[hs[j]])

PfCountMerged(hs) ==
    /\ Ready
    /\ IF DOMAIN hs = {1} THEN CountOne("countmerged", hs[1])
       ELSE /\ ret' = Reply("countmerged", hs,
                            IF AllReadable(hs) THEN Estimate(MergedRegs(hs))
                                               ELSE ERR)
            /\ UNCHANGED <<objs, stored, call>>

\* Mistake: the target is converted before the sources are read.
PfMergeTargetFirst(t, hs) ==
    /\ Ready
    /\ IF objs[t] # Null /\ AllReadable(hs) /\ Readable(objs[t])
       THEN /\ objs' = [objs EXCEPT ![t] = Dense(MergedRegs(hs), Invalid)]
            /\ ret' = Reply("merge", t, OK)
       ELSE /\ objs' = IF Readable(objs[t])
                       THEN [objs EXCEPT ![t] = SparseToDense(@)] ELSE objs
            /\ ret' = Reply("merge", t, ERR)
    /\ UNCHANGED <<stored, call>>

\* Mistake: the cached cardinality the conversion copied is kept.
PfMergeKeepingCache(t, hs) ==
    /\ Ready
    /\ IF objs[t] # Null /\ AllReadable(hs) /\ Readable(objs[t])
       THEN /\ objs' = [objs EXCEPT ![t] = Dense(MergedRegs(hs), objs[t].card)]
            /\ ret' = Reply("merge", t, OK)
       ELSE /\ UNCHANGED objs
            /\ ret' = Reply("merge", t, ERR)
    /\ UNCHANGED <<stored, call>>

\* The target is read only to find its size: what it held is overwritten
\* unless it is one of the sources.
PfMerge(t, hs) ==
    /\ Ready
    /\ IF objs[t] # Null /\ AllReadable(hs) /\ Readable(objs[t])
       THEN /\ objs' = [objs EXCEPT ![t] = Dense(MergedRegs(hs), Invalid)]
            /\ ret' = Reply("merge", t, OK)
       ELSE /\ UNCHANGED objs
            /\ ret' = Reply("merge", t, ERR)
    /\ UNCHANGED <<stored, call>>

\* hllSparseToDense as the extension's promote calls it.
Promote(h) ==
    /\ Ready
    /\ IsHLLObject(objs[h])
    /\ IF Readable(objs[h])
       THEN /\ objs' = [objs EXCEPT ![h] = SparseToDense(@)]
            /\ ret' = Reply("promote", h, OK)
       ELSE /\ UNCHANGED objs
            /\ ret' = Reply("promote", h, ERR)
    /\ UNCHANGED <<stored, call>>

\* hllRaw: a copy of the string, with a terminator of its own.
Dump(h) ==
    /\ Ready
    /\ h \in Dumpable
    /\ IsHLLObject(objs[h])
    /\ stored' = [objs[h] EXCEPT !.tail = 0]
    /\ ret' = Reply("dump", h, OK)
    /\ UNCHANGED <<objs, call>>

Load(h) ==
    /\ Ready
    /\ h \in Dumpable
    /\ objs[h] = Null /\ stored # Null
    /\ IF IsHLLObject(stored)
       THEN /\ objs' = [objs EXCEPT ![h] = stored]
            /\ ret' = Reply("load", h, OK)
       ELSE /\ UNCHANGED objs
            /\ ret' = Reply("load", h, ERR)
    /\ UNCHANGED <<stored, call>>

\* The storage outside loses the last opcode of a sparse string, or spoils a
\* string so that it is refused.
StorageDamage ==
    /\ Ready
    /\ Lossy
    /\ IsHLLObject(stored)
    /\ \/ stored' = Junk
       \/ \E r \in stored.runs :
            /\ \A s \in stored.runs : s.first <= r.first
            /\ stored' = Sparse(stored.runs \ {r}, stored.size - OpLen(r), 0,
                                stored.card)
    /\ ret' = Silent
    /\ UNCHANGED <<objs, call>>

Next ==
    \/ \E h \in Handle :
        \/ Create(h) \/ Free(h) \/ PfCount(h) \/ Promote(h)
        \/ Dump(h) \/ Load(h)
        \/ \E e \in Elements : PfAdd(h, e)
        \/ \E n \in 0 .. MaxBatch : AddManyBegin(h, n)
        \/ \E hs \in ArgLists : PfMerge(h, hs)
    \/ \E hs \in ArgLists : PfCountMerged(hs)
    \/ \E e \in Elements : AddManyStep(e)
    \/ AddManyEnd
    \/ StorageDamage

Spec == Init /\ [][Next]_vars

-----------------------------------------------------------------------------
(* Types.                                                                  *)

CardValue == Nat \cup {Invalid}

\* Objects have the shape their encoding gives them; a sparse stream is
\* decodable, even one the storage has cut short.
ObjectOK(o) ==
    \/ o = Null
    \/ /\ o = Dense(o.regs, o.card)
       /\ o.regs \in RegArray /\ o.card \in CardValue
    \/ /\ o = Sparse(o.runs, o.size, o.tail, o.card)
       /\ StreamOK(o.runs)
       /\ o.size \in Int /\ o.tail \in 0 .. SparseValMaxValue
       /\ o.card \in CardValue

\* The type invariant of the library's state: every handle is NULL or points
\* to a well-formed object (isHLLObjectOrReply never refuses one later).
TypeOK ==
    /\ objs = [h \in Handle |-> objs[h]]
    /\ \A h \in Handle : ObjectOK(objs[h])
    /\ stored = Junk \/ ObjectOK(stored)
    /\ call = Idle \/ call \in [busy : {TRUE}, h : Handle,
                                left : 0 .. MaxBatch, updated : BOOLEAN]
    /\ ret.val \in Nat \cup {ERR, Abort}

-----------------------------------------------------------------------------
(* Safety.                                                                 *)

\* Outside pfAddMany a valid cached cardinality is the estimate of the
\* registers: every path that changes a register ends in an invalidation,
\* the in-place update, the promotion, the merge and the dense add that
\* leaves it to its caller.  Objects cut short by the storage are excepted:
\* pfCount trusts the cache they carry.
CacheCoherent ==
    \A h \in Handle :
        Readable(objs[h]) /\ objs[h].card # Invalid /\ ~(call.busy /\ call.h = h)
          => objs[h].card = Estimate(RegsOf(objs[h]))

\* redisAssert(dense_retval == 1): an element that forces a promotion always
\* raises its register, so the process never stops there.
NeverAborts == ret.val # Abort

\* A sparse string never outgrows hll_sparse_max_bytes.
SparseWithinLimit ==
    \A h \in Handle : objs[h].enc = "sparse" => objs[h].size <= SparseMaxBytes

\* The library never spoils a stream of its own: unless the storage outside
\* damages bytes, the opcodes of every sparse object cover each register
\* exactly once, so that every decoder finds idx = HLL_REGISTERS, and the length
\* that hllSparseAdd keeps with sdsIncrLen is that of the header and the opcodes,
\* through splits, merges and in-place updates.
StreamsComplete ==
    ~Lossy => \A h \in Handle :
        objs[h].enc = "sparse" =>
            /\ StreamOK(objs[h].runs) /\ Complete(objs[h].runs)
            /\ objs[h].size = HdrSize + StreamBytes(objs[h].runs)

\* The scan of five opcodes from "prev" finds every merge an update makes
\* possible: no two neighbours are left that one opcode could hold.
SparseCanonical ==
    \A h \in Handle : objs[h].enc = "sparse" => Canonical(objs[h].runs)

-----------------------------------------------------------------------------
(* Action properties.                                                      *)

\* pfAdd answers 1 exactly when a register changed, in either encoding and
\* across a promotion.
AddReportsChange ==
    [][ret'.op = "add" /\ Readable(objs[ret'.on]) =>
         (ret'.val = 1 <=> RegsOf(objs'[ret'.on]) # RegsOf(objs[ret'.on]))]_vars

\* A call that fails changes no object: pfMerge checks its sources and its
\* target before it writes, an add that cannot promote writes nothing.
FailureChangesNothing ==
    [][ret'.val = ERR /\ ret'.op # "addmany" => objs' = objs]_vars

\* Registers only grow while a handle keeps its object, except that pfMerge
\* overwrites a target that is not among its sources.
RegistersGrow ==
    [][\A h \in Handle :
         /\ Readable(objs[h]) /\ objs'[h] # Null
         /\ ret'.op # "merge" \/ ret'.on # h
         => \A i \in Index : RegsOf(objs'[h])[i] >= RegsOf(objs[h])[i]]_vars

\* Nothing the library does takes back a promotion or repairs a stream that
\* was cut short: a sparse object that cannot be read never becomes readable.
DamageIsPermanent ==
    [][\A h \in Handle :
         IsHLLObject(objs[h]) /\ ~Readable(objs[h]) /\ objs'[h] # Null
           => ~Readable(objs'[h]) /\ Covered(objs'[h].runs) = Covered(objs[h].runs)]_vars

\* The comment of hllSparseAdd: "On error (if the representation is invalid) -1
\* is returned", here when no opcode covers the element's register.
InvalidAddReported ==
    [][\A h \in Handle, e \in Elements :
         /\ PfAdd(h, e)
         /\ objs[h].enc = "sparse" /\ ~Reaches(objs[h].runs, e.idx)
         => ret'.val = ERR]_vars
=============================================================================
