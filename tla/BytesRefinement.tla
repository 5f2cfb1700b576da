-------------------------- MODULE BytesRefinement --------------------------
(***************************************************************************)
(* The bytes of HLLSparseBytes implement the objects of HLLObject: decoded *)
(* opcode by opcode, every call does to the string what HLLObject says it  *)
(* does to the opcodes.                                                    *)
(***************************************************************************)
EXTENDS HLLSparseBytes

TheHandle == "o"

\* The card bytes that occur here: 0, or no valid cache.
CardOf(s) == IF ValidCache(s) THEN 0 ELSE -1

\* The byte after the last opcode, as the next hllSparseAdd would read it.
TailOf(s) == IF s.buf[s.len] = Nul THEN 0 ELSE ValValue(s.buf[s.len])

Decoded(e, s, r) ==
    IF e = "none"
    THEN [enc |-> "none", regs |-> ZeroRegs, runs |-> {}, size |-> 0,
          tail |-> 0, card |-> -1]
    ELSE [enc  |-> e,
          regs |-> r,
          runs |-> IF e = "sparse" THEN Decode(s) ELSE {},
          size |-> s.len,
          tail |-> TailOf(s),
          card |-> CardOf(s)]

ZeroEstimate(array) == 0

Obj == INSTANCE HLLObject WITH
    Handle   <- {TheHandle},
    DenseSize <- HdrSize,
    Estimate <- ZeroEstimate,
    MaxArgs  <- 0,
    MaxBatch <- 0,
    Dumpable <- {TheHandle},
    Lossy    <- FALSE,
    objs     <- [h \in {TheHandle} |-> Decoded(enc, str, regs)],
    stored   <- Decoded("none", NoString, ZeroRegs),
    call     <- [busy |-> FALSE],
    ret      <- [op |-> ret.op, on |-> TheHandle, val |-> ret.val]

\* A dump that has lost its last opcodes is as canonical as it was.
ASSUME CanonicalAssumption ==
    \A bytes \in Loaded : Obj!Canonical(Decode(NewLen(bytes)))

\* hllLoad of a copy of the bytes: an object HLLObject could hold.
LoadsObject ==
    /\ enc = "none"
    /\ Obj!ObjectOK(Decoded(enc', str', regs'))

\* The call that HLLObject makes for the call just made.
SameCall ==
    CASE ret'.op = "create" -> Obj!Create(TheHandle)
      [] ret'.op = "load"   -> LoadsObject
      [] ret'.op = "free"   -> Obj!Free(TheHandle)
      [] ret'.op = "add"    -> \E e \in Elements : Obj!PfAdd(TheHandle, e)

\* Each call changes the decoded object, the string's length, the terminator
\* and the cache flag as HLLObject's operation of the same name does, and gives
\* its answer: splits, the bytes moved, merges, promotions and the terminator
\* that a stream cut short is read beyond.  The element of an add is not
\* compared: it is some one.
ImplementsObject == [][SameCall]_vars

\* The five opcodes scanned from "prev" on are enough: no two neighbours are
\* left in the bytes that one opcode could hold.
BytesCanonical == Obj!SparseCanonical
=============================================================================
