# HyperLogLog objects of phphll, in TLA+

phphll takes `hyperloglog.c` out of Redis and wraps it in a PHP extension and
a small command line counter. This directory models the library: TLA+ modules
translated from the C code, TLC configurations that check them on small
instances, and theorems that TLAPS proves for every value of the constants.
Paths and line numbers are those of the repository; `hyperloglog.c:862` means
`src/hyperloglog.c`, line 862.

## 1. Inventory

| part | code | state | operations |
|---|---|---|---|
| sparse representation | `hyperloglog.c:357-381, 632-876` | a string of ZERO, XZERO and VAL opcodes, its sds length, the terminator behind it | `hllSparseAdd`: locate, update, split, grow, merge neighbours, promote |
| dense representation | `hyperloglog.c:321-353, 479-552` | 16384 registers of 6 bits in 12288 bytes | `hllDenseAdd`, the GET/SET macros, the unrolled sum |
| pattern length | `hyperloglog.c:438-464` | a hash, a moving bit, a count | `hllPatLen` |
| objects | `hyperloglog.c:1083-1166`, `redis.h` | `robj`: a pointer to an sds string with a header: magic, encoding, cached cardinality | `hllCreate`, `hllLoad`, `hllRaw`, `hllFree`, `isHLLObjectOrReply`, `hllSparseToDense` |
| calls | `hyperloglog.c:1169-1342` | none of their own | `pfAdd`, `pfAddMany`, `pfCount`, `pfCountMerged`, `pfMerge` |
| estimate | `hyperloglog.c:498-552, 882-1018` | the static table PE and its flag, shared by all threads | `hllCount` and the three sums |
| hash | `hyperloglog.c:389-434` | none | `MurmurHash64A` |
| sds | `sds.c`, `sds.h` | length, free space, block, terminator | making, growing, cutting and overwriting strings; printing, quoting, splitting and joining text |
| PHP extension | `php/hll.c` | PHP resources and objects that own handles | functions and methods over the calls, serialization |
| counter | `hllcnt.c`, `utils.c` | one handle, a line buffer | read a line, `pfAdd`, count at the end |
| Redis commands | `hyperloglog.c:1345-1782` | | compiled only under `REDIS_CLIENT`, which no build file defines |

**How they interact.** A client holds handles. Every call goes through the
header of the string: the encoding selects the dense or the sparse code, the
most significant bit of `card[7]` says whether the cached cardinality may be
answered. The sparse code calls the conversion and then the dense code when it
promotes; the low-level adds leave the cache to their caller on one path
(`hyperloglog.c:862-875`) and invalidate it on another (`857-860`). Sparse
updates work in place, on the capacity and the terminator that sds provides.
The bytes of an object leave the process through `hllRaw` and return through
`hllLoad`, which checks the header and nothing of a sparse body.

**What is hard.** There is no network, and the README of the repository disclaims
thread safety; but a PHP built for threads runs the extension in several, each on
objects of its own, and they share the table that `hllCount` fills on first use.
Most of what goes wrong here goes wrong over long sequences of legal calls: an order of splits and merges that leaves a stream
with a gap, an overlap, a wrong length or two opcodes that should be one; a path
that changes a register and forgets the cache; a batch that fails half way; a
merge that finds a bad source after it started; a string that was stored, cut
short and loaded again; registers that straddle bytes; a memmove that leaves the
terminator behind; free space that is computed anew in five places; a loop that ends
because of one forced bit. `PROJECT.json` lists each of these with its line and
the properties that would catch it.

The extension adds one more: converting an argument may run the script's own code,
which calls the extension again before the first call has done anything.

**What makes each part correct.**

- sparse: the opcodes cover each register exactly once, within their bit
  widths; the length kept by sds is that of the opcodes and stays within the
  limit; no mergeable neighbours remain; a register reads what was put there.
- dense: the macros are an array of numbers; the byte behind it stays 0.
- estimate: the three sums add the same terms for the same registers, and no
  thread uses a table that is half filled.
- sds: the header describes the block, the terminator stands behind the string,
  old bytes never become part of it, and what one function writes another reads back.
- pattern length: it ends, answers the place of the lowest 1 bit and fits a
  register.
- objects and calls: an object is a function of the set of elements it was
  given; the encoding cannot be seen; a valid cache is what would be computed;
  a failed call changes nothing; damage is never taken for a complete sketch.
- extension: a sketch holds exactly what the calls that succeeded put into it,
  whatever the script did in between; a robj lives as long as its references.
- counter: it stays inside its buffer, and the lines before the first empty one reach the
  sketch whole, but for a last character that no newline follows; a failed read loses nothing.

## 2. Modules

```
HLLSparse          operators: opcodes, streams, split, merge scan
  HLLObject        objects, the calls, the client and its storage
    ObjectRefinement   HLLObject implements SketchBank
      HLLHistory   + the elements each object was given
SketchBank         abstract: a bank of register arrays
Sds                one sds string: header, block, bytes; room and length
  SdsString        a client of every function that changes a string
  SdsText          the functions that write and read text
  HLLSparseBytes   hllSparseAdd on the bytes of its string
    BytesRefinement    the bytes implement HLLObject
HLLPatLen          hllPatLen, one step of its loop at a time
HLLDense           the packed registers and their macros
  HLLCount         hllCount's table, its threads and the sums
PhpHll             the extension: a script over the operators of HLLObject
HllCnt             the command line counter
HLLObjectProofs    lemmas about HLLSparse, theorems about HLLObject
  HLLHistoryProofs   theorems about HLLHistory, the refinement of SketchBank
    PhpHllProofs       theorems about PhpHll (an INSTANCE of it)
SdsStringProofs    lemmas about the operators of Sds, theorems about SdsString
HLLBytesProofs     theorems about HLLSparseBytes and BytesRefinement (an INSTANCE
                   of HLLObjectProofs and one of SdsStringProofs)
HLLCountProofs     theorems about HLLPatLen, HLLDense and HLLCount
SdsTextProofs      theorems about SdsText
HllCntProofs       theorems about HllCnt
MCHistory, MCBytes, MCCount, MCSds, MCPhp, MCCnt       instances for TLC
```

There are two chains of refinement. A client that knows only `SketchBank` sees no
encoding at all; `HLLObject` implements it with opcodes as records in a set; and
`HLLSparseBytes` implements `HLLObject` with bytes in a string of `Sds`. Both are proved.

**HLLSparse.** The stream is a *set of placed opcodes*: records with the kind,
the first register covered (the variable `first` of the locating loop), the
run length and the value. The order of the stream is the order of `first`, the
pointers `p`, `prev` and `next` are the opcode at a register, at the register
before `first` and at the register after the run. `Split` is Case D, `DeltaLen` the
bytes by which it changes the length, `MergeScan` the five turns of the merge
loop: a merged opcode stays under `p`, as the code's `continue` does. What is
abstracted is the encoding of an opcode into bits, which `HLLSparseBytes` has; its
limits are in `RunOK`.

**HLLObject.** The variables are `objs` (what each handle points to), `stored`
(bytes kept outside), `call` (a `pfAddMany` in progress) and `ret` (the last
answer). An object has its encoding, registers or stream, sds length, cached
cardinality, and `tail`: the value of the VAL opcode that an add to a truncated
stream has written over the terminator (0: the terminator is untouched, and
reads as ZERO of length 1). Elements are pairs of a register and a pattern
length, which is what `hllPatLen` makes of them. Each call is one action, with
`pfAddMany` one action per element, so that states inside the loop exist and
its early return is a step of its own. `SparseAdd` follows the order of the
code: the value limit, the empty stream, the stream that does not reach the
register, Case A, B and C (one register: overwritten), D (split, or promoted
when the growth is refused), then the merge scan. The model of storage
(`StorageDamage`) drops the last opcode of a sparse string or spoils it
so that the header check refuses it; it is there because the code carries the
`idx == HLL_REGISTERS` checks for exactly such strings.

`SparseToDense` keeps the cached cardinality, as the header copy in
`hyperloglog.c:577` does, and `PromoteAdd` does not invalidate it: callers do.

**HLLHistory** adds the set of elements each object was given. **SketchBank** is
what a client may rely on, with no encoding, stream, promotion or cache.
It is a specification of its own and not a translation. `ObjectRefinement` maps an
object to a sketch: absent, refused, live with its registers, or
broken (truncated) with the count it carries.

**Sds** is the string of `sds.h`: `len`, `free`, the block behind them (`alloc` bytes)
and a function from addresses to bytes. `Store`, `Move` and `Realloc` are memcpy,
memmove and realloc; a store outside the block enlarges the function's domain, where
`Inside` sees it, and bytes that realloc adds hold `Unset`, which is no character.
`MakeRoomFor`, `IncrLen` (with its assertions, `IncrAllowed`) and `NewLen` are the three
that the rest of the library builds on. **SdsString** is a client of one string and
every function that changes it; between `MakeRoom` and `Incr` the client may write
behind the end (`Stage`), as the example above `sdsIncrLen` does, and `staged` is what
it wrote. **SdsText** has the functions of characters: `Printed` is sdscatvprintf with
its buffer that doubles, `Repr` and `SplitArgs` quote and parse, `Split` and `Join`,
`FromLongLong`. Their client makes up a text or a number. `FromLongLong` is the set of the texts that
may be made: the negation of the least long long overflows (sds.c:535), which is undefined, and
`Magnitudes` lets the result be any number.

**HLLSparseBytes** is `hllSparseAdd` on such a string: the opcode macros as arithmetic
on bytes whose fields have the widths that `SparseZeroMaxLen`, `SparseValMaxValue` and
`SparseValMaxLen` give them (64, 32 and 4 in the code), `Stands` (where the loop over the
opcodes stands, turn by turn), `Locate` (step 1), `SplitBytes` (the buffer `seq`),
`Substitute` (memmove, sdsIncrLen, memcpy in this order), `MergeLoop` (five opcodes from
`prev`; the second opcode is overwritten and the rest moved over the first), `Decode`
and `SparseSum`. A failed assertion is the answer `Abort`. **BytesRefinement** the string into an object of `HLLObject` and demands that each call does there what
the action of the same name does, an add for some element.

**HLLCount** is `hllCount` in several threads. `PE` is the set of entries that hold their
value, `initialized` the flag; `Enter` reads the flag, `Fill` writes one entry, `Publish`
sets the flag. `DenseSum` reads packed bytes with the unrolled loop, `RawSum` an array
in words of eight registers. E is the number of times each `PE[v]` is added.

**HLLPatLen** holds the hash as the set of its 1 bits. **HLLDense** holds the
bytes and writes them with the shifts, masks and 8-bit stores of the macros,
next to the array of numbers they stand for.

**PhpHll** is a script that holds resources and objects. A resource and its robj
share a name in `robjs`; `vars` are the script's variables, `prop` the property
`hll` of each object. A resource is open while a variable, an object that is
alive or the argument of a call refers to it, and `Assign` destroys the robj of
those that no longer are. `HLLObject` is instantiated with `robjs` for its
objects, and its operators do the work of the library: `HllAdd`, `MergedRegs`,
`AllReadable`, `SparseToDense`. Functions and methods are one action each, except
the adds: `HllAdd` and `Add` push a frame on `frames`, the values are converted
one by one, an object's conversion (`CallToString`) lets the script run, and with
it any other action, until `ToStringReturns` or `ConversionFails`; `AddStrings` is
the call of `pfAdd` or `pfAddMany` at the end. `given` is a history of the
strings in each sketch. Strings are short sequences of characters, and `CString`
is what `sdsnew` leaves of them.

**HllCnt** takes one step per character. `buffer` is what has been written to the
buffer, `bufsize` the bytes allocated; the sketch is the sequence `added`. Reads of the
stream may begin to fail and cease again (`Fault`). A failed read gives EOF without feof, and
the loop goes on (`ReadError`), unless the end was met before: feof stays set.

## 3. Runs

Definitions whose comment begins with "Mistake" are plausible bugs of the
definition that follows them. For every property of a passing run,
`PROJECT.json` names one that makes the run fail.

| run | instance | checks |
|---|---|---|
| `object_storage` | 2 handles, 2 registers, one handle stored, damaged and loaded | `TypeOK`, `CacheCoherent`, `ImplementsBank`, `FailureChangesNothing`, `DamageIsPermanent` |
| `object_merge` | 2 handles, 5 registers, 4 elements, batches and merges of up to 2, six bytes a string | `RegistersAreSketch`, `StreamsComplete`, `SparseWithinLimit`, `NeverAborts`, `CountsAreOfUnion`, `RegistersGrow`, `AddReportsChange` |
| `sparse_bytes` | 1 object, 11 registers, bytes of 4 bits, seven bytes a string, two streams cut short | `TypeOK`, `StringKept`, `SumOfRegisters`, `BytesCanonical`, `ImplementsObject` |
| `patlen` | every hash of 9 bits, 3 of them the index | `PatLenTypeOK`, `PatternRight`, `CountFitsRegister`, `Terminates` |
| `counting` | 16 registers in 12 bytes, at most 2 of them not zero, 5 bit patterns, 2 threads | `TypeOK`, `PackedArray`, `CountsAgree` |
| `sds` | strings of up to 3 of 3 characters; texts of up to 4 of 12 characters; long longs from -128 to 127 | `TypeOK`, `StringKept`, `GrowthPromised`, `CutsPromised`, `WritesWhole`, `ArgsReadBack`, `PartsJoinBack` |
| `php_calls` | 2 handles, 2 objects, merges of 1, dumps that may be damaged | `TypeOK`, `SketchOfAdds`, `SketchesGrow`, `LeaksOnlyInFailedMerges` |
| `php_callbacks` | 2 handles, 1 object, arrays with objects, adds 2 deep, merges of 2 | `SketchOfAdds`, `CachesCoherent` |
| `counter` | every text of up to 6 characters, growth by 2, reads that fail and recover | `WritesInside`, `NothingLost`, `Ends` |
| `object_truncated` | 1 handle, stored and damaged | `InvalidAddReported`: violated |
| `php_updated` | 2 handles, damaged dumps | `UpdatedAsDocumented`: violated |
| `php_strings` | strings with NULs | `EmptyDiffersFromNonEmpty`: violated |

The runs of `HLLObject` follow `HLLHistory`'s specification, whose steps are those of
`HLLObject` with a history of the elements each object was given.

**Bounds.** Registers, opcode limits, header and size limits are constants, and
the instances keep their order: a ZERO holds fewer registers than there are, a
VAL fewer still or as many, patterns exist above the largest VAL value (they
force a promotion), and the size limit is met after a few splits. Five registers
with VAL runs of two hold a split with a piece on each side and a merge on either side of
an update, in two objects at once. Eleven registers in bytes of four bits hold an XZERO
whose length needs its second byte, splits of it into XZERO and ZERO, VALs of four
registers and of two values, and every sequence the merge loop can meet: `prev`, three
pieces and `next`. The strings there get no more room than is asked for
(`MaxPrealloc` 0), so that a byte too many is a byte outside the block. `MaxArgs` bounds the
arguments of a merge (2: two sources, or a target among them), `MaxBatch` the
elements of a `pfAddMany` (2: one before and one after a promotion or an
error; 1 where the batch is not the question), `Dumpable` the handles whose bytes
are stored. `MCEstimate` is injective, so that any wrong register shows as a wrong count.

Sixteen registers are one turn of the unrolled loop, two words of the raw sum, four periods
of the byte layout (4 x 6 bits = 3 bytes), and the last of them also touches the terminator; two
of them not zero are two neighbours in a byte, and two in different words. The
patterns are all bits, none, the ends and both alternations. Between the first call of a thread and
its answer the other may take any number of steps.

Three characters are a string with two ends and a middle, for `sdstrim`
and `sdsrange`; the letters are NUL and a pair that the tables of `sdsmapchars` exchange.
Strings grow past the preallocation limit of 2, so that both ways of `sdsMakeRoomFor`
are taken. A buffer that starts with 2 bytes (16 in the code) is doubled twice by texts of four
characters, which end before, at and behind each of its sizes. The twelve letters of the
texts have one of each kind that quoting tells apart: NUL, blank, both quotes, the
backslash, `x`, letters that follow a backslash, hexadecimal digits, a byte without
a letter, plain ones.

For the extension two registers suffice: it never looks into a sketch, and what
matters is which sketches a call reads and writes. The strings of `MCElement` put
two patterns into one register and one above the VAL limit, so that adds promote.
`MaxDepth` bounds the adds that convert inside one another: two is an add inside
an add. `MaxArgs` is 1 in `php_calls`, where an object lists itself next to one
argument; merges of two resources are in `php_callbacks`. A buffer that grows by two meets each position of
a line end relative to a growth within six characters.

**Fairness.** `HLLPatLen` and `HllCnt` have weak fairness of their step, because a
function that was called, or a program that reads its input, runs until it returns. In `HllCnt` this is the
fairness of the program's turns (`Turn`) only: nothing makes reads succeed again, and `Ends` is claimed
of streams whose reads do not fail for ever. The client of `HLLObject` owes
nobody a call and there is no liveness claim about it. `patlen` and the
counter's runs switch the deadlock check off because a function that has returned stops, the
runs of `MCPhp` because a process that has crashed does (`SerializeNull`).

## 4. What the violations show

- `object_truncated`: an add to a stream that ends before the element's
  register does not answer -1 as `hyperloglog.c:626` says; the loop ends with
  `span` other than 0, the test in line 684 passes and the terminator is
  decoded. No other property breaks: the object stays unreadable for every
  decoder (`DamageIsPermanent`).
- `php_updated`: an add that fails sets `$updated` to true (hll.c:620), while its
  warning becomes an exception.
- `php_strings`: strings are cut at their first NUL (hll.c:288), so a string of one NUL
  counts as the empty string.

The models also follow the code where it departs from its documents and no run is
spent on it:

- `pfCountMerged` of one NULL handle is an error, of two it is 0; the comments in
  `hyperloglog.c:1229` and `1293` say empty. `ImplementsBank` fixes both answers.
- The longest pattern is 64-P, not 64-P+1 (`hyperloglog.c:444`): `PatternRight`.
- The count of a sketch that cannot be read is -1 for the script (hll.c:690): `Count`.
- Objects can be cloned, and share their sketch (hll.c:869): `Clone`.
- An object constructed from a number cannot be serialized (hll.c:109) although
  constructing it raised no error: `ConstructOther`, `SerializeNull`.
- `sdssplitlen` answers an array with a count of 0 for an empty string, not NULL
  (sds.c:458); `sdstrim` also cuts NULs, which strchr finds in every set; `sdsrange` with an end before
  the start of the string keeps its first character: `Split`, `Trim`, `KeepRange`.
- An empty line ends the counter, and the last entry loses a character when no
  newline follows it (utils.c:29-32): `Chopped`, `AddLine`. `NothingLost` says that nothing else is
  left out.
- When reads fail for ever, on a directory for example, the counter never ends, because only feof
  and the delimiter end the loop of `readln` (utils.c:25): `ReadError`.
- `sdsfromlonglong` of the least long long is undefined (sds.c:535): `Magnitudes`. `WritesWhole` is
  about all the others.

## 5. Proofs

TLAPS checks these for every value of the constants that satisfies their
assumptions. Each component's invariant is inductive: there is one lemma per
action, and the theorems follow from it.

**`HLLObjectProofs`**, for any number of handles, elements and registers and
with a storage that damages bytes:

- `TypeCorrect`, `CacheAlwaysCoherent` and `NoAbort`. `AddFacts` states what every
  path of `hllSparseAdd` and `hllDenseAdd` promises its caller: an answer other than 1
  leaves the object alone; on a readable object there is no error, and 1 comes
  exactly with a raised register; an unreadable object stays unreadable. That is
  why the redisAssert holds (the promotion is only reached with an element above
  the register). The inductive invariant `IInv` adds to the types that
  every cache is right, or belongs to the object of a `pfAddMany` that has
  changed a register and has not reached its end. The early return of
  `pfAddMany` keeps it because a batch can only fail on an unreadable object,
  whose cache the invariant does not speak of.
- `AddReportsRight`, `FailuresAreClean`, `RegistersOnlyGrow` and
  `DamageStays`, which are about steps, and `WithinLimit`, `AlwaysComplete` and `AlwaysCanonical`
  (`SparseCanonical`, which `sparse_bytes` checks as `BytesCanonical`), about the
  strings of sparse objects. The second inductive invariant, `SInv`, rests on `IInv`: every
  object and the stored bytes are `Kept` (within the limit, canonical and, unless the storage
  damages bytes, complete and as long as header and opcodes are), and nothing has been
  answered while a `pfAddMany` runs, so that its steps are not taken for those of the
  call before it. One lemma per action shows `StepOK`: `SInv` afterwards, every handle
  treated well (`Tame`: registers grow, or the handle was the target of a merge; what is
  unreadable stays so and covers what it did), and the answer true.

It begins with lemmas about the operators of `HLLSparse`. `SplitStream`: replacing an
opcode by its split keeps the stream decodable, reaches the same registers
and changes exactly one value. `MergeScanStream`: the merge scan
keeps the stream decodable, its registers and its values, and never adds
bytes. Both rest on `Replace`: a part of a stream may be exchanged for
opcodes that cover the same registers. `SplitBytes` and `MergeScanBytes` count
bytes: a split changes the length by exactly `DeltaLen`, the merge scan takes off
exactly what the opcodes it merged had. `UpdateCanonical`: in a stream where no two
neighbours could be one opcode, the five turns of the scan that follow an update leave
none. A merge loosens no other neighbours (`MergeTightens`), the pieces of a split are loose in at most
four places, all of them ahead of the scan (`SplitAhead`), and each turn deals with the
next place (`Turn`).

**`HLLHistoryProofs`**:

- `SketchOfASet` (`RegistersAreSketch`) and `CountsOfASet` (`CountsAreOfUnion`): the
  registers of an object are those of the *set* of elements it was given, and a count is
  the estimate of the union of theirs. `RegsFor` of a set is made a sum over its elements by
  `RegsForMore` (one element more raises one register, or none) and
  `RegsForUnion` (a union is the maximum, register by register). The invariant `HInv` says
  `Exact` of every object and of the stored bytes, NULL included, because
  `pfAdd` of NULL starts from it; nothing is said of an object that cannot be
  read. It is inductive only with `IInv`, which has what an add does.
- `ObjectsAreABank` (`ImplementsBank`): `HLLObject` implements `SketchBank` under the
  mapping `BankOf`. One lemma per action shows that it is the bank's action of the same
  name; `hllSparseToDense`, called by the client or by an add, leaves every
  sketch as it is. One fact is needed that no state predicate of the bank shows, `BrokenStale`: while a
  `pfAddMany` that has changed something runs, its object is readable or has
  lost its cached count already. Without it the invalidation at the end of the loop would
  change the count that a broken sketch carries, in a step where the bank changes none.

**`PhpHllProofs`**: `TypesOK`, `SketchesAreOfAdds`, `CachesAreCoherent`,
`SketchesOnlyGrow`, `OnlyFailedMergesLeak`, for any script: any depth of adds inside the
`__toString` of adds, any number of handles and objects. The invariant `Inv` has four parts:
`HeapOK` (every robj is well formed, its cache right, its registers those of its strings),
`RefsOK` (an object that is alive has a resource, and the sketch of every add on
the stack is open and is there, although the script ran since the add fetched it),
`DumpOK` and `OutOK`. Nearly every action is an `Assign` of new references after some robjs
`Becomes` others; `AssignKeeps` shows once what all of these keep (`Keeps`: the
invariant, growth, and which resources leak), and each action shows that its change is such
a one. `AddManyFacts` is about `pfAddMany` as the extension calls it: `Additions` is a
recursive function, and the fact about its n-th turn is proved by induction over
a set of numbers (`UpTo`, from the well-foundedness of the naturals). `PhpHll` has its own
instance of `HLLObject`; the first lemmas identify its operators (`Lib!`) with those that the
lemmas of `HLLHistoryProofs` speak of (`Facts!`).

**`SdsStringProofs`**: `TypeCorrect`, `BlocksAreKept` (`StringKept`), `GrowthKeepsText`
(`GrowthPromised`), `CutsKeepTheirPart` (`CutsPromised`), for strings and texts of any length and any
preallocation limit. `Fit` says that the header describes the block, which has all its bytes and no
others, and that every byte in the length is a character, `Whole` adds the terminator. There is one lemma for
each function of `Sds` (`StoreFacts`, `MakeRoomFacts`, `NewLenFacts`, ... `TrimFacts`,
`KeepRangeFacts`): it is given a whole string and returns one, with the text that its
comment promises (`JoinIs`: reading the bytes of two neighbours gives the two texts
one after the other). The invariant needs one thing more than `StringKept`: the characters the client
has staged lie behind the end (`Holds`), so that `sdsIncrLen` finds characters there and
no bytes that nobody wrote.

**`HLLBytesProofs`**: `BytesImplementObjects` (`ImplementsObject`), `BytesKept` (`StringKept`),
`BytesStayCanonical` (`BytesCanonical`), `SumRight` (`SumOfRegisters`), `BytesTyped` (`TypeOK`) and
`AddsNeverAbort`, for any field widths that fill a byte, any number of registers, any limit,
any preallocation and any elements.

- The string. A `Piece` is a set of opcodes with the bytes and the registers that they
  fill without a gap; `Lay` is where each of them lies. Pieces are joined (`JoinPieces`), cut
  (`CutPiece`), and moved to other addresses and to another string (`MovedPiece`), which
  is what the memmoves do. `Streams` says that all of a string behind its header is a
  piece, `Between` that an address and a register are a border between two. Opcode
  by opcode, what the macros store is what the macros read (`ValWritten`, `ZeroWritten`,
  `XZeroWritten`), by quotients and remainders.
- The loop. `WalkExists` builds the recursive function of a loop over opcodes, by induction over a
  set of numbers: it ends because every opcode has a byte. `StandsAre` then makes
  an induction over the turns of `Stands` out of it, and `Decodes`, `LocatedInside`
  and `LocatedBehind` say what the loop finds: the opcode that covers the
  register, or the terminator of a string that ends before.
- A call. `SubstituteFacts` is the memmove, the sdsIncrLen and the memcpy
  of a split: the bytes before are left, `seq` is there, those behind have moved and nothing is
  outside the block, with what `SdsStringProofs` proves of sds. `MergeStepFacts` lets a turn of the merge
  loop on bytes and one on opcodes keep `ScanAt`, the relation that holds after
  `Updated` begins on both sides. `UpdateInside` and `UpdateBehind` go through the cases A to D,
  and `SparseAddAgrees` concludes that both calls give the same answer
  and leave objects that `Agrees` relates.
- The invariant. `BInv` says that the string `Represents` some object of `HLLObject`
  that is well formed and canonical, and that no call has aborted. The properties
  alone are not inductive: `StringKept` and `TypeOK` say nothing of what opcodes the bytes
  are, and a stream whose opcodes overlap the end, or a length that differs from theirs, would break both in
  the next split. For a stream cut short, the byte behind it is part of the invariant (`TailIs`:
  the terminator, or a VAL that an earlier add has left there), because the next add reads it.
- The sum. `Summed` relates the result of the recursion at each turn to the
  registers from that turn on (`Count`, a cardinality), and `SummedRun` goes on by one opcode.

**`HLLCountProofs`**: first `hllPatLen`, for every width, index and hash: `PatLenTyped`,
`PatLenFitsRegister`, `PatLenRight`. `PatLenInv` says that the tested bit is inside the word, that
the count follows the bit, and that every bit passed was 0. Then `BytesTyped` (`TypeOK`), `ArrayIsPacked` (`PackedArray`), `CountsAlwaysAgree`
(`CountsAgree`), for any number of registers and threads and any values. They
have the hypothesis `Bits = 6`, which is what HLL_BITS is: the prover needs numbers for the shifts. Four
registers lie in three bytes. `GetFacts` and `SetFacts` turn the shifts and masks of the
macros into quotients and remainders; `ReadGroup` and `WriteGroup` say what the four
places of a group read, and what each reads after a store into one of them; `Writing` and
`Reading` say this of the whole array: a store changes one register, and the unrolled loop reads
what the macro reads. `Array` is then inductive. The sum of `hllRawSum`, word by
word, is shown to be the number of zeros (`SumExists`, `SumUnique`). The invariant `CInv`
says where each thread is (`ThreadOK`): one in the loop of `hllCount` has filled every entry before
its own, one past the flag finds all of them there, and one that has its sum has that
of the registers. An entry is never emptied, so that no other thread can undo any of it.

**`SdsTextProofs`**: `WritesAll` (`WritesWhole`), `ReadsBack` (`ArgsReadBack`) and `SplitsAndJoins`
(`PartsJoinBack`), for texts and separators of any length, any greatest long long and any tables
of escapes that satisfy `TablesAssumption`. The state is only a text and a number (`GivenTyped`);
all the work is in the functions. Each of them is a recursive function over places: of
a search, of a parser, of a sequence, of a number.

- `Descends` says that the next place is nearer the end, by a measure that is bounded. From it `RecursionExists`
  builds the function that has the recursion's equation, so that the one that the module's definition chooses
  has it too, and `RecursionInduction` shows what holds at the last places and is
  handed back from the next one of each. Both are by the least element of a set of numbers, because the library's induction
  theorems take an operator. What is left of each function is its equation (`TokensRecur`, `ArgsRecur`
  and the others) and one step of induction.
- `sdssplitlen`: `Found` is the search's invariant (no separator between the start of the part and the place) and
  `Joined` what the tokens from there on say of the rest of the text. The hard case is a separator
  that overlaps itself: a part must be free of it at its last places too (`PartPlace`).
- `sdsfromlonglong`: digits divided off are read back, and there is one at least (`DecimalReads`); the least long long
  is excepted.
- `sdscatvprintf`: a probe that finds NUL means that the text, or its part before its first NUL, lies in the buffer whole; else
  the buffer doubles until it exceeds the text.
- `sdssplitargs`: `QuoteRun` goes through the quoted text from the back: from the place of each character
  to the closing quote the parser adds that character and those that follow it, and nothing
  else, whatever it has read before. One character is `ReprChar`'s one, two or four, and the
  turn there reads it back because the tables tell all of them apart. `StringRead` is then a whole argument.

**`HllCntProofs`**: `NeverWritesOutside` (`WritesInside`) and `NothingIsLost` (`NothingLost`), for
every input, growth rate and failure of reads. `Room` says that the buffer has
room for one byte more than it holds, which the growth test restores after each character.
`Kept` says that a line that is complete ends with the delimiter, so that chopping it and
terminating it again gives it back; behind the end of the input (`AtEof`), that either all
is still there or the last line was added without its last character, which `FrontOf` relates to the
text. That the lines add up to the text needs
facts about the community module's `FlattenSeq`, again a recursive function
(`FlattenAppend`).

**Assumptions.** `SparseAssumption` (the sizes are positive), `ObjectAssumption`
(VAL values fit registers, elements have a pattern of at least 1, an empty
object fits the size limit), `EstimateAssumption` (an estimate is a natural
number and 0 on no registers), `HandleAssumption` (a handle is not a list of handles),
`LibraryAssumption` (these, for the extension's library), `ScriptAssumption` (handles, objects and other
values are told apart, every string has an element), `SdsAssumption` and `StringAssumption`
(the limit is a number, texts are sequences of characters with NUL among
them, the tables of `sdsmapchars` have one length), `DenseAssumption` and `CountAssumption` (the
registers fill whole bytes and whole words of eight, values fit), `BytesAssumption` (a VAL's
value and length fill the bits below its mark, an XZERO can cover all registers, and
what `ObjectAssumption` says), `LoadedAssumption` and `CanonicalAssumption` (the dumps that are loaded
are those of hllRaw, or what is left when whole opcodes were lost: `hllLoad` itself looks at the header only), `WidthAssumption`
(the pattern fits a register), `GrowRateAssumption` and `TextsAssumption` (the growth is positive,
texts are sequences), `TextAssumption` and `TablesAssumption` (the buffer starts with two bytes or more and separators are
not empty; escapes and digits can be told apart, what has neither is printable, a quote is no blank). TLC evaluates them on every run of a module that uses them.

**Only model-checked:**

- `Terminates` of `hllPatLen` and `Ends` of the counter, which are liveness under fairness.
  Every other property of a passing run is a theorem.
- The three properties of section 4, which the code violates.

## 6. Not modelled

- `MurmurHash64A`: any value it may answer is an element.
- The floating-point formula of `hllCount`: a function of the registers. What goes into
  it, the terms of the sum and the number of zeros, is in `HLLCount` and `HLLSparseBytes`.
- Weak memory: the stores of a thread are seen in program order. For plain C variables
  nothing promises that; a compiler or a processor that set the flag before the table
  would break `CountsAgree`.
- Streams that are cut inside a two-byte XZERO, or that hold other bytes than hllSparseAdd
  writes: `hllLoad` lets them in, and what is read then lies outside the string.
- `sdscmp` and `sdsAllocSize`, which change nothing (`HeaderOK` is what the second counts on);
  a `len` or `free` near the largest int.
- Of the extension: `hll_info`, the parsing of parameters, the conversions of
  PHP before 7.4 (where `try_convert_to_string` cannot fail), and scripts that
  write to `->hll`, call a method before the constructor, keep an object whose
  constructor failed without an exception (a source with a NULL robj), or
  construct an object
  again inside a `__toString` that an add of the same object is running and so
  free the sketch the add holds (`SparesAdds`). The conversion of an error's -1 from an
  unsigned count to a PHP integer is one assignment (hll.c:690).
- Lines of 2^31 characters or more, whose length `readln` returns as an int (utils.c:34).
- The `REDIS_CLIENT` block, the vendored PHP test driver, `junk/`, build files.
- Allocation failure: the library does not look for it outside sds, and sds's callers do
  not look at its answers.
- A dense string with arbitrary bytes is any register array, which adds reach;
  a sparse string with too many registers is not produced by the storage model.

## 7. Plan

Done in this order, the most important behaviour first: `HLLSparse` and
`HLLObject`, then `SketchBank` and `ObjectRefinement`, `HLLHistory`, `HLLPatLen`,
`HLLDense`, the proofs of the core, `PhpHll`, `HllCnt` and its proof; then `Sds`,
`SdsString` and `SdsText`, `HLLSparseBytes` and `BytesRefinement`, `HLLCount`, and the
proofs about the steps of `HLLObject`; then the proofs about `HLLHistory` and
the refinement of `SketchBank`, `PhpHll`, `SdsString`, `HLLCount` and what the counter adds. Last came the sparse bytes: the loops of
`HLLSparseBytes` as one walk over the opcodes, and the proof that they implement `HLLObject`; and
the text functions of `SdsText`, whose parser became a function of its loop's variables.

What is left is what no prover here can do: the liveness of the two loops.
