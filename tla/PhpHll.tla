------------------------------- MODULE PhpHll -------------------------------
(***************************************************************************)
(* The PHP extension, hll.c: a script that holds HyperLogLog resources and *)
(* HyperLogLog objects and calls the functions and the methods on them.    *)
(*                                                                         *)
(* A resource and the robj it owns share one name, a handle; an object     *)
(* keeps a resource in its property "hll".  Zend closes a resource, which  *)
(* runs php_hll_descriptor_dtor, when no variable, no object and no call   *)
(* refers to it any more.  hll_add and HyperLogLog::add convert their      *)
(* arguments to strings before they add anything; converting an object     *)
(* runs its __toString, in which the script may call the extension again:  *)
(* "frames" is the stack of the adds that are converting.                  *)
(*                                                                         *)
(* The conversions are those of PHP 7.4 (try_convert_to_string can fail).  *)
(***************************************************************************)
EXTENDS Integers, Sequences, SequencesExt

CONSTANTS
    Registers, SparseValMaxValue, SparseValMaxLen, SparseZeroMaxLen,
    Handle, Elements, RegisterMax, HdrSize, DenseSize, SparseMaxBytes,
    Estimate(_),     \* all as in HLLObject
    Object,          \* the script's HyperLogLog objects
    NotHll,          \* a value that is no resource and no HyperLogLog
    Nul,             \* the character 0
    Element(_),      \* the element MurmurHash64A makes of a C string
    Inputs,          \* what the script adds: sequences of values
    MaxArgs,         \* bound: sketches given to one merge or count
    Dumpable,        \* bound: the handles the script dumps
    MaxDepth,        \* bound: adds converting inside one another
    Lossy            \* whether the script's storage may damage dumps

VARIABLES
    robjs,      \* robjs[r]: the robj of a handle, Null when there is none
    kept,       \* a dump the script holds as a string
    vars,       \* the resources and objects in the script's variables
    prop,       \* prop[o]: the property "hll" of an object
    frames,     \* the adds in progress, the innermost first
    out,        \* the last call and what it answered
    given,      \* history: the strings in the sketch of a handle
    givenKept   \* history: the strings in the dump

phpVars == <<robjs, kept, vars, prop, frames, out, given, givenKept>>

Lib == INSTANCE HLLObject WITH
    objs <- robjs, stored <- kept, call <- [busy |-> FALSE],
    ret <- [op |-> "none", on |-> <<>>, val |-> 0],
    MaxArgs <- MaxArgs + 1,    \* an object is a source of its own merge
    MaxBatch <- 0

ASSUME LibraryAssumption ==
    /\ Lib!SparseAssumption /\ Lib!ObjectAssumption /\ Lib!EstimateAssumption
    /\ \A hs \in Lib!ArgLists : hs \notin Handle

NoRes == NotHll
Null == Lib!Null

-----------------------------------------------------------------------------
(* Values.                                                                 *)

Scalar(s) == [t |-> "scalar", s |-> s]     \* converted without running code
Stringable(s) == [t |-> "object", s |-> s] \* an object with a __toString
Opaque == [t |-> "opaque", s |-> <<>>]     \* one without, or no scalar at all

\* sdsnew: strlen ends a PHP string at its first NUL.
CString(s) ==
    LET k == SelectInSeq(s, LAMBDA c : c = Nul)
    IN  IF k = 0 THEN s ELSE SubSeq(s, 1, k - 1)

ElementOf(s) == Element(CString(s))

\* What the script adds, and the strings it makes.
Value == UNION {ToSet(input) : input \in Inputs}
Text == {v.s : v \in Value}

\* Handles, objects and other values are told apart; the hash makes an
\* element of every string.
ASSUME ScriptAssumption ==
    /\ Handle \cap Object = {} /\ NotHll \notin Handle \cup Object
    /\ Inputs \subseteq Seq(Value) /\ MaxArgs \in Nat
    /\ \A s \in Text : ElementOf(s) \in Elements

\* What a call answers: "ok" is FALSE for PHP's false or an exception.
Out(fn, ok, val) == [fn |-> fn, ok |-> ok, val |-> val]
Crashed == Out("crash", FALSE, 0)

\* An add: its sketch, the argument or the $this that refers to it, the
\* values to convert, the strings made of them, and whether a __toString runs.
Frame(r, arg, this, todo, done) ==
    [hll |-> r, arg |-> arg, this |-> this, todo |-> todo,
     done |-> done, running |-> FALSE]

-----------------------------------------------------------------------------
(* References.                                                             *)

Alive(o, vs, fs) == o \in vs \/ \E i \in DOMAIN fs : fs[i].this = o

Referenced(vs, ps, fs) ==
    (vs \cap Handle) \cup {ps[o] : o \in {p \in Object : Alive(p, vs, fs)}}
                     \cup {fs[i].arg : i \in DOMAIN fs}

Open == Referenced(vars, prop, frames)

\* Mistake: the resource has no destructor.
DestroyNothing(heap, live) == heap

\* php_hll_descriptor_dtor, for the resources nothing refers to any more.
Destroy(heap, live) ==
    [r \in Handle |-> IF r \in Open \ live THEN Null ELSE heap[r]]

\* A script that frees the sketch of an add that is converting, by
\* constructing its object again, is left out.
SparesAdds(fs, live) == \A i \in DOMAIN fs : fs[i].hll \in live

\* New variables, properties, frames, robjs and history.
Assign(vs, ps, fs, heap, strings) ==
    LET live == Referenced(vs, ps, fs)
    IN  /\ SparesAdds(fs, live)
        /\ vars' = vs
        /\ frames' = fs
        /\ prop' = [o \in Object |-> IF Alive(o, vs, fs) THEN ps[o] ELSE NoRes]
        /\ robjs' = Destroy(heap, live)
        /\ given' = [r \in Handle |-> IF r \in Open \ live THEN {} ELSE strings[r]]

\* Only robjs change, or nothing does.
Write(heap, strings) == Assign(vars, prop, frames, heap, strings)
Nothing == UNCHANGED <<robjs, vars, prop, frames, given>>
KeepDump == UNCHANGED <<kept, givenKept>>

\* The script runs: outside every call, or in the __toString of an add.
Script ==
    /\ out # Crashed
    /\ frames # <<>> => Head(frames).running

\* A handle for a new robj or resource.
Fresh(r) == robjs[r] = Null /\ r \notin Open

HllOf(v) == IF v \in Object THEN prop[v] ELSE v

\* php_hll_from_zval: a resource or an object that has a robj.
Fetchable(v) == v # NotHll /\ robjs[HllOf(v)] # Null

\* php_hll_args_to_list and php_hll_array_to_list: what the script can pass,
\* and the robjs made of it.
ArgLists == UNION {[1 .. n -> vars \cup {NotHll}] : n \in 0 .. MaxArgs}
AllFetched(args) == \A i \in DOMAIN args : Fetchable(args[i])
Fetched(args) == [i \in DOMAIN args |-> HllOf(args[i])]
StringsOf(hs) == UNION {given[hs[i]] : i \in DOMAIN hs}

-----------------------------------------------------------------------------
Init ==
    /\ robjs = [r \in Handle |-> Null]
    /\ kept = Null
    /\ vars = {}
    /\ prop = [o \in Object |-> NoRes]
    /\ frames = <<>>
    /\ out = Out("none", TRUE, 0)
    /\ given = [r \in Handle |-> {}]
    /\ givenKept = {}

(* Creating resources and constructing objects.                            *)

\* php_hll_create.
Created(sparse) ==
    IF sparse THEN Lib!Created ELSE Lib!SparseToDense(Lib!Created)

HllCreate(r, sparse) ==
    /\ Script /\ Fresh(r)
    /\ Assign(vars \cup {r}, prop, frames, [robjs EXCEPT ![r] = Created(sparse)],
              given)
    /\ out' = Out("create", TRUE, 0)
    /\ KeepDump

\* A new object, or one that is constructed again.
Constructible(o) == o \in vars \/ ~Alive(o, vars, frames)

\* Mistake: the property is not replaced.
ConstructedWithoutProperty(o, r, robj, strings) ==
    /\ Assign(vars \cup {o}, prop, frames,
              [robjs EXCEPT ![r] = robj], [given EXCEPT ![r] = strings])
    /\ out' = Out("construct", TRUE, 0)

\* The end of __construct: register the robj, replace the property.
Constructed(o, r, robj, strings) ==
    /\ Assign(vars \cup {o}, [prop EXCEPT ![o] = r], frames,
              [robjs EXCEPT ![r] = robj], [given EXCEPT ![r] = strings])
    /\ out' = Out("construct", TRUE, 0)

ConstructEmpty(o, r, sparse) ==
    /\ Script /\ Fresh(r) /\ Constructible(o)
    /\ Constructed(o, r, Created(sparse), {})
    /\ KeepDump

\* A number, an object, a resource: no branch is taken, and a NULL robj is
\* registered.
ConstructOther(o, r) ==
    /\ Script /\ Fresh(r) /\ Constructible(o)
    /\ Constructed(o, r, Null, {})
    /\ KeepDump

ConstructLoad(o, r) ==
    /\ Script /\ Fresh(r) /\ Constructible(o) /\ kept # Null
    /\ IF Lib!IsHLLObject(kept)
       THEN Constructed(o, r, kept, givenKept)
       ELSE Nothing /\ out' = Out("construct", FALSE, 0)
    /\ KeepDump

\* php_hll_unserialize: a new object, as from its dump.
Unserialize(o, r) ==
    /\ Script /\ Fresh(r) /\ ~Alive(o, vars, frames) /\ kept # Null
    /\ IF Lib!IsHLLObject(kept)
       THEN Constructed(o, r, kept, givenKept)
       ELSE Nothing /\ out' = Out("unserialize", FALSE, 0)
    /\ KeepDump

\* Mistake: the cached cardinality of the new robj is kept.
MergedKeepingCache(target, hs) == Lib!Dense(Lib!MergedRegs(hs), target.card)

\* pfMerge's write to its target.
Merged(target, hs) == Lib!Dense(Lib!MergedRegs(hs), Lib!Invalid)

\* The new robj is created when all sources are fetched; when pfMerge fails
\* it is neither registered nor freed.  No exception tells of a source whose
\* robj is NULL: a script that keeps the object, which then has no property,
\* is left out.
ConstructMerge(o, r, args) ==
    LET hs == Fetched(args)
    IN  /\ Script /\ Fresh(r) /\ Constructible(o)
        /\ CASE ~AllFetched(args) ->
                  Nothing /\ out' = Out("construct", FALSE, 0)
             [] AllFetched(args) /\ ~Lib!AllReadable(hs) ->
                  /\ Write([robjs EXCEPT ![r] = Created(FALSE)], given)
                  /\ out' = Out("constructmerge", FALSE, 0)
             [] OTHER -> Constructed(o, r, Merged(Created(FALSE), hs), StringsOf(hs))
        /\ KeepDump

\* The target is created first: it is lost on every failure.
HllMerge(r, args) ==
    LET hs == Fetched(args)
    IN  /\ Script /\ Fresh(r)
        /\ IF AllFetched(args) /\ Len(args) >= 2 /\ Lib!AllReadable(hs)
           THEN /\ Assign(vars \cup {r}, prop, frames,
                          [robjs EXCEPT ![r] = Merged(Lib!Created, hs)],
                          [given EXCEPT ![r] = StringsOf(hs)])
                /\ out' = Out("merge", TRUE, 0)
           ELSE /\ Write([robjs EXCEPT ![r] = Lib!Created], given)
                /\ out' = Out("merge", FALSE, 0)
        /\ KeepDump

\* Mistake: the object itself is not appended to the sources.
OnlyArguments(hs, target) == hs

\* hll_sources of HyperLogLog::merge.
Sources(hs, target) == Append(hs, target)

Merge(o, args) ==
    LET target == prop[o]
        hs == Sources(Fetched(args), target)
    IN  /\ Script /\ o \in vars
        /\ IF /\ robjs[target] # Null
              /\ args # <<>> /\ AllFetched(args) /\ Lib!AllReadable(hs)
              /\ Lib!Readable(robjs[target])
           THEN /\ Write([robjs EXCEPT ![target] = Merged(@, hs)],
                         [given EXCEPT ![target] = StringsOf(hs)])
                /\ out' = Out("mergemethod", TRUE, 0)
           ELSE Nothing /\ out' = Out("mergemethod", FALSE, 0)
        /\ KeepDump

(* Reading.                                                                *)

\* pfCount: the answer and the object with its cache filled.
CountOf(o) ==
    IF o.card # Lib!Invalid THEN o.card
    ELSE IF Lib!Readable(o) THEN Estimate(Lib!RegsOf(o)) ELSE Lib!ERR

Cached(o) == IF Lib!Readable(o) THEN [o EXCEPT !.card = CountOf(o)] ELSE o

\* HyperLogLog::count and hll_count of one argument.
Count(v) ==
    /\ Script /\ v \in vars \cup {NotHll}
    /\ IF Fetchable(v)
       THEN /\ Write([robjs EXCEPT ![HllOf(v)] = Cached(@)], given)
            /\ out' = Out("count", TRUE, CountOf(robjs[HllOf(v)]))
       ELSE Nothing /\ out' = Out("count", FALSE, 0)
    /\ KeepDump

\* hll_count of more.
CountMerged(args) ==
    /\ Script /\ Len(args) > 1
    /\ out' = IF ~AllFetched(args) THEN Out("count", FALSE, 0)
              ELSE Out("count", TRUE,
                       IF Lib!AllReadable(Fetched(args))
                       THEN Estimate(Lib!MergedRegs(Fetched(args))) ELSE Lib!ERR)
    /\ Nothing /\ KeepDump

\* hll_promote and HyperLogLog::promote; a failure is only warned of.
Promote(v) ==
    /\ Script /\ v \in vars
    /\ IF Fetchable(v)
       THEN /\ Write([robjs EXCEPT ![HllOf(v)] =
                        IF Lib!Readable(@) THEN Lib!SparseToDense(@) ELSE @], given)
            /\ out' = Out("promote", Lib!Readable(robjs[HllOf(v)]), 0)
       ELSE Nothing /\ out' = Out("promote", FALSE, 0)
    /\ KeepDump

(* Dumps.                                                                  *)

\* hll_dump, HyperLogLog::dump and serialize, of a robj.
Dump(v) ==
    /\ Script /\ v \in vars /\ Fetchable(v) /\ HllOf(v) \in Dumpable
    /\ kept' = [robjs[HllOf(v)] EXCEPT !.tail = 0]
    /\ givenKept' = given[HllOf(v)]
    /\ out' = Out("dump", TRUE, 0)
    /\ Nothing

\* php_hll_serialize does not ask whether there is a robj: sdslen of NULL.
SerializeNull(o) ==
    /\ Script /\ o \in vars \cap Object /\ robjs[prop[o]] = Null
    /\ out' = Crashed
    /\ Nothing /\ KeepDump

HllLoad(r) ==
    /\ Script /\ Fresh(r) /\ kept # Null
    /\ IF Lib!IsHLLObject(kept)
       THEN /\ Assign(vars \cup {r}, prop, frames, [robjs EXCEPT ![r] = kept],
                      [given EXCEPT ![r] = givenKept])
            /\ out' = Out("load", TRUE, 0)
       ELSE Nothing /\ out' = Out("load", FALSE, 0)
    /\ KeepDump

\* The script's storage damages the dump.
StorageDamage ==
    /\ Script
    /\ Lib!StorageDamage
    /\ out' = Out("none", TRUE, 0)
    /\ UNCHANGED <<vars, prop, frames, given, givenKept>>

(* Variables.                                                              *)

Unset(v) ==
    /\ Script /\ v \in vars
    /\ Assign(vars \ {v}, prop, frames, robjs, given)
    /\ out' = Out("none", TRUE, 0)
    /\ KeepDump

\* The property is public.
ReadProperty(o) ==
    /\ Script /\ o \in vars
    /\ Assign(vars \cup {prop[o]}, prop, frames, robjs, given)
    /\ out' = Out("none", TRUE, 0)
    /\ KeepDump

\* Zend's clone copies the property, and with it the resource.
Clone(o, p) ==
    /\ Script /\ o \in vars /\ ~Alive(p, vars, frames)
    /\ Assign(vars \cup {p}, [prop EXCEPT ![p] = prop[o]], frames, robjs, given)
    /\ out' = Out("clone", TRUE, 0)
    /\ KeepDump

-----------------------------------------------------------------------------
(* Adding.                                                                 *)

Push(f) == Assign(vars, prop, <<f>> \o frames, robjs, given)
Replace(f) == Assign(vars, prop, <<f>> \o Tail(frames), robjs, given)
Pop(heap, strings) == Assign(vars, prop, Tail(frames), heap, strings)

Top == Head(frames)
Converting == out # Crashed /\ frames # <<>> /\ ~Top.running

\* hll_add holds its resource as an argument.
HllAdd(r, input) ==
    /\ Script /\ r \in vars \cap Handle /\ Len(frames) < MaxDepth
    /\ IF robjs[r] # Null
       THEN Push(Frame(r, r, NotHll, input, <<>>)) /\ out' = Out("none", TRUE, 0)
       ELSE Nothing /\ out' = Out("add", FALSE, 0)
    /\ KeepDump

\* HyperLogLog::add holds $this and has read its property.
Add(o, input) ==
    /\ Script /\ o \in vars \cap Object /\ Len(frames) < MaxDepth
    /\ IF robjs[prop[o]] # Null
       THEN Push(Frame(prop[o], NoRes, o, input, <<>>)) /\ out' = Out("none", TRUE, 0)
       ELSE Nothing /\ out' = Out("addmethod", FALSE, 0)
    /\ KeepDump

Converted(f) ==
    Frame(f.hll, f.arg, f.this, Tail(f.todo), Append(f.done, Head(f.todo).s))

ConvertScalar ==
    /\ Converting /\ Top.todo # <<>> /\ Head(Top.todo).t = "scalar"
    /\ Replace(Converted(Top))
    /\ UNCHANGED out /\ KeepDump

\* The conversion of an object calls its __toString.
CallToString ==
    /\ Converting /\ Top.todo # <<>> /\ Head(Top.todo).t = "object"
    /\ Replace([Top EXCEPT !.running = TRUE])
    /\ UNCHANGED out /\ KeepDump

ToStringReturns ==
    /\ out # Crashed /\ frames # <<>> /\ Top.running
    /\ Replace(Converted(Top))
    /\ out' = Out("none", TRUE, 0)
    /\ KeepDump

AddName(f) == IF f.this = NotHll THEN "add" ELSE "addmethod"

\* The loop of pfAddMany: the answer and the robj after each string; an error
\* ends it.
Additions(o, strings) ==
    LET after[n \in 0 .. Len(strings)] ==
            IF n = 0 THEN [val |-> 0, obj |-> o]
            ELSE LET before == after[n - 1]
                     added == Lib!HllAdd(before.obj, ElementOf(strings[n]))
                 IN  IF before.val < 0 THEN before
                     ELSE [val |-> IF added.val # 0 THEN added.val ELSE before.val,
                           obj |-> added.obj]
    IN  after

\* pfAddMany, and pfAdd for one element: the answer and the robj after it.
AddMany(o, strings) ==
    LET end == Additions(o, strings)[Len(strings)]
    IN  IF end.val = 1 THEN [end EXCEPT !.obj = Lib!InvalidateCache(@)] ELSE end

\* Mistake: what was converted by then is added.
ConversionFailsPartly ==
    /\ out # Crashed /\ frames # <<>>
    /\ Top.running \/ (Top.todo # <<>> /\ Head(Top.todo).t = "opaque")
    /\ Pop([robjs EXCEPT ![Top.hll] = AddMany(@, Top.done).obj], given)
    /\ out' = Out(AddName(Top), FALSE, 0)
    /\ KeepDump

\* An exception, an object without __toString or a value of another type
\* ends the add before anything was added.
ConversionFails ==
    /\ out # Crashed /\ frames # <<>>
    /\ Top.running \/ (Top.todo # <<>> /\ Head(Top.todo).t = "opaque")
    /\ Pop(robjs, given)
    /\ out' = Out(AddName(Top), FALSE, 0)
    /\ KeepDump

\* All strings are made: add them.  hll_add answers "updated == 1", the
\* method stores "updated" as a boolean in its second argument, also when the
\* warning of a failed add has become an exception.
AddStrings ==
    LET r == Top.hll
        added == AddMany(robjs[r], Top.done)
    IN  /\ Converting /\ Top.todo = <<>>
        /\ Pop([robjs EXCEPT ![r] = added.obj],
               IF added.val < 0 THEN given
               ELSE [given EXCEPT ![r] = @ \cup ToSet(Top.done)])
        /\ out' = CASE added.val = Lib!Abort -> Crashed
                    [] added.val # Lib!Abort /\ Top.this = NotHll ->
                         Out("add", TRUE, IF added.val = 1 THEN 1 ELSE 0)
                    [] OTHER ->
                         Out("addmethod", added.val >= 0,
                             IF added.val # 0 THEN 1 ELSE 0)
        /\ KeepDump

Next ==
    \/ \E r \in Handle :
        \/ HllLoad(r)
        \/ \E sparse \in BOOLEAN :
            \/ HllCreate(r, sparse)
            \/ \E o \in Object : ConstructEmpty(o, r, sparse)
        \/ \E o \in Object : ConstructOther(o, r) \/ ConstructLoad(o, r) \/ Unserialize(o, r)
        \/ \E args \in ArgLists :
            \/ HllMerge(r, args)
            \/ \E o \in Object : ConstructMerge(o, r, args)
        \/ \E input \in Inputs : HllAdd(r, input)
    \/ \E o \in Object :
        \/ SerializeNull(o) \/ ReadProperty(o)
        \/ \E args \in ArgLists : Merge(o, args)
        \/ \E input \in Inputs : Add(o, input)
        \/ \E p \in Object : Clone(o, p)
    \/ \E v \in vars \cup {NotHll} : Count(v)
    \/ \E v \in vars : Promote(v) \/ Dump(v) \/ Unset(v)
    \/ \E args \in ArgLists : CountMerged(args)
    \/ ConvertScalar \/ CallToString \/ ToStringReturns
    \/ ConversionFails \/ AddStrings
    \/ StorageDamage

Spec == Init /\ [][Next]_phpVars

-----------------------------------------------------------------------------
\* The type invariant: what a handle, an object and a frame hold.
TypeOK ==
    /\ \A r \in Handle : Lib!ObjectOK(robjs[r])
    /\ Lib!ObjectOK(kept) \/ kept = Lib!Junk
    /\ vars \subseteq Handle \cup Object
    /\ \A o \in Object :
         IF Alive(o, vars, frames) THEN prop[o] \in Handle ELSE prop[o] = NoRes
    /\ \A i \in DOMAIN frames : frames[i].hll \in Handle /\ (i > 1 => frames[i].running)
    /\ out.ok \in BOOLEAN /\ out.val \in Nat \cup {Lib!ERR}

\* The registers a set of strings makes: in each the longest pattern.
RegsFor(strings) ==
    LET E == {ElementOf(s) : s \in strings}
    IN  [i \in Lib!Index |-> Max({0} \cup {e.pat : e \in {x \in E : x.idx = i}})]

\* A sketch is the sketch of the strings of the adds that went through, its
\* own and those of the sketches merged into it: an add whose conversion
\* fails after some of its values adds none of them, an add that a __toString
\* makes counts even if the add around it fails, and a dump keeps them all.
SketchOfAdds ==
    \A r \in Handle :
        Lib!Readable(robjs[r]) => Lib!RegsOf(robjs[r]) = RegsFor(given[r])

\* A valid cached cardinality is right, though the extension creates its
\* merge targets with a cached 0 and promotes objects with what they carry.
CachesCoherent == Lib!CacheCoherent

\* The sketch behind a handle only ever grows: HyperLogLog::merge lists its
\* object among the sources, so that it is never overwritten.
SketchesGrow ==
    [][\A r \in Handle :
         Lib!Readable(robjs[r]) /\ robjs'[r] # Null
           => \A i \in Lib!Index : Lib!RegsOf(robjs'[r])[i] >= Lib!RegsOf(robjs[r])[i]]_phpVars

\* robjs that no resource owns: nothing will free them.
Leaked == {r \in Handle : robjs[r] # Null /\ r \notin Open}

\* Every robj is freed with the last reference to its resource, except those
\* that a failed hll_merge and a failed construction from an array leave
\* behind; what has leaked stays leaked.
LeaksOnlyInFailedMerges ==
    [][/\ Leaked \subseteq Leaked'
       /\ Leaked' # Leaked => out'.fn \in {"merge", "constructmerge"} /\ ~out'.ok]_phpVars

-----------------------------------------------------------------------------
(* What the documentation says.                                            *)

\* README.md on HyperLogLog::add: "$updated will be set to true if the
\* underlying data structure was updated, false otherwise".
UpdatedAsDocumented ==
    [][AddStrings /\ out'.fn = "addmethod" /\ out'.val = 1 => robjs' # robjs]_phpVars

\* hll_add_string.phpt, "Empty string different to non-empty".
EmptyDiffersFromNonEmpty ==
    \A r \in Handle, s \in UNION {given[q] : q \in Handle} \ {<<>>} :
        Lib!Readable(robjs[r]) /\ given[r] = {<<>>, s}
          => Lib!RegsOf(robjs[r]) # RegsFor({<<>>})
=============================================================================
