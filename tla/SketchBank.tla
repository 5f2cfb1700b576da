----------------------------- MODULE SketchBank -----------------------------
(***************************************************************************)
(* What the library promises its clients, with nothing of how an object is *)
(* stored: a bank of sketches that only hold a register array.  There is   *)
(* no encoding, no promotion and no cache here: a count is always the      *)
(* estimate of the registers.  A sketch whose bytes the client's storage   *)
(* has cut short is "broken": it never becomes live again, nothing can be  *)
(* merged from it or into it, and the only count it ever answers is the    *)
(* one it carried when it was stored.                                      *)
(* HLLObject implements this specification.                                *)
(***************************************************************************)
EXTENDS Integers, FiniteSetsExt

CONSTANTS Handle, Elements, Registers, RegisterMax, Estimate(_),
          MaxArgs, MaxBatch

VARIABLES bank,   \* bank[h]: the sketch of a handle
          kept,   \* the sketch a client stores outside
          call,   \* the batch of adds in progress
          ret     \* the last answer

bankVars == <<bank, kept, call, ret>>

Index == 0 .. Registers - 1
Nothing == -1                                  \* no count is carried

Absent        == [st |-> "absent"]
Refused       == [st |-> "refused"]            \* bytes that do not load
Live(regs)    == [st |-> "live", regs |-> regs]
Broken(count) == [st |-> "broken", count |-> count]

Fresh == Live([i \in Index |-> 0])

Idle == [busy |-> FALSE]
Busy(h, left, updated) ==
    [busy |-> TRUE, h |-> h, left |-> left, updated |-> updated]
Reply(op, on, val) == [op |-> op, on |-> on, val |-> val]
Quiet == Reply("none", <<>>, 0)

BankInit ==
    /\ bank = [h \in Handle |-> Absent]
    /\ kept = Absent
    /\ call = Idle
    /\ ret = Quiet

Raise(regs, e) ==
    [regs EXCEPT ![e.idx] = IF e.pat > @ THEN e.pat ELSE @]

\* What adding an element to a sketch may lead to: the sketch after it and
\* the answer, 1 for news.  A broken sketch may refuse, ignore or accept the
\* element, and forgets its count when it accepts it.
Outcome(s, val) == [sketch |-> s, val |-> val]

Outcomes(s, e) ==
    CASE s.st = "live" ->
           {Outcome(Live(Raise(s.regs, e)), IF Raise(s.regs, e) = s.regs THEN 0 ELSE 1)}
      [] s.st = "broken" ->
           {Outcome(s, -1), Outcome(s, 0), Outcome(Broken(Nothing), 1)}
      [] s.st = "absent" -> {Outcome(s, -1)}

BankCreate(h) ==
    /\ ~call.busy /\ bank[h] = Absent
    /\ ret' = Reply("create", h, 0)
    /\ bank' = [bank EXCEPT ![h] = Fresh]
    /\ UNCHANGED <<kept, call>>

BankFree(h) ==
    /\ ~call.busy /\ bank[h] # Absent
    /\ ret' = Reply("free", h, 0)
    /\ bank' = [bank EXCEPT ![h] = Absent]
    /\ UNCHANGED <<kept, call>>

BankAdd(h, e) ==
    /\ ~call.busy
    /\ \E out \in Outcomes(bank[h], e) :
         /\ ret' = Reply("add", h, out.val)
         /\ bank' = [bank EXCEPT ![h] = out.sketch]
    /\ UNCHANGED <<kept, call>>

BankAddManyBegin(h, n) ==
    /\ ~call.busy
    /\ \/ /\ bank[h] = Absent
          /\ ret' = Reply("addmany", h, -1) /\ call' = call
       \/ /\ bank[h] # Absent
          /\ ret' = Quiet /\ call' = Busy(h, n, FALSE)
    /\ UNCHANGED <<bank, kept>>

BankAddManyStep(e) ==
    /\ call.busy /\ call.left > 0
    /\ \E out \in Outcomes(bank[call.h], e) :
         /\ bank' = [bank EXCEPT ![call.h] = out.sketch]
         /\ \/ /\ out.val = -1
               /\ call' = Idle /\ ret' = Reply("addmany", call.h, -1)
            \/ /\ out.val # -1 /\ ret' = ret
               /\ call' = Busy(call.h, call.left - 1,
                              call.updated \/ out.val = 1)
    /\ UNCHANGED kept

BankAddManyEnd ==
    /\ call.busy /\ call.left = 0
    /\ ret' = Reply("addmany", call.h, IF call.updated THEN 1 ELSE 0)
    /\ call' = Idle
    /\ UNCHANGED <<bank, kept>>

CountOf(s) ==
    CASE s.st = "live"   -> Estimate(s.regs)
      [] s.st = "broken" -> s.count
      [] s.st = "absent" -> -1

BankCount(op, h) ==
    /\ ~call.busy
    /\ ret' = Reply(op, h, CountOf(bank[h]))
    /\ UNCHANGED <<bank, kept, call>>

ArgLists == UNION {[1 .. n -> Handle] : n \in 0 .. MaxArgs}

Union(hs) ==
    [i \in Index |->
        Max({0} \cup {bank[hs[j]].regs[i] :
                        j \in {k \in DOMAIN hs : bank[hs[k]].st = "live"}})]

NoneBroken(hs) == \A j \in DOMAIN hs : bank[hs[j]].st # "broken"

BankCountMerged(hs) ==
    /\ ~call.busy
    /\ DOMAIN hs # {1}
    /\ ret' = Reply("countmerged", hs,
                    IF NoneBroken(hs) THEN Estimate(Union(hs)) ELSE -1)
    /\ UNCHANGED <<bank, kept, call>>

BankMerge(t, hs) ==
    /\ ~call.busy
    /\ \/ /\ ret' = Reply("merge", t, 0)
          /\ bank[t].st = "live" /\ NoneBroken(hs)
          /\ bank' = [bank EXCEPT ![t] = Live(Union(hs))]
       \/ /\ ret' = Reply("merge", t, -1)
          /\ bank[t].st # "live" \/ ~NoneBroken(hs)
          /\ bank' = bank
    /\ UNCHANGED <<kept, call>>

\* A change of encoding cannot be seen.
BankPromote(h) ==
    /\ ~call.busy /\ bank[h] # Absent
    /\ ret' = Reply("promote", h, IF bank[h].st = "live" THEN 0 ELSE -1)
    /\ UNCHANGED <<bank, kept, call>>

BankDump(h) ==
    /\ ~call.busy /\ bank[h] # Absent
    /\ ret' = Reply("dump", h, 0)
    /\ kept' = bank[h]
    /\ UNCHANGED <<bank, call>>

BankLoad(h) ==
    /\ ~call.busy /\ bank[h] = Absent /\ kept # Absent
    /\ \/ /\ kept = Refused /\ bank' = bank /\ ret' = Reply("load", h, -1)
       \/ /\ kept # Refused /\ bank' = [bank EXCEPT ![h] = kept]
          /\ ret' = Reply("load", h, 0)
    /\ UNCHANGED <<kept, call>>

\* The client's storage cuts a sketch short, or makes it unloadable.
BankDamage ==
    /\ ~call.busy
    /\ \/ kept.st \in {"live", "broken"} /\ kept' = Refused
       \/ kept.st = "live"
            /\ kept' \in {Broken(Estimate(kept.regs)), Broken(Nothing)}
       \/ kept.st = "broken" /\ kept' = kept
    /\ ret' = Quiet
    /\ UNCHANGED <<bank, call>>

BankNext ==
    \/ \E h \in Handle :
        \/ BankCreate(h) \/ BankFree(h) \/ BankPromote(h)
        \/ BankDump(h) \/ BankLoad(h)
        \/ \E op \in {"count", "countmerged"} : BankCount(op, h)
        \/ \E e \in Elements : BankAdd(h, e)
        \/ \E n \in 0 .. MaxBatch : BankAddManyBegin(h, n)
        \/ \E hs \in ArgLists : BankMerge(h, hs)
    \/ \E hs \in ArgLists : BankCountMerged(hs)
    \/ \E e \in Elements : BankAddManyStep(e)
    \/ BankAddManyEnd
    \/ BankDamage

BankSpec == BankInit /\ [][BankNext]_bankVars
=============================================================================
