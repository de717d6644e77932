----------------------------- MODULE SkipFlash -----------------------------
(***************************************************************************)
(* funcCtrl/FuncCtrl.go: SkipFunc, FlashFunc and BlockFunc.  Pointers are  *)
(* compared by address, and new(struct{}) may give the same address every  *)
(* time: an address is any member of Addrs.                                *)
(***************************************************************************)
EXTENDS Integers

CONSTANTS
  Runners,
  Addrs,      \* addresses of a new(struct{}), 0 is nil
  MaxFlashes  \* bound: contexts and callbacks made

SkipFlashAssumption == 0 \notin Addrs /\ "none" \notin Runners /\ MaxFlashes \in Nat

VARIABLES
  skip,      \* SkipFunc.c
  runner,    \* runner -> pc, what UnSet loaded, and its context
  block,     \* BlockFunc.l: its holder
  flash,     \* FlashFunc: n contexts made, live the ones not cancelled
  callbacks, \* FlashFunc.f: n callbacks given, and called: how often each was
  ranger     \* a loop over RangeCtx: pc, ended (pctx), n contexts made, and live

vars == <<skip, runner, block, flash, callbacks, ranger>>

Init ==
  /\ skip = 0
  /\ runner = [r \in Runners |-> [pc |-> "idle", p |-> 0]]
  /\ block = "none"
  /\ flash = [n |-> 0, live |-> {}]
  /\ callbacks = [n |-> 0, called |-> [i \in 1..MaxFlashes |-> 0]]
  /\ ranger = [pc |-> "range", ended |-> FALSE, n |-> 0, live |-> {}]

At(r, p) == runner[r].pc = p
Go(r, p) == runner' = [runner EXCEPT ![r].pc = p]

\* SkipFunc.NeedSkip: CompareAndSwap from nil; only the one that swaps goes on.
NeedSkip(r) ==
  /\ At(r, "idle")
  /\ \/ skip = 0 /\ (\E a \in Addrs : skip' = a) /\ Go(r, "skipRun")
     \/ skip # 0 /\ UNCHANGED <<skip, runner>>
  /\ UNCHANGED <<block, flash, callbacks, ranger>>

\* SkipFunc.UnSet: the load, then CompareAndSwap to nil.
UnSetLoad(r) ==
  /\ At(r, "skipRun")
  /\ runner' = [runner EXCEPT ![r] = [pc |-> "unset", p |-> skip]]
  /\ UNCHANGED <<skip, block, flash, callbacks, ranger>>

UnSetSwap(r) ==
  /\ At(r, "unset")
  /\ skip' = IF skip = runner[r].p THEN 0 ELSE skip
  /\ Go(r, "idle")
  /\ UNCHANGED <<block, flash, callbacks, ranger>>

\* BlockFunc.
Block(r) ==
  /\ At(r, "idle") /\ block = "none"
  /\ block' = r /\ Go(r, "blockRun")
  /\ UNCHANGED <<skip, flash, callbacks, ranger>>

UnBlock(r) ==
  /\ At(r, "blockRun")
  /\ block' = "none" /\ Go(r, "idle")
  /\ UNCHANGED <<skip, flash, callbacks, ranger>>

\* Mutant: the context before is not cancelled.
FlashKeeps(r) ==
  /\ At(r, "idle") /\ flash.n < MaxFlashes
  /\ flash' = [n |-> flash.n + 1, live |-> flash.live \cup {flash.n + 1}]
  /\ UNCHANGED <<skip, runner, block, callbacks, ranger>>

\* FlashWithContext: under the lock, the context before is cancelled.
FlashWithContext(r) ==
  /\ At(r, "idle") /\ flash.n < MaxFlashes
  /\ flash' = [n |-> flash.n + 1, live |-> (flash.live \ {flash.n}) \cup {flash.n + 1}]
  /\ UNCHANGED <<skip, runner, block, callbacks, ranger>>

\* FlashWithCallback: the callback before is called once.
FlashWithCallback(r) ==
  /\ At(r, "idle") /\ callbacks.n < MaxFlashes
  /\ callbacks' = [n |-> callbacks.n + 1,
                   called |-> [i \in 1..MaxFlashes |->
                                 callbacks.called[i] + IF i = callbacks.n THEN 1 ELSE 0]]
  /\ UNCHANGED <<skip, runner, block, flash, ranger>>

\* RangeCtx, before the body of the loop: the next element, if there is one, with
\* a context of its own, unless pctx has ended.  RangeCtxCancel does the same: the
\* cancel function it is given is hidden by its own.
RangeCtx ==
  /\ ranger.pc = "range"
  /\ \/ /\ ~ranger.ended /\ ranger.n < MaxFlashes
        /\ ranger' = [ranger EXCEPT !.pc = "yield", !.n = @ + 1, !.live = @ \cup {ranger.n + 1}]
     \/ ranger' = [ranger EXCEPT !.pc = "out"]
  /\ UNCHANGED <<skip, runner, block, flash, callbacks>>

\* After it: its context is cancelled, and the loop goes on or was left.
Yielded ==
  /\ ranger.pc = "yield"
  /\ \E pc \in {"range", "out"} :
       ranger' = [ranger EXCEPT !.pc = pc, !.live = @ \ {ranger.n}]
  /\ UNCHANGED <<skip, runner, block, flash, callbacks>>

\* The end of pctx ends every context made from it.
ParentEnds ==
  /\ ~ranger.ended
  /\ ranger' = [ranger EXCEPT !.ended = TRUE, !.live = {}]
  /\ UNCHANGED <<skip, runner, block, flash, callbacks>>

Next ==
  \/ RangeCtx \/ Yielded \/ ParentEnds
  \/ \E r \in Runners :
       \/ NeedSkip(r) \/ UnSetLoad(r) \/ UnSetSwap(r)
       \/ Block(r) \/ UnBlock(r)
       \/ FlashWithContext(r) \/ FlashWithCallback(r)

Spec == Init /\ [][Next]_vars

----------------------------------------------------------------------------
\* Past a NeedSkip that let r through, and not at the end of UnSet.
InSkip(r) == runner[r].pc \in {"skipRun", "unset"}

\* One runner at a time is past NeedSkip, and one past Block, although UnSet
\* compares addresses that two runs may share; of the contexts of FlashFunc only
\* the newest is not cancelled, and every callback but the newest was called, once;
\* no context of RangeCtx outlives the turn of the loop it was made for.
OneRuns ==
  /\ \A r, s \in Runners : InSkip(r) /\ InSkip(s) => r = s
  /\ \A r, s \in Runners : At(r, "blockRun") /\ At(s, "blockRun") => r = s
  /\ flash.n > 0 => flash.live = {flash.n}
  /\ \A i \in 1..MaxFlashes : callbacks.called[i] = IF i < callbacks.n THEN 1 ELSE 0
  /\ ranger.live \subseteq (IF ranger.pc = "yield" /\ ~ranger.ended THEN {ranger.n} ELSE {})
=============================================================================
