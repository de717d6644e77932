--------------------------- MODULE FuncCtrl_proofs --------------------------
(***************************************************************************)
(* Who may run, for any number of callers.  BlockSeqFunc, when nobody      *)
(* gives up: the callers of Block run one at a time, in the order of their *)
(* Swap.  BlockFuncN: BlockAll runs alone.  SkipFunc, BlockFunc and        *)
(* FlashFunc: one runs at a time.  progLock: one program at a time.        *)
(***************************************************************************)
EXTENDS MCFuncCtrl, FiniteSetTheorems, Integers, TLAPS

\* The channels are closed in the order in which they were swapped in, and an
\* open channel belongs to one caller: both hold in NewBlockSeqFunc.
LEMMA InitIInv == Init => IInv
BY BlockSeqAssumption DEF Init, IInv, TypeOK, Prefix, Open, Own, InsideFirst

\* ... and Block and done keep it so.
LEMMA NextIInv ==
  ASSUME CtxUsers = {}, IInv, [Next]_vars
  PROVE  IInv'
<1> USE DEF IInv, TypeOK
<1>1. CASE UNCHANGED vars
  BY <1>1 DEF vars, Prefix, Open, Own, InsideFirst
<1>2. ASSUME NEW p \in Procs, Swap(p)
      PROVE  IInv'
  <2>1. TypeOK'
    BY <1>2 DEF Swap
  <2>2. Prefix'
    BY <1>2 DEF Swap, Prefix
  <2>3. Open'
    BY <1>2 DEF Swap, Open
  <2>4. Own'
    BY <1>2 DEF Swap, Open, Own
  <2>5. InsideFirst'
    BY <1>2 DEF Swap, InsideFirst
  <2> QED
    BY <2>1, <2>2, <2>3, <2>4, <2>5
<1>3. ASSUME NEW p \in Procs, Recv(p)
      PROVE  IInv'
  BY <1>3 DEF Recv, Prefix, Open, Own, InsideFirst
<1>4. ASSUME NEW p \in Procs, Done(p)
      PROVE  IInv'
  <2>1. /\ n[p] \in 1..l
        /\ prev[p] = n[p] - 1
        /\ prev[p] \in closedCh
    BY <1>4 DEF Done, Open, InsideFirst
  <2>2. TypeOK'
    <3>1. closedCh' \subseteq 0..l
      <4>1. closedCh' = closedCh \cup {n[p]}
        BY <1>4 DEF Done
      <4>2. n[p] \in 0..l
        BY <2>1
      <4>3. closedCh \subseteq 0..l
        OBVIOUS
      <4> QED
        BY <4>1, <4>2, <4>3, Zenon
    <3>2. pc' \in [Procs -> {"out", "waiting", "inside"}]
      BY <1>4 DEF Done
    <3> QED
      BY <1>4, <3>1, <3>2 DEF Done
  <2>3. Prefix'
    <3> SUFFICES ASSUME NEW k \in closedCh', NEW j \in 0..k
                 PROVE  j \in closedCh'
      BY DEF Prefix
    <3>1. CASE k \in closedCh
      BY <1>4, <3>1 DEF Done, Prefix
    <3>2. CASE k = n[p]
      <4>1. j = n[p] \/ j \in 0..prev[p]
        BY <2>1, <3>2
      <4> QED
        BY <1>4, <2>1, <4>1 DEF Done, Prefix
    <3> QED
      BY <1>4, <3>1, <3>2 DEF Done
  <2>4. Open'
    BY <1>4 DEF Done, Open, Own
  <2>5. Own'
    BY <1>4 DEF Done, Own
  <2>6. InsideFirst'
    BY <1>4 DEF Done, InsideFirst
  <2> QED
    BY <2>2, <2>3, <2>4, <2>5, <2>6
<1>5. ASSUME NEW p \in Procs, GiveUp(p)
      PROVE  IInv'
  BY <1>5 DEF GiveUp
<1> QED
  BY <1>1, <1>2, <1>3, <1>4, <1>5 DEF Next

\* A caller whose receive succeeds is the first of those that have not left.
LEMMA FirstOfAll ==
  ASSUME IInv, NEW p \in Procs, prev[p] \in closedCh, pc[p] # "out",
         NEW q \in Procs, q # p, pc[q] # "out"
  PROVE  n[q] > n[p]
<1>1. /\ n[p] \in 1..l /\ prev[p] = n[p] - 1
      /\ n[q] \in 1..l /\ n[q] \notin closedCh
      /\ n[p] # n[q]
  BY DEF IInv, Open, Own
<1>2. n[q] \notin 0..prev[p]
  BY <1>1 DEF IInv, Prefix
<1> QED
  BY <1>1, <1>2 DEF IInv, TypeOK

\* The inductive invariant holds throughout when no caller gives up.
THEOREM IInvCorrect == CtxUsers = {} => (Spec => []IInv)
<1> SUFFICES ASSUME CtxUsers = {}
             PROVE  Spec => []IInv
  OBVIOUS
<1>1. IInv /\ [Next]_vars => IInv'
  BY NextIInv
<1> QED
  BY InitIInv, <1>1, PTL DEF Spec

\* Two callers of Block are never inside at the same time, however many
\* callers there are and however often they call.
THEOREM ExclusiveCorrect == CtxUsers = {} => (Spec => []Exclusive)
<1> SUFFICES ASSUME CtxUsers = {}
             PROVE  Spec => []Exclusive
  OBVIOUS
<1>1. IInv => Exclusive
  <2> SUFFICES ASSUME IInv, NEW p \in Procs, NEW q \in Procs,
                      pc[p] = "inside", pc[q] = "inside", p # q
               PROVE  FALSE
    BY DEF Exclusive
  <2>1. n[p] > n[q] /\ n[q] > n[p]
    BY FirstOfAll DEF IInv, InsideFirst
  <2> QED
    BY <2>1 DEF IInv, TypeOK
<1> QED
  BY IInvCorrect, <1>1, PTL

\* BlockSeqFunc implements the abstract queue InOrder: a caller that gets in
\* is the earliest of those that have swapped and not called done.
THEOREM OrderCorrect == CtxUsers = {} => (Spec => OrderSpec)
<1> SUFFICES ASSUME CtxUsers = {}
             PROVE  Spec => OrderSpec
  OBVIOUS
<1>1. Init => Order!Init
  BY DEF Init, Order!Init
<1>2. IInv /\ [Next]_vars => [Order!Next]_(Order!vars)
  <2> SUFFICES ASSUME IInv, [Next]_vars
               PROVE  Order!Next \/ UNCHANGED Order!vars
    OBVIOUS
  <2>1. CASE UNCHANGED vars
    BY <2>1 DEF vars, Order!vars
  <2>2. ASSUME NEW p \in Procs, Swap(p)
        PROVE  Order!Next
    <3>1. Order!Arrive(p)
      BY <2>2 DEF Swap, Order!Arrive
    <3> QED
      BY <3>1 DEF Order!Next
  <2>3. ASSUME NEW p \in Procs, Recv(p)
        PROVE  Order!Next
    <3>1. ASSUME NEW q \in Procs \ {p}, pc[q] # "out"
          PROVE  n[q] > n[p]
      BY <2>3, <3>1, FirstOfAll DEF Recv
    <3>2. Order!Enter(p)
      BY <2>3, <3>1 DEF Recv, Order!Enter
    <3> QED
      BY <3>2 DEF Order!Next
  <2>4. ASSUME NEW p \in Procs, Done(p)
        PROVE  Order!Next
    <3>1. Order!Leave(p)
      BY <2>4 DEF Done, Order!Leave
    <3> QED
      BY <3>1 DEF Order!Next
  <2>5. ASSUME NEW p \in Procs, GiveUp(p)
        PROVE  FALSE
    BY <2>5 DEF GiveUp
  <2> QED
    BY <2>1, <2>2, <2>3, <2>4, <2>5 DEF Next
<1> QED
  BY IInvCorrect, <1>1, <1>2, PTL DEF Spec, OrderSpec, Order!Spec

----------------------------------------------------------------------------
\* The entries of the channel that p has sent and has not taken back.
Held(p) ==
  CASE mpc[p] = "out"      -> 0
    [] mpc[p] = "filling"  -> ManyAll!Size(p) - mtodo[p]
    [] mpc[p] = "inside"   -> ManyAll!Size(p)
    [] mpc[p] = "emptying" -> mtodo[p]

\* They are numbered, so that they can be counted.
HeldEntries == {c \in ManyAll!Callers \X (1..max) : c[2] <= Held(c[1])}

\* The channel holds what its callers have sent and not taken back, each at most
\* the entries of its call.
EntriesHeld ==
  /\ ManyAll!TypeOK
  /\ \A p \in ManyAll!Callers : mpc[p] \in {"filling", "emptying"} => mtodo[p] \in 1..ManyAll!Size(p)
  /\ IsFiniteSet(HeldEntries)
  /\ mn = Cardinality(HeldEntries)

\* Nobody holds more than the channel has room for.
LEMMA HeldRange ==
  ASSUME ManyAll!BlockNAssumption, EntriesHeld, NEW p \in ManyAll!Callers
  PROVE  Held(p) \in 0..max /\ ManyAll!Size(p) \in 1..max
BY DEF ManyAll!BlockNAssumption, EntriesHeld, ManyAll!TypeOK, Held, ManyAll!Size

\* NewBlockFuncN makes an empty channel and nobody has called.
LEMMA EntriesInit ==
  ASSUME ManyAll!BlockNAssumption, ManyAll!Init
  PROVE EntriesHeld
<1> USE DEF ManyAll!Init, ManyAll!BlockNAssumption
<1>1. HeldEntries = {}
  BY DEF HeldEntries, Held
<1> QED
  BY <1>1, FS_EmptySet DEF EntriesHeld, ManyAll!TypeOK

\* The begin of Block, BlockAll or unBlock moves no entry.
LEMMA EntriesSame ==
  ASSUME ManyAll!BlockNAssumption, EntriesHeld, NEW p \in ManyAll!Callers, ManyAll!Call(p) \/ ManyAll!UnBlock(p)
  PROVE  EntriesHeld'
<1> USE DEF EntriesHeld, ManyAll!BlockNAssumption
<1>0. mn' = mn /\ ManyAll!Size(p) \in 1..max
  BY HeldRange DEF ManyAll!Call, ManyAll!UnBlock
<1>1. \A q \in ManyAll!Callers : Held(q)' = Held(q)
  BY DEF ManyAll!Call, ManyAll!UnBlock, ManyAll!TypeOK, Held, ManyAll!Size
<1>2. HeldEntries' = HeldEntries
  BY <1>1 DEF HeldEntries
<1>3. ManyAll!TypeOK'
  BY <1>0 DEF ManyAll!Call, ManyAll!UnBlock, ManyAll!TypeOK
<1>4. \A q \in ManyAll!Callers : mpc'[q] \in {"filling", "emptying"} => mtodo'[q] \in 1..ManyAll!Size(q)
  BY <1>0 DEF ManyAll!Call, ManyAll!UnBlock, ManyAll!TypeOK
<1> QED
  BY <1>0, <1>2, <1>3, <1>4

\* A send adds one entry to the channel and to what its caller holds.
LEMMA EntriesSend ==
  ASSUME ManyAll!BlockNAssumption, EntriesHeld, NEW p \in ManyAll!Callers, ManyAll!Send(p)
  PROVE  EntriesHeld'
<1> USE DEF EntriesHeld, ManyAll!BlockNAssumption
<1> DEFINE h == Held(p) + 1
<1>0. mtodo[p] \in 1..ManyAll!Size(p) /\ ManyAll!Size(p) \in 1..max /\ Held(p) \in 0..max
  BY HeldRange DEF ManyAll!Send
<1>1. Held(p)' = h /\ h \in 1..max /\ \A q \in ManyAll!Callers \ {p} : Held(q)' = Held(q)
  BY <1>0 DEF ManyAll!Send, ManyAll!TypeOK, Held, ManyAll!Size
<1>2. HeldEntries' = HeldEntries \cup {<<p, h>>} /\ <<p, h>> \notin HeldEntries
  BY <1>0, <1>1 DEF HeldEntries
<1>3. IsFiniteSet(HeldEntries') /\ Cardinality(HeldEntries') = Cardinality(HeldEntries) + 1
  BY <1>2, FS_AddElement
<1>4. ManyAll!TypeOK'
  BY <1>0 DEF ManyAll!Send, ManyAll!TypeOK
<1>5. \A q \in ManyAll!Callers : mpc'[q] \in {"filling", "emptying"} => mtodo'[q] \in 1..ManyAll!Size(q)
  BY <1>0 DEF ManyAll!Send, ManyAll!TypeOK
<1> QED
  BY <1>3, <1>4, <1>5 DEF ManyAll!Send

\* A receive takes some entry, and its caller holds one less.
LEMMA EntriesRecv ==
  ASSUME ManyAll!BlockNAssumption, EntriesHeld, NEW p \in ManyAll!Callers, ManyAll!Recv(p)
  PROVE  EntriesHeld'
<1> USE DEF EntriesHeld, ManyAll!BlockNAssumption
<1> DEFINE h == Held(p)
<1>0. mtodo[p] \in 1..ManyAll!Size(p) /\ ManyAll!Size(p) \in 1..max /\ h = mtodo[p]
  BY HeldRange DEF ManyAll!Recv, Held
<1>1. Held(p)' = h - 1 /\ h \in 1..max /\ \A q \in ManyAll!Callers \ {p} : Held(q)' = Held(q)
  BY <1>0 DEF ManyAll!Recv, ManyAll!TypeOK, Held, ManyAll!Size
<1>2. HeldEntries' = HeldEntries \ {<<p, h>>} /\ <<p, h>> \in HeldEntries
  BY <1>0, <1>1 DEF HeldEntries
<1>3. IsFiniteSet(HeldEntries') /\ Cardinality(HeldEntries') = Cardinality(HeldEntries) - 1
  BY <1>2, FS_RemoveElement
<1>4. ManyAll!TypeOK'
  BY <1>0 DEF ManyAll!Recv, ManyAll!TypeOK
<1>5. \A q \in ManyAll!Callers : mpc'[q] \in {"filling", "emptying"} => mtodo'[q] \in 1..ManyAll!Size(q)
  BY <1>0 DEF ManyAll!Recv, ManyAll!TypeOK
<1> QED
  BY <1>3, <1>4, <1>5 DEF ManyAll!Recv

\* Every step keeps the channel and what the callers hold equal.
LEMMA EntriesNext ==
  ASSUME ManyAll!BlockNAssumption
  PROVE  EntriesHeld /\ [ManyAll!Next]_(ManyAll!vars) => EntriesHeld'
<1> SUFFICES ASSUME EntriesHeld, [ManyAll!Next]_(ManyAll!vars)
             PROVE  EntriesHeld'
  OBVIOUS
<1>1. CASE UNCHANGED ManyAll!vars
  BY <1>1 DEF ManyAll!vars, EntriesHeld, ManyAll!TypeOK, HeldEntries, Held
<1>2. CASE ManyAll!Next
  BY <1>2, EntriesSame, EntriesSend, EntriesRecv DEF ManyAll!Next
<1> QED
  BY <1>1, <1>2

\* A BlockAll that is inside has all max entries.
LEMMA FullAlone ==
  ASSUME ManyAll!BlockNAssumption, EntriesHeld
  PROVE  ManyAll!AllAlone
<1> SUFFICES ASSUME NEW p \in Alls, NEW q \in ManyAll!Callers,
                    mpc[p] = "inside", mpc[q] = "inside", p # q
             PROVE  FALSE
  BY DEF ManyAll!AllAlone
<1>0. max \in Nat /\ p \in ManyAll!Callers /\ Held(p) = max /\ Held(q) \in 1..max
  BY DEF ManyAll!BlockNAssumption, ManyAll!Callers, Held, ManyAll!Size
<1> DEFINE full == {p} \X (1..max)
<1>1. IsFiniteSet(full) /\ Cardinality(full) = max
  <2>1. IsFiniteSet(1..max) /\ Cardinality(1..max) = max
    BY <1>0, FS_Interval
  <2>2. IsFiniteSet({p}) /\ Cardinality({p}) = 1
    BY FS_Singleton
  <2>3. IsFiniteSet(full) /\ Cardinality(full) = Cardinality({p}) * Cardinality(1..max)
    BY <2>1, <2>2, FS_Product
  <2> QED
    BY <1>0, <2>1, <2>2, <2>3
<1>2. <<q, 1>> \notin full
  OBVIOUS
<1>3. IsFiniteSet(full \cup {<<q, 1>>}) /\ Cardinality(full \cup {<<q, 1>>}) = max + 1
  BY <1>1, <1>2, FS_AddElement
<1>4. full \cup {<<q, 1>>} \subseteq HeldEntries
  BY <1>0 DEF HeldEntries
<1>5. max + 1 <= Cardinality(HeldEntries) /\ Cardinality(HeldEntries) \in Nat
  BY <1>3, <1>4, FS_Subset, FS_CardinalityType DEF EntriesHeld
<1> QED
  BY <1>0, <1>5 DEF EntriesHeld, ManyAll!TypeOK

\* Between BlockAll and its unBlock (funcCtrl/FuncCtrl.go) nobody else is inside a
\* BlockFuncN of any size, whatever the number of callers of either kind.
THEOREM BlockAllCorrect ==
  ASSUME ManyAll!BlockNAssumption
  PROVE  ManyAll!Spec => []ManyAll!AllAlone
<1>1. ManyAll!Init => EntriesHeld
  BY EntriesInit
<1>2. EntriesHeld /\ [ManyAll!Next]_(ManyAll!vars) => EntriesHeld'
  BY EntriesNext
<1>3. EntriesHeld => ManyAll!AllAlone
  BY FullAlone
<1> QED
  BY <1>1, <1>2, <1>3, PTL DEF ManyAll!Spec

----------------------------------------------------------------------------
\* The types of SkipFunc, BlockFunc, FlashFunc and the loop.
FlashTypeOK ==
  /\ skip \in Addrs \cup {0}
  /\ runner \in [Runners -> [pc : {"idle", "skipRun", "unset", "blockRun"}, p : Addrs \cup {0}]]
  /\ flash \in [n : Nat, live : SUBSET Nat]
  /\ callbacks \in [n : Nat, called : [1..MaxFlashes -> Nat]]
  /\ ranger \in [pc : {"range", "yield", "out"}, ended : BOOLEAN, n : Nat, live : SUBSET Nat]

\* SkipFunc.c stays set while someone runs, whatever address it holds.
SkipHeld ==
  /\ \A r \in Runners : Flashes!InSkip(r) => skip # 0
  /\ \A r, s \in Runners : Flashes!InSkip(r) /\ Flashes!InSkip(s) => r = s

\* BlockFunc.l belongs to the one who runs.
BlockHeld == \A r \in Runners : runner[r].pc = "blockRun" => block = r

\* Of the contexts of FlashFunc the newest is not cancelled.
NewestLives == flash.live = IF flash.n = 0 THEN {} ELSE {flash.n}

\* Every callback but the newest was called, once.
OldOnesCalled ==
  \A i \in 1..MaxFlashes : callbacks.called[i] = IF i < callbacks.n THEN 1 ELSE 0

\* RangeCtx: a context lives no longer than its turn of the loop.
TurnsContext ==
  ranger.live \subseteq (IF ranger.pc = "yield" /\ ~ranger.ended THEN {ranger.n} ELSE {})

FlashIInv ==
  FlashTypeOK /\ SkipHeld /\ BlockHeld /\ NewestLives /\ OldOnesCalled /\ TurnsContext

\* The zero values: nothing runs, and there is no context and no callback.
LEMMA FlashInitIInv == ASSUME Flashes!Init PROVE FlashIInv
BY DEF Flashes!Init, FlashIInv, FlashTypeOK, SkipHeld, Flashes!InSkip, BlockHeld, NewestLives, OldOnesCalled,
   TurnsContext

\* The loop over RangeCtx keeps one context at most, that of its turn.
LEMMA RangeIInv ==
  ASSUME FlashIInv, Flashes!RangeCtx \/ Flashes!Yielded \/ Flashes!ParentEnds
  PROVE  FlashIInv'
<1> USE DEF FlashIInv
<1>1. UNCHANGED <<skip, runner, block, flash, callbacks>>
  BY DEF Flashes!RangeCtx, Flashes!Yielded, Flashes!ParentEnds
<1> DEFINE Ranger == [pc : {"range", "yield", "out"}, ended : BOOLEAN, n : Nat, live : SUBSET Nat]
<1>2. ranger' \in Ranger /\ TurnsContext'
  <2> USE DEF FlashTypeOK, TurnsContext
  <2>1. CASE Flashes!RangeCtx
    <3>1. CASE ranger' = [ranger EXCEPT !.pc = "out"]
      BY <2>1, <3>1 DEF Flashes!RangeCtx
    <3>2. CASE ranger' = [ranger EXCEPT !.pc = "yield", !.n = @ + 1,
                                        !.live = @ \cup {ranger.n + 1}]
      <4>1. ranger.n + 1 \in Nat /\ ranger.live = {}
        BY <2>1 DEF Flashes!RangeCtx
      <4>2. ranger' = [pc |-> "yield", ended |-> ranger.ended, n |-> ranger.n + 1,
                       live |-> {ranger.n + 1}]
        BY <3>2, <4>1
      <4> QED
        BY <2>1, <4>1, <4>2 DEF Flashes!RangeCtx
    <3> QED
      BY <2>1, <3>1, <3>2 DEF Flashes!RangeCtx
  <2>2. CASE Flashes!Yielded
    <3>1. PICK at \in {"range", "out"} :
            ranger' = [ranger EXCEPT !.pc = at, !.live = @ \ {ranger.n}]
      BY <2>2 DEF Flashes!Yielded
    <3>2. ranger' = [pc |-> at, ended |-> ranger.ended, n |-> ranger.n, live |-> {}]
      BY <2>2, <3>1 DEF Flashes!Yielded
    <3> QED
      BY <3>2
  <2>3. CASE Flashes!ParentEnds
    BY <2>3 DEF Flashes!ParentEnds
  <2> QED
    BY <2>1, <2>2, <2>3
<1>3. FlashTypeOK'
  BY <1>1, <1>2 DEF FlashTypeOK
<1> QED
  BY <1>1, <1>2, <1>3 DEF SkipHeld, Flashes!InSkip, BlockHeld, NewestLives, OldOnesCalled

\* NeedSkip, UnSet, Block and UnBlock: one runner at a time passes.
LEMMA RunnerIInv ==
  ASSUME Flashes!SkipFlashAssumption, FlashIInv, NEW r \in Runners,
         Flashes!NeedSkip(r) \/ Flashes!UnSetLoad(r) \/ Flashes!UnSetSwap(r) \/ Flashes!Block(r) \/ Flashes!UnBlock(r)
  PROVE  FlashIInv'
<1> USE DEF FlashIInv, Flashes!SkipFlashAssumption, Flashes!At, Flashes!Go
<1>1. UNCHANGED <<flash, callbacks, ranger>>
  BY DEF Flashes!NeedSkip, Flashes!UnSetLoad, Flashes!UnSetSwap, Flashes!Block, Flashes!UnBlock
<1>2. FlashTypeOK'
  BY <1>1 DEF FlashTypeOK, Flashes!NeedSkip, Flashes!UnSetLoad, Flashes!UnSetSwap, Flashes!Block, Flashes!UnBlock
<1>3. SkipHeld'
  <2> USE DEF FlashTypeOK, SkipHeld, Flashes!InSkip
  <2>1. CASE Flashes!NeedSkip(r)
    BY <2>1 DEF Flashes!NeedSkip
  <2>2. CASE Flashes!UnSetLoad(r)
    BY <2>2 DEF Flashes!UnSetLoad
  <2>3. CASE Flashes!UnSetSwap(r)
    <3>1. \A s \in Runners : Flashes!InSkip(s)' => Flashes!InSkip(s) /\ s # r
      BY <2>3 DEF Flashes!UnSetSwap
    <3>2. skip' = skip \/ \A s \in Runners : ~Flashes!InSkip(s)'
      BY <2>3, <3>1 DEF Flashes!UnSetSwap
    <3> QED
      BY <3>1, <3>2
  <2>4. CASE Flashes!Block(r)
    BY <2>4 DEF Flashes!Block
  <2>5. CASE Flashes!UnBlock(r)
    BY <2>5 DEF Flashes!UnBlock
  <2> QED
    BY <2>1, <2>2, <2>3, <2>4, <2>5
<1>4. BlockHeld'
  BY DEF FlashTypeOK, BlockHeld, Flashes!NeedSkip, Flashes!UnSetLoad, Flashes!UnSetSwap, Flashes!Block, Flashes!UnBlock
<1> QED
  BY <1>1, <1>2, <1>3, <1>4 DEF NewestLives, OldOnesCalled, TurnsContext

\* A new context cancels the one before, a new callback calls the one before.
LEMMA FlashNewIInv ==
  ASSUME Flashes!SkipFlashAssumption, FlashIInv, NEW r \in Runners,
         Flashes!FlashWithContext(r) \/ Flashes!FlashWithCallback(r)
  PROVE  FlashIInv'
<1> USE DEF FlashIInv, FlashTypeOK, Flashes!SkipFlashAssumption
<1>1. UNCHANGED <<skip, runner, block, ranger>>
  BY DEF Flashes!FlashWithContext, Flashes!FlashWithCallback
<1>2. flash' \in [n : Nat, live : SUBSET Nat] /\ NewestLives'
  <2>1. CASE Flashes!FlashWithContext(r)
    <3>1. flash' = [n |-> flash.n + 1, live |-> {flash.n + 1}]
      BY <2>1 DEF NewestLives, Flashes!FlashWithContext
    <3> QED
      BY <3>1 DEF NewestLives
  <2>2. CASE Flashes!FlashWithCallback(r)
    BY <2>2 DEF NewestLives, Flashes!FlashWithCallback
  <2> QED
    BY <2>1, <2>2
<1>3. FlashTypeOK'
  <2>1. callbacks' \in [n : Nat, called : [1..MaxFlashes -> Nat]]
    <3>1. CASE Flashes!FlashWithContext(r)
      BY <3>1 DEF Flashes!FlashWithContext
    <3>2. CASE Flashes!FlashWithCallback(r)
      <4>1. [i \in 1..MaxFlashes |-> callbacks.called[i] + IF i = callbacks.n THEN 1 ELSE 0]
              \in [1..MaxFlashes -> Nat]
        OBVIOUS
      <4> QED
        BY <3>2, <4>1 DEF Flashes!FlashWithCallback
    <3> QED
      BY <3>1, <3>2
  <2> QED
    BY <1>1, <1>2, <2>1
<1>4. OldOnesCalled'
  BY DEF OldOnesCalled, Flashes!FlashWithContext, Flashes!FlashWithCallback
<1> QED
  BY <1>1, <1>2, <1>3, <1>4 DEF SkipHeld, Flashes!InSkip, BlockHeld, TurnsContext

\* Every step of a runner and of the loop keeps the invariant.
LEMMA FlashNextIInv ==
  ASSUME Flashes!SkipFlashAssumption, FlashIInv, [Flashes!Next]_(Flashes!vars)
  PROVE  FlashIInv'
<1>1. CASE UNCHANGED Flashes!vars
  BY <1>1 DEF Flashes!vars, FlashIInv, FlashTypeOK, SkipHeld, Flashes!InSkip, BlockHeld, NewestLives,
     OldOnesCalled, TurnsContext
<1>2. CASE Flashes!Next
  BY <1>2, RangeIInv, RunnerIInv, FlashNewIInv DEF Flashes!Next
<1> QED
  BY <1>1, <1>2

\* One runs at a time (SkipFunc, BlockFunc), and only the newest context and callback
\* are pending (FlashFunc, RangeCtx), for any set of addresses: UnSet may swap an
\* address that a later run has set again.
THEOREM OneRunsCorrect ==
  ASSUME Flashes!SkipFlashAssumption
  PROVE  Flashes!Spec => []Flashes!OneRuns
<1>1. Flashes!Init => FlashIInv
  BY FlashInitIInv
<1>2. FlashIInv /\ [Flashes!Next]_(Flashes!vars) => FlashIInv'
  BY FlashNextIInv
<1>3. ASSUME FlashIInv
      PROVE  Flashes!OneRuns
  BY <1>3 DEF FlashIInv, FlashTypeOK, SkipHeld, BlockHeld, NewestLives, OldOnesCalled,
     TurnsContext, Flashes!At, Flashes!OneRuns
<1> QED
  BY <1>1, <1>2, <1>3, PTL DEF Flashes!Spec

----------------------------------------------------------------------------
\* The types of the clock, the file and the programs; Time is the second of the tick at
\* which it was read.
LockTypeOK ==
  /\ clock \in Nat
  /\ lockFile \in [exist : BOOLEAN, time : Int, at : Nat]
  /\ prog \in [Programs -> [pc : {"off", "first", "sleep", "write", "ghost"}, sign : BOOLEAN,
                            tick : Nat]]
  /\ lockFile.exist => lockFile.time = LockFile!Unix(lockFile.at)

\* As long as nothing odd but a late write happened, the file belongs to the one program
\* whose goroutine writes it, and nobody is behind an old file unless a write was late.
FileOwned ==
  /\ odd \subseteq {"late"} =>
       /\ LockFile!AtMostOne(LockFile!Writes)
       /\ \A p \in Programs :
            /\ prog[p].sign => prog[p].pc \in {"off", "sleep"}
            /\ LockFile!Writes(p) /\ prog[p].pc = "first" => ~lockFile.exist
            /\ LockFile!Writes(p) /\ prog[p].pc = "sleep" => lockFile.exist
       /\ lockFile.exist => \E p \in Programs : LockFile!Writes(p) /\ prog[p].pc # "first"
  /\ odd = {} => \A p \in Programs : prog[p].pc # "ghost"

LockIInv == LockTypeOK /\ FileOwned

\* No file and no program.
LEMMA LockInitIInv == ASSUME LockFile!ProgLockAssumption, LockFile!Init PROVE LockIInv
BY DEF LockFile!Init, LockFile!NoFile, LockIInv, LockTypeOK, FileOwned, LockFile!AtMostOne,
   LockFile!Writes

\* The second of a tick: a natural number.
LEMMA UnixNat ==
  ASSUME LockFile!ProgLockAssumption, NEW t \in Nat
  PROVE  /\ LockFile!Unix(t) \in Nat
         /\ LockFile!Unix(t) * Second <= t
         /\ t < LockFile!Unix(t) * Second + Second
BY DEF LockFile!Unix, LockFile!ProgLockAssumption

\* What is not young in whole seconds is really older than lock_timeout seconds.
LEMMA OldIsLate ==
  ASSUME LockFile!ProgLockAssumption, NEW s \in Nat, NEW t \in Nat,
         LockFile!Unix(t) - LockFile!Unix(s) > lock_timeout
  PROVE  t - s > lock_timeout * Second
<1> DEFINE a == LockFile!Unix(s)
           c == LockFile!Unix(t)
<1>1. /\ a \in Nat /\ c \in Nat /\ Second \in Nat /\ lock_timeout \in Nat
      /\ c >= a + lock_timeout + 1 /\ c * Second <= t /\ s < a * Second + Second
  BY UnixNat DEF LockFile!ProgLockAssumption
<1> HIDE DEF a, c
<1>2. c * Second >= (a + lock_timeout + 1) * Second
  BY <1>1
<1>3. (a + lock_timeout + 1) * Second = a * Second + lock_timeout * Second + Second
  BY <1>1
<1> QED
  BY <1>1, <1>2, <1>3

\* A step of Start, of the goroutine that writes, of Stop or of a crash keeps the types.
LEMMA ProgramTypeOK ==
  ASSUME LockFile!ProgLockAssumption, LockTypeOK, NEW p \in Programs,
         LockFile!Start(p) \/ LockFile!Wake(p) \/ LockFile!Beat(p) \/ LockFile!Stop(p) \/ LockFile!Crash(p)
  PROVE  LockTypeOK'
<1> USE DEF LockTypeOK, LockFile!ProgLockAssumption
<1>1. CASE LockFile!Start(p)
  BY <1>1 DEF LockFile!Start, LockFile!Refused, LockFile!Behind, LockFile!First, LockFile!Unix
<1>2. CASE LockFile!Wake(p)
  BY <1>2 DEF LockFile!Wake, LockFile!Unix
<1>3. CASE LockFile!Beat(p)
  <2>1. prog[p].tick \in Nat /\ clock + lock_timeout * Second \in Nat
    OBVIOUS
  <2>2. LockFile!Unix(prog[p].tick) \in Int
    BY <2>1, UnixNat
  <2> QED
    BY <1>3, <2>1, <2>2 DEF LockFile!Beat, LockFile!Unix
<1>4. CASE LockFile!Stop(p)
  BY <1>4 DEF LockFile!Stop, LockFile!NoFile
<1>5. CASE LockFile!Crash(p)
  BY <1>5 DEF LockFile!Crash, LockFile!Unix
<1> QED
  BY <1>1, <1>2, <1>3, <1>4, <1>5

\* A step of Start, of the goroutine that writes, of Stop or of a crash.
LEMMA ProgramIInv ==
  ASSUME LockFile!ProgLockAssumption, LockIInv, NEW p \in Programs,
         LockFile!Start(p) \/ LockFile!Wake(p) \/ LockFile!Beat(p) \/ LockFile!Stop(p) \/ LockFile!Crash(p)
  PROVE  LockIInv'
<1>1. LockTypeOK'
  BY ProgramTypeOK DEF LockIInv
<1>2. odd \subseteq odd'
  BY DEF LockFile!Start, LockFile!Refused, LockFile!Behind, LockFile!First, LockFile!Wake, LockFile!Beat,
     LockFile!Stop, LockFile!Crash
<1>3. FileOwned'
  <2> USE <1>2 DEF LockIInv, LockTypeOK, FileOwned, LockFile!AtMostOne, LockFile!Writes
  <2>1. CASE LockFile!Start(p)
    <3>1. CASE LockFile!Refused(p)
      BY <2>1, <3>1 DEF LockFile!Start, LockFile!Refused
    <3>2. CASE LockFile!Behind(p)
      <4>1. clock - lockFile.at > lock_timeout * Second
        <5>1. lockFile.at \in Nat /\ LockFile!Unix(lockFile.at) \in Nat /\ LockFile!Unix(clock) \in Nat
          BY UnixNat
        <5>2. LockFile!Unix(clock) - LockFile!Unix(lockFile.at) > lock_timeout
          BY <3>2, <5>1 DEF LockFile!Behind, LockFile!Young, LockFile!ProgLockAssumption
        <5> QED
          BY <5>1, <5>2, OldIsLate
      <4>2. odd' = odd \cup {"late"}
        BY <3>2, <4>1 DEF LockFile!Behind
      <4> QED
        BY <2>1, <3>2, <4>2 DEF LockFile!Start, LockFile!Behind
    <3>3. CASE LockFile!First(p)
      <4>1. SUFFICES ASSUME odd' \subseteq {"late"}
                     PROVE  FileOwned'
        BY DEF FileOwned
      <4>2. /\ ~lockFile.exist /\ UNCHANGED lockFile /\ odd' = odd
            /\ \A q \in Programs \ {p} : LockFile!Writes(q) => prog[q].pc = "sleep"
        BY <2>1, <3>3, <4>1 DEF LockFile!Start, LockFile!First
      <4>3. \A q \in Programs \ {p} : ~LockFile!Writes(q)
        BY <4>1, <4>2
      <4>4. /\ prog' = [prog EXCEPT ![p].pc = "first"]
            /\ prog[p].pc = "off" /\ ~prog[p].sign
        BY <2>1, <3>3 DEF LockFile!Start, LockFile!First
      <4>5. \A q \in Programs : prog'[q].pc = (IF q = p THEN "first" ELSE prog[q].pc) /\ prog'[q].sign = prog[q].sign
        BY <4>4
      <4> QED
        BY <4>1, <4>2, <4>3, <4>4, <4>5
    <3> QED
      BY <2>1, <3>1, <3>2, <3>3 DEF LockFile!Start
  <2>2. CASE LockFile!Wake(p)
    BY <2>2 DEF LockFile!Wake
  <2>3. CASE LockFile!Beat(p)
    BY <2>3 DEF LockFile!Beat
  <2>4. CASE LockFile!Stop(p)
    BY <2>4 DEF LockFile!Stop, LockFile!NoFile
  <2>5. CASE LockFile!Crash(p)
    BY <2>5 DEF LockFile!Crash
  <2> QED
    BY <2>1, <2>2, <2>3, <2>4, <2>5
<1> QED
  BY <1>1, <1>3 DEF LockIInv

\* Time passes, whether or not a write is due.
LEMMA TickIInv ==
  ASSUME LockFile!ProgLockAssumption, LockIInv, LockFile!Tick
  PROVE  LockIInv'
BY DEF LockIInv, LockTypeOK, FileOwned, LockFile!AtMostOne, LockFile!Writes, LockFile!Tick, LockFile!Unix

\* One program at a time writes the file (progLock/Lock.go), and nobody else is past its
\* Start before the time in the file is really more than lock_timeout seconds old, for any
\* number of programs, any lock_timeout and any delays of the goroutine, unless two Starts
\* overlap, a program dies or a Stop meets a write under way or removes another's file.
THEOREM LockFileCorrect ==
  ASSUME LockFile!ProgLockAssumption
  PROVE  LockFile!Spec => []LockFile!OneProgram
<1>1. LockFile!Init => LockIInv
  BY LockInitIInv
<1>2. ASSUME LockIInv, [LockFile!Next]_(LockFile!vars)
      PROVE  LockIInv'
  <2>1. CASE UNCHANGED LockFile!vars
    BY <1>2, <2>1 DEF LockFile!vars, LockIInv, LockTypeOK, FileOwned, LockFile!AtMostOne, LockFile!Writes,
       LockFile!Unix
  <2>2. CASE LockFile!Next
    BY <1>2, <2>2, ProgramIInv, TickIInv DEF LockFile!Next
  <2> QED
    BY <1>2, <2>1, <2>2
<1>3. ASSUME LockIInv
      PROVE  LockFile!OneProgram
  BY <1>3 DEF LockIInv, LockTypeOK, FileOwned, LockFile!OneProgram, LockFile!AtMostOne, LockFile!Writes,
     LockFile!Active
<1> QED
  BY <1>1, <1>2, <1>3, PTL DEF LockFile!Spec

----------------------------------------------------------------------------
(* The composition that the run checks.                                    *)

\* A step of the composition is one of the unit it is about, and the others stand still.
LEMMA UnitSteps ==
  ASSUME [FuncCtrlNext]_<<unit, vars, giveUpVars, manyAllVars, oneAllVars, flashVars, getterVars,
                          lockVars>>
  PROVE  /\ [ManyAll!Next]_(ManyAll!vars)
         /\ [Flashes!Next]_(Flashes!vars)
         /\ [LockFile!Next]_(LockFile!vars)
BY DEF FuncCtrlNext, manyAllVars, flashVars, lockVars, ManyAll!vars, Flashes!vars, LockFile!vars

\* Whoever is alone is alone (funcCtrl/FuncCtrl.go): BlockAll among other callers of a
\* BlockFuncN, a runner of SkipFunc or BlockFunc, and the newest context of FlashFunc, for every
\* number of callers, every capacity and every set of addresses.
THEOREM AllAloneCorrect == FuncCtrlSpec => []AllAlone
<1>1. FuncCtrlSpec => ManyAll!Spec
  <2>1. FuncCtrlInit => ManyAll!Init
    BY DEF FuncCtrlInit
  <2> QED
    BY <2>1, UnitSteps, PTL DEF FuncCtrlSpec, ManyAll!Spec
<1>2. FuncCtrlSpec => Flashes!Spec
  <2>1. FuncCtrlInit => Flashes!Init
    BY DEF FuncCtrlInit
  <2> QED
    BY <2>1, UnitSteps, PTL DEF FuncCtrlSpec, Flashes!Spec
<1>3. ManyAll!Spec => []ManyAll!AllAlone
  BY BlockAllCorrect, FuncCtrlAssumptions
<1>4. Flashes!Spec => []Flashes!OneRuns
  BY OneRunsCorrect, FuncCtrlAssumptions
<1> QED
  BY <1>1, <1>2, <1>3, <1>4, PTL DEF AllAlone

\* progLock/Lock.go: one program at a time writes the lock file, as LockFileCorrect says.
THEOREM OneProgramCorrect == FuncCtrlSpec => []OneProgram
<1>1. FuncCtrlSpec => LockFile!Spec
  <2>1. FuncCtrlInit => LockFile!Init
    BY DEF FuncCtrlInit
  <2> QED
    BY <2>1, UnitSteps, PTL DEF FuncCtrlSpec, LockFile!Spec
<1>2. LockFile!Spec => []LockFile!OneProgram
  BY LockFileCorrect, FuncCtrlAssumptions
<1> QED
  BY <1>1, <1>2, PTL DEF OneProgram
=============================================================================
