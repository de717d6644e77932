------------------------------- MODULE Msgq --------------------------------
(***************************************************************************)
(* msgq/Msgq.go: the subscriber list, register and cancel, push under the  *)
(* read or the write lock, ClearAll and the removal of disabled entries.   *)
(*                                                                         *)
(* Goroutines: Pushers call Push and PushLock, the owner of each item      *)
(* registers it and may cancel it (it is named by the item), and Removers  *)
(* are the goroutines that removeDisable starts.  The list, an element's   *)
(* disable flag, the two NeedRemove flags and the lock are shared; every   *)
(* atomic operation on them is a step of its own.                          *)
(***************************************************************************)
EXTENDS Naturals, Sequences, FiniteSets, SequencesExt

CONSTANTS
  Items,     \* msgqItems, one per Register call, and the goroutine that owns it
  Pushers,   \* goroutines that push
  Removers,  \* slots for the goroutines of removeDisable
  Kinds,     \* the type arguments T in use
  Kind,      \* [Items -> Kinds]
  AtFront,   \* the items registered with RegisterFront
  Nesters,   \* the items whose handler pushes another message itself
  NoThread,
  Nil,       \* no list element
  MaxPush,   \* bound: pushes per pusher
  MaxClear   \* bound: calls of ClearAll

Threads == Items \cup Pushers \cup Removers

ASSUME MsgqAssumption ==
  /\ Items \cap Pushers = {} /\ Items \cap Removers = {} /\ Pushers \cap Removers = {}
  /\ NoThread \notin Threads
  /\ Nil \notin Items
  /\ Kinds # {}
  /\ Kind \in [Items -> Kinds]
  /\ AtFront \subseteq Items
  /\ Nesters \subseteq Items
  /\ MaxPush \in Nat /\ MaxClear \in Nat

----------------------------------------------------------------------------
(* Go's sync.RWMutex, which psync.RWMutex (sync/RWMutex.go) wraps, as a    *)
(* value and operators on it.  A writer first announces itself, which only *)
(* one can do at a time and which makes later readers queue; it has the    *)
(* lock when the readers it found have left.  Its Unlock lets the queued   *)
(* readers in.  A goroutine may hold several read locks.  The wait and run *)
(* timeouts of psync.RWMutex only report, they change no state.            *)

RWFree == [writer |-> NoThread, readers |-> [t \in Threads |-> 0], queue |-> {}]

RWType == [writer : Threads \cup {NoThread}, readers : [Threads -> Nat], queue : SUBSET Threads]

\* A writer may announce itself; RWAnnounce is its announcement.
RWCanAnnounce(rw) == rw.writer = NoThread

RWAnnounce(rw, t) == [rw EXCEPT !.writer = t]

RWHasLock(rw, t) == rw.writer = t /\ \A u \in Threads : rw.readers[u] = 0

RWUnlock(rw) ==
  [writer  |-> NoThread,
   readers |-> [u \in Threads |-> rw.readers[u] + IF u \in rw.queue THEN 1 ELSE 0],
   queue   |-> {}]

\* The request of a read lock: granted at once, or queued behind the writer.
RWAskRead(rw, t) ==
  IF rw.writer = NoThread THEN [rw EXCEPT !.readers[t] = @ + 1]
                          ELSE [rw EXCEPT !.queue = @ \cup {t}]

RWReadGranted(rw, t) == t \notin rw.queue

RWRUnlock(rw, t) == [rw EXCEPT !.readers[t] = @ - 1]

----------------------------------------------------------------------------
VARIABLES
  funcs,          \* container/list: the registered items in order
  disable,        \* the items whose disable flag is set
  someNeedRemove,
  allNeedRemove,
  rw,             \* m.lock
  pc,             \* [Threads -> place in the code]
  loc,            \* [Threads -> local variables]
  pushes,         \* [Pushers -> Nat], pushes begun
  clears,         \* ClearAll calls made
  hist            \* [Pushers -> what the current push must be judged by]

vars == <<funcs, disable, someNeedRemove, allNeedRemove, rw, pc, loc, pushes, clears, hist>>
flags == <<someNeedRemove, allNeedRemove>>
bounds == <<pushes, clears>>

Pcs == {"idle", "want", "wait", "loop", "call", "nest", "ret", "disable", "cas", "regcas",
        "swap", "scan", "store", "insert", "unlock", "registered", "cancelled"}

(***************************************************************************)
(* Locals: isLock and T are the parameters of push and removeDisable, el   *)
(* is the cursor of push, rel and all are the cursor and the local of the  *)
(* remover, ret is where a remover that runs inline returns to.            *)
(***************************************************************************)
Local(isLock, T) ==
  [isLock |-> isLock, T |-> T, el |-> Nil, rel |-> Nil, all |-> FALSE, ret |-> "unlock"]

\* What a push found: due, the matching items in the list when it began to
\* iterate; got, the items it called, in order; gone, the items whose cancel
\* had returned and wiped, the items registered before a ClearAll, when it
\* began; cut, whether it removed elements itself.
NoHist == [due |-> {}, got |-> <<>>, gone |-> {}, cut |-> FALSE, wiped |-> {}]

Init ==
  /\ funcs = <<>>
  /\ disable = {}
  /\ someNeedRemove = FALSE
  /\ allNeedRemove = FALSE
  /\ rw = RWFree
  /\ pc = [t \in Threads |-> "idle"]
  /\ loc = [t \in Threads |-> Local(FALSE, CHOOSE k \in Kinds : TRUE)]
  /\ pushes = [p \in Pushers |-> 0]
  /\ clears = [count |-> 0, before |-> {}]
  /\ hist = [p \in Pushers |-> NoHist]

Goto(t, l) == pc' = [pc EXCEPT ![t] = l]

----------------------------------------------------------------------------
(* container/list: an element that was removed has no Next.                *)

ListFront == IF funcs = <<>> THEN Nil ELSE Head(funcs)

\* The position of a registered item.
At(i) == CHOOSE k \in 1..Len(funcs) : funcs[k] = i

NextOf(i) ==
  IF i \in ToSet(funcs) /\ At(i) < Len(funcs) THEN funcs[At(i) + 1] ELSE Nil

----------------------------------------------------------------------------
(* The lock.  The begin of a push or a registration asks for it, a remover *)
(* goroutine asks first thing.                                             *)

Announce(t) ==
  /\ pc[t] = "want"
  /\ RWCanAnnounce(rw)
  /\ rw' = RWAnnounce(rw, t)
  /\ Goto(t, "wait")
  /\ UNCHANGED <<funcs, disable, flags, loc, bounds, hist>>

HasLock(t) ==
  IF loc[t].isLock THEN RWHasLock(rw, t) ELSE RWReadGranted(rw, t)

\* Mutant: only the write lock is released.
UnlockWritersOnly(t) ==
  /\ pc[t] = "unlock"
  /\ rw' = IF loc[t].isLock THEN RWUnlock(rw) ELSE rw
  /\ Goto(t, IF t \in Items THEN "registered" ELSE "idle")
  /\ hist' = IF t \in Pushers THEN [hist EXCEPT ![t] = NoHist] ELSE hist
  /\ UNCHANGED <<funcs, disable, flags, loc, bounds>>

\* The deferred unlock; the goroutine is done with its call.
Unlock(t) ==
  /\ pc[t] = "unlock"
  /\ rw' = IF loc[t].isLock THEN RWUnlock(rw) ELSE RWRUnlock(rw, t)
  /\ Goto(t, IF t \in Items THEN "registered" ELSE "idle")
  /\ hist' = IF t \in Pushers THEN [hist EXCEPT ![t] = NoHist] ELSE hist
  /\ UNCHANGED <<funcs, disable, flags, loc, bounds>>

----------------------------------------------------------------------------
(* removeDisable: with sig, the removal runs inline if the caller has the  *)
(* write lock, else in a goroutine of its own that takes it.               *)

\* go f(): a free slot becomes a remover of items of t's type argument, and t
\* goes on at l with the cursor el.
Spawn(t, l, el) ==
  LET free == {s \in Removers : pc[s] = "idle"}
      r    == CHOOSE s \in free : TRUE
  IN  /\ free # {}
      /\ pc' = [pc EXCEPT ![r] = "want", ![t] = l]
      /\ loc' = [loc EXCEPT ![r] = Local(TRUE, loc[t].T), ![t].el = el]

\* all := m.allNeedRemove.Swap(false)
RemoveSwap(t) ==
  /\ \/ pc[t] = "swap"
     \/ t \in Removers /\ pc[t] = "wait" /\ HasLock(t)
  /\ loc' = [loc EXCEPT ![t].all = allNeedRemove, ![t].rel = ListFront]
  /\ allNeedRemove' = FALSE
  /\ Goto(t, "scan")
  /\ hist' = IF t \in Pushers THEN [hist EXCEPT ![t].cut = TRUE] ELSE hist
  /\ UNCHANGED <<funcs, disable, someNeedRemove, rw, bounds>>

\* One element of the loop; the loop ends at the element it removes, whose
\* Next is nil.
RemoveScan(t) ==
  LET i    == loc[t].rel
      hit  == loc[t].all \/ (Kind[i] = loc[t].T /\ i \in disable)
  IN  /\ pc[t] = "scan"
      /\ i # Nil
      /\ funcs' = IF hit THEN RemoveAt(funcs, At(i)) ELSE funcs
      /\ loc' = [loc EXCEPT ![t].rel = IF hit THEN Nil ELSE NextOf(i)]
      /\ UNCHANGED <<disable, flags, rw, pc, bounds, hist>>

RemoveScanEnd(t) ==
  /\ pc[t] = "scan"
  /\ loc[t].rel = Nil
  /\ Goto(t, "store")
  /\ UNCHANGED <<funcs, disable, flags, rw, loc, bounds, hist>>

\* Mutant: someNeedRemove is not reset.
RemoveStoreForgotten(t) ==
  /\ pc[t] = "store"
  /\ loc' = [loc EXCEPT ![t].el = IF loc[t].ret # "loop" THEN @
                                  ELSE IF @ = Nil THEN ListFront ELSE NextOf(@)]
  /\ Goto(t, loc[t].ret)
  /\ UNCHANGED <<funcs, disable, flags, rw, bounds, hist>>

\* m.someNeedRemove.Store(false); the caller goes on, el.Next() in a push.
RemoveStore(t) ==
  /\ pc[t] = "store"
  /\ someNeedRemove' = FALSE
  /\ loc' = [loc EXCEPT ![t].el = IF loc[t].ret # "loop" THEN @
                                  ELSE IF @ = Nil THEN ListFront ELSE NextOf(@)]
  /\ Goto(t, loc[t].ret)
  /\ UNCHANGED <<funcs, disable, allNeedRemove, rw, bounds, hist>>

----------------------------------------------------------------------------
(* register and the cancel function it returns.                            *)

Register(i) ==
  /\ i \in Items
  /\ pc[i] = "idle"
  /\ loc' = [loc EXCEPT ![i] = Local(TRUE, Kind[i])]
  /\ Goto(i, "want")
  /\ UNCHANGED <<funcs, disable, flags, rw, bounds, hist>>

\* Mutant: a registration does not wait for the readers to leave.
RegisterEnterEarly(i) ==
  /\ i \in Items
  /\ pc[i] = "wait"
  /\ Goto(i, IF allNeedRemove THEN "regcas" ELSE "insert")
  /\ UNCHANGED <<funcs, disable, flags, rw, loc, bounds, hist>>

RegisterEnter(i) ==
  /\ i \in Items
  /\ pc[i] = "wait"
  /\ HasLock(i)
  /\ Goto(i, IF allNeedRemove THEN "regcas" ELSE "insert")
  /\ UNCHANGED <<funcs, disable, flags, rw, loc, bounds, hist>>

\* f(mp): PushBack or PushFront
Insert(i) ==
  /\ pc[i] = "insert"
  /\ funcs' = IF i \in AtFront THEN <<i>> \o funcs ELSE Append(funcs, i)
  /\ Goto(i, "unlock")
  /\ UNCHANGED <<disable, flags, rw, loc, bounds, hist>>

\* cancel(): mp.disable.Store(true)
Cancel(i) ==
  /\ i \in Items
  /\ pc[i] = "registered"
  /\ disable' = disable \cup {i}
  /\ loc' = [loc EXCEPT ![i].isLock = FALSE]
  /\ Goto(i, "cas")
  /\ UNCHANGED <<funcs, flags, rw, bounds, hist>>

\* m.removeDisable(m.someNeedRemove.CompareAndSwap(false, true), isLock) in
\* cancel, in register and after a handler that asked to be disabled.
CompareAndSwap(t) ==
  LET after == IF t \in Pushers THEN "loop" ELSE IF pc[t] = "regcas" THEN "insert"
               ELSE "cancelled"
      el    == IF t \in Pushers THEN NextOf(loc[t].el) ELSE Nil
  IN  /\ pc[t] \in {"cas", "regcas"}
      /\ someNeedRemove' = TRUE
      /\ \/ /\ someNeedRemove
            /\ Goto(t, after)
            /\ loc' = [loc EXCEPT ![t].el = el]
         \/ /\ ~someNeedRemove /\ loc[t].isLock
            /\ Goto(t, "swap")
            /\ loc' = [loc EXCEPT ![t].ret = after]
         \/ /\ ~someNeedRemove /\ ~loc[t].isLock
            /\ Spawn(t, after, el)
      /\ UNCHANGED <<funcs, disable, allNeedRemove, rw, bounds, hist>>

ClearAll ==
  /\ clears.count < MaxClear
  /\ allNeedRemove' = TRUE
  /\ clears' = [count |-> clears.count + 1, before |-> clears.before \cup ToSet(funcs)]
  /\ UNCHANGED <<funcs, disable, someNeedRemove, rw, pc, loc, pushes, hist>>

----------------------------------------------------------------------------
(* push(msg, isLock), which Push and PushLock and their _tag forms call.   *)

Push(p, T, isLock) ==
  /\ p \in Pushers
  /\ pc[p] = "idle"
  /\ pushes[p] < MaxPush
  /\ pushes' = [pushes EXCEPT ![p] = @ + 1]
  /\ loc' = [loc EXCEPT ![p] = Local(isLock, T)]
  /\ rw' = IF isLock THEN rw ELSE RWAskRead(rw, p)
  /\ Goto(p, IF isLock THEN "want" ELSE "wait")
  /\ hist' = [hist EXCEPT ![p].gone = {i \in Items : pc[i] = "cancelled"},
                          ![p].wiped = clears.before]
  /\ UNCHANGED <<funcs, disable, flags, clears>>

\* The lock is held: test allNeedRemove, start to iterate or give up.
PushEnter(p) ==
  /\ p \in Pushers
  /\ pc[p] = "wait"
  /\ HasLock(p)
  /\ \/ /\ ~allNeedRemove
        /\ Goto(p, "loop")
        /\ loc' = [loc EXCEPT ![p].el = ListFront]
     \/ /\ allNeedRemove /\ loc[p].isLock
        /\ Goto(p, "swap")
        /\ loc' = [loc EXCEPT ![p].ret = "loop"]
     \/ /\ allNeedRemove /\ ~loc[p].isLock
        /\ Spawn(p, "unlock", Nil)
  /\ hist' = IF allNeedRemove THEN hist
             ELSE [hist EXCEPT ![p].due = {i \in ToSet(funcs) : Kind[i] = loc[p].T}]
  /\ UNCHANGED <<funcs, disable, flags, rw, bounds>>

\* Mutant: the disable flag is not tested.
VisitDisabled(p) ==
  LET i == loc[p].el
  IN  /\ p \in Pushers
      /\ pc[p] = "loop"
      /\ \/ i = Nil /\ Goto(p, "unlock") /\ UNCHANGED loc
         \/ i # Nil /\ Kind[i] = loc[p].T /\ Goto(p, "call") /\ UNCHANGED loc
         \/ /\ i # Nil /\ Kind[i] # loc[p].T
            /\ loc' = [loc EXCEPT ![p].el = NextOf(i)]
            /\ UNCHANGED pc
      /\ UNCHANGED <<funcs, disable, flags, rw, bounds, hist>>

\* One turn of the loop up to the test of mi.disable.
Visit(p) ==
  LET i == loc[p].el
  IN  /\ p \in Pushers
      /\ pc[p] = "loop"
      /\ \/ /\ i = Nil
            /\ Goto(p, "unlock")
            /\ UNCHANGED loc
         \/ /\ i # Nil
            /\ Kind[i] = loc[p].T /\ i \notin disable
            /\ Goto(p, "call")
            /\ UNCHANGED loc
         \/ /\ i # Nil
            /\ ~(Kind[i] = loc[p].T /\ i \notin disable)
            /\ loc' = [loc EXCEPT ![p].el = NextOf(i)]
            /\ UNCHANGED pc
      /\ UNCHANGED <<funcs, disable, flags, rw, bounds, hist>>

\* mi.f(msg) is called and returns dis.
Handler(p, dis) ==
  LET i == loc[p].el
  IN  /\ \/ pc[p] = "call" /\ (i \notin Nesters \/ loc[p].isLock)
         \/ pc[p] = "ret"
      /\ hist' = [hist EXCEPT ![p].got = Append(@, i)]
      /\ Goto(p, IF dis THEN "disable" ELSE "loop")
      /\ loc' = IF dis THEN loc ELSE [loc EXCEPT ![p].el = NextOf(i)]
      /\ UNCHANGED <<funcs, disable, flags, rw, bounds>>

\* Mutant: the push returns after a handler that asked to be disabled.
DisableAndReturn(p) ==
  /\ pc[p] = "disable"
  /\ disable' = disable \cup {loc[p].el}
  /\ Goto(p, "unlock")
  /\ UNCHANGED <<funcs, flags, rw, loc, bounds, hist>>

\* mi.disable.Store(true)
Disable(p) ==
  /\ pc[p] = "disable"
  /\ disable' = disable \cup {loc[p].el}
  /\ Goto(p, "cas")
  /\ UNCHANGED <<funcs, flags, rw, loc, bounds, hist>>

\* A handler called by Push pushes a message nobody subscribed to: the inner
\* Push asks for a second read lock ...
NestBegin(p) ==
  /\ pc[p] = "call"
  /\ loc[p].el \in Nesters
  /\ ~loc[p].isLock
  /\ rw' = RWAskRead(rw, p)
  /\ Goto(p, "nest")
  /\ UNCHANGED <<funcs, disable, flags, loc, bounds, hist>>

\* ... finds no element to call, or everything to be removed, and returns.
NestEnd(p) ==
  /\ pc[p] = "nest"
  /\ RWReadGranted(rw, p)
  /\ IF allNeedRemove THEN Spawn(p, "ret", loc[p].el) ELSE Goto(p, "ret") /\ UNCHANGED loc
  /\ rw' = RWRUnlock(rw, p)
  /\ UNCHANGED <<funcs, disable, flags, bounds, hist>>

----------------------------------------------------------------------------
RemoverStep(t) == RemoveSwap(t) \/ RemoveScan(t) \/ RemoveScanEnd(t) \/ RemoveStore(t)

OwnerStep(i) == RegisterEnter(i) \/ Insert(i)

PushStep(p) ==
  \/ PushEnter(p)
  \/ Visit(p)
  \/ \E dis \in BOOLEAN : Handler(p, dis)
  \/ Disable(p)
  \/ NestBegin(p)
  \/ NestEnd(p)

\* What a goroutine does by itself once its call has begun.
Step(t) ==
  \/ Announce(t)
  \/ Unlock(t)
  \/ RemoverStep(t)
  \/ CompareAndSwap(t)
  \/ t \in Items /\ OwnerStep(t)
  \/ t \in Pushers /\ PushStep(t)

Next ==
  \/ \E t \in Threads : Step(t)
  \/ \E i \in Items : Register(i) \/ Cancel(i)
  \/ \E p \in Pushers, T \in Kinds, isLock \in BOOLEAN : Push(p, T, isLock)
  \/ ClearAll

Spec == Init /\ [][Next]_vars

----------------------------------------------------------------------------
TypeOK ==
  /\ funcs \in Seq(Items)
  /\ IsInjective(funcs)
  /\ disable \subseteq Items
  /\ someNeedRemove \in BOOLEAN
  /\ allNeedRemove \in BOOLEAN
  /\ rw \in RWType
  /\ pc \in [Threads -> Pcs]
  /\ loc \in [Threads -> [isLock : BOOLEAN, T : Kinds, el : Items \cup {Nil},
                          rel : Items \cup {Nil}, all : BOOLEAN, ret : Pcs]]
  /\ pushes \in [Pushers -> Nat]
  /\ clears \in [count : Nat, before : SUBSET Items]
  /\ hist \in [Pushers -> [due : SUBSET Items, got : Seq(Items), gone : SUBSET Items,
                            cut : BOOLEAN, wiped : SUBSET Items]]

Iterating(p) == p \in Pushers /\ pc[p] \in {"loop", "call", "nest", "ret", "disable", "cas"}

\* A push that begins after an item's cancel function has returned never calls
\* the item, although cancel takes no lock and a push tests the flag before it
\* calls the handler.
NoCallAfterCancel == \A p \in Pushers : ToSet(hist[p].got) \cap hist[p].gone = {}

\* A push that removes nothing itself calls every matching item that was in
\* the list when it got the lock and was not disabled meanwhile, and calls it
\* once.  (A push that finds allNeedRemove set under the read lock gives up.)
EveryoneCalledOnce ==
  \A p \in Pushers : pc[p] = "unlock" =>
    /\ ~hist[p].cut => hist[p].due \ disable \subseteq ToSet(hist[p].got)
    /\ IsInjective(hist[p].got)

\* While a plain push iterates, the list does not change under it.
ListStable ==
  [][(\E p \in Pushers : Iterating(p) /\ ~loc[p].isLock) => funcs' = funcs]_vars

\* Every begun push, registration and cancel comes to its end, and every
\* remover goroutine does.
CallsReturn ==
  \A t \in Threads : pc[t] \notin {"idle", "registered", "cancelled"}
                       ~> pc[t] \in {"idle", "registered", "cancelled"}

\* someNeedRemove does not stay set, so later removals are not lost for good.
RemovalEnds == someNeedRemove ~> ~someNeedRemove

\* ClearAll: a push that begins after it does not call an item that was
\* registered before it.
ClearedNotCalled == \A p \in Pushers : ToSet(hist[p].got) \cap hist[p].wiped = {}
=============================================================================
