------------------------------ MODULE TagGroup ------------------------------
(***************************************************************************)
(* msgq/Msgq.go: the tagged adapters of Msgq and MsgType.  Pull_tags runs  *)
(* a batch that registers functions with Tag and TagAsync and chains their *)
(* cancels; Pull_tag_async_only runs its function in a goroutine of its    *)
(* own; Pull_tag_syncmap looks it up in a map that users change.  Of Msgq  *)
(* the model keeps that a push walks the items in the list, skips what is  *)
(* disabled and disables what returns true, and that Register waits for    *)
(* the pushes under way.  Every push has the tag all of them listen to.    *)
(***************************************************************************)
EXTENDS Integers, Sequences, SequencesExt

CONSTANTS
  Batch,      \* the kinds the batch of Pull_tags registers: "tag" or "tagAsync"
  TagPushers,
  MaxTagPush, \* bound: pushes
  MaxStores   \* bound: functions stored in the map of Pull_tag_syncmap

\* Item 0 is Pull_tag_async_only's, -1 is Pull_tag_syncmap's.
Members == 1..Len(Batch)
TagItems == {0, -1} \cup Members
KindOf(i) == CASE i = 0 -> "async" [] i = -1 -> "syncmap" [] OTHER -> Batch[i]
Async == {i \in TagItems : KindOf(i) \in {"async", "tagAsync"}}

TagGroupAssumption == Batch \in Seq({"tag", "tagAsync"}) /\ Batch # <<>>

VARIABLES
  items,  \* the list of Msgq, and off, the disabled items
  group,  \* Register.cancel (0 for nil), pre of each member, and the batch's pc
  asyncs, \* disabled of each async item, and its goroutines: "start", "run"
  smap,   \* the function in the map (0 for none) and the number of stores
  walk,   \* pusher -> pc, the items to visit, the function or cancels in hand
  past    \* what happened: pushes, said, wished, and early, mixed and panic

vars == <<items, group, asyncs, smap, walk, past>>

At(pc, todo) == [pc |-> pc, todo |-> todo, fn |-> 0, cancels |-> <<>>]
NoWalk == At("idle", <<>>)

Init ==
  /\ items = [list |-> <<0, -1>>, off |-> {}]
  /\ group = [cancel |-> 0, pre |-> [i \in Members |-> 0], at |-> 1, pc |-> "register"]
  /\ asyncs = [i \in Async |-> [disabled |-> FALSE, run |-> 0]]
  /\ smap = [cur |-> 1, n |-> 1]
  /\ walk = [p \in TagPushers |-> NoWalk]
  /\ past = [pushes |-> 0, said |-> {}, wished |-> {}, early |-> FALSE, mixed |-> {},
             panic |-> FALSE]

----------------------------------------------------------------------------
NoPush == \A p \in TagPushers : walk[p].pc = "idle"

\* Tag and TagAsync: Register puts the item at the end, RegisterFront in front.
Register ==
  /\ group.pc = "register" /\ NoPush
  /\ items' = [items EXCEPT !.list = IF Batch[group.at] = "tag" THEN Append(@, group.at)
                                     ELSE <<group.at>> \o @]
  /\ group' = [group EXCEPT !.pc = "swap"]
  /\ UNCHANGED <<asyncs, smap, walk, past>>

\* m.cancel.Swap(&cur): the chain can be called before pre is assigned.
SwapCancel ==
  /\ group.pc = "swap"
  /\ group' = [group EXCEPT !.cancel = group.at, !.pc = "assign"]
  /\ UNCHANGED <<items, asyncs, smap, walk, past>>

\* Mutant: the cancels before are forgotten.
DropPre ==
  /\ group.pc = "assign"
  /\ group' = [group EXCEPT !.at = @ + 1,
                            !.pc = IF group.at = Len(Batch) THEN "done" ELSE "register"]
  /\ UNCHANGED <<items, asyncs, smap, walk, past>>

\* pre = what the Swap returned, the member before; the batch goes on or ends.
AssignPre ==
  /\ group.pc = "assign"
  /\ group' = [group EXCEPT !.pre[group.at] = group.at - 1, !.at = @ + 1,
                            !.pc = IF group.at = Len(Batch) THEN "done" ELSE "register"]
  /\ UNCHANGED <<items, asyncs, smap, walk, past>>

\* The cancels a chain calls, the oldest first, through the pre assigned by now.
Chain[i \in 0..Len(Batch)] == IF i = 0 THEN <<>> ELSE Append(Chain[group.pre[i]], i)

\* The user calls what Pull_tags returned.
Cancel ==
  /\ group.pc = "done"
  /\ items' = [items EXCEPT !.off = @ \cup ToSet(Chain[group.cancel])]
  /\ group' = [group EXCEPT !.pc = "cancelled"]
  /\ past' = [past EXCEPT !.said = @ \cup Members]
  /\ UNCHANGED <<asyncs, smap, walk>>

----------------------------------------------------------------------------
\* Push_tag and PushSign; PushLock_tag is the push of nobody else.
Push(p) ==
  /\ walk[p].pc = "idle" /\ past.pushes < MaxTagPush
  /\ walk' = [walk EXCEPT ![p] = At("visit", items.list)]
  /\ past' = [past EXCEPT !.pushes = @ + 1]
  /\ UNCHANGED <<items, group, asyncs, smap>>

Here(p) == Head(walk[p].todo)
GoOn(p) == walk' = [walk EXCEPT ![p] = At("visit", Tail(walk[p].todo))]

\* Msgq.push: a disabled item is skipped, the handler of another one begins.
Visit(p) ==
  /\ walk[p].pc = "visit"
  /\ \/ walk[p].todo = <<>> /\ walk' = [walk EXCEPT ![p] = NoWalk]
     \/ walk[p].todo # <<>> /\ Here(p) \in items.off /\ GoOn(p)
     \/ /\ walk[p].todo # <<>> /\ Here(p) \notin items.off
        /\ walk' = [walk EXCEPT ![p].pc = KindOf(Here(p)),
                                ![p].fn = IF Here(p) = -1 THEN smap.cur ELSE 0]
  /\ UNCHANGED <<items, group, asyncs, smap, past>>

\* Tag: the function runs; one that wants to be disabled loads the chain.
Tag(p) ==
  /\ walk[p].pc = "tag"
  /\ \/ GoOn(p) /\ UNCHANGED past
     \/ /\ past' = [past EXCEPT !.said = @ \cup {Here(p)},
                                !.early = @ \/ group.pc \notin {"done", "cancelled"},
                                !.panic = @ \/ group.cancel = 0]
        /\ walk' = [walk EXCEPT ![p].pc = "chain", ![p].cancels = Chain[group.cancel]]
  /\ UNCHANGED <<items, group, asyncs, smap>>

\* One cancel of the chain after another, and the true the handler returns.
CallChain(p) ==
  /\ walk[p].pc = "chain"
  /\ IF walk[p].cancels # <<>>
       THEN /\ items' = [items EXCEPT !.off = @ \cup {Head(walk[p].cancels)}]
            /\ walk' = [walk EXCEPT ![p].cancels = Tail(@)]
       ELSE /\ items' = [items EXCEPT !.off = @ \cup {Here(p)}]
            /\ GoOn(p)
  /\ UNCHANGED <<group, asyncs, smap, past>>

\* TagAsync, Pull_tag_async_only and Pull_tag_async: a goroutine, unless disabled.
StartAsync(p) ==
  /\ walk[p].pc \in {"async", "tagAsync"}
  /\ asyncs' = IF asyncs[Here(p)].disabled THEN asyncs
               ELSE [asyncs EXCEPT ![Here(p)].run = @ + 1]
  /\ walk' = [walk EXCEPT ![p].pc = "asyncEnd"]
  /\ UNCHANGED <<items, group, smap, past>>

\* return disabled.Load().
ReturnAsync(p) ==
  /\ walk[p].pc = "asyncEnd"
  /\ items' = [items EXCEPT !.off = IF asyncs[Here(p)].disabled THEN @ \cup {Here(p)} ELSE @]
  /\ GoOn(p)
  /\ UNCHANGED <<group, asyncs, smap, past>>

\* The goroutine ends with the result r: CompareAndSwap(false, r) of TagAsync,
\* Store(r) of the others, where a false of a second goroutine undoes a true.
AsyncEnds(i, r) ==
  /\ asyncs[i].run > 0
  /\ asyncs' = [asyncs EXCEPT ![i] = [disabled |-> r \/ (KindOf(i) = "tagAsync" /\ @.disabled),
                                      run |-> @.run - 1]]
  /\ past' = [past EXCEPT !.said = IF r THEN @ \cup {i} ELSE @,
                          !.mixed = IF KindOf(i) = "async" /\ asyncs[i].run > 1
                                      THEN @ \cup {i} ELSE @]
  /\ UNCHANGED <<items, group, smap, walk>>

----------------------------------------------------------------------------
\* func_map.CompareAndDelete(data.Tag, f).
CompareAndDelete(f) == smap' = [smap EXCEPT !.cur = IF @ = f THEN 0 ELSE @]

\* Pull_tag_syncmap: the function that was loaded runs, and may be removed.
Syncmap(p) ==
  /\ walk[p].pc = "syncmap"
  /\ \/ UNCHANGED <<smap, past>>
     \/ /\ walk[p].fn # 0
        /\ CompareAndDelete(walk[p].fn)
        /\ past' = [past EXCEPT !.wished = @ \cup {walk[p].fn}]
  /\ GoOn(p)
  /\ UNCHANGED <<items, group, asyncs>>

\* A user stores a new function under the tag.
StoreFunc ==
  /\ smap.n < MaxStores
  /\ smap' = [cur |-> smap.n + 1, n |-> smap.n + 1]
  /\ UNCHANGED <<items, group, asyncs, walk, past>>

Next ==
  /\ ~past.panic
  /\ \/ Register \/ SwapCancel \/ AssignPre \/ Cancel
     \/ \E p \in TagPushers :
          Push(p) \/ Visit(p) \/ Tag(p) \/ CallChain(p) \/ StartAsync(p) \/ ReturnAsync(p) \/ Syncmap(p)
     \/ \E i \in Async, r \in BOOLEAN : AsyncEnds(i, r)
     \/ StoreFunc

Spec == Init /\ [][Next]_vars

----------------------------------------------------------------------------
NoChain == \A p \in TagPushers : walk[p].pc # "chain"
Tagged == {i \in Members : KindOf(i) = "tag"}

\* What has asked to be disabled stays disabled, whatever runs beside it: one
\* function of a finished batch takes the whole batch with it, and no handler
\* meets a nil chain; the true of one goroutine of TagAsync is not undone by the
\* others (nor that of Pull_tag_async_only, while no two of them overlap); and a
\* function of the map disappears only by its own wish, never by that of the
\* one it has replaced.
DisabledForGood ==
  /\ ~past.early => ~past.panic
  /\ ~past.early /\ NoChain /\ past.said \cap Tagged # {} => Members \subseteq items.off
  /\ \A i \in past.said \cap (Async \ past.mixed) :
       asyncs[i].disabled \/ (i \in Members /\ i \in items.off)
  /\ smap.cur = smap.n \/ (smap.cur = 0 /\ smap.n \in past.wished)
=============================================================================
