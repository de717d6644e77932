------------------------------- MODULE TmplKV -------------------------------
(***************************************************************************)
(* tmplKV: tmplKV (key, value, expiry), tmplK (key, id) and tmplV (id,     *)
(* content), with the ids of idpool/Idpool.go.  They share nothing, so a   *)
(* behaviour is about the one kind names.  now is the clock reading the    *)
(* ticker stores, 0 before its first tick.  sync.Pool may drop what it was *)
(* given.  Calls of tmplV overlap.  tmplK, which has no lock for its list  *)
(* and its maps, and tmplKV are used by one goroutine.                     *)
(***************************************************************************)
EXTENDS Integers, Sequences, SequencesExt, FiniteSets

CONSTANTS
  TKeys, TVals,
  Users,         \* goroutines that use tmplV
  Limits,        \* the values of SumInDruation, the limit of tmplK and tmplV
  Druation,      \* how long an entry of theirs lives
  Epoch,         \* the reading of the first tick
  MaxClock,      \* bound: the clock
  MaxIds         \* bound: ids made

TmplAssumption ==
  /\ IsFiniteSet(Users) /\ Limits \subseteq Int /\ Druation \in Int
  /\ Epoch \in Nat \ {0} /\ MaxClock \in Nat /\ MaxIds \in Nat

VARIABLES
  now,
  ids,    \* the pool of tmplK and tmplV: made, free, and sum, those handed out
  kv,     \* tmplKV: key -> v and kt
  km,     \* tmplK: key -> id and kt
  slow,   \* tmplK: slowBackList
  vm,     \* tmplV: id -> kt; the contents play no part
  vcall,  \* tmplV: user -> pc of its call, the id it is about, and the kt it saw
  stuck,  \* tmplV: the user whose Set keeps the lock for ever, or nobody
  clash,  \* tmplV: the calls that the last one met at its id, which ends the behaviour
  SumInDruation,
  kind,   \* the store the behaviour is about
  seen    \* the last call

vcalls == <<vcall, stuck, clash>>
vars == <<now, ids, kv, km, slow, vm, vcalls, SumInDruation, kind, seen>>

NoPool == [made |-> 0, free |-> {}, sum |-> 0]
Idle == [pc |-> "idle", id |-> 0, kt |-> 0]

Init ==
  /\ now = 0
  /\ ids = NoPool
  /\ kind \in {"kv", "k", "v"}
  /\ SumInDruation \in Limits
  /\ kv = <<>> /\ km = <<>> /\ slow = <<>> /\ vm = <<>>
  /\ vcall = [u \in Users |-> Idle] /\ stuck = {} /\ clash = {}
  /\ seen = [op |-> "none"]

SetKey(f, k, x) == [y \in DOMAIN f \cup {k} |-> IF y = k THEN x ELSE f[y]]
DelKey(f, k) == [y \in DOMAIN f \ {k} |-> f[y]]

\* Idpool.Get gives an id that is free, or a new one; Put takes it back.
GetIds(p) == p.free \cup IF p.made < MaxIds THEN {p.made + 1} ELSE {}
AfterGet(p, id) ==
  [made |-> IF id \in p.free THEN p.made ELSE p.made + 1, free |-> p.free \ {id}, sum |-> p.sum + 1]
AfterPut(p, id) == [made |-> p.made, free |-> p.free \cup {id}, sum |-> p.sum - 1]

Tick ==
  /\ now < MaxClock
  /\ now' = IF now = 0 THEN Epoch ELSE now + 1
  /\ seen' = [op |-> "none"]
  /\ UNCHANGED <<ids, kv, km, slow, vm, vcalls>>

----------------------------------------------------------------------------
SetKV(k, v, exp) ==
  /\ kv' = SetKey(kv, k, [v |-> v, kt |-> IF exp >= 0 THEN now + exp ELSE exp, at |-> now])
  /\ seen' = [op |-> "none"]
  /\ UNCHANGED <<now, ids, km, slow, vm, vcalls>>

\* The zero item of a key that is not there is live while now is 0.
LiveKV(k) == IF k \in DOMAIN kv THEN kv[k].kt < 0 \/ now <= kv[k].kt ELSE now <= 0
GetKV(k) ==
  /\ seen' = [op |-> "kv", key |-> k, live |-> LiveKV(k),
              had |-> IF k \in DOMAIN kv THEN <<kv[k]>> ELSE <<>>]
  /\ kv' = IF LiveKV(k) THEN kv ELSE DelKey(kv, k)
  /\ UNCHANGED <<now, ids, km, slow, vm, vcalls>>

----------------------------------------------------------------------------
LiveAt(kt) == Druation < 0 \/ now - kt <= Druation

\* tmplK.free: the id waits in the list; the front goes back beyond the limit.
FreeLen(p, s) == p.sum + Len(s)
AfterFree(p, s, id) ==
  LET t == Append(s, id) IN
  IF FreeLen(p, t) > SumInDruation THEN [p |-> AfterPut(p, Head(t)), s |-> Tail(t)]
  ELSE [p |-> p, s |-> t]

\* tmplK.Set: a key that is there gets a new id and the old one waits; at the
\* limit some other key gives its id away.
SetK(k) ==
  LET r == IF k \in DOMAIN km THEN AfterFree(ids, slow, km[k].id)
           ELSE [p |-> ids, s |-> slow]
      full == k \notin DOMAIN km /\ SumInDruation >= 0 /\ FreeLen(ids, slow) >= SumInDruation
  IN
  /\ \/ full /\ \E old \in DOMAIN km :
          /\ km' = DelKey(SetKey(km, k, [id |-> km[old].id, kt |-> now]), old)
          /\ UNCHANGED <<ids, slow>>
     \/ full /\ km = <<>> /\ UNCHANGED <<km, ids, slow>>
     \/ ~full /\ \E id \in GetIds(r.p) :
          /\ ids' = AfterGet(r.p, id)
          /\ slow' = r.s
          /\ km' = SetKey(km, k, [id |-> id, kt |-> now])
  /\ seen' = [op |-> "none"]
  /\ UNCHANGED <<now, kv, vm, vcalls>>

GetK(k) ==
  /\ k \in DOMAIN km
  /\ IF LiveAt(km[k].kt) THEN UNCHANGED <<km, ids, slow>>
     ELSE LET r == AfterFree(ids, slow, km[k].id) IN
          ids' = r.p /\ slow' = r.s /\ km' = DelKey(km, k)
  /\ seen' = [op |-> "none"]
  /\ UNCHANGED <<now, kv, vm, vcalls>>

----------------------------------------------------------------------------
At(u, pc) == vcall[u].pc = pc
AtId(pc, id) == {w \in Users : At(w, pc) /\ vcall[w].id = id}
Goto(u, pc, id, kt) == vcall' = [vcall EXCEPT ![u] = [pc |-> pc, id |-> id, kt |-> kt]]
Rest == seen' = [op |-> "none"] /\ UNCHANGED <<now, kv, km, slow>>

\* tmplV.Set: InUse is below the limit.
SetV(u) ==
  /\ At(u, "idle")
  /\ SumInDruation < 0 \/ ids.sum < SumInDruation
  /\ Goto(u, "take", 0, 0)
  /\ Rest /\ UNCHANGED <<ids, vm, stuck, clash>>

\* It was not: the content of some entry is replaced under the lock, which a Set
\* that finds no entry never unlocks.
FullV(u) ==
  /\ At(u, "idle")
  /\ SumInDruation >= 0 /\ ids.sum >= SumInDruation
  /\ Goto(u, "replace", 0, 0)
  /\ Rest /\ UNCHANGED <<ids, vm, stuck, clash>>

ReplaceV(u) ==
  /\ At(u, "replace") /\ stuck = {}
  /\ \/ \E id \in DOMAIN vm :
          /\ vm' = SetKey(vm, id, now)
          /\ vcall' = [vcall EXCEPT ![u] = Idle]
          /\ UNCHANGED stuck
     \/ /\ vm = <<>>
        /\ Goto(u, "take", 0, 0)
        /\ stuck' = {u}
        /\ UNCHANGED vm
  /\ Rest /\ UNCHANGED <<ids, clash>>

\* pool.Get; a clash: it is an id that a Get has still to delete.
TakeV(u, id) ==
  /\ At(u, "take")
  /\ ids' = AfterGet(ids, id)
  /\ Goto(u, "store", id, 0)
  /\ clash' = AtId("del", id)
  /\ Rest /\ UNCHANGED <<vm, stuck>>

StoreV(u) ==
  /\ At(u, "store") /\ stuck = {}
  /\ vm' = SetKey(vm, vcall[u].id, now)
  /\ vcall' = [vcall EXCEPT ![u] = Idle]
  /\ Rest /\ UNCHANGED <<ids, stuck, clash>>

\* tmplV.Get: the look under the read lock; a clash: another Get takes it away.
LookV(u, id) ==
  /\ At(u, "idle") /\ stuck = {} /\ id \in DOMAIN vm
  /\ Goto(u, "seen", id, vm[id])
  /\ clash' = AtId("del", id)
  /\ Rest /\ UNCHANGED <<ids, vm, stuck>>

\* Is it live?  If not, its id goes back, outside of the lock; a clash: another
\* Get has looked at it too.
PutV(u) ==
  /\ At(u, "seen")
  /\ \/ /\ LiveAt(vcall[u].kt)
        /\ vcall' = [vcall EXCEPT ![u] = Idle]
        /\ UNCHANGED <<ids, clash>>
     \/ /\ ~LiveAt(vcall[u].kt)
        /\ ids' = AfterPut(ids, vcall[u].id)
        /\ Goto(u, "del", vcall[u].id, 0)
        /\ clash' = AtId("seen", vcall[u].id) \ {u}
  /\ Rest /\ UNCHANGED <<vm, stuck>>

\* Mutant: an entry that is out of date is left in the map.
DeleteVKept(u) ==
  /\ At(u, "del") /\ stuck = {}
  /\ vcall' = [vcall EXCEPT ![u] = Idle]
  /\ Rest /\ UNCHANGED <<ids, vm, stuck, clash>>

\* The delete under the lock; Tidy only copies the map.
DeleteV(u) ==
  /\ At(u, "del") /\ stuck = {}
  /\ vm' = DelKey(vm, vcall[u].id)
  /\ vcall' = [vcall EXCEPT ![u] = Idle]
  /\ Rest /\ UNCHANGED <<ids, stuck, clash>>

VStep(u) ==
  \/ SetV(u) \/ FullV(u) \/ ReplaceV(u) \/ StoreV(u) \/ PutV(u) \/ DeleteV(u)
  \/ \E id \in GetIds(ids) : TakeV(u, id)
  \/ \E id \in DOMAIN vm : LookV(u, id)

\* sync.Pool drops what is in it.
Drop(id) ==
  /\ id \in ids.free
  /\ ids' = [ids EXCEPT !.free = @ \ {id}]
  /\ seen' = [op |-> "none"]
  /\ UNCHANGED <<now, kv, km, slow, vm, vcalls>>

Next ==
  /\ clash = {} /\ UNCHANGED <<kind, SumInDruation>>
  /\ \/ Tick
     \/ kind = "kv" /\ \E k \in TKeys : GetKV(k) \/ \E v \in TVals, exp \in {-1, 1} : SetKV(k, v, exp)
     \/ kind = "k" /\ \E k \in TKeys : SetK(k) \/ GetK(k)
     \/ kind = "v" /\ \E u \in Users : VStep(u)
     \/ \E id \in ids.free : Drop(id)

Spec == Init /\ [][Next]_vars

----------------------------------------------------------------------------
\* The ids that a Set took and has still to store, and that a Get gave back and
\* has still to delete.
Taken == {vcall[u].id : u \in {w \in Users : At(w, "store")}}
Dying == {vcall[u].id : u \in {w \in Users : At(w, "del")}}

\* tmplK, used by one goroutine: an id belongs to one key; the ids of the keys and
\* the ids that wait in the slow list are distinct, none of them is free in the
\* pool, and the pool counts exactly them.
KIdsDistinct ==
  LET used == {km[k].id : k \in DOMAIN km} IN
    /\ \A k, l \in DOMAIN km : km[k].id = km[l].id => k = l
    /\ ToSet(slow) \cap used = {} /\ IsInjective(slow)
    /\ (used \cup ToSet(slow)) \cap ids.free = {}
    /\ kind = "k" => ids.sum = Cardinality(used) + Len(slow)

\* tmplV, used by several: until two Gets meet at an entry that one of them takes
\* away, or a Set takes an id that a Get has still to delete (both clashes are
\* possible, and give an id to two Sets or lose an entry), an entry that stays has
\* an id which is not free and which no Set is about to store, and the pool counts
\* these.  All calls but one may each put an entry beyond the limit, and no more.
VIdsDistinct ==
  clash = {} =>
    LET kept == (DOMAIN vm \ Dying) \cup Taken IN
      /\ Taken \cap DOMAIN vm = {} /\ kept \cap ids.free = {}
      /\ \A u, w \in Users : At(u, "store") /\ At(w, "store") /\ vcall[u].id = vcall[w].id => u = w
      /\ kind = "v" => ids.sum = Cardinality(kept)
      /\ SumInDruation >= 0 /\ Users # {} =>
           Cardinality(DOMAIN vm) < SumInDruation + Cardinality(Users)

\* A value of tmplKV that Get calls live was set, and for ever or for a time that
\* is not over, once the clock has ticked.
KVLive ==
  seen.op = "kv" /\ seen.live /\ now > 0 =>
    seen.had # <<>> /\ (seen.had[1].kt < 0 \/ now - seen.had[1].at <= 1)

IdsDistinct == KIdsDistinct /\ VIdsDistinct /\ KVLive
=============================================================================
