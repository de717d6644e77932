---------------------------- MODULE MapExceeded -----------------------------
(***************************************************************************)
(* sync/MapExceeded.go: a map whose items have a time after which they no  *)
(* longer count.  An item is an object that stays alive while somebody has *)
(* a pointer to it: the store function that LoadOrStore returns writes to  *)
(* its item, whether or not the map still has it.  Load and GC look at an  *)
(* item and delete the key in two steps, and read it without its lock: a   *)
(* read that races with the store function may see what was there before.  *)
(***************************************************************************)
EXTENDS Naturals, FiniteSets

CONSTANTS
  Keys,
  Objs,      \* item objects that can be allocated
  Callers,   \* goroutines
  Ops,       \* the operations that the goroutines use
  None,      \* no item, no key, nobody
  MaxCalls   \* bound: operations per goroutine

MapExceededAssumption ==
  /\ None \notin Objs \cup Keys \cup Callers
  /\ Ops \subseteq {"Store", "Load", "LoadOrStore", "GC", "Delete"}
  /\ MaxCalls \in Nat

VARIABLES
  m,        \* [Keys -> Objs \cup {None}]
  data,     \* the items that have data
  live,     \* the items whose exceeded is in the future
  used,     \* the items that were allocated
  blank,    \* those that were put in the map without data
  wait,     \* [Objs -> the goroutine that has the item's write lock, or None]
  pc,       \* [Callers -> place]
  loc,      \* [Callers -> key and item at hand, and whether LoadOrStore made it]
  walk,     \* [Callers -> the keys that GC has still to visit]
  rul,      \* [Callers -> what the last call returned]
  calls,
  kept      \* the keys stored, and not deleted, replaced or expired since

vars == <<m, data, live, used, blank, wait, pc, loc, walk, rul, calls, kept>>

NoResult == [op |-> "", loaded |-> FALSE, v |-> FALSE]
Hand(k, o, new) == [k |-> k, o |-> o, new |-> new]

Init ==
  /\ m = [k \in Keys |-> None]
  /\ data = {} /\ live = {} /\ used = {} /\ blank = {}
  /\ wait = [o \in Objs |-> None]
  /\ pc = [c \in Callers |-> "idle"]
  /\ loc = [c \in Callers |-> Hand(None, None, FALSE)]
  /\ walk = [c \in Callers |-> {}]
  /\ rul = [c \in Callers |-> NoResult]
  /\ calls = [c \in Callers |-> 0]
  /\ kept = {}

Goto(c, p) == pc' = [pc EXCEPT ![c] = p]
Rul(op, loaded, v) == [op |-> op, loaded |-> loaded, v |-> v]

\* A call begins.
Begin(c, op) ==
  /\ op \in Ops
  /\ pc[c] = "idle" /\ calls[c] < MaxCalls
  /\ calls' = [calls EXCEPT ![c] = @ + 1]

Return(c, r) == rul' = [rul EXCEPT ![c] = r] /\ Goto(c, "idle")

\* Time passes: an item is over.
Expire(o) ==
  /\ o \in live
  /\ live' = live \ {o}
  /\ kept' = {k \in kept : m[k] # o}
  /\ UNCHANGED <<m, data, used, blank, wait, pc, loc, walk, rul, calls>>

----------------------------------------------------------------------------
\* Store: a new item replaces whatever the key has.
Store(c, k, o) ==
  /\ Begin(c, "Store")
  /\ o \notin used
  /\ used' = used \cup {o}
  /\ m' = [m EXCEPT ![k] = o]
  /\ data' = data \cup {o}
  /\ live' = live \cup {o}
  /\ kept' = kept \cup {k}
  /\ UNCHANGED <<blank, wait, pc, loc, walk, rul>>

\* The deletes drop the key, whatever item it has by now.
Delete(c, k) ==
  /\ Begin(c, "Delete")
  /\ m' = [m EXCEPT ![k] = None]
  /\ kept' = kept \ {k}
  /\ UNCHANGED <<data, live, used, blank, wait, pc, loc, walk, rul>>

----------------------------------------------------------------------------
(* Load.                                                                   *)

\* What a read without the item's lock can make of exceeded: anything while
\* store is writing it.
SeenLive(o) == IF wait[o] # None THEN BOOLEAN ELSE {o \in live}

\* And of data: nothing orders it after the write of store.
SeenData(o) == {o \in data} \cup (IF o \in blank THEN {FALSE} ELSE {})

LoadItem(c, k) ==
  /\ Begin(c, "Load")
  /\ IF m[k] = None
       THEN Return(c, Rul("Load", FALSE, FALSE)) /\ UNCHANGED loc
       ELSE /\ loc' = [loc EXCEPT ![c] = Hand(k, m[k], FALSE)]
            /\ Goto(c, "loadExp")
            /\ UNCHANGED rul
  /\ UNCHANGED <<m, data, live, used, blank, wait, walk, kept>>

\* v.exceeded.After(time.Now()); the read races with store.
LoadExp(c) ==
  /\ pc[c] = "loadExp"
  /\ \E after \in SeenLive(loc[c].o) : Goto(c, IF after THEN "loadData" ELSE "delete")
  /\ UNCHANGED <<m, data, live, used, blank, wait, loc, walk, rul, calls, kept>>

LoadData(c) ==
  /\ pc[c] = "loadData"
  /\ \E v \in SeenData(loc[c].o) : Return(c, Rul("Load", TRUE, v))
  /\ UNCHANGED <<m, data, live, used, blank, wait, loc, walk, calls, kept>>

\* t.Delete(k) for an item that was found to be over.
LoadDelete(c) ==
  /\ pc[c] = "delete"
  /\ m' = [m EXCEPT ![loc[c].k] = None]
  /\ Return(c, Rul("Load", FALSE, FALSE))
  /\ UNCHANGED <<data, live, used, blank, wait, loc, walk, calls, kept>>

----------------------------------------------------------------------------
(* GC (and Len): a walk over the keys.                                     *)

GC(c) ==
  /\ Begin(c, "GC")
  /\ Goto(c, "gc")
  /\ walk' = [walk EXCEPT ![c] = Keys]
  /\ UNCHANGED <<m, data, live, used, blank, wait, loc, rul, kept>>

GCVisit(c, k) ==
  /\ pc[c] = "gc" /\ k \in walk[c]
  /\ walk' = [walk EXCEPT ![c] = @ \ {k}]
  /\ loc' = [loc EXCEPT ![c] = Hand(k, m[k], FALSE)]
  /\ IF m[k] = None THEN Goto(c, "gc")
     ELSE \E after \in SeenLive(m[k]) : Goto(c, IF after THEN "gc" ELSE "gcDelete")
  /\ UNCHANGED <<m, data, live, used, blank, wait, rul, calls, kept>>

GCDelete(c) ==
  /\ pc[c] = "gcDelete"
  /\ m' = [m EXCEPT ![loc[c].k] = None]
  /\ Goto(c, "gc")
  /\ UNCHANGED <<data, live, used, blank, wait, loc, walk, rul, calls, kept>>

GCEnd(c) ==
  /\ pc[c] = "gc" /\ walk[c] = {}
  /\ Goto(c, "idle")
  /\ UNCHANGED <<m, data, live, used, blank, wait, loc, walk, rul, calls, kept>>

----------------------------------------------------------------------------
(* LoadOrStore and the store function that it returns.                     *)

\* Mutant: an item that is over is replaced, like one that is missing.
LoadOrStoreReplace(c, k, o) ==
  /\ Begin(c, "LoadOrStore")
  /\ o \notin used
  /\ IF m[k] = None \/ m[k] \notin live
       THEN /\ m' = [m EXCEPT ![k] = o]
            /\ used' = used \cup {o} /\ blank' = blank \cup {o}
            /\ loc' = [loc EXCEPT ![c] = Hand(k, o, TRUE)]
       ELSE /\ loc' = [loc EXCEPT ![c] = Hand(k, m[k], FALSE)]
            /\ UNCHANGED <<m, used, blank>>
  /\ Goto(c, "read")
  /\ UNCHANGED <<data, live, wait, walk, rul, kept>>

\* t.m.LoadOrStore with an item that is over from the start.
LoadOrStore(c, k, o) ==
  /\ Begin(c, "LoadOrStore")
  /\ o \notin used
  /\ IF m[k] = None
       THEN /\ m' = [m EXCEPT ![k] = o]
            /\ used' = used \cup {o} /\ blank' = blank \cup {o}
            /\ loc' = [loc EXCEPT ![c] = Hand(k, o, TRUE)]
       ELSE /\ loc' = [loc EXCEPT ![c] = Hand(k, m[k], FALSE)]
            /\ UNCHANGED <<m, used, blank>>
  /\ Goto(c, "read")
  /\ UNCHANGED <<data, live, wait, walk, rul, kept>>

\* Mutant: the item is read without its lock.
ReadUnlocked(c) ==
  /\ pc[c] = "read"
  /\ \E after \in SeenLive(loc[c].o), v \in SeenData(loc[c].o) :
       LET loaded == ~loc[c].new /\ after
       IN  /\ rul' = [rul EXCEPT ![c] = Rul("LoadOrStore", loaded, v)]
           /\ Goto(c, IF loaded THEN "idle" ELSE "store")
  /\ UNCHANGED <<m, data, live, used, blank, wait, loc, walk, calls, kept>>

\* exceeded and data are read under the item's lock; a caller that is not told
\* "loaded" gets the store function, and may call it or not.
Read(c) ==
  /\ pc[c] = "read"
  /\ wait[loc[c].o] = None
  /\ LET loaded == ~loc[c].new /\ loc[c].o \in live
     IN  /\ rul' = [rul EXCEPT ![c] = Rul("LoadOrStore", loaded, loc[c].o \in data)]
         /\ Goto(c, IF loaded THEN "idle" ELSE "store")
  /\ UNCHANGED <<m, data, live, used, blank, wait, loc, walk, calls, kept>>

NoStore(c) ==
  /\ pc[c] = "store"
  /\ Goto(c, "idle")
  /\ UNCHANGED <<m, data, live, used, blank, wait, loc, walk, rul, calls, kept>>

\* store: v.wait.Lock(), v.data = v1
StoreData(c) ==
  /\ pc[c] = "store"
  /\ wait[loc[c].o] = None
  /\ wait' = [wait EXCEPT ![loc[c].o] = c]
  /\ data' = data \cup {loc[c].o}
  /\ Goto(c, "storeExp")
  /\ UNCHANGED <<m, live, used, blank, loc, walk, rul, calls, kept>>

\* v.exceeded = time.Now().Add(dur), v.wait.Unlock()
StoreExp(c) ==
  /\ pc[c] = "storeExp"
  /\ live' = live \cup {loc[c].o}
  /\ wait' = [wait EXCEPT ![loc[c].o] = None]
  /\ Goto(c, "idle")
  /\ kept' = kept \cup {loc[c].k}
  /\ UNCHANGED <<m, data, used, blank, loc, walk, rul, calls>>

Next ==
  \/ \E o \in Objs : Expire(o)
  \/ \E c \in Callers, k \in Keys : Delete(c, k) \/ LoadItem(c, k) \/ GCVisit(c, k)
  \/ \E c \in Callers, k \in Keys, o \in Objs : Store(c, k, o) \/ LoadOrStore(c, k, o)
  \/ \E c \in Callers :
       \/ LoadExp(c) \/ LoadData(c) \/ LoadDelete(c)
       \/ GC(c) \/ GCDelete(c) \/ GCEnd(c)
       \/ Read(c) \/ NoStore(c) \/ StoreData(c) \/ StoreExp(c)

Spec == Init /\ [][Next]_vars

----------------------------------------------------------------------------
TypeOK ==
  /\ m \in [Keys -> Objs \cup {None}]
  /\ data \subseteq Objs /\ live \subseteq Objs /\ blank \subseteq used /\ used \subseteq Objs
  /\ wait \in [Objs -> Callers \cup {None}]
  /\ \A c \in Callers : pc[c] \in {"loadExp", "loadData", "read", "store", "storeExp"} => loc[c].o \in used
  /\ calls \in [Callers -> Nat]
  /\ kept \subseteq Keys

\* Whoever LoadOrStore tells that a value was there gets a value, never the
\* empty data of an item that another goroutine is still storing.
LoadedHasData ==
  \A c \in Callers : rul[c].op = "LoadOrStore" /\ rul[c].loaded => rul[c].v

\* What was stored is found until it is over, deleted or replaced: with
\* LoadOrStore and its store function alone no stored value is lost, with GC
\* or Load beside them it can be.
StoredFound == \A k \in kept : m[k] # None /\ m[k] \in live /\ m[k] \in data
=============================================================================
