------------------------------ MODULE SizedMap ------------------------------
(***************************************************************************)
(* sync/Map.go and sync/MapG.go: sync.Map with a counter for Len.  Every   *)
(* operation first changes the sync.Map, in one atomic step, and then the  *)
(* counter, in another; other goroutines run in between.  Values are left  *)
(* out: CompareAndDelete finds the old value or it does not.               *)
(***************************************************************************)
EXTENDS Integers, FiniteSets

CONSTANTS
  Keys,
  Threads,
  Ops,        \* the operations that the threads use
  MaxCalls    \* bound: operations per thread

ASSUME SizedMapAssumption ==
  /\ IsFiniteSet(Keys) /\ IsFiniteSet(Threads)
  /\ MaxCalls \in Nat

VARIABLES
  m,        \* the keys in the sync.Map
  size,
  pc,       \* [Threads -> place]
  todo,     \* [Threads -> the keys that ClearAll's Range has yet to visit]
  calls

vars == <<m, size, pc, todo, calls>>

Init ==
  /\ m = {}
  /\ size = 0
  /\ pc = [t \in Threads |-> "idle"]
  /\ todo = [t \in Threads |-> {}]
  /\ calls = [t \in Threads |-> 0]

Goto(t, p) == pc' = [pc EXCEPT ![t] = p]
Begin(t, op) ==
  /\ op \in Ops
  /\ pc[t] = "idle" /\ calls[t] < MaxCalls
  /\ calls' = [calls EXCEPT ![t] = @ + 1]

\* Store and LoadOrStore: only the one that finds no entry counts.
Store(t, k) ==
  /\ Begin(t, "Store")
  /\ m' = m \cup {k}
  /\ Goto(t, IF k \in m THEN "idle" ELSE "add")
  /\ UNCHANGED <<size, todo>>

\* Swap does not count.
Swap(t, k) ==
  /\ Begin(t, "Swap")
  /\ m' = m \cup {k}
  /\ UNCHANGED <<size, todo, pc>>

\* Delete and LoadAndDelete: only the one that removes the entry counts.
Delete(t, k) ==
  /\ Begin(t, "Delete")
  /\ m' = m \ {k}
  /\ Goto(t, IF k \in m THEN "sub" ELSE "idle")
  /\ UNCHANGED <<size, todo>>

\* Mutant: CompareAndDelete counts whenever the key is there.
CompareAndDeleteAlways(t, k) ==
  /\ Begin(t, "CompareAndDelete")
  /\ \E equal \in BOOLEAN :
       /\ m' = IF equal THEN m \ {k} ELSE m
       /\ Goto(t, IF k \in m THEN "sub" ELSE "idle")
  /\ UNCHANGED <<size, todo>>

\* The entry goes if it has the old value.
CompareAndDelete(t, k) ==
  /\ Begin(t, "CompareAndDelete")
  /\ \E equal \in BOOLEAN :
       LET deleted == k \in m /\ equal
       IN  /\ m' = IF deleted THEN m \ {k} ELSE m
           /\ Goto(t, IF deleted THEN "sub" ELSE "idle")
  /\ UNCHANGED <<size, todo>>

\* t.size.Add(1), t.size.Add(-1)
Add(t) ==
  /\ pc[t] = "add"
  /\ size' = size + 1
  /\ Goto(t, "idle")
  /\ UNCHANGED <<m, todo, calls>>

Sub(t) ==
  /\ pc[t] = "sub"
  /\ size' = size - 1
  /\ Goto(t, "idle")
  /\ UNCHANGED <<m, todo, calls>>

\* Clear and ClearAll: Range and t.m.Delete, which does not count ...
ClearAll(t) ==
  /\ Begin(t, "ClearAll")
  /\ Goto(t, "clear")
  /\ todo' = [todo EXCEPT ![t] = Keys]
  /\ UNCHANGED <<m, size>>

ClearKey(t, k) ==
  /\ pc[t] = "clear" /\ k \in todo[t]
  /\ m' = m \ {k}
  /\ todo' = [todo EXCEPT ![t] = @ \ {k}]
  /\ UNCHANGED <<size, pc, calls>>

\* Mutant: the counter is left alone.
ClearEndKeep(t) ==
  /\ pc[t] = "clear" /\ todo[t] = {}
  /\ Goto(t, "idle")
  /\ UNCHANGED <<m, size, todo, calls>>

\* ... and then t.size.Store(0).
ClearEnd(t) ==
  /\ pc[t] = "clear" /\ todo[t] = {}
  /\ size' = 0
  /\ Goto(t, "idle")
  /\ UNCHANGED <<m, todo, calls>>

Next ==
  \E t \in Threads :
    \/ Add(t) \/ Sub(t) \/ ClearAll(t) \/ ClearEnd(t)
    \/ \E k \in Keys : Store(t, k) \/ Swap(t, k) \/ Delete(t, k) \/ CompareAndDelete(t, k) \/ ClearKey(t, k)

Spec == Init /\ [][Next]_vars

----------------------------------------------------------------------------
\* The counter leaves 0 .. |Keys| by no more than one for each thread.
TypeOK ==
  /\ m \subseteq Keys
  /\ size \in (0 - Cardinality(Threads)) .. (Cardinality(Keys) + Cardinality(Threads))
  /\ pc \in [Threads -> {"idle", "add", "sub", "clear"}]
  /\ todo \in [Threads -> SUBSET Keys]
  /\ calls \in [Threads -> Nat]

At(p) == {t \in Threads : pc[t] = p}

\* Without Swap and ClearAll the counter differs from the number of entries
\* only by the operations that have yet to count.
InFlight == size = Cardinality(m) - Cardinality(At("add")) + Cardinality(At("sub"))

\* Swap can make the counter too small, never too large.
NeverTooMany == size <= Cardinality(m) - Cardinality(At("add")) + Cardinality(At("sub"))

\* Len counts the entries whenever no operation is under way.
LenExact == (\A t \in Threads : pc[t] = "idle") => size = Cardinality(m)
=============================================================================
