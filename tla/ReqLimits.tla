----------------------------- MODULE ReqLimits ------------------------------
(***************************************************************************)
(* web/Web.go: Limits.AddCount.  A request takes one slot of every limit   *)
(* item that it matches, or none, and a goroutine returns them when the    *)
(* request's context is done.  The items are first read without t.l, then  *)
(* read again and changed under it, one item per step.                     *)
(***************************************************************************)
EXTENDS Integers, FiniteSets

CONSTANTS
  Items,     \* the indexes of t.g
  Reqs,      \* requests; each is counted once
  Max,       \* [Items -> Nat], what NewLimitItem was given
  Matches,   \* [Reqs -> SUBSET Items], the items whose matchfs accept it
  Nobody

ASSUME ReqLimitsAssumption ==
  /\ Items \subseteq Int
  /\ IsFiniteSet(Reqs)
  /\ Max \in [Items -> Nat]
  /\ Matches \in [Reqs -> SUBSET Items]
  /\ Nobody \notin Reqs

VARIABLES
  available,  \* [Items -> Nat], an int in the code
  l,          \* who holds t.l
  pc,         \* [Reqs -> place in AddCount or in the goroutine]
  matchs,     \* [Reqs -> SUBSET Items], the local of AddCount
  todo        \* [Reqs -> SUBSET Items], what the loop it is in has left

vars == <<available, l, pc, matchs, todo>>

Pcs == {"idle", "scan", "want", "check", "take", "in", "return", "back", "passed", "rejected",
        "out"}

Init ==
  /\ available = Max
  /\ l = Nobody
  /\ pc = [r \in Reqs |-> "idle"]
  /\ matchs = [r \in Reqs |-> {}]
  /\ todo = [r \in Reqs |-> {}]

Goto(r, p) == pc' = [pc EXCEPT ![r] = p]

\* The loops go through the slice in order.
Least(i, S) == i \in S /\ \A j \in S : i <= j

----------------------------------------------------------------------------
(* AddCount.                                                               *)

Begin(r) ==
  /\ pc[r] = "idle"
  /\ Goto(r, "scan")
  /\ todo' = [todo EXCEPT ![r] = Matches[r]]
  /\ UNCHANGED <<available, l, matchs>>

\* One matching item of the first loop, read under the item's own lock.
Scan(r, i) ==
  /\ pc[r] = "scan" /\ Least(i, todo[r])
  /\ IF available[i] = 0
       THEN Goto(r, "rejected") /\ UNCHANGED <<matchs, todo>>
       ELSE /\ matchs' = [matchs EXCEPT ![r] = @ \cup {i}]
            /\ todo' = [todo EXCEPT ![r] = @ \ {i}]
            /\ UNCHANGED pc
  /\ UNCHANGED <<available, l>>

ScanEnd(r) ==
  /\ pc[r] = "scan" /\ todo[r] = {}
  /\ Goto(r, IF matchs[r] = {} THEN "passed" ELSE "want")
  /\ UNCHANGED <<available, l, matchs, todo>>

\* t.l.Lock()
Lock(r) ==
  /\ pc[r] = "want" /\ l = Nobody
  /\ l' = r
  /\ Goto(r, "check")
  /\ todo' = [todo EXCEPT ![r] = matchs[r]]
  /\ UNCHANGED <<available, matchs>>

\* Mutant: the second look at the items is left out.
CheckNothing(r, i) ==
  /\ pc[r] = "check" /\ Least(i, todo[r])
  /\ todo' = [todo EXCEPT ![r] = @ \ {i}]
  /\ UNCHANGED <<available, l, pc, matchs>>

\* The second look at an item; t.l is given back if there is no slot.
Check(r, i) ==
  /\ pc[r] = "check" /\ Least(i, todo[r])
  /\ IF available[i] = 0
       THEN Goto(r, "rejected") /\ l' = Nobody /\ UNCHANGED todo
       ELSE todo' = [todo EXCEPT ![r] = @ \ {i}] /\ UNCHANGED <<l, pc>>
  /\ UNCHANGED <<available, matchs>>

CheckEnd(r) ==
  /\ pc[r] = "check" /\ todo[r] = {}
  /\ Goto(r, "take")
  /\ todo' = [todo EXCEPT ![r] = matchs[r]]
  /\ UNCHANGED <<available, l, matchs>>

Take(r, i) ==
  /\ pc[r] = "take" /\ Least(i, todo[r])
  /\ available' = [available EXCEPT ![i] = @ - 1]
  /\ todo' = [todo EXCEPT ![r] = @ \ {i}]
  /\ UNCHANGED <<l, pc, matchs>>

\* t.l.Unlock(); AddCount returns and the goroutine waits for the context.
TakeEnd(r) ==
  /\ pc[r] = "take" /\ todo[r] = {}
  /\ l' = Nobody
  /\ Goto(r, "in")
  /\ UNCHANGED <<available, matchs, todo>>

----------------------------------------------------------------------------
(* The goroutine.                                                          *)

\* <-r.Context().Done()
CtxDone(r) ==
  /\ pc[r] = "in"
  /\ Goto(r, "return")
  /\ UNCHANGED <<available, l, matchs, todo>>

\* The goroutine's t.l.Lock()
ReturnLock(r) ==
  /\ pc[r] = "return" /\ l = Nobody
  /\ l' = r
  /\ Goto(r, "back")
  /\ todo' = [todo EXCEPT ![r] = matchs[r]]
  /\ UNCHANGED <<available, matchs>>

\* Mutant: only the first item gets its slot back.
GiveFirst(r, i) ==
  /\ pc[r] = "back" /\ Least(i, todo[r])
  /\ available' = [available EXCEPT ![i] = @ + 1]
  /\ todo' = [todo EXCEPT ![r] = {}]
  /\ UNCHANGED <<l, pc, matchs>>

Give(r, i) ==
  /\ pc[r] = "back" /\ Least(i, todo[r])
  /\ available' = [available EXCEPT ![i] = @ + 1]
  /\ todo' = [todo EXCEPT ![r] = @ \ {i}]
  /\ UNCHANGED <<l, pc, matchs>>

\* Mutant: the goroutine ends with t.l locked.
GiveEndLocked(r) ==
  /\ pc[r] = "back" /\ todo[r] = {}
  /\ Goto(r, "out")
  /\ UNCHANGED <<available, l, matchs, todo>>

GiveEnd(r) ==
  /\ pc[r] = "back" /\ todo[r] = {}
  /\ l' = Nobody
  /\ Goto(r, "out")
  /\ UNCHANGED <<available, matchs, todo>>

Count(r) ==
  \/ \E i \in Items : Scan(r, i) \/ Check(r, i) \/ Take(r, i)
  \/ ScanEnd(r) \/ Lock(r) \/ CheckEnd(r) \/ TakeEnd(r)

Return(r) == (\E i \in Items : Give(r, i)) \/ ReturnLock(r) \/ GiveEnd(r)

Next == \E r \in Reqs : Begin(r) \/ Count(r) \/ CtxDone(r) \/ Return(r)

Spec == Init /\ [][Next]_vars

----------------------------------------------------------------------------
\* Request r has taken a slot of item i and has not given it back.
Has(r, i) ==
  /\ i \in matchs[r]
  /\ \/ pc[r] \in {"in", "return"}
     \/ pc[r] = "take" /\ i \notin todo[r]
     \/ pc[r] = "back" /\ i \in todo[r]

Holders(i) == {r \in Reqs : Has(r, i)}

TypeOK ==
  /\ available \in [Items -> Nat]
  /\ l \in Reqs \cup {Nobody}
  /\ pc \in [Reqs -> Pcs]
  /\ matchs \in [Reqs -> SUBSET Items]
  /\ todo \in [Reqs -> SUBSET Items]

\* An item never has more requests under way than NewLimitItem allows,
\* although every request reads the items before it has the lock.
NeverOver == \A i \in Items : Cardinality(Holders(i)) <= Max[i]

\* A request that AddCount lets through has a slot of every item it matches.
AllItems == \A r \in Reqs : pc[r] = "in" => \A i \in Matches[r] : Has(r, i)

\* A request is only turned away when every slot of some item it matches is
\* taken: nobody is turned away by a half-done change of another request.
OnlyWhenFull ==
  [][\A r \in Reqs : pc'[r] = "rejected" /\ pc[r] # "rejected" =>
       \E i \in Matches[r] : Cardinality(Holders(i)) = Max[i]]_vars

\* When every context is done all slots are back.
SlotsReturn ==
  <>[](\A r \in Reqs : pc[r] \in {"idle", "passed", "rejected", "out"}) /\ <>[](available = Max)

----------------------------------------------------------------------------
(* The inductive invariant.                                                *)

\* available counts the slots that nobody has.
Slots == \A i \in Items : available[i] = Max[i] - Cardinality(Holders(i))

\* t.l protects everything between the second look and the change.
Locked == \A r \in Reqs : pc[r] \in {"check", "take", "back"} <=> l = r

\* Under t.l an item that was looked at, or is still to be taken, has a slot.
Room ==
  \A r \in Reqs :
    /\ pc[r] = "check" => \A i \in matchs[r] \ todo[r] : available[i] > 0
    /\ pc[r] = "take" => \A i \in todo[r] : available[i] > 0

\* matchs is what the request matches, once the first loop is over.
MatchsAll ==
  \A r \in Reqs :
    /\ matchs[r] \subseteq Matches[r]
    /\ todo[r] \subseteq Matches[r]
    /\ pc[r] = "idle" => matchs[r] = {}
    /\ pc[r] = "scan" => matchs[r] = Matches[r] \ todo[r]
    /\ pc[r] \in {"want", "check", "take", "in", "return", "back"} => matchs[r] = Matches[r]

IInv == TypeOK /\ Slots /\ Locked /\ Room /\ MatchsAll
=============================================================================
