------------------------------- MODULE BlockN -------------------------------
(***************************************************************************)
(* funcCtrl/FuncCtrl.go: BlockFuncN.  The channel n holds one entry per    *)
(* Block; BlockAll fills it entry by entry, and its unBlock empties it     *)
(* entry by entry.  An entry has no owner: a receive takes any.            *)
(***************************************************************************)
EXTENDS Naturals

CONSTANTS
  Ones,   \* goroutines that call Block
  Alls,   \* goroutines that call BlockAll
  max     \* cap(t.n)

BlockNAssumption == Ones \cap Alls = {} /\ max \in Nat \ {0}

Callers == Ones \cup Alls

VARIABLES
  n,      \* entries in the channel
  pc,     \* [Callers -> {"out", "filling", "inside", "emptying"}]
  todo    \* [Callers -> Nat], the entries that a call still has to send or take

vars == <<n, pc, todo>>

Init ==
  /\ n = 0
  /\ pc = [p \in Callers |-> "out"]
  /\ todo = [p \in Callers |-> 0]

Size(p) == IF p \in Alls THEN max ELSE 1

\* Mutant: BlockAll leaves one entry free.
CallLessOne(p) ==
  /\ pc[p] = "out"
  /\ pc' = [pc EXCEPT ![p] = "filling"]
  /\ todo' = [todo EXCEPT ![p] = IF p \in Alls /\ max > 1 THEN max - 1 ELSE 1]
  /\ UNCHANGED n

\* Block or BlockAll is called.
Call(p) ==
  /\ pc[p] = "out"
  /\ pc' = [pc EXCEPT ![p] = "filling"]
  /\ todo' = [todo EXCEPT ![p] = Size(p)]
  /\ UNCHANGED n

\* t.n <- struct{}{}
Send(p) ==
  /\ pc[p] = "filling"
  /\ n < max
  /\ n' = n + 1
  /\ todo' = [todo EXCEPT ![p] = @ - 1]
  /\ pc' = [pc EXCEPT ![p] = IF todo[p] = 1 THEN "inside" ELSE "filling"]

\* Mutant: unBlock takes one entry whatever was sent.
UnBlockOne(p) ==
  /\ pc[p] = "inside"
  /\ pc' = [pc EXCEPT ![p] = "emptying"]
  /\ todo' = [todo EXCEPT ![p] = 1]
  /\ UNCHANGED n

\* unBlock is called.
UnBlock(p) ==
  /\ pc[p] = "inside"
  /\ pc' = [pc EXCEPT ![p] = "emptying"]
  /\ todo' = [todo EXCEPT ![p] = Size(p)]
  /\ UNCHANGED n

\* <-t.n
Recv(p) ==
  /\ pc[p] = "emptying"
  /\ n > 0
  /\ n' = n - 1
  /\ todo' = [todo EXCEPT ![p] = @ - 1]
  /\ pc' = [pc EXCEPT ![p] = IF todo[p] = 1 THEN "out" ELSE "emptying"]

Next == \E p \in Callers : Call(p) \/ Send(p) \/ UnBlock(p) \/ Recv(p)

Spec == Init /\ [][Next]_vars

(* Whoever is inside leaves.  The senders of a channel queue, so none is   *)
(* passed over for ever.                                                   *)
Fairness ==
  \A p \in Callers : SF_vars(Send(p)) /\ WF_vars(UnBlock(p)) /\ WF_vars(Recv(p))

----------------------------------------------------------------------------
TypeOK ==
  /\ n \in 0..max
  /\ pc \in [Callers -> {"out", "filling", "inside", "emptying"}]
  /\ todo \in [Callers -> 0..max]

\* Between BlockAll and its unBlock nobody else is inside, although BlockAll
\* takes the channel's places one by one among other callers.
AllAlone ==
  \A p \in Alls, q \in Callers : pc[p] = "inside" /\ pc[q] = "inside" => p = q

\* Whoever calls Block or BlockAll gets in, if one goroutine uses BlockAll.
EveryoneEnters == \A p \in Callers : pc[p] = "filling" ~> pc[p] = "inside"

\* unBlock returns.
UnBlockReturns == \A p \in Callers : pc[p] = "emptying" ~> pc[p] = "out"
=============================================================================
