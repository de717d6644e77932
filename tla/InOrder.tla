------------------------------ MODULE InOrder -------------------------------
(***************************************************************************)
(* What BlockSeqFunc (funcCtrl/FuncCtrl.go) promises: the callers run one  *)
(* at a time, in the order in which they came.                             *)
(***************************************************************************)
EXTENDS Naturals

CONSTANT Procs

VARIABLES
  came,    \* how many have come so far
  turn,    \* [Procs -> Nat], the turn each caller took when it came
  st       \* [Procs -> {"out", "waiting", "inside"}]

vars == <<came, turn, st>>

Init ==
  /\ came = 0
  /\ turn = [p \in Procs |-> 0]
  /\ st = [p \in Procs |-> "out"]

Arrive(p) ==
  /\ st[p] = "out"
  /\ came' = came + 1
  /\ turn' = [turn EXCEPT ![p] = came + 1]
  /\ st' = [st EXCEPT ![p] = "waiting"]

\* Everyone who came earlier has left.
Enter(p) ==
  /\ st[p] = "waiting"
  /\ \A q \in Procs \ {p} : st[q] # "out" => turn[q] > turn[p]
  /\ st' = [st EXCEPT ![p] = "inside"]
  /\ UNCHANGED <<came, turn>>

Leave(p) ==
  /\ st[p] = "inside"
  /\ st' = [st EXCEPT ![p] = "out"]
  /\ UNCHANGED <<came, turn>>

Next == \E p \in Procs : Arrive(p) \/ Enter(p) \/ Leave(p)

Spec == Init /\ [][Next]_vars
=============================================================================
