------------------------------ MODULE BlockSeq ------------------------------
(***************************************************************************)
(* funcCtrl/FuncCtrl.go: BlockSeqFunc.  Every caller swaps a new channel   *)
(* into l and waits until the channel it took out is closed; its done      *)
(* closes its own.  Channels are numbered in the order in which they are   *)
(* swapped in; channel 0 is the closed one of NewBlockSeqFunc.             *)
(***************************************************************************)
EXTENDS Naturals

CONSTANTS
  Procs,     \* goroutines that call Block or BlockCtx, again and again
  CtxUsers,  \* those that call BlockCtx with a context that may end
  MaxSwaps   \* bound: calls in all

ASSUME BlockSeqAssumption == CtxUsers \subseteq Procs /\ MaxSwaps \in Nat

VARIABLES
  l,         \* the channel in the atomic pointer
  closedCh,  \* the closed channels
  prev,      \* [Procs -> Nat], the channel a caller took out
  n,         \* [Procs -> Nat], the channel it put in
  pc         \* [Procs -> {"out", "waiting", "inside"}]

vars == <<l, closedCh, prev, n, pc>>

\* NewBlockSeqFunc
Init ==
  /\ l = 0
  /\ closedCh = {0}
  /\ prev = [p \in Procs |-> 0]
  /\ n = [p \in Procs |-> 0]
  /\ pc = [p \in Procs |-> "out"]

\* Mutant: the pointer is read and then stored, and another caller swapped in
\* between: this one waits for the channel of the caller before that.
SwapStale(p) ==
  /\ pc[p] = "out"
  /\ l < MaxSwaps
  /\ prev' = [prev EXCEPT ![p] = IF l = 0 THEN 0 ELSE l - 1]
  /\ n' = [n EXCEPT ![p] = l + 1]
  /\ l' = l + 1
  /\ pc' = [pc EXCEPT ![p] = "waiting"]
  /\ UNCHANGED closedCh

\* t.l.Swap(&n), in BlockCtx too: a select evaluates its channels first.
Swap(p) ==
  /\ pc[p] = "out"
  /\ l < MaxSwaps
  /\ prev' = [prev EXCEPT ![p] = l]
  /\ n' = [n EXCEPT ![p] = l + 1]
  /\ l' = l + 1
  /\ pc' = [pc EXCEPT ![p] = "waiting"]
  /\ UNCHANGED closedCh

\* The receive from the channel that was taken out.
Recv(p) ==
  /\ pc[p] = "waiting"
  /\ prev[p] \in closedCh
  /\ pc' = [pc EXCEPT ![p] = "inside"]
  /\ UNCHANGED <<l, closedCh, prev, n>>

\* done: close(n)
Done(p) ==
  /\ pc[p] = "inside"
  /\ closedCh' = closedCh \cup {n[p]}
  /\ pc' = [pc EXCEPT ![p] = "out"]
  /\ UNCHANGED <<l, prev, n>>

\* Mutant: a caller that gives up does not close its channel.
GiveUpOpen(p) ==
  /\ p \in CtxUsers
  /\ pc[p] = "waiting"
  /\ pc' = [pc EXCEPT ![p] = "out"]
  /\ UNCHANGED <<l, closedCh, prev, n>>

\* case <-ctx.Done() of BlockCtx: close(n), and done does nothing.
GiveUp(p) ==
  /\ p \in CtxUsers
  /\ pc[p] = "waiting"
  /\ closedCh' = closedCh \cup {n[p]}
  /\ pc' = [pc EXCEPT ![p] = "out"]
  /\ UNCHANGED <<l, prev, n>>

Next == \E p \in Procs : Swap(p) \/ Recv(p) \/ Done(p) \/ GiveUp(p)

Spec == Init /\ [][Next]_vars

\* A caller that is inside calls done, and the scheduler runs the others.
Fairness == \A p \in Procs : WF_vars(Recv(p)) /\ WF_vars(Done(p))

----------------------------------------------------------------------------
TypeOK ==
  /\ l \in Nat
  /\ closedCh \subseteq 0..l
  /\ prev \in [Procs -> Nat]
  /\ n \in [Procs -> Nat]
  /\ pc \in [Procs -> {"out", "waiting", "inside"}]

\* Callers run one at a time and in the order of their Swap.
Order == INSTANCE InOrder WITH came <- l, turn <- n, st <- pc

OrderSpec == Order!Spec

\* Two callers of Block are never between Block and done at the same time.
Exclusive == \A p, q \in Procs : pc[p] = "inside" /\ pc[q] = "inside" => p = q

\* Everyone who waits gets in or gives up: a caller of BlockCtx that gives up
\* does not leave those behind it waiting for ever.
WaitingEnds == \A p \in Procs : pc[p] = "waiting" ~> pc[p] # "waiting"

\* Everyone who waits gets in when nobody gives up.
WaitingEnters == \A p \in Procs : pc[p] = "waiting" ~> pc[p] = "inside"

----------------------------------------------------------------------------
(* The inductive invariant: the closed channels are the first ones, and    *)
(* the open ones belong to the callers that have not left.                 *)

Prefix == \A k \in closedCh : \A j \in 0..k : j \in closedCh

Open == \A p \in Procs : pc[p] # "out" => n[p] \notin closedCh /\ n[p] \in 1..l /\ prev[p] = n[p] - 1

Own == \A p, q \in Procs : pc[p] # "out" /\ pc[q] # "out" /\ n[p] = n[q] => p = q

InsideFirst == \A p \in Procs : pc[p] = "inside" => prev[p] \in closedCh

IInv == TypeOK /\ Prefix /\ Open /\ Own /\ InsideFirst
=============================================================================
