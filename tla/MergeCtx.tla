----------------------------- MODULE MergeCtx ------------------------------
(***************************************************************************)
(* ctx/Ctx.go: Mctx.MergeCtx, contexts joined into a chain.  Every joined  *)
(* context has a goroutine that waits for the context before it or for its *)
(* own, and then walks down the chain from its own node, calling every     *)
(* cancel function it was given.                                           *)
(***************************************************************************)
EXTENDS Naturals

CONSTANTS
  Nodes,     \* the joined contexts
  Head,      \* the Mctx of NewMergeCtx: context.Background, never done
  None,
  Before,    \* [Nodes -> Nodes \cup {Head}], the Mctx that MergeCtx is called on
  Cancelable \* the nodes whose MergeCtx call was given a cancel function

ChainAssumption ==
  /\ Head \notin Nodes
  /\ None \notin Nodes \cup {Head}
  /\ Before \in [Nodes -> Nodes \cup {Head}]
  /\ Cancelable \subseteq Nodes

VARIABLES
  child,   \* [Nodes \cup {Head} -> Nodes \cup {None}], the field child
  done,    \* the nodes whose context is done
  walk,    \* the goroutine of each node: where in the chain it is
  ended    \* the nodes whose context ended by itself (timeout or caller)

vars == <<child, done, walk, ended>>

Init ==
  /\ child = [n \in Nodes \cup {Head} |-> None]
  /\ done = {}
  /\ walk = [n \in Nodes |-> [pc |-> "none", at |-> n]]
  /\ ended = {}

\* MergeCtx: the child pointer of the Mctx it is called on is overwritten,
\* and the goroutine starts.
Merge(n) ==
  /\ walk[n].pc = "none"
  /\ Before[n] # Head => walk[Before[n]].pc # "none"
  /\ child' = [child EXCEPT ![Before[n]] = n]
  /\ walk' = [walk EXCEPT ![n] = [pc |-> "wait", at |-> n]]
  /\ UNCHANGED <<done, ended>>

\* Mutant: the goroutine waits for its own context only.
WakeOwnOnly(n) ==
  /\ walk[n].pc = "wait"
  /\ n \in done
  /\ walk' = [walk EXCEPT ![n].pc = "walk"]
  /\ UNCHANGED <<child, done, ended>>

\* The select: the context before, or the node's own, is done.
Wake(n) ==
  /\ walk[n].pc = "wait"
  /\ {Before[n], n} \cap done # {}
  /\ walk' = [walk EXCEPT ![n].pc = "walk"]
  /\ UNCHANGED <<child, done, ended>>

\* One turn of the loop: read child and cancle, cancel, go to the child.
Walk(n) ==
  LET tmp == walk[n].at
  IN  /\ walk[n].pc = "walk"
      /\ done' = IF tmp \in Cancelable THEN done \cup {tmp} ELSE done
      /\ walk' = [walk EXCEPT ![n] = IF child[tmp] # None
                                       THEN [pc |-> "walk", at |-> child[tmp]]
                                       ELSE [pc |-> "end", at |-> tmp]]
      /\ UNCHANGED <<child, ended>>

\* The context of n ends by itself: its caller cancels it or it times out.
End(n) ==
  /\ n \notin done
  /\ done' = done \cup {n}
  /\ ended' = ended \cup {n}
  /\ UNCHANGED <<child, walk>>

Next == \E n \in Nodes : Merge(n) \/ Wake(n) \/ Walk(n) \/ End(n)

Spec == Init /\ [][Next]_vars

----------------------------------------------------------------------------
TypeOK ==
  /\ child \in [Nodes \cup {Head} -> Nodes \cup {None}]
  /\ done \subseteq Nodes
  /\ walk \in [Nodes -> [pc : {"none", "wait", "walk", "end"}, at : Nodes]]
  /\ ended \subseteq Nodes

Up[n \in Nodes \cup {Head}] == IF n = Head THEN {} ELSE {n} \cup Up[Before[n]]

\* A joined context is only done because it, or one before it in the chain,
\* ended: the walk of MergeCtx never goes up the chain or into a branch beside.
OnlyDownstream == \A n \in done : Up[n] \cap ended # {}

\* A joined context that has a cancel function is cancelled once a context
\* before it is done.
Downstream ==
  \A n \in Cancelable : \A m \in Up[n] :
    (m \in done /\ walk[n].pc # "none") ~> n \in done
=============================================================================
