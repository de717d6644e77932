------------------------------ MODULE CtxWait ------------------------------
(***************************************************************************)
(* ctx/Ctx.go: WithWait, WaitCtx and the done functions they return.       *)
(*                                                                         *)
(* A scope is one WithWait call, a task one WaitCtx call.  Each scope has  *)
(* two atomic counters: planC, the announced number of children that have  *)
(* not registered yet, and actualC, the children that registered and have  *)
(* not finished.  A child first adds to actualC and then takes one from    *)
(* planC.  done() cancels the scope's context and polls first planC, then  *)
(* actualC.  Every atomic operation of the code is a step of its own.      *)
(***************************************************************************)
EXTENDS Integers, FiniteSets

CONSTANTS
  Scopes,    \* the WithWait calls
  Root,      \* the scope that has no enclosing scope
  Tasks,     \* the WaitCtx calls
  Callers,   \* goroutines that may call a scope's done function
  Under,     \* the context each child was given: a scope's or a task's
  Owner,     \* the *Ctx that Value(ptr) finds in that context
  PlanNum,   \* the planNum argument of each scope
  WithTO     \* the scopes that were given a timeout

Children == Tasks \cup (Scopes \ {Root})

ASSUME ScopesAssumption ==
  /\ Root \in Scopes
  /\ IsFiniteSet(Scopes)
  /\ IsFiniteSet(Tasks)
  /\ Scopes \cap Tasks = {}
  /\ Under \in [Children -> Scopes \cup Tasks]
  /\ Owner \in [Children -> Scopes]
  /\ \A n \in Children :
       Owner[n] = IF Under[n] \in Scopes THEN Under[n] ELSE Owner[Under[n]]
  /\ PlanNum \in [Scopes -> Nat]
  /\ WithTO \subseteq Scopes

VARIABLES
  planC,      \* [Scopes -> Int]
  actualC,    \* [Scopes -> Int]
  stage,      \* how far each child is: registration, life, end
  cancelled,  \* nodes whose own cancel function was called
  oncef,      \* [Scopes -> BOOLEAN], set by the first call of done
  call        \* [Scopes -> [Callers -> record]], the calls of done

vars == <<planC, actualC, stage, cancelled, oncef, call>>

Stages == {"new", "counted", "live", "ending", "finished"}
CallPcs == {"idle", "cancel", "nothing", "plan", "actual", "leave", "back"}
Results == {"none", "nil", "ErrWaitTo", "ErrNothingWait", "ErrDoneCalled"}

Call(pc, first, rul, seen) ==
  [pc |-> pc, first |-> first, rul |-> rul, seen |-> seen]

\* The context of node n is done: n or a node above it was cancelled.
Above[n \in Scopes \cup Tasks] ==
  IF n = Root THEN {Root} ELSE {n} \cup Above[Under[n]]

CtxDone(n) == Above[n] \cap cancelled # {}

ChildrenOf(s) == {n \in Children : Owner[n] = s}
Counted(s)    == {n \in ChildrenOf(s) : stage[n] # "new"}
Registered(s) == {n \in ChildrenOf(s) : stage[n] \in {"live", "ending", "finished"}}
Finished(s)   == {n \in ChildrenOf(s) : stage[n] = "finished"}

\* The context of node n exists: it can be handed to a child or be done.
Exists(n) == n # Root => stage[n] \in {"live", "ending", "finished"}

Init ==
  /\ planC = PlanNum
  /\ actualC = [s \in Scopes |-> 0]
  /\ stage = [n \in Children |-> "new"]
  /\ cancelled = {}
  /\ oncef = [s \in Scopes |-> FALSE]
  /\ call = [s \in Scopes |-> [c \in Callers |-> Call("idle", FALSE, "none", {})]]

----------------------------------------------------------------------------
(* Registration, the same in WaitCtx and in a nested WithWait.             *)

\* Mutant: planC is taken from before actualC is added to.
CountChildPlanFirst(n) ==
  /\ stage[n] = "new"
  /\ Exists(Under[n])
  /\ planC' = [planC EXCEPT ![Owner[n]] = @ - 1]
  /\ stage' = [stage EXCEPT ![n] = "counted"]
  /\ UNCHANGED <<actualC, cancelled, oncef, call>>

\* ctxp.actualC.Add(1)
CountChild(n) ==
  /\ stage[n] = "new"
  /\ Exists(Under[n])
  /\ actualC' = [actualC EXCEPT ![Owner[n]] = @ + 1]
  /\ stage' = [stage EXCEPT ![n] = "counted"]
  /\ UNCHANGED <<planC, cancelled, oncef, call>>

\* ctxp.planC.Add(-1)
RegisterChild(n) ==
  /\ stage[n] = "counted"
  /\ planC' = [planC EXCEPT ![Owner[n]] = @ - 1]
  /\ stage' = [stage EXCEPT ![n] = "live"]
  /\ UNCHANGED <<actualC, cancelled, oncef, call>>

\* The done function of WaitCtx (a sync.OnceFunc), called whenever the task
\* likes: done1() cancels the task's own context.
CancelTask(t) ==
  /\ stage[t] = "live"
  /\ cancelled' = cancelled \cup {t}
  /\ stage' = [stage EXCEPT ![t] = "ending"]
  /\ UNCHANGED <<planC, actualC, oncef, call>>

\* ... and ctxp.actualC.Add(-1)
FinishTask(t) ==
  /\ stage[t] = "ending"
  /\ actualC' = [actualC EXCEPT ![Owner[t]] = @ - 1]
  /\ stage' = [stage EXCEPT ![t] = "finished"]
  /\ UNCHANGED <<planC, cancelled, oncef, call>>

----------------------------------------------------------------------------
(* The done function of WithWait.                                          *)

SetCall(s, c, r) == call' = [call EXCEPT ![s][c] = r]

\* oncef.CompareAndSwap; a call without wait after the first one returns.
DoneEnter(s, c, wait) ==
  LET first == ~oncef[s]
  IN  /\ call[s][c].pc = "idle"
      /\ Exists(s)
      /\ oncef' = [oncef EXCEPT ![s] = TRUE]
      /\ SetCall(s, c, IF first \/ wait
                         THEN Call("cancel", first, "none", Registered(s))
                         ELSE Call("back", FALSE, "ErrDoneCalled", {}))
      /\ UNCHANGED <<planC, actualC, stage, cancelled>>

\* Mutant: done waits without cancelling the context.
DoneCancelForgotten(s, c) ==
  /\ call[s][c].pc = "cancel"
  /\ SetCall(s, c, [call[s][c] EXCEPT !.pc = "nothing"])
  /\ UNCHANGED <<planC, actualC, stage, cancelled, oncef>>

\* doneWait()
DoneCancel(s, c) ==
  /\ call[s][c].pc = "cancel"
  /\ cancelled' = cancelled \cup {s}
  /\ SetCall(s, c, [call[s][c] EXCEPT !.pc = "nothing"])
  /\ UNCHANGED <<planC, actualC, stage, oncef>>

\* planNum == 0 && ctx.planC.Load() == 0
DoneNothing(s, c) ==
  /\ call[s][c].pc = "nothing"
  /\ SetCall(s, c, IF PlanNum[s] = 0 /\ planC[s] = 0
                     THEN [call[s][c] EXCEPT !.pc = "leave", !.rul = "ErrNothingWait"]
                     ELSE [call[s][c] EXCEPT !.pc = "plan"])
  /\ UNCHANGED <<planC, actualC, stage, cancelled, oncef>>

\* The loop on planC ends; while it does not, the poll is a stuttering step.
DonePlan(s, c) ==
  /\ call[s][c].pc = "plan"
  /\ planC[s] <= 0
  /\ SetCall(s, c, [call[s][c] EXCEPT !.pc = "actual"])
  /\ UNCHANGED <<planC, actualC, stage, cancelled, oncef>>

\* Mutant: the loop on actualC is left out.
DoneActualUnchecked(s, c) ==
  /\ call[s][c].pc = "actual"
  /\ SetCall(s, c, [call[s][c] EXCEPT !.pc = "leave", !.rul = "nil"])
  /\ UNCHANGED <<planC, actualC, stage, cancelled, oncef>>

\* The loop on actualC ends and the last look at the clock is in time.
DoneActual(s, c) ==
  /\ call[s][c].pc = "actual"
  /\ actualC[s] <= 0
  /\ SetCall(s, c, [call[s][c] EXCEPT !.pc = "leave", !.rul = "nil"])
  /\ UNCHANGED <<planC, actualC, stage, cancelled, oncef>>

\* time.Since(be) > to[0], in either loop or at the end.
DoneTimeout(s, c) ==
  /\ s \in WithTO
  /\ call[s][c].pc \in {"plan", "actual"}
  /\ SetCall(s, c, [call[s][c] EXCEPT !.pc = "leave", !.rul = "ErrWaitTo"])
  /\ UNCHANGED <<planC, actualC, stage, cancelled, oncef>>

\* Mutant: a call that ran into the timeout leaves the scope counted.
DoneLeaveNotOnTimeout(s, c) ==
  LET ends == call[s][c].first /\ s # Root
      adds == ends /\ call[s][c].rul # "ErrWaitTo"
  IN  /\ call[s][c].pc = "leave"
      /\ actualC' = IF adds THEN [actualC EXCEPT ![Owner[s]] = @ - 1] ELSE actualC
      /\ stage' = IF ends THEN [stage EXCEPT ![s] = "finished"] ELSE stage
      /\ SetCall(s, c, [call[s][c] EXCEPT !.pc = "back"])
      /\ UNCHANGED <<planC, cancelled, oncef>>

\* The deferred ctxp.actualC.Add(-1) of the first call in a nested scope;
\* then done returns.
DoneLeave(s, c) ==
  LET ends == call[s][c].first /\ s # Root
  IN  /\ call[s][c].pc = "leave"
      /\ actualC' = IF ends THEN [actualC EXCEPT ![Owner[s]] = @ - 1] ELSE actualC
      /\ stage' = IF ends THEN [stage EXCEPT ![s] = "finished"] ELSE stage
      /\ SetCall(s, c, [call[s][c] EXCEPT !.pc = "back"])
      /\ UNCHANGED <<planC, cancelled, oncef>>

ChildStep(n) == CountChild(n) \/ RegisterChild(n)

TaskStep(t) == CancelTask(t) \/ FinishTask(t)

DoneStep(s, c) ==
  \/ DoneCancel(s, c)
  \/ DoneNothing(s, c)
  \/ DonePlan(s, c)
  \/ DoneActual(s, c)
  \/ DoneTimeout(s, c)
  \/ DoneLeave(s, c)

Next ==
  \/ \E n \in Children : ChildStep(n)
  \/ \E t \in Tasks : TaskStep(t)
  \/ \E s \in Scopes, c \in Callers : DoneStep(s, c) \/ \E w \in BOOLEAN : DoneEnter(s, c, w)

Spec == Init /\ [][Next]_vars

----------------------------------------------------------------------------
\* The types; actualC is never negative although every end of a child takes
\* one off without looking.
TypeOK ==
  /\ planC \in [Scopes -> Int]
  /\ actualC \in [Scopes -> Nat]
  /\ stage \in [Children -> Stages]
  /\ cancelled \subseteq Scopes \cup Tasks
  /\ oncef \in [Scopes -> BOOLEAN]
  /\ call \in [Scopes -> [Callers -> [pc    : CallPcs,
                                      first : BOOLEAN,
                                      rul   : Results,
                                      seen  : SUBSET Children]]]

\* When a done call of WithWait returns nil, at least planNum children have
\* registered and finished (one if planNum is 0), however the children's two
\* counter updates interleave with the two polling loops.
NilMeansPlanFinished ==
  \A s \in Scopes, c \in Callers :
    call[s][c].rul = "nil" =>
      Cardinality(Finished(s)) >= IF PlanNum[s] = 0 THEN 1 ELSE PlanNum[s]

\* Every child whose WaitCtx or WithWait had returned when done was called has
\* finished when that call of done returns nil.
NilMeansSeenFinished ==
  \A s \in Scopes, c \in Callers :
    call[s][c].rul = "nil" => call[s][c].seen \subseteq Finished(s)

\* actualC is exactly the number of children that entered and did not finish:
\* no call of done, first or repeated, takes a child off twice.
ActualCounts ==
  \A s \in Scopes : actualC[s] = Cardinality(Counted(s) \ Finished(s))

\* A caller that gets ErrNothingWait from a scope without a plan made its call
\* before any child had completed its registration.
NothingMeansNone ==
  \A s \in Scopes, c \in Callers :
    call[s][c].rul = "ErrNothingWait" => call[s][c].seen = {}

----------------------------------------------------------------------------
(* The inductive invariant behind the safety properties.                   *)

Need(s) == IF PlanNum[s] = 0 THEN 1 ELSE PlanNum[s]

\* planC counts the registrations that are still missing.
PlanCounts ==
  \A s \in Scopes : planC[s] = PlanNum[s] - Cardinality(Registered(s))

\* A call that got past the loop on planC (or, in a scope without a plan,
\* past the test for an empty scope) saw enough registrations.
CallWaits ==
  \A s \in Scopes, c \in Callers :
    /\ call[s][c].seen \subseteq Registered(s)
    /\ call[s][c].pc = "actual" => Cardinality(Registered(s)) >= Need(s)
    /\ call[s][c].pc = "plan" /\ PlanNum[s] = 0 => Cardinality(Registered(s)) >= 1

\* One call per scope is the first, and a nested scope ends in that call only.
FirstEnds ==
  \A s \in Scopes, c \in Callers :
    call[s][c].first =>
      /\ oncef[s]
      /\ \A d \in Callers : call[s][d].first => d = c
      /\ s # Root /\ call[s][c].pc # "back" => stage[s] = "live"

ScopeStages ==
  \A s \in Scopes \ {Root} :
    /\ stage[s] # "ending"
    /\ stage[s] = "finished" => oncef[s]

IInv ==
  /\ TypeOK
  /\ PlanCounts
  /\ ActualCounts
  /\ CallWaits
  /\ FirstEnds
  /\ ScopeStages
  /\ NilMeansPlanFinished
  /\ NilMeansSeenFinished
  /\ NothingMeansNone

\* Every call of done returns.
DoneReturns ==
  \A s \in Scopes, c \in Callers :
    call[s][c].pc = "cancel" ~> call[s][c].pc = "back"
=============================================================================
