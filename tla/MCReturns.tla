----------------------------- MODULE MCReturns ------------------------------
(***************************************************************************)
(* Do the blocking calls return?  The packages below do not share state,   *)
(* so a behaviour exercises one of them: unit says which, and the others   *)
(* stay as they began.                                                     *)
(***************************************************************************)
EXTENDS Naturals, TLC

CONSTANTS root, sub, a, b, n1, n2, n3, n4, i1, i2, r1, r2, r3, r4, p1, w1, w2, d1, d2,
          t1, t2, int, Head, None, Nil, NoThread, Nobody, Refill

VARIABLES
  unit,
  planC, actualC, stage, cancelled, oncef, call,                       \* Ctx
  child, done, walk, ended,                                            \* Merge
  funcs, disable, someNeedRemove, allNeedRemove, rw, loc, pushes, clears, hist, qpc, \* Queue
  sclosed, swaitCount, sspc, sheld,                                    \* Sig
  closed, waitCount, spc, held, bucket, bucketClosed, rpc, i, tpc, wait_num, ticks,
  granted, calls,                                                      \* Blocking, NoPeriod
  available, l, pc, matchs, todo                                       \* Requests

ctxVars     == <<planC, actualC, stage, cancelled, oncef, call>>
mergeVars   == <<child, done, walk, ended>>
queueVars   == <<funcs, disable, someNeedRemove, allNeedRemove, rw, loc, pushes, clears, hist, qpc>>
signalVars  == <<sclosed, swaitCount, sspc, sheld>>
limitVars   == <<closed, waitCount, spc, held, bucket, bucketClosed, rpc, i, tpc, wait_num,
                 ticks, granted, calls>>
requestVars == <<available, l, pc, matchs, todo>>
vars == <<unit, ctxVars, mergeVars, queueVars, signalVars, limitVars, requestVars>>

\* A scope with two children, one of them a scope with one child; every child
\* is announced and no scope has a timeout.
Ctx == INSTANCE CtxWait WITH
  Scopes <- {root, sub}, Root <- root, Tasks <- {a, b}, Callers <- {d1},
  Under <- (a :> root) @@ (sub :> root) @@ (b :> sub),
  Owner <- (a :> root) @@ (sub :> root) @@ (b :> sub),
  PlanNum <- (root :> 2) @@ (sub :> 1), WithTO <- {}

\* A chain of three contexts with a second branch at its first node.
Merge == INSTANCE MergeCtx WITH
  Nodes <- {n1, n2, n3, n4}, Cancelable <- {n1, n2, n3, n4},
  Before <- (n1 :> Head) @@ (n2 :> n1) @@ (n3 :> n2) @@ (n4 :> n1)

\* Two subscribers, a push, ClearAll once and two goroutines of removeDisable.
Queue == INSTANCE Msgq WITH
  Items <- {i1, i2}, Pushers <- {p1}, Removers <- {r1, r2}, Kinds <- {int},
  Kind <- (i1 :> int) @@ (i2 :> int), AtFront <- {i2}, Nesters <- {},
  MaxPush <- 1, MaxClear <- 1, pc <- qpc

\* Two goroutines wait while two call Done, one of which may panic.
Sig == INSTANCE Signal WITH 
  Waiters <- {w1, w2}, Closers <- {d1, d2},
  closed <- sclosed, waitCount <- swaitCount, spc <- sspc, held <- sheld

\* Callers that block until there is a token or the limit is closed, and
\* callers with a timeout of a limit without a period.
Blocking == INSTANCE Limit WITH
  Waiters <- {Refill}, Closers <- {d1}, TOCallers <- {t1, t2}, maxNum_in_period <- 1,
  Mode <- "block", ZeroPeriod <- FALSE, MaxTicks <- 1, MaxCalls <- 2
NoPeriod == INSTANCE Limit WITH
  Waiters <- {Refill}, Closers <- {d1}, TOCallers <- {t1, t2}, maxNum_in_period <- 1,
  Mode <- "timed", ZeroPeriod <- TRUE, MaxTicks <- 0, MaxCalls <- 2

\* Requests that match no item, the same items, and the item without slots.
Requests == INSTANCE ReqLimits WITH
  Items <- {1, 2, 3}, Reqs <- {r1, r2, r3, r4}, Max <- <<2, 1, 0>>,
  Matches <- (r1 :> {}) @@ (r2 :> {1, 2}) @@ (r3 :> {1, 2}) @@ (r4 :> {1, 3})

ASSUME MergeAssumption == Merge!ChainAssumption

Units == {"ctx", "merge", "queue", "signal", "blocking", "noperiod", "requests"}

Init ==
  /\ unit \in Units
  /\ Ctx!Init /\ Merge!Init /\ Queue!Init /\ Sig!SignalInit /\ Blocking!LimitInit /\ Requests!Init

Next ==
  /\ UNCHANGED unit
  /\ \/ /\ unit = "ctx" /\ Ctx!Next
        /\ UNCHANGED <<mergeVars, queueVars, signalVars, limitVars, requestVars>>
     \/ /\ unit = "merge" /\ Merge!Next
        /\ UNCHANGED <<ctxVars, queueVars, signalVars, limitVars, requestVars>>
     \/ /\ unit = "queue" /\ Queue!Next
        /\ UNCHANGED <<ctxVars, mergeVars, signalVars, limitVars, requestVars>>
     \/ /\ unit = "signal" /\ Sig!SignalNext
        /\ UNCHANGED <<ctxVars, mergeVars, queueVars, limitVars, requestVars>>
     \/ /\ unit = "blocking" /\ Blocking!LimitNext
        /\ UNCHANGED <<ctxVars, mergeVars, queueVars, signalVars, requestVars>>
     \/ /\ unit = "noperiod" /\ NoPeriod!LimitNext
        /\ UNCHANGED <<ctxVars, mergeVars, queueVars, signalVars, requestVars>>
     \/ /\ unit = "requests" /\ Requests!Next
        /\ UNCHANGED <<ctxVars, mergeVars, queueVars, signalVars, limitVars>>

(***************************************************************************)
(* Fairness.  A goroutine that can run does run: weak fairness of its own  *)
(* steps.  Go queues the receivers of a channel, so nobody is passed over  *)
(* for ever: strong fairness of the steps of limit that compete for one.   *)
(* In the other units every call is made a bounded number of times, so a   *)
(* behaviour comes to rest and weak fairness is enough for the mutexes.    *)
(*                                                                         *)
(* ctx: a child that planNum announces does register, a task ends once its *)
(* context is done, and the owner of a nested scope calls done then (the   *)
(* defer done() of the doc comment).  requests: net/http ends the context  *)
(* of every request.  Nobody has to begin any other call.                  *)
(***************************************************************************)
InLimit(A, B) == (unit = "blocking" /\ A) \/ (unit = "noperiod" /\ B)

Fairness ==
  /\ \A n \in Ctx!Children : WF_ctxVars(unit = "ctx" /\ Ctx!ChildStep(n))
  /\ \A t \in {a, b} :
       /\ WF_ctxVars(unit = "ctx" /\ Ctx!CtxDone(t) /\ Ctx!CancelTask(t))
       /\ WF_ctxVars(unit = "ctx" /\ Ctx!FinishTask(t))
  /\ \A s \in {root, sub} : WF_ctxVars(unit = "ctx" /\ Ctx!DoneStep(s, d1))
  /\ WF_ctxVars(unit = "ctx" /\ Ctx!CtxDone(sub) /\ Ctx!DoneEnter(sub, d1, FALSE))
  /\ \A n \in {n1, n2, n3, n4} :
       /\ WF_mergeVars(unit = "merge" /\ Merge!Wake(n))
       /\ WF_mergeVars(unit = "merge" /\ Merge!Walk(n))
  /\ \A t \in Queue!Threads :
       WF_queueVars(unit = "queue" /\ Queue!Step(t))
  /\ \A t \in {w1, w2} : WF_signalVars(unit = "signal" /\ Sig!WaitStep(t))
  /\ \A d \in {d1, d2} :
       WF_signalVars(unit = "signal" /\ (Sig!DoneClose(d) \/ Sig!DoneSpin(d)))
  /\ WF_limitVars(InLimit(Blocking!RefillStep, NoPeriod!RefillStep))
  /\ SF_limitVars(InLimit(Blocking!RefillQuit, NoPeriod!RefillQuit))
  /\ \A t \in {t1, t2} :
       SF_limitVars(InLimit(Blocking!TOStep(t), NoPeriod!TOStep(t)))
  /\ WF_limitVars(
       InLimit(spc[d1] # "idle" /\ Blocking!Close(d1), spc[d1] # "idle" /\ NoPeriod!Close(d1)))
  /\ \A r \in {r1, r2, r3, r4} :
       WF_requestVars(
         unit = "requests" /\ (Requests!Count(r) \/ Requests!CtxDone(r) \/ Requests!Return(r)))

Spec == Init /\ [][Next]_vars /\ Fairness

----------------------------------------------------------------------------

\* MergeCtx: a joined context is cancelled once a context before it is done, and
\* only then.
Downstream == []Merge!OnlyDownstream /\ Merge!Downstream

\* WithWait: every call of done returns once the announced children play their
\* part.
DoneReturns == Ctx!DoneReturns

\* Msgq: every begun push, registration and cancel returns, and every goroutine
\* of removeDisable ends; someNeedRemove does not stay set, so later removals are
\* not lost.
CallsReturn == Queue!CallsReturn /\ Queue!RemovalEnds

\* Signal: every Wait ends after Done, and so does the Done that closed.  Limit: a
\* call of TO that waits returns, with a token of a later period or because of
\* Close, and a Close that closed the signal returns.
LimitReturns == Sig!WaitEnds /\ Blocking!TOReturns /\ Blocking!CloseReturns

\* ReqLimits: when every context is done all slots are back and every AddCount
\* has returned.
SlotsReturn == Requests!SlotsReturn
=============================================================================
