------------------------------- MODULE Limit -------------------------------
(***************************************************************************)
(* limit/Limit.go: a token bucket.  A goroutine puts up to maxNum_in_period *)
(* tokens into the buffered channel bucket once a period and ends when the *)
(* signal cancel is done; TO takes a token or reports that there is none.  *)
(* The goroutine is a waiter of the Signal, Close is its Done.             *)
(***************************************************************************)
EXTENDS Signal

CONSTANTS
  Refill,     \* the goroutine that New starts
  TOCallers,  \* goroutines that call TO
  maxNum_in_period,
  Mode,       \* druation_timeout: "block" (< 0), "none" (= 0), "timed" (> 0)
  ZeroPeriod, \* druation == 0
  MaxTicks,   \* bound: periods that are counted
  MaxCalls    \* bound: calls of TO per caller

ASSUME LimitAssumption ==
  /\ Waiters = {Refill}
  /\ IsFiniteSet(TOCallers)
  /\ maxNum_in_period \in Nat \ {0}
  /\ Mode \in {"block", "none", "timed"}
  /\ ZeroPeriod \in BOOLEAN
  /\ MaxTicks \in Nat /\ MaxCalls \in Nat

VARIABLES
  bucket,        \* tokens in the channel
  bucketClosed,  \* close(object.bucket) was called
  rpc,           \* where the refill goroutine is
  i,             \* its loop variable
  tpc,           \* [TOCallers -> where a call of TO is]
  wait_num,
  ticks,         \* periods begun, as far as they are counted
  granted,       \* tokens taken by TO
  calls          \* [TOCallers -> calls of TO begun]

limitVars == <<bucket, bucketClosed, rpc, i, tpc, wait_num, ticks, granted, calls>>
allLimitVars == <<signalVars, limitVars>>

LimitInit ==
  /\ SignalInit
  /\ bucket = maxNum_in_period
  /\ bucketClosed = FALSE
  /\ rpc = "start"
  /\ i = 0
  /\ tpc = [t \in TOCallers |-> "idle"]
  /\ wait_num = 0
  /\ ticks = 0
  /\ granted = 0
  /\ calls = [t \in TOCallers |-> 0]

----------------------------------------------------------------------------
(* The refill goroutine.                                                   *)

\* ec, fin := object.cancel.WaitC()
RefillWaitC ==
  /\ rpc = "start"
  /\ WaitEnter(Refill) \/ WaitAdd(Refill)
  /\ rpc' = IF spc'[Refill] = "add" THEN "start" ELSE "period"
  /\ UNCHANGED <<bucket, bucketClosed, i, tpc, wait_num, ticks, granted, calls>>

\* The case <-ec of a select: ec is nil if WaitC found the signal done.
ecReady == spc[Refill] = "wait" /\ closed

RefillQuit ==
  /\ rpc \in {"period", "fill"}
  /\ ecReady
  /\ rpc' = "close"
  /\ UNCHANGED <<signalVars, bucket, bucketClosed, i, tpc, wait_num, ticks, granted, calls>>

\* <-time.After(object.druation), then pre_bucket_token_num is stored.
RefillTick ==
  /\ rpc = "period"
  /\ ~ZeroPeriod
  /\ ticks' = IF ticks < MaxTicks THEN ticks + 1 ELSE ticks
  /\ i' = maxNum_in_period
  /\ rpc' = "fill"
  /\ UNCHANGED <<signalVars, bucket, bucketClosed, tpc, wait_num, granted, calls>>

\* Mutant: the loop runs once too often.
RefillPutOneMore ==
  /\ rpc = "fill" /\ i >= 0
  /\ bucket < maxNum_in_period
  /\ bucket' = bucket + 1
  /\ i' = i - 1
  /\ rpc' = IF i' < 0 THEN "period" ELSE "fill"
  /\ UNCHANGED <<signalVars, bucketClosed, tpc, wait_num, ticks, granted, calls>>

\* object.bucket <- struct{}{} in the loop of a period, or for ever without one.
RefillPut ==
  /\ \/ rpc = "fill" /\ i > 0 /\ i' = i - 1
     \/ rpc = "period" /\ ZeroPeriod /\ UNCHANGED i
  /\ bucket < maxNum_in_period
  /\ bucket' = bucket + 1
  /\ rpc' = IF i' = 0 THEN "period" ELSE "fill"
  /\ UNCHANGED <<signalVars, bucketClosed, tpc, wait_num, ticks, granted, calls>>

\* default: the bucket is full.
RefillFull ==
  /\ rpc = "fill"
  /\ bucket = maxNum_in_period
  /\ ~ecReady
  /\ i' = 0
  /\ rpc' = "period"
  /\ UNCHANGED <<signalVars, bucket, bucketClosed, tpc, wait_num, ticks, granted, calls>>

\* Mutant: the bucket is left open.
RefillCloseForgotten ==
  /\ rpc = "close"
  /\ rpc' = "fin"
  /\ WaitRecv(Refill)
  /\ UNCHANGED <<bucket, bucketClosed, i, tpc, wait_num, ticks, granted, calls>>

\* The deferred calls, last first: close(object.bucket), then fin().
RefillClose ==
  /\ rpc = "close"
  /\ bucketClosed' = TRUE
  /\ rpc' = "fin"
  /\ WaitRecv(Refill)
  /\ UNCHANGED <<bucket, i, tpc, wait_num, ticks, granted, calls>>

RefillFin ==
  /\ rpc = "fin"
  /\ Fin(Refill)
  /\ rpc' = "end"
  /\ UNCHANGED <<bucket, bucketClosed, i, tpc, wait_num, ticks, granted, calls>>

RefillStep ==
  \/ RefillWaitC
  \/ RefillQuit
  \/ RefillTick
  \/ RefillPut
  \/ RefillFull
  \/ RefillClose
  \/ RefillFin

----------------------------------------------------------------------------
(* TO.                                                                     *)

\* if !l.IsLive() the call returns false; else it waits for a token.
TOEnter(t) ==
  /\ tpc[t] = "idle"
  /\ calls[t] < MaxCalls
  /\ calls' = [calls EXCEPT ![t] = @ + 1]
  /\ tpc' = [tpc EXCEPT ![t] = IF Islive THEN "wait" ELSE "idle"]
  /\ wait_num' = IF Islive THEN wait_num + 1 ELSE wait_num
  /\ UNCHANGED <<signalVars, bucket, bucketClosed, rpc, i, ticks, granted>>

TOReturn(t) ==
  /\ tpc[t] = "wait"
  /\ tpc' = [tpc EXCEPT ![t] = "idle"]
  /\ wait_num' = wait_num - 1
  /\ UNCHANGED <<signalVars, bucketClosed, rpc, i, ticks, calls>>

\* case <-l.bucket with a token in it.
TOToken(t) ==
  /\ TOReturn(t)
  /\ bucket > 0
  /\ bucket' = bucket - 1
  /\ granted' = granted + 1

\* case <-l.bucket when it is empty and closed.
TOClosed(t) ==
  /\ TOReturn(t)
  /\ bucket = 0 /\ bucketClosed
  /\ UNCHANGED <<bucket, granted>>

\* default, or the timer: the call returns true.
TOLimited(t) ==
  /\ TOReturn(t)
  /\ ~ZeroPeriod /\ Mode # "block"
  /\ Mode = "none" => bucket = 0 /\ ~bucketClosed
  /\ UNCHANGED <<bucket, granted>>

TOStep(t) == TOToken(t) \/ TOClosed(t) \/ TOLimited(t)

\* Close
Close(d) == SDoneStep(d) /\ UNCHANGED limitVars

LimitNext ==
  \/ RefillStep
  \/ \E t \in TOCallers : TOEnter(t) \/ TOStep(t)
  \/ \E d \in Closers : Close(d)

LimitSpec == LimitInit /\ [][LimitNext]_allLimitVars

----------------------------------------------------------------------------
LimitTypeOK ==
  /\ SignalTypeOK
  /\ bucket \in 0..maxNum_in_period
  /\ bucketClosed \in BOOLEAN
  /\ rpc \in {"start", "period", "fill", "close", "fin", "end"}
  /\ i \in 0..maxNum_in_period
  /\ tpc \in [TOCallers -> {"idle", "wait"}]
  /\ wait_num \in Nat
  /\ ticks \in Nat
  /\ granted \in Nat
  /\ calls \in [TOCallers -> Nat]

\* New fills the bucket once and every period adds at most maxNum_in_period
\* tokens, although callers empty the bucket while it is being filled: after
\* k periods no more than (k + 1) * maxNum_in_period calls of TO got a token.
RateBound ==
  ~ZeroPeriod /\ ticks < MaxTicks => granted <= maxNum_in_period * (ticks + 1)

\* When Close has returned the refill goroutine is over and the bucket is
\* closed, unless the goroutine had not yet reached WaitC.
CloseWaits == DoneReturned /\ Refill \in held => bucketClosed /\ rpc = "end"

\* A call of TO that waits for a token returns: with a token of a later
\* period or because Close closed the bucket.
TOReturns == \A t \in TOCallers : tpc[t] = "wait" ~> tpc[t] = "idle"

\* A Close that closed the signal returns.
CloseReturns == \A d \in Closers : spc[d] = "spin" ~> spc[d] = "end"

----------------------------------------------------------------------------
(* The inductive invariant behind RateBound and CloseWaits.                *)

\* Every token that was granted, is in the bucket or is still to come in this
\* period belongs to a period that has begun.
TokenCount ==
  ~ZeroPeriod /\ ticks < MaxTicks =>
    granted + bucket + i <= maxNum_in_period * (ticks + 1)

\* The goroutine's place in its own code and in the signal's agree.
RefillStages ==
  /\ spc[Refill] \in {"idle", "add"} <=> rpc = "start"
  /\ rpc \in {"period", "fill"} => spc[Refill] \in {"wait", "nil"}
  /\ rpc = "close" => spc[Refill] = "wait" /\ closed
  /\ rpc = "fin" <=> spc[Refill] = "fin"
  /\ rpc = "end" <=> spc[Refill] = "end"
  /\ rpc \in {"fin", "end"} => bucketClosed

\* wait_num counts the calls of TO that wait.
WaitNum == wait_num = Cardinality({t \in TOCallers : tpc[t] = "wait"})

LimitIInv == LimitTypeOK /\ SignalIInv /\ TokenCount /\ RefillStages /\ WaitNum
=============================================================================
