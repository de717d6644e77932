---------------------------- MODULE Limit_proofs ----------------------------
(***************************************************************************)
(* Limit for every bucket size, number of callers of TO and number of      *)
(* goroutines that call Close, and Signal for any sets of waiters and of   *)
(* goroutines that call Done.  What Signal promises holds of Limit: every  *)
(* step of Limit is a step of its signal or leaves the signal alone.       *)
(***************************************************************************)
EXTENDS Limit, FiniteSetTheorems, TLAPS

\* waitCount is the size of a finite set, so that it is a number.
LEMMA CountedFinite == IsFiniteSet(SCounted) /\ Cardinality(SCounted) \in Nat
<1>1. SCounted \in SUBSET Waiters
  BY DEF SCounted
<1>2. IsFiniteSet(SCounted)
  BY <1>1, SignalAssumption, FS_Subset
<1> QED
  BY <1>2, FS_CardinalityType

\* SignalInit: nobody is counted and the channel is open.
LEMMA SignalInitIInv == SignalInit => SignalIInv
<1> SUFFICES ASSUME SignalInit
             PROVE  SignalIInv
  OBVIOUS
<1> USE DEF SignalInit
<1>1. SCounted = {}
  BY DEF SCounted
<1>2. CountExact
  BY <1>1, FS_EmptySet DEF CountExact, DoneReturned
<1>3. SignalTypeOK
  BY DEF SignalTypeOK, SignalPcs
<1>4. OneSpin /\ HeldPast /\ DoneWaits
  BY DEF OneSpin, HeldPast, DoneWaits, DoneReturned
<1> QED
  BY <1>2, <1>3, <1>4 DEF SignalIInv

\* A step of a waiter, Add(1) and Add(-1) included, keeps the count exact.
LEMMA WaitStepIInv ==
  ASSUME SignalIInv, NEW t \in Waiters, WaitStep(t)
  PROVE  SignalIInv'
<1> USE DEF SignalIInv, SignalTypeOK, SGoto
<1>0. t \notin Closers /\ t \in DOMAIN spc
  BY SignalAssumption
<1>1. DoneReturned' = DoneReturned
  BY <1>0 DEF WaitStep, WaitEnter, WaitAdd, WaitRecv, Fin, DoneReturned
<1>2. OneSpin'
  BY <1>0 DEF WaitStep, WaitEnter, WaitAdd, WaitRecv, Fin, OneSpin
<1>3. HeldPast'
  BY <1>0 DEF WaitStep, WaitEnter, WaitAdd, WaitRecv, Fin, HeldPast
<1>4. spc' \in [Waiters \cup Closers -> SignalPcs] /\ held' \subseteq Waiters /\ closed' \in BOOLEAN
  BY <1>0 DEF WaitStep, WaitEnter, WaitAdd, WaitRecv, Fin, SignalPcs
<1>5. CASE WaitEnter(t) \/ WaitRecv(t)
  <2>1. SCounted' = SCounted
    BY <1>0, <1>5 DEF WaitEnter, WaitRecv, SCounted
  <2>2. waitCount' = waitCount /\ held' = held
    BY <1>5 DEF WaitEnter, WaitRecv
  <2> QED
    BY <1>1, <1>2, <1>3, <1>4, <2>1, <2>2 DEF CountExact, DoneWaits
<1>6. CASE WaitAdd(t)
  <2>1. t \notin SCounted /\ SCounted' = SCounted \cup {t}
    BY <1>0, <1>6 DEF WaitAdd, SCounted
  <2>2. Cardinality(SCounted') = Cardinality(SCounted) + 1
    BY <2>1, CountedFinite, FS_AddElement
  <2>3. CountExact' /\ waitCount' \in Nat
    BY <1>1, <1>6, <2>2, CountedFinite DEF WaitAdd, CountExact
  <2>4. t \notin held
    BY <1>6 DEF WaitAdd, HeldPast
  <2>5. DoneWaits'
    BY <1>1, <1>6, <2>1, <2>4 DEF WaitAdd, DoneWaits
  <2> QED
    BY <1>2, <1>3, <1>4, <2>3, <2>5
<1>7. CASE Fin(t)
  <2>1. t \in SCounted /\ SCounted' = SCounted \ {t}
    BY <1>0, <1>7 DEF Fin, SCounted
  <2>2. Cardinality(SCounted') = Cardinality(SCounted) - 1
    BY <2>1, CountedFinite, FS_RemoveElement
  <2>3. Cardinality(SCounted) # 0
    BY <2>1, CountedFinite, FS_EmptySet
  <2>4. CountExact' /\ waitCount' \in Nat \cup {-1}
    BY <1>1, <1>7, <2>2, <2>3, CountedFinite DEF Fin, CountExact
  <2>5. DoneWaits'
    BY <1>1, <1>7, <2>1 DEF Fin, DoneWaits
  <2> QED
    BY <1>2, <1>3, <1>4, <2>4, <2>5
<1> QED
  BY <1>5, <1>6, <1>7 DEF WaitStep

\* A step of Done keeps it exact, the CompareAndSwap(0, -1) included.
LEMMA DoneStepIInv ==
  ASSUME SignalIInv, NEW d \in Closers, SDoneStep(d)
  PROVE  SignalIInv'
<1> USE DEF SignalIInv, SignalTypeOK, SGoto
<1>0. d \notin Waiters /\ d \in DOMAIN spc
  BY SignalAssumption
<1>1. SCounted' = SCounted
  BY <1>0 DEF SDoneStep, SDoneEnter, DoneClose, DoneSpin, SCounted
<1>2. spc' \in [Waiters \cup Closers -> SignalPcs]
  BY <1>0 DEF SDoneStep, SDoneEnter, DoneClose, DoneSpin, SignalPcs
<1>3. CASE SDoneEnter(d)
  <2>1. DoneReturned' = DoneReturned
    BY <1>0, <1>3 DEF SDoneEnter, DoneReturned
  <2>2. OneSpin'
    BY <1>0, <1>3 DEF SDoneEnter, OneSpin
  <2>3. HeldPast'
    BY <1>0, <1>3 DEF SDoneEnter, HeldPast
  <2> QED
    BY <1>1, <1>2, <1>3, <2>1, <2>2, <2>3 DEF SDoneEnter, CountExact, DoneWaits
<1>4. CASE DoneClose(d) /\ ~closed
  <2>1. ~DoneReturned /\ ~DoneReturned'
    BY <1>0, <1>4 DEF DoneClose, DoneReturned
  <2>2. OneSpin'
    BY <1>0, <1>4 DEF DoneClose, OneSpin
  <2>3. HeldPast'
    BY <1>0, <1>4 DEF DoneClose, HeldPast, SCounted
  <2>4. held' \subseteq Waiters /\ closed' \in BOOLEAN
    BY <1>4 DEF DoneClose, SCounted
  <2> QED
    BY <1>1, <1>2, <1>4, <2>1, <2>2, <2>3, <2>4 DEF DoneClose, CountExact, DoneWaits
<1>5. CASE DoneClose(d) /\ closed
  <2>1. DoneReturned' = DoneReturned
    BY <1>0, <1>5 DEF DoneClose, DoneReturned
  <2>2. OneSpin'
    BY <1>0, <1>5 DEF DoneClose, OneSpin
  <2>3. HeldPast'
    BY <1>0, <1>5 DEF DoneClose, HeldPast
  <2> QED
    BY <1>1, <1>2, <1>5, <2>1, <2>2, <2>3 DEF DoneClose, CountExact, DoneWaits
<1>6. CASE DoneSpin(d)
  <2>1. ~DoneReturned /\ DoneReturned'
    BY <1>0, <1>6 DEF DoneSpin, DoneReturned, OneSpin
  <2>2. Cardinality(SCounted) = 0
    BY <1>6, <2>1, CountedFinite DEF DoneSpin, CountExact
  <2>3. SCounted = {}
    BY <2>2, CountedFinite, FS_EmptySet
  <2>4. CountExact'
    BY <1>1, <1>6, <2>1, <2>2 DEF DoneSpin, CountExact
  <2>5. DoneWaits'
    BY <1>1, <2>3 DEF DoneWaits
  <2>6. OneSpin'
    BY <1>0, <1>6 DEF DoneSpin, OneSpin
  <2>7. HeldPast'
    BY <1>0, <1>6 DEF DoneSpin, HeldPast
  <2> QED
    BY <1>2, <1>6, <2>4, <2>5, <2>6, <2>7 DEF DoneSpin
<1> QED
  BY <1>3, <1>4, <1>5, <1>6 DEF SDoneStep

\* The invariant holds whatever the waiters and the closers do.
LEMMA SignalNextIInv ==
  ASSUME SignalIInv, [SignalNext]_signalVars
  PROVE  SignalIInv'
<1>1. CASE UNCHANGED signalVars
  BY <1>1 DEF signalVars, SignalIInv, SignalTypeOK, OneSpin, HeldPast, CountExact,
     DoneWaits, DoneReturned, SCounted
<1> QED
  BY <1>1, WaitStepIInv, DoneStepIInv DEF SignalNext

\* The inductive invariant of the signal.
THEOREM SignalCorrect == SignalSafety => []SignalIInv
BY SignalInitIInv, SignalNextIInv, PTL DEF SignalSafety

\* waitCount never loses or gains a waiter, however Wait, WaitC and several
\* calls of Done overlap.
THEOREM CountCorrect == SignalSafety => []CountExact
<1>1. SignalIInv => CountExact
  BY DEF SignalIInv
<1> QED
  BY SignalCorrect, <1>1, PTL

\* Done returns only when the waiters that it found have called fin.
THEOREM DoneWaitsCorrect == SignalSafety => []DoneWaits
<1>1. SignalIInv => DoneWaits
  BY DEF SignalIInv
<1> QED
  BY SignalCorrect, <1>1, PTL
----------------------------------------------------------------------------

\* The calls of TO that wait for a token.
Waiting == {t \in TOCallers : tpc[t] = "wait"}

\* wait_num is the size of a finite set, so that it is a number.
LEMMA WaitingFinite == IsFiniteSet(Waiting) /\ Cardinality(Waiting) \in Nat
<1>1. Waiting \in SUBSET TOCallers
  BY DEF Waiting
<1>2. IsFiniteSet(Waiting)
  BY <1>1, LimitAssumption, FS_Subset
<1> QED
  BY <1>2, FS_CardinalityType

\* The refill goroutine is a waiter of the signal and Close is its Done.
LEMMA StepOfSignal ==
  ASSUME [LimitNext]_allLimitVars
  PROVE  [SignalNext]_signalVars
<1>1. Refill \in Waiters
  BY LimitAssumption
<1>2. CASE RefillStep
  BY <1>1, <1>2 DEF RefillStep, RefillWaitC, RefillQuit, RefillTick, RefillPut,
     RefillFull, RefillClose, RefillFin, SignalNext, WaitStep, signalVars
<1>3. ASSUME NEW t \in TOCallers, TOEnter(t) \/ TOStep(t)
      PROVE  UNCHANGED signalVars
  BY <1>3 DEF TOEnter, TOStep, TOToken, TOClosed, TOLimited, TOReturn
<1>4. ASSUME NEW d \in Closers, Close(d)
      PROVE  SignalNext
  BY <1>4 DEF Close, SignalNext
<1>5. CASE UNCHANGED allLimitVars
  BY <1>5 DEF allLimitVars
<1> QED
  BY <1>2, <1>3, <1>4, <1>5 DEF LimitNext

\* One more period is worth one more bucket.
LEMMA OneMorePeriod ==
  ASSUME NEW m \in Nat, NEW k \in Nat
  PROVE  /\ m * (k + 1) \in Nat
         /\ m * ((k + 1) + 1) = m * (k + 1) + m
OBVIOUS

\* New: the bucket is full and nothing has been granted.
LEMMA InitKeeps == LimitInit => LimitIInv
<1> SUFFICES ASSUME LimitInit
             PROVE  LimitIInv
  OBVIOUS
<1>1. SignalIInv
  BY SignalInitIInv DEF LimitInit
<1>2. LimitTypeOK
  <2>1. SignalTypeOK
    BY <1>1 DEF SignalIInv
  <2>2. bucket \in 0..maxNum_in_period /\ i \in 0..maxNum_in_period
    BY LimitAssumption DEF LimitInit
  <2>3. tpc \in [TOCallers -> {"idle", "wait"}] /\ calls \in [TOCallers -> Nat]
    BY DEF LimitInit
  <2>4. wait_num \in Nat /\ ticks \in Nat /\ granted \in Nat
    BY DEF LimitInit
  <2> QED
    BY <2>1, <2>2, <2>3, <2>4 DEF LimitInit, LimitTypeOK
<1>3. TokenCount
  BY LimitAssumption DEF LimitInit, TokenCount
<1>4. RefillStages
  BY LimitAssumption DEF LimitInit, SignalInit, RefillStages
<1>5. WaitNum
  <2>1. {t \in TOCallers : tpc[t] = "wait"} = {}
    BY DEF LimitInit
  <2> QED
    BY <2>1, FS_EmptySet DEF LimitInit, WaitNum
<1> QED
  BY <1>1, <1>2, <1>3, <1>4, <1>5 DEF LimitIInv

\* A step of the goroutine: no token is put in that is not of this period.
LEMMA RefillKeeps ==
  ASSUME LimitIInv, RefillStep
  PROVE  /\ TokenCount' /\ RefillStages' /\ WaitNum'
         /\ SignalTypeOK' => LimitTypeOK'
<1> USE LimitAssumption DEF LimitIInv, LimitTypeOK
<1>0. Refill \in DOMAIN spc
  BY DEF SignalTypeOK
<1>1. WaitNum' /\ UNCHANGED <<tpc, wait_num, granted, calls>>
  BY DEF RefillStep, RefillWaitC, RefillQuit, RefillTick, RefillPut, RefillFull,
     RefillClose, RefillFin, WaitNum
<1>2. CASE RefillWaitC
  <2>1. TokenCount'
    BY <1>2 DEF RefillWaitC, TokenCount
  <2>2. RefillStages'
    BY <1>0, <1>2 DEF RefillWaitC, WaitEnter, WaitAdd, SGoto, RefillStages
  <2> QED
    BY <1>1, <1>2, <2>1, <2>2 DEF RefillWaitC
<1>3. CASE RefillQuit
  <2>1. RefillStages'
    BY <1>3 DEF RefillQuit, ecReady, RefillStages, signalVars
  <2> QED
    BY <1>1, <1>3, <2>1 DEF RefillQuit, TokenCount
<1>4. CASE RefillTick
  <2>1. TokenCount'
    <3>1. CASE ~ZeroPeriod /\ ticks' < MaxTicks
      <4>1. ticks < MaxTicks /\ ticks' = ticks + 1
        BY <1>4, <3>1 DEF RefillTick
      <4>2. granted + bucket + i <= maxNum_in_period * (ticks + 1)
        BY <3>1, <4>1 DEF TokenCount
      <4>3. granted + bucket <= maxNum_in_period * (ticks + 1)
        BY <4>2, OneMorePeriod
      <4>4. granted' + bucket' + i' = granted + bucket + maxNum_in_period
        BY <1>4 DEF RefillTick
      <4>5. maxNum_in_period * (ticks' + 1) = maxNum_in_period * (ticks + 1) + maxNum_in_period
        BY <4>1, OneMorePeriod
      <4> QED
        BY <4>3, <4>4, <4>5, OneMorePeriod DEF TokenCount
    <3> QED
      BY <3>1 DEF TokenCount
  <2>2. RefillStages'
    BY <1>4 DEF RefillTick, RefillStages, signalVars
  <2> QED
    BY <1>1, <1>4, <2>1, <2>2 DEF RefillTick
<1>5. CASE RefillPut
  <2>1. TokenCount'
    BY <1>5, OneMorePeriod DEF RefillPut, TokenCount
  <2>2. RefillStages'
    BY <1>5 DEF RefillPut, RefillStages, signalVars
  <2> QED
    BY <1>1, <1>5, <2>1, <2>2 DEF RefillPut
<1>6. CASE RefillFull
  <2>1. TokenCount'
    BY <1>6, OneMorePeriod DEF RefillFull, TokenCount
  <2>2. RefillStages'
    BY <1>6 DEF RefillFull, RefillStages, signalVars
  <2> QED
    BY <1>1, <1>6, <2>1, <2>2 DEF RefillFull
<1>7. CASE RefillClose
  <2>1. RefillStages'
    BY <1>0, <1>7 DEF RefillClose, WaitRecv, SGoto, RefillStages
  <2> QED
    BY <1>1, <1>7, <2>1 DEF RefillClose, TokenCount
<1>8. CASE RefillFin
  <2>1. RefillStages'
    BY <1>0, <1>8 DEF RefillFin, Fin, SGoto, RefillStages
  <2> QED
    BY <1>1, <1>8, <2>1 DEF RefillFin, TokenCount
<1> QED
  BY <1>2, <1>3, <1>4, <1>5, <1>6, <1>7, <1>8 DEF RefillStep

\* A step of TO: a token that is granted leaves the bucket.
LEMMA TOKeeps ==
  ASSUME LimitIInv, NEW t \in TOCallers, TOEnter(t) \/ TOStep(t)
  PROVE  /\ TokenCount' /\ RefillStages' /\ WaitNum'
         /\ SignalTypeOK' => LimitTypeOK'
<1> USE LimitAssumption DEF LimitIInv, LimitTypeOK
<1>1. RefillStages'
  BY DEF TOEnter, TOStep, TOToken, TOClosed, TOLimited, TOReturn, RefillStages, signalVars
<1>2. wait_num = Cardinality(Waiting)
  BY DEF WaitNum, Waiting
<1>3. CASE TOEnter(t) /\ ~Islive
  <2>1. Waiting' = Waiting
    BY <1>3 DEF TOEnter, Waiting
  <2>2. WaitNum'
    BY <1>2, <1>3, <2>1 DEF TOEnter, WaitNum, Waiting
  <2>3. TokenCount' /\ (SignalTypeOK' => LimitTypeOK')
    BY <1>3 DEF TOEnter, TokenCount
  <2> QED
    BY <1>1, <2>2, <2>3
<1>4. CASE TOEnter(t) /\ Islive
  <2>1. Waiting' = Waiting \cup {t} /\ t \notin Waiting
    BY <1>4 DEF TOEnter, Waiting
  <2>2. Cardinality(Waiting') = Cardinality(Waiting) + 1
    BY <2>1, WaitingFinite, FS_AddElement
  <2>3. WaitNum'
    BY <1>2, <1>4, <2>2 DEF TOEnter, WaitNum, Waiting
  <2>4. TokenCount' /\ (SignalTypeOK' => LimitTypeOK')
    BY <1>4 DEF TOEnter, TokenCount
  <2> QED
    BY <1>1, <2>3, <2>4
<1>5. CASE TOStep(t)
  <2>0. TOReturn(t)
    BY <1>5 DEF TOStep, TOToken, TOClosed, TOLimited
  <2>1. Waiting' = Waiting \ {t} /\ t \in Waiting
    BY <2>0 DEF TOReturn, Waiting
  <2>2. Cardinality(Waiting') = Cardinality(Waiting) - 1
    BY <2>1, WaitingFinite, FS_RemoveElement
  <2>3. WaitNum'
    BY <1>2, <2>0, <2>2 DEF TOReturn, WaitNum, Waiting
  <2>4. wait_num' \in Nat
    <3>1. Cardinality(Waiting) # 0
      BY <2>1, WaitingFinite, FS_EmptySet
    <3> QED
      BY <1>2, <2>0, <3>1, WaitingFinite DEF TOReturn
  <2>5. /\ granted' + bucket' = granted + bucket
        /\ granted' \in Nat /\ bucket' \in 0..maxNum_in_period
    BY <1>5 DEF TOStep, TOToken, TOClosed, TOLimited
  <2>6. UNCHANGED <<bucketClosed, rpc, i, ticks, calls>> /\ tpc' \in [TOCallers -> {"idle", "wait"}]
    BY <2>0 DEF TOReturn
  <2>7. TokenCount'
    BY <2>5, <2>6, OneMorePeriod DEF TokenCount
  <2> QED
    BY <1>1, <2>3, <2>4, <2>5, <2>6, <2>7
<1> QED
  BY <1>3, <1>4, <1>5

\* A step of Close moves the signal only.
LEMMA CloseKeeps ==
  ASSUME LimitIInv, NEW d \in Closers, Close(d)
  PROVE  /\ TokenCount' /\ RefillStages' /\ WaitNum'
         /\ SignalTypeOK' => LimitTypeOK'
<1>1. d # Refill
  BY LimitAssumption, SignalAssumption
<1>2. spc'[Refill] = spc[Refill] /\ (closed => closed')
  BY <1>1, LimitAssumption DEF Close, SDoneStep, SDoneEnter, DoneClose, DoneSpin, SGoto,
     LimitIInv, SignalIInv, SignalTypeOK
<1>3. RefillStages'
  BY <1>2 DEF Close, limitVars, LimitIInv, RefillStages
<1> QED
  BY <1>3 DEF Close, limitVars, LimitIInv, LimitTypeOK, TokenCount, WaitNum

\* LimitIInv is inductive.
LEMMA NextKeeps ==
  ASSUME LimitIInv, [LimitNext]_allLimitVars
  PROVE  LimitIInv'
<1>1. SignalIInv'
  BY StepOfSignal, SignalNextIInv DEF LimitIInv
<1>2. SignalTypeOK'
  BY <1>1 DEF SignalIInv
<1>3. CASE UNCHANGED allLimitVars
  BY <1>1, <1>2, <1>3 DEF allLimitVars, limitVars, signalVars, LimitIInv, LimitTypeOK, TokenCount,
     RefillStages, WaitNum
<1>4. CASE LimitNext
  <2>1. TokenCount' /\ RefillStages' /\ WaitNum' /\ LimitTypeOK'
    BY <1>2, <1>4, RefillKeeps, TOKeeps, CloseKeeps DEF LimitNext
  <2> QED
    BY <1>1, <2>1 DEF LimitIInv
<1> QED
  BY <1>3, <1>4

\* The inductive invariant holds throughout.
THEOREM LimitIInvCorrect == LimitSpec => []LimitIInv
BY InitKeeps, NextKeeps, PTL DEF LimitSpec

\* Limit implements the signal it is built on.
THEOREM LimitIsSignal == LimitSpec => SignalSafety
<1>1. LimitInit => SignalInit
  BY DEF LimitInit
<1> QED
  BY <1>1, StepOfSignal, PTL DEF LimitSpec, SignalSafety

\* After k periods TO has let through at most (k + 1) * maxNum_in_period
\* calls, for every bucket size and every number of callers.
THEOREM RateCorrect == LimitSpec => []RateBound
<1>1. LimitIInv => RateBound
  BY LimitAssumption, OneMorePeriod DEF LimitIInv, LimitTypeOK, TokenCount, RateBound
<1> QED
  BY LimitIInvCorrect, <1>1, PTL

\* When Close returns the goroutine that had reached WaitC is over.
THEOREM CloseCorrect == LimitSpec => []CloseWaits
<1>1. LimitIInv => CloseWaits
  <2> SUFFICES ASSUME LimitIInv, DoneReturned, Refill \in held
               PROVE  bucketClosed /\ rpc = "end"
    BY DEF CloseWaits
  <2>1. spc[Refill] \in {"wait", "fin", "end"}
    BY DEF LimitIInv, SignalIInv, HeldPast
  <2>2. Refill \notin SCounted
    BY DEF LimitIInv, SignalIInv, DoneWaits
  <2>3. spc[Refill] = "end"
    BY <2>1, <2>2, LimitAssumption DEF SCounted
  <2> QED
    BY <2>3 DEF LimitIInv, RefillStages
<1> QED
  BY LimitIInvCorrect, <1>1, PTL
=============================================================================
