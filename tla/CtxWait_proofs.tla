-------------------------- MODULE CtxWait_proofs ---------------------------
(***************************************************************************)
(* Proofs about CtxWait for every tree of scopes and tasks, every plan and *)
(* any set of callers: the counters count, and a done call that returns    *)
(* nil has waited for what it promises to wait for.                        *)
(***************************************************************************)
EXTENDS CtxWait, FiniteSetTheorems, TLAPS

LEMMA ChildrenFinite ==
  /\ IsFiniteSet(Children)
  /\ \A s \in Scopes : IsFiniteSet(ChildrenOf(s))
<1>1. IsFiniteSet(Scopes \ {Root})
  BY FS_RemoveElement, ScopesAssumption
<1>2. IsFiniteSet(Children)
  BY <1>1, FS_Union, ScopesAssumption DEF Children
<1>3. ASSUME NEW s \in Scopes PROVE IsFiniteSet(ChildrenOf(s))
  BY <1>2, FS_Subset DEF ChildrenOf
<1> QED BY <1>2, <1>3

(* The sets the counters stand for are finite, and ordered by inclusion. *)
LEMMA StageSets ==
  ASSUME NEW s \in Scopes
  PROVE  /\ IsFiniteSet(Counted(s)) /\ Cardinality(Counted(s)) \in Nat
         /\ IsFiniteSet(Registered(s)) /\ Cardinality(Registered(s)) \in Nat
         /\ IsFiniteSet(Finished(s)) /\ Cardinality(Finished(s)) \in Nat
         /\ IsFiniteSet(Counted(s) \ Finished(s))
         /\ Cardinality(Counted(s) \ Finished(s)) \in Nat
<1> DEFINE C == ChildrenOf(s)
<1>0. IsFiniteSet(C)
  BY ChildrenFinite
<1>1. /\ Counted(s) \in SUBSET C /\ Registered(s) \in SUBSET C
      /\ Finished(s) \in SUBSET C /\ (Counted(s) \ Finished(s)) \in SUBSET C
  BY DEF Counted, Registered, Finished
<1>2. ASSUME NEW T \in SUBSET C PROVE IsFiniteSet(T) /\ Cardinality(T) \in Nat
  BY <1>0, FS_Subset, FS_CardinalityType
<1> HIDE DEF C
<1> QED BY <1>1, <1>2

(* What one change of a child's stage does to the cardinalities. *)
LEMMA StageChange ==
  ASSUME TypeOK, NEW n \in Children, NEW st \in Stages,
         stage' = [stage EXCEPT ![n] = st]
  PROVE  \A s \in Scopes :
           /\ Owner[n] # s => /\ Counted(s)' = Counted(s)
                              /\ Registered(s)' = Registered(s)
                              /\ Finished(s)' = Finished(s)
           /\ Owner[n] = s =>
                /\ Counted(s)' = IF st = "new" THEN Counted(s) \ {n} ELSE Counted(s) \cup {n}
                /\ Registered(s)' = IF st \in {"live", "ending", "finished"}
                                      THEN Registered(s) \cup {n} ELSE Registered(s) \ {n}
                /\ Finished(s)' = IF st = "finished" THEN Finished(s) \cup {n}
                                                     ELSE Finished(s) \ {n}
BY DEF TypeOK, Counted, Registered, Finished, ChildrenOf, Stages

LEMMA InitIInv == Init => IInv
<1> SUFFICES ASSUME Init PROVE IInv
  OBVIOUS
<1> USE DEF Init
<1>1. TypeOK
  BY ScopesAssumption DEF TypeOK, Call, CallPcs, Results, Stages
<1>2. ASSUME NEW s \in Scopes
      PROVE Counted(s) = {} /\ Registered(s) = {} /\ Finished(s) = {}
  BY DEF Counted, Registered, Finished, ChildrenOf
<1>3. ASSUME NEW s \in Scopes
      PROVE /\ Cardinality(Registered(s)) = 0
            /\ Cardinality(Counted(s) \ Finished(s)) = 0
  <2>1. Counted(s) \ Finished(s) = {}
    BY <1>2
  <2> QED BY <1>2, <2>1, FS_EmptySet
<1>6. PlanCounts /\ ActualCounts
  <2>1. ASSUME NEW s \in Scopes
        PROVE  planC[s] = PlanNum[s] - Cardinality(Registered(s))
    <3>1. planC[s] = PlanNum[s] /\ PlanNum[s] \in Nat
      BY ScopesAssumption
    <3>2. Cardinality(Registered(s)) = 0
      BY <1>3
    <3> HIDE DEF Init
    <3> QED BY <3>1, <3>2
  <2>2. ASSUME NEW s \in Scopes
        PROVE  actualC[s] = Cardinality(Counted(s) \ Finished(s))
    BY <1>3
  <2> QED BY <2>1, <2>2 DEF PlanCounts, ActualCounts
<1>4. CallWaits /\ FirstEnds /\ NilMeansPlanFinished /\ NilMeansSeenFinished /\ NothingMeansNone
  BY DEF CallWaits, FirstEnds, NilMeansPlanFinished, NilMeansSeenFinished, NothingMeansNone, Call
<1>5. ScopeStages
  BY DEF ScopeStages, Children
<1> QED BY <1>1, <1>4, <1>5, <1>6 DEF IInv

(* The cardinalities, kept opaque where only arithmetic matters. *)
NA(s) == Cardinality(Counted(s) \ Finished(s))
NR(s) == Cardinality(Registered(s))
NF(s) == Cardinality(Finished(s))

(* A child moves one stage forward. *)
Forward(from, to) ==
  <<from, to>> \in {<<"new", "counted">>, <<"counted", "live">>, <<"live", "ending">>,
                    <<"live", "finished">>, <<"ending", "finished">>}

LEMMA CardTypes ==
  ASSUME NEW s \in Scopes
  PROVE  NA(s) \in Nat /\ NR(s) \in Nat /\ NF(s) \in Nat
BY StageSets DEF NA, NR, NF

LEMMA CardTypesNext ==
  ASSUME NEW s \in Scopes
  PROVE  NA(s)' \in Nat /\ NR(s)' \in Nat /\ NF(s)' \in Nat
<1>1. ASSUME NEW T \in SUBSET ChildrenOf(s) PROVE Cardinality(T) \in Nat
  BY ChildrenFinite, FS_Subset, FS_CardinalityType
<1>2. /\ (Counted(s) \ Finished(s))' \in SUBSET ChildrenOf(s)
      /\ Registered(s)' \in SUBSET ChildrenOf(s)
      /\ Finished(s)' \in SUBSET ChildrenOf(s)
  BY DEF Counted, Registered, Finished, ChildrenOf
<1> QED BY <1>1, <1>2 DEF NA, NR, NF

LEMMA StageCards ==
  ASSUME TypeOK, NEW n \in Children, NEW st \in Stages, NEW s \in Scopes,
         stage' = [stage EXCEPT ![n] = st], Forward(stage[n], st)
  PROVE  /\ Registered(s) \subseteq Registered(s)'
         /\ Finished(s) \subseteq Finished(s)'
         /\ NA(s)' = NA(s) + (IF Owner[n] = s /\ stage[n] = "new" THEN 1
                              ELSE IF Owner[n] = s /\ st = "finished" THEN 0 - 1 ELSE 0)
         /\ NR(s)' = NR(s) + (IF Owner[n] = s /\ stage[n] = "counted" THEN 1 ELSE 0)
         /\ NF(s)' = NF(s) + (IF Owner[n] = s /\ st = "finished" THEN 1 ELSE 0)
<1> DEFINE A == Counted(s) \ Finished(s)
           R == Registered(s)
           F == Finished(s)
<1>1. IsFiniteSet(A) /\ IsFiniteSet(R) /\ IsFiniteSet(F)
  BY StageSets
<1>2. NA(s) \in Nat /\ NR(s) \in Nat /\ NF(s) \in Nat
  BY CardTypes
<1>3. /\ A' = IF Owner[n] = s /\ stage[n] = "new" THEN A \cup {n}
              ELSE IF Owner[n] = s /\ st = "finished" THEN A \ {n} ELSE A
      /\ Owner[n] = s /\ stage[n] = "new" => n \notin A
      /\ Owner[n] = s /\ st = "finished" => n \in A
  BY DEF Counted, Finished, ChildrenOf, TypeOK, Forward
<1>4. /\ R' = IF Owner[n] = s /\ stage[n] = "counted" THEN R \cup {n} ELSE R
      /\ stage[n] = "counted" => n \notin R
  BY DEF Registered, ChildrenOf, TypeOK, Forward
<1>5. /\ F' = IF Owner[n] = s /\ st = "finished" THEN F \cup {n} ELSE F
      /\ st = "finished" => n \notin F
  BY DEF Finished, ChildrenOf, TypeOK, Forward
<1>6. NA(s)' = Cardinality(A') /\ NR(s)' = Cardinality(R') /\ NF(s)' = Cardinality(F')
      /\ NA(s) = Cardinality(A) /\ NR(s) = Cardinality(R) /\ NF(s) = Cardinality(F)
  BY DEF NA, NR, NF
<1>7. R \subseteq R' /\ F \subseteq F'
  BY <1>4, <1>5
<1> HIDE DEF A, R, F
<1>8. /\ Cardinality(A \cup {n}) = IF n \in A THEN Cardinality(A) ELSE Cardinality(A) + 1
      /\ Cardinality(A \ {n}) = IF n \in A THEN Cardinality(A) - 1 ELSE Cardinality(A)
      /\ Cardinality(R \cup {n}) = IF n \in R THEN Cardinality(R) ELSE Cardinality(R) + 1
      /\ Cardinality(F \cup {n}) = IF n \in F THEN Cardinality(F) ELSE Cardinality(F) + 1
  BY <1>1, FS_AddElement, FS_RemoveElement
<1>9. Cardinality(A') = Cardinality(A) +
         (IF Owner[n] = s /\ stage[n] = "new" THEN 1
          ELSE IF Owner[n] = s /\ st = "finished" THEN 0 - 1 ELSE 0)
  <2>1. CASE Owner[n] = s /\ stage[n] = "new"
    BY <2>1, <1>2, <1>3, <1>6, <1>8
  <2>2. CASE ~(Owner[n] = s /\ stage[n] = "new") /\ (Owner[n] = s /\ st = "finished")
    BY <2>2, <1>2, <1>3, <1>6, <1>8
  <2>3. CASE ~(Owner[n] = s /\ stage[n] = "new") /\ ~(Owner[n] = s /\ st = "finished")
    <3>1. A' = A BY <2>3, <1>3
    <3>2. Cardinality(A') = Cardinality(A) BY <3>1
    <3> QED BY <3>2, <2>3, <1>2, <1>6
  <2> QED BY <2>1, <2>2, <2>3
<1>10. Cardinality(R') = Cardinality(R) + (IF Owner[n] = s /\ stage[n] = "counted" THEN 1 ELSE 0)
  <2>1. CASE Owner[n] = s /\ stage[n] = "counted"
    BY <2>1, <1>2, <1>4, <1>6, <1>8
  <2>2. CASE ~(Owner[n] = s /\ stage[n] = "counted")
    <3>1. R' = R BY <2>2, <1>4
    <3>2. Cardinality(R') = Cardinality(R) BY <3>1
    <3> QED BY <3>2, <2>2, <1>2, <1>6
  <2> QED BY <2>1, <2>2
<1>11. Cardinality(F') = Cardinality(F) + (IF Owner[n] = s /\ st = "finished" THEN 1 ELSE 0)
  <2>1. CASE Owner[n] = s /\ st = "finished"
    BY <2>1, <1>2, <1>5, <1>6, <1>8
  <2>2. CASE ~(Owner[n] = s /\ st = "finished")
    <3>1. F' = F BY <2>2, <1>5
    <3>2. Cardinality(F') = Cardinality(F) BY <3>1
    <3> QED BY <3>2, <2>2, <1>2, <1>6
  <2> QED BY <2>1, <2>2
<1>12. Registered(s) \subseteq Registered(s)' /\ Finished(s) \subseteq Finished(s)'
  BY <1>7 DEF R, F
<1>13. /\ NA(s)' = NA(s) + (IF Owner[n] = s /\ stage[n] = "new" THEN 1
                              ELSE IF Owner[n] = s /\ st = "finished" THEN 0 - 1 ELSE 0)
       /\ NR(s)' = NR(s) + (IF Owner[n] = s /\ stage[n] = "counted" THEN 1 ELSE 0)
       /\ NF(s)' = NF(s) + (IF Owner[n] = s /\ st = "finished" THEN 1 ELSE 0)
  BY <1>6, <1>9, <1>10, <1>11
<1> QED BY <1>12, <1>13

(* The invariant with the cardinalities named. *)
LEMMA Opaque ==
  /\ PlanCounts <=> \A s \in Scopes : planC[s] = PlanNum[s] - NR(s)
  /\ ActualCounts <=> \A s \in Scopes : actualC[s] = NA(s)
  /\ CallWaits <=> \A s \in Scopes, c \in Callers :
       /\ call[s][c].seen \subseteq Registered(s)
       /\ call[s][c].pc = "actual" => NR(s) >= Need(s)
       /\ call[s][c].pc = "plan" /\ PlanNum[s] = 0 => NR(s) >= 1
  /\ NilMeansPlanFinished <=> \A s \in Scopes, c \in Callers :
       call[s][c].rul = "nil" => NF(s) >= Need(s)
BY DEF PlanCounts, ActualCounts, CallWaits, NilMeansPlanFinished, NR, NA, NF, Need

LEMMA NeedType == \A s \in Scopes : Need(s) \in Nat /\ PlanNum[s] \in Nat
BY ScopesAssumption DEF Need

(* A child's own steps: one stage forward, and the owner's counter with it. *)
LEMMA ChildStepIInv ==
  ASSUME IInv, NEW n \in Children, NEW st \in Stages,
         stage' = [stage EXCEPT ![n] = st],
         UNCHANGED <<oncef, call>>,
         cancelled' \subseteq Scopes \cup Tasks,
         n \in Tasks \/ st \in {"counted", "live"},
         \/ /\ stage[n] = "new" /\ st = "counted" /\ UNCHANGED planC
            /\ actualC' = [actualC EXCEPT ![Owner[n]] = @ + 1]
         \/ /\ stage[n] = "counted" /\ st = "live" /\ UNCHANGED actualC
            /\ planC' = [planC EXCEPT ![Owner[n]] = @ - 1]
         \/ /\ stage[n] = "live" /\ st = "ending" /\ UNCHANGED <<planC, actualC>>
         \/ /\ stage[n] = "ending" /\ st = "finished" /\ UNCHANGED planC
            /\ actualC' = [actualC EXCEPT ![Owner[n]] = @ - 1]
  PROVE  IInv'
<1>0. /\ TypeOK /\ PlanCounts /\ ActualCounts /\ CallWaits /\ FirstEnds /\ ScopeStages
      /\ NilMeansPlanFinished /\ NilMeansSeenFinished /\ NothingMeansNone
  BY DEF IInv
<1>1. Owner[n] \in Scopes
  BY ScopesAssumption
<1>2. Forward(stage[n], st)
  BY DEF Forward
<1>3. ASSUME NEW s \in Scopes
      PROVE  /\ planC'[s] = PlanNum[s] - NR(s)'
             /\ actualC'[s] = NA(s)'
             /\ actualC'[s] \in Nat
             /\ NR(s)' \in Nat /\ NF(s)' \in Nat
             /\ NR(s)' >= NR(s) /\ NF(s)' >= NF(s)
             /\ Registered(s) \subseteq Registered(s)'
             /\ Finished(s) \subseteq Finished(s)'
  <2>1. /\ Registered(s) \subseteq Registered(s)'
        /\ Finished(s) \subseteq Finished(s)'
        /\ NA(s)' = NA(s) + (IF Owner[n] = s /\ stage[n] = "new" THEN 1
                              ELSE IF Owner[n] = s /\ st = "finished" THEN 0 - 1 ELSE 0)
        /\ NR(s)' = NR(s) + (IF Owner[n] = s /\ stage[n] = "counted" THEN 1 ELSE 0)
        /\ NF(s)' = NF(s) + (IF Owner[n] = s /\ st = "finished" THEN 1 ELSE 0)
    BY <1>0, <1>2, StageCards
  <2>2. planC[s] = PlanNum[s] - NR(s) /\ actualC[s] = NA(s)
    BY <1>0, Opaque
  <2>3. NA(s) \in Nat /\ NR(s) \in Nat /\ NF(s) \in Nat /\ PlanNum[s] \in Nat
    BY CardTypes, NeedType
  <2>4. NA(s)' \in Nat
    BY CardTypesNext
  <2> QED BY <2>1, <2>2, <2>3, <2>4, <1>0, <1>1 DEF TypeOK
<1>4. TypeOK'
  BY <1>0, <1>1, <1>3 DEF TypeOK
<1>5. PlanCounts' /\ ActualCounts'
  BY <1>3, Zenon DEF PlanCounts, ActualCounts, NR, NA
<1>6. CallWaits' /\ NilMeansPlanFinished'
  <2> SUFFICES ASSUME NEW s \in Scopes, NEW c \in Callers
      PROVE /\ call[s][c].seen \subseteq Registered(s)'
            /\ call[s][c].pc = "actual" => NR(s)' >= Need(s)
            /\ call[s][c].pc = "plan" /\ PlanNum[s] = 0 => NR(s)' >= 1
            /\ call[s][c].rul = "nil" => NF(s)' >= Need(s)
    BY Zenon DEF CallWaits, NilMeansPlanFinished, NR, NF, Need
  <2>1. /\ call[s][c].seen \subseteq Registered(s)
        /\ call[s][c].pc = "actual" => NR(s) >= Need(s)
        /\ call[s][c].pc = "plan" /\ PlanNum[s] = 0 => NR(s) >= 1
        /\ call[s][c].rul = "nil" => NF(s) >= Need(s)
    BY <1>0, Opaque
  <2> QED BY <1>3, <2>1, CardTypes, NeedType
<1>7. FirstEnds' /\ ScopeStages'
  BY <1>0, ScopesAssumption DEF FirstEnds, ScopeStages, TypeOK, Children
<1>8. NilMeansSeenFinished' /\ NothingMeansNone'
  BY <1>0, <1>3 DEF NilMeansSeenFinished, NothingMeansNone
<1> QED BY <1>4, <1>5, <1>6, <1>7, <1>8 DEF IInv

(* A step of a done call that leaves the children and the counters alone. *)
LEMMA CallStepIInv ==
  ASSUME IInv, NEW s \in Scopes, NEW c \in Callers,
         UNCHANGED <<planC, actualC, stage>>,
         cancelled' \subseteq Scopes \cup Tasks,
         \E w \in BOOLEAN : DoneEnter(s, c, w) \/ DoneCancel(s, c) \/ DoneNothing(s, c)
           \/ DonePlan(s, c) \/ DoneActual(s, c) \/ DoneTimeout(s, c)
  PROVE  IInv'
<1>0. /\ TypeOK /\ PlanCounts /\ ActualCounts /\ CallWaits /\ FirstEnds /\ ScopeStages
      /\ NilMeansPlanFinished /\ NilMeansSeenFinished /\ NothingMeansNone
  BY DEF IInv
<1> DEFINE r == call'[s][c]
           q == call[s][c]
<1>1. \A x \in Scopes : /\ Registered(x)' = Registered(x) /\ Finished(x)' = Finished(x)
                        /\ Counted(x)' = Counted(x)
  BY DEF Registered, Finished, Counted
<1>2. \A x \in Scopes : /\ Cardinality(Registered(x))' = NR(x)
                        /\ Cardinality(Finished(x))' = NF(x)
                        /\ Cardinality(Counted(x) \ Finished(x))' = NA(x)
  BY <1>1, Zenon DEF NR, NF, NA
<1>3. PlanCounts' /\ ActualCounts'
  BY <1>0, <1>2, Opaque DEF PlanCounts, ActualCounts
<1>4. PICK w \in BOOLEAN : DoneEnter(s, c, w) \/ DoneCancel(s, c) \/ DoneNothing(s, c)
           \/ DonePlan(s, c) \/ DoneActual(s, c) \/ DoneTimeout(s, c)
  OBVIOUS
<1> DEFINE Rec == [pc : CallPcs, first : BOOLEAN, rul : Results, seen : SUBSET Children]
<1>5. call \in [Scopes -> [Callers -> Rec]] /\ q \in Rec
  BY <1>0 DEF TypeOK
<1>51. Registered(s) \in SUBSET Children
  BY DEF Registered, ChildrenOf
<1>52. \E v \in Rec : call' = [call EXCEPT ![s][c] = v]
  <2>1. CASE DoneEnter(s, c, w)
    <3> DEFINE v == IF ~oncef[s] \/ w THEN Call("cancel", ~oncef[s], "none", Registered(s))
                                      ELSE Call("back", FALSE, "ErrDoneCalled", {})
    <3>1. call' = [call EXCEPT ![s][c] = v]
      BY <2>1 DEF DoneEnter, SetCall
    <3>2. v \in Rec
      BY <1>51 DEF Call, CallPcs, Results
    <3> QED BY <3>1, <3>2
  <2>2. ASSUME NEW p \in CallPcs, NEW u \in Results
        PROVE  [q EXCEPT !.pc = p] \in Rec /\ [q EXCEPT !.pc = p, !.rul = u] \in Rec
    BY <1>5
  <2> HIDE DEF Rec, q
  <2>3. CASE DoneCancel(s, c) \/ DonePlan(s, c) \/ DoneActual(s, c) \/ DoneTimeout(s, c)
    BY <2>2, <2>3 DEF DoneCancel, DonePlan, DoneActual, DoneTimeout, SetCall, CallPcs, Results, q
  <2>4. CASE DoneNothing(s, c)
    BY <2>2, <2>4 DEF DoneNothing, SetCall, CallPcs, Results, q
  <2> QED BY <1>4, <2>1, <2>3, <2>4
<1>53. r \in Rec /\ call' = [call EXCEPT ![s][c] = r]
  BY <1>5, <1>52
<1>54. call' \in [Scopes -> [Callers -> Rec]]
  <2> HIDE DEF Rec
  <2> QED BY <1>5, <1>52
<1>6. TypeOK'
  <2>1. oncef' \in [Scopes -> BOOLEAN]
    BY <1>0, <1>4 DEF TypeOK, DoneEnter, DoneCancel, DoneNothing, DonePlan, DoneActual, DoneTimeout
  <2> QED BY <1>0, <1>54, <2>1 DEF TypeOK
<1>7. /\ r.seen \subseteq Registered(s)
      /\ r.pc = "actual" => NR(s) >= Need(s)
      /\ r.pc = "plan" /\ PlanNum[s] = 0 => NR(s) >= 1
      /\ r.rul = "nil" => NF(s) >= Need(s) /\ r.seen \subseteq Finished(s)
      /\ r.rul = "ErrNothingWait" => r.seen = {}
  <2>1. /\ q.seen \subseteq Registered(s)
        /\ q.pc = "actual" => NR(s) >= Need(s)
        /\ q.pc = "plan" /\ PlanNum[s] = 0 => NR(s) >= 1
        /\ q.rul = "nil" => NF(s) >= Need(s) /\ q.seen \subseteq Finished(s)
        /\ q.rul = "ErrNothingWait" => q.seen = {}
    BY <1>0, Opaque DEF NilMeansSeenFinished, NothingMeansNone
  <2>2. /\ planC[s] = PlanNum[s] - NR(s) /\ actualC[s] = NA(s)
        /\ NR(s) \in Nat /\ NA(s) \in Nat /\ NF(s) \in Nat /\ PlanNum[s] \in Nat
        /\ Need(s) = IF PlanNum[s] = 0 THEN 1 ELSE PlanNum[s]
    BY <1>0, Opaque, CardTypes, NeedType DEF Need
  <2>3. call \in [Scopes -> [Callers -> [pc : CallPcs, first : BOOLEAN, rul : Results,
                                         seen : SUBSET Children]]]
    BY <1>0 DEF TypeOK
  <2>4. CASE DoneEnter(s, c, w)
    <3>1. \/ r = Call("cancel", ~oncef[s], "none", Registered(s))
          \/ r = Call("back", FALSE, "ErrDoneCalled", {})
      BY <2>3, <2>4 DEF DoneEnter, SetCall
    <3> QED BY <3>1 DEF Call
  <2>5. CASE DoneCancel(s, c) \/ DoneTimeout(s, c)
    <3>1. \/ r = [q EXCEPT !.pc = "nothing"]
          \/ r = [q EXCEPT !.pc = "leave", !.rul = "ErrWaitTo"]
      BY <2>3, <2>5 DEF DoneCancel, DoneTimeout, SetCall
    <3>2. r.seen = q.seen /\ r.pc \in {"nothing", "leave"} /\ r.rul \in {q.rul, "ErrWaitTo"}
      BY <3>1, <1>5
    <3> QED BY <3>2, <2>1
  <2>6. CASE DoneNothing(s, c)
    <3>1. CASE PlanNum[s] = 0 /\ planC[s] = 0
      <4>1. r = [q EXCEPT !.pc = "leave", !.rul = "ErrNothingWait"]
        BY <2>3, <2>6, <3>1 DEF DoneNothing, SetCall
      <4>2. NR(s) = 0
        BY <3>1, <2>2
      <4>3. Registered(s) = {}
        BY <4>2, StageSets, FS_EmptySet DEF NR
      <4> QED BY <4>1, <4>3, <2>1, <2>3
    <3>2. CASE ~(PlanNum[s] = 0 /\ planC[s] = 0)
      <4>1. r = [q EXCEPT !.pc = "plan"]
        BY <2>3, <2>6, <3>2 DEF DoneNothing, SetCall
      <4>2. PlanNum[s] = 0 => NR(s) >= 1
        BY <3>2, <2>2
      <4> QED BY <4>1, <4>2, <2>1, <2>3
    <3> QED BY <3>1, <3>2
  <2>7. CASE DonePlan(s, c)
    <3>1. r = [q EXCEPT !.pc = "actual"] /\ q.pc = "plan" /\ planC[s] <= 0
      BY <2>3, <2>7 DEF DonePlan, SetCall
    <3>2. NR(s) >= Need(s)
      BY <3>1, <2>1, <2>2
    <3> QED BY <3>1, <3>2, <2>1, <2>3
  <2>8. CASE DoneActual(s, c)
    <3>1. /\ r = [q EXCEPT !.pc = "leave", !.rul = "nil"] /\ q.pc = "actual"
          /\ actualC[s] <= 0
      BY <2>3, <2>8 DEF DoneActual, SetCall
    <3>2. Cardinality(Counted(s) \ Finished(s)) = 0
      BY <3>1, <2>2 DEF NA
    <3>3. Counted(s) \ Finished(s) = {}
      BY <3>2, StageSets, FS_EmptySet
    <3>4. Registered(s) = Finished(s)
      BY <3>3 DEF Counted, Registered, Finished, ChildrenOf
    <3>5. NF(s) = NR(s)
      BY <3>4, Zenon DEF NF, NR
    <3>6. NF(s) >= Need(s)
      BY <3>1, <3>5, <2>1
    <3> QED BY <3>1, <3>4, <3>6, <2>1, <2>3
  <2> QED BY <1>4, <2>4, <2>5, <2>6, <2>7, <2>8
<1>8. ASSUME NEW x \in Scopes, NEW d \in Callers, ~(x = s /\ d = c)
      PROVE  call'[x][d] = call[x][d]
  BY <1>5, <1>53, <1>8
<1>9. CallWaits' /\ NilMeansPlanFinished' /\ NilMeansSeenFinished' /\ NothingMeansNone'
  <2>1. ASSUME NEW x \in Scopes, NEW d \in Callers
        PROVE /\ call'[x][d].seen \subseteq Registered(x)
              /\ call'[x][d].pc = "actual" => NR(x) >= Need(x)
              /\ call'[x][d].pc = "plan" /\ PlanNum[x] = 0 => NR(x) >= 1
              /\ call'[x][d].rul = "nil" => NF(x) >= Need(x)
              /\ call'[x][d].rul = "nil" => call'[x][d].seen \subseteq Finished(x)
              /\ call'[x][d].rul = "ErrNothingWait" => call'[x][d].seen = {}
    <3>1. CASE x = s /\ d = c
      BY <3>1, <1>7
    <3>2. CASE ~(x = s /\ d = c)
      BY <3>2, <1>0, <1>8, Opaque DEF NilMeansSeenFinished, NothingMeansNone
    <3> QED BY <3>1, <3>2
  <2>2. ASSUME NEW x \in Scopes
        PROVE  /\ Registered(x)' = Registered(x) /\ Cardinality(Registered(x)') = NR(x)
               /\ Finished(x)' = Finished(x) /\ Cardinality(Finished(x)') = NF(x)
    BY <1>1, <1>2
  <2>3. CallWaits'
    BY <2>1, <2>2, Zenon DEF CallWaits, Need
  <2>4. NilMeansPlanFinished'
    BY <2>1, <2>2, Zenon DEF NilMeansPlanFinished, Need
  <2>5. NilMeansSeenFinished'
    <3> SUFFICES ASSUME NEW x \in Scopes, NEW d \in Callers, call'[x][d].rul = "nil"
                 PROVE  call'[x][d].seen \subseteq Finished(x)'
      BY DEF NilMeansSeenFinished
    <3> QED BY <2>1, <2>2
  <2>6. NothingMeansNone'
    BY <2>1, Zenon DEF NothingMeansNone
  <2> QED BY <2>3, <2>4, <2>5, <2>6
<1>10. ScopeStages'
  BY <1>0, <1>4 DEF ScopeStages, TypeOK, DoneEnter, DoneCancel, DoneNothing, DonePlan,
     DoneActual, DoneTimeout
<1>11. FirstEnds'
  <2>1. CASE DoneEnter(s, c, w)
    <3>1. oncef' = [oncef EXCEPT ![s] = TRUE]
      BY <2>1 DEF DoneEnter
    <3>2. r.first => ~oncef[s]
      BY <2>1, <1>0 DEF DoneEnter, SetCall, Call, TypeOK
    <3>3. s # Root /\ ~oncef[s] => stage[s] = "live"
      BY <2>1, <1>0 DEF DoneEnter, Exists, ScopeStages
    <3> QED BY <3>1, <3>2, <3>3, <1>0, <1>8 DEF FirstEnds, TypeOK
  <2>2. CASE ~DoneEnter(s, c, w)
    <3>1. oncef' = oncef
      BY <2>2, <1>4 DEF DoneCancel, DoneNothing, DonePlan, DoneActual, DoneTimeout
    <3>2. q.pc # "back"
      BY <2>2, <1>4 DEF DoneCancel, DoneNothing, DonePlan, DoneActual, DoneTimeout
    <3>3. \E p \in CallPcs, u \in Results :
            call' = [call EXCEPT ![s][c] = [q EXCEPT !.pc = p]]
            \/ call' = [call EXCEPT ![s][c] = [q EXCEPT !.pc = p, !.rul = u]]
      BY <2>2, <1>4 DEF DoneCancel, DoneNothing, DonePlan, DoneActual,
         DoneTimeout, SetCall, CallPcs, Results
    <3>4. r.first = q.first
      BY <3>3, <1>5
    <3>5. ASSUME NEW x \in Scopes, NEW d \in Callers
          PROVE  call'[x][d].first = call[x][d].first
      BY <3>4, <1>8
    <3>6. ASSUME NEW x \in Scopes, NEW d \in Callers, call'[x][d].first, x # Root,
                 call'[x][d].pc # "back"
          PROVE  stage[x] = "live"
      BY <3>2, <3>5, <3>6, <1>0, <1>8 DEF FirstEnds
    <3> QED BY <3>1, <3>5, <3>6, <1>0 DEF FirstEnds
  <2> QED BY <2>1, <2>2
<1> QED BY <1>3, <1>6, <1>9, <1>10, <1>11 DEF IInv

(* The return of a done call; the first one of a nested scope ends that     *)
(* scope's own entry in its owner's actualC.                                *)
LEMMA LeaveIInv ==
  ASSUME IInv, NEW s \in Scopes, NEW c \in Callers, DoneLeave(s, c)
  PROVE  IInv'
<1>0. /\ TypeOK /\ PlanCounts /\ ActualCounts /\ CallWaits /\ FirstEnds /\ ScopeStages
      /\ NilMeansPlanFinished /\ NilMeansSeenFinished /\ NothingMeansNone
  BY DEF IInv
<1> DEFINE q == call[s][c]
           ends == q.first /\ s # Root
           Rec == [pc : CallPcs, first : BOOLEAN, rul : Results, seen : SUBSET Children]
<1>1. /\ q.pc = "leave"
      /\ actualC' = IF ends THEN [actualC EXCEPT ![Owner[s]] = @ - 1] ELSE actualC
      /\ stage' = IF ends THEN [stage EXCEPT ![s] = "finished"] ELSE stage
      /\ call' = [call EXCEPT ![s][c] = [q EXCEPT !.pc = "back"]]
      /\ planC' = planC /\ cancelled' = cancelled /\ oncef' = oncef
  BY DEF DoneLeave, SetCall
<1>2. call \in [Scopes -> [Callers -> Rec]] /\ q \in Rec
  BY <1>0 DEF TypeOK
<1>3. [q EXCEPT !.pc = "back"] \in Rec
  BY <1>2 DEF CallPcs
<1>4. call' \in [Scopes -> [Callers -> Rec]]
  <2> HIDE DEF Rec, q
  <2> QED BY <1>1, <1>2, <1>3
<1>5. ASSUME NEW x \in Scopes, NEW d \in Callers
      PROVE  /\ call'[x][d].seen = call[x][d].seen /\ call'[x][d].rul = call[x][d].rul
             /\ call'[x][d].first = call[x][d].first
             /\ call'[x][d].pc \in {call[x][d].pc, "back"}
             /\ x = s /\ d = c => call'[x][d].pc = "back"
  BY <1>1, <1>2
<1>6. ASSUME NEW x \in Scopes
      PROVE  /\ Registered(x) \subseteq Registered(x)' /\ Finished(x) \subseteq Finished(x)'
             /\ NR(x)' = NR(x) /\ NF(x)' \in Nat /\ NF(x)' >= NF(x)
             /\ actualC'[x] = NA(x)' /\ actualC'[x] \in Nat
  <2>0. actualC[x] = NA(x) /\ NA(x) \in Nat /\ NF(x) \in Nat /\ NR(x) \in Nat
    BY <1>0, Opaque, CardTypes
  <2>1. CASE ends
    <3>1. s \in Children /\ stage[s] = "live" /\ Owner[s] \in Scopes
      BY <2>1, <1>0, <1>1, ScopesAssumption DEF FirstEnds, Children
    <3>2. /\ Registered(x) \subseteq Registered(x)' /\ Finished(x) \subseteq Finished(x)'
          /\ NA(x)' = NA(x) + (IF Owner[s] = x /\ stage[s] = "new" THEN 1
                              ELSE IF Owner[s] = x /\ "finished" = "finished" THEN 0 - 1 ELSE 0)
          /\ NR(x)' = NR(x) + (IF Owner[s] = x /\ stage[s] = "counted" THEN 1 ELSE 0)
          /\ NF(x)' = NF(x) + (IF Owner[s] = x /\ "finished" = "finished" THEN 1 ELSE 0)
      <4>1. "finished" \in Stages /\ Forward(stage[s], "finished")
        BY <3>1 DEF Stages, Forward
      <4>2. stage' = [stage EXCEPT ![s] = "finished"]
        BY <2>1, <1>1
      <4> QED BY <4>1, <4>2, <3>1, <1>0, StageCards
    <3>3. NA(x)' \in Nat
      BY CardTypesNext
    <3>4. actualC'[x] = IF Owner[s] = x THEN actualC[x] - 1 ELSE actualC[x]
      BY <2>1, <1>0, <1>1, <3>1 DEF TypeOK
    <3> QED BY <2>0, <3>1, <3>2, <3>3, <3>4
  <2>2. CASE ~ends
    <3>1. Registered(x)' = Registered(x) /\ Finished(x)' = Finished(x) /\ Counted(x)' = Counted(x)
      BY <2>2, <1>1 DEF Registered, Finished, Counted
    <3>2. NR(x)' = NR(x) /\ NF(x)' = NF(x) /\ NA(x)' = NA(x)
      BY <3>1, Zenon DEF NR, NF, NA
    <3>3. actualC'[x] = actualC[x]
      BY <2>2, <1>1
    <3> QED BY <3>1, <3>2, <3>3, <2>0
  <2> QED BY <2>1, <2>2
<1>7. TypeOK'
  <2>1. stage' \in [Children -> Stages]
    BY <1>0, <1>1, ScopesAssumption DEF TypeOK, Stages, Children
  <2>2. actualC' \in [Scopes -> Nat]
    BY <1>0, <1>1, <1>6, ScopesAssumption DEF TypeOK
  <2> QED BY <1>0, <1>1, <1>4, <2>1, <2>2 DEF TypeOK
<1>8. PlanCounts' /\ ActualCounts'
  <2>1. ASSUME NEW x \in Scopes PROVE planC'[x] = PlanNum[x] - NR(x)' /\ actualC'[x] = NA(x)'
    BY <1>0, <1>1, <1>6, Opaque
  <2> QED BY <2>1, Zenon DEF PlanCounts, ActualCounts, NR, NA
<1>9. CallWaits' /\ NilMeansPlanFinished'
  <2>1. ASSUME NEW x \in Scopes, NEW d \in Callers
        PROVE  /\ call'[x][d].seen \subseteq Registered(x)'
               /\ call'[x][d].pc = "actual" => NR(x)' >= Need(x)
               /\ call'[x][d].pc = "plan" /\ PlanNum[x] = 0 => NR(x)' >= 1
               /\ call'[x][d].rul = "nil" => NF(x)' >= Need(x)
    <3>1. /\ call[x][d].seen \subseteq Registered(x)
          /\ call[x][d].pc = "actual" => NR(x) >= Need(x)
          /\ call[x][d].pc = "plan" /\ PlanNum[x] = 0 => NR(x) >= 1
          /\ call[x][d].rul = "nil" => NF(x) >= Need(x)
      BY <1>0, Opaque
    <3>2. /\ call'[x][d].pc = "actual" => call[x][d].pc = "actual"
          /\ call'[x][d].pc = "plan" => call[x][d].pc = "plan"
      BY <1>5
    <3> QED BY <1>5, <1>6, <3>1, <3>2, CardTypes, NeedType
  <2> QED BY <2>1, Zenon DEF CallWaits, NilMeansPlanFinished, NR, NF, Need
<1>10. NilMeansSeenFinished' /\ NothingMeansNone'
  BY <1>0, <1>5, <1>6 DEF NilMeansSeenFinished, NothingMeansNone
<1>11. ScopeStages'
  BY <1>0, <1>1 DEF ScopeStages, FirstEnds, TypeOK, Children
<1>12. FirstEnds'
  <2>1. ASSUME NEW x \in Scopes, NEW d \in Callers, call'[x][d].first, x # Root,
               call'[x][d].pc # "back"
        PROVE  stage'[x] = "live"
    <3>1. ~(x = s /\ d = c) /\ call[x][d].first /\ call[x][d].pc # "back"
      BY <1>5, <2>1
    <3>2. stage[x] = "live"
      BY <3>1, <2>1, <1>0 DEF FirstEnds
    <3>3. ends => x # s
      BY <3>1, <1>0 DEF FirstEnds
    <3>4. x \in Children
      BY <2>1 DEF Children
    <3> QED BY <3>2, <3>3, <3>4, <1>0, <1>1 DEF TypeOK
  <2> QED BY <2>1, <1>0, <1>1, <1>5 DEF FirstEnds
<1> QED BY <1>7, <1>8, <1>9, <1>10, <1>11, <1>12 DEF IInv

LEMMA NextIInv == IInv /\ [Next]_vars => IInv'
<1> SUFFICES ASSUME IInv, [Next]_vars PROVE IInv'
  OBVIOUS
<1>0. cancelled \subseteq Scopes \cup Tasks /\ Tasks \subseteq Children
  BY DEF IInv, TypeOK, Children
<1>1. ASSUME NEW n \in Children, CountChild(n) PROVE IInv'
  <2>1. "counted" \in Stages
    BY DEF Stages
  <2> QED BY <2>1, <1>0, <1>1, ChildStepIInv DEF CountChild
<1>2. ASSUME NEW n \in Children, RegisterChild(n) PROVE IInv'
  <2>1. "live" \in Stages
    BY DEF Stages
  <2> QED BY <2>1, <1>0, <1>2, ChildStepIInv DEF RegisterChild
<1>3. ASSUME NEW t \in Tasks, CancelTask(t) PROVE IInv'
  <2>1. "ending" \in Stages
    BY DEF Stages
  <2> QED BY <2>1, <1>0, <1>3, ChildStepIInv DEF CancelTask
<1>4. ASSUME NEW t \in Tasks, FinishTask(t) PROVE IInv'
  <2>1. "finished" \in Stages
    BY DEF Stages
  <2> QED BY <2>1, <1>0, <1>4, ChildStepIInv DEF FinishTask
<1>5. ASSUME NEW s \in Scopes, NEW c \in Callers, NEW w \in BOOLEAN, DoneEnter(s, c, w)
      PROVE IInv'
  BY <1>0, <1>5, CallStepIInv DEF DoneEnter
<1>6. ASSUME NEW s \in Scopes, NEW c \in Callers,
             DoneCancel(s, c) \/ DoneNothing(s, c) \/ DonePlan(s, c) \/ DoneActual(s, c)
               \/ DoneTimeout(s, c)
      PROVE IInv'
  <2>1. UNCHANGED <<planC, actualC, stage>> /\ cancelled' \subseteq Scopes \cup Tasks
    BY <1>0, <1>6 DEF DoneCancel, DoneNothing, DonePlan, DoneActual, DoneTimeout
  <2> QED BY <2>1, <1>6, CallStepIInv
<1>7. ASSUME NEW s \in Scopes, NEW c \in Callers, DoneLeave(s, c) PROVE IInv'
  BY <1>7, LeaveIInv
<1>8. CASE UNCHANGED vars
  <2>1. \A s \in Scopes : Registered(s)' = Registered(s) /\ Finished(s)' = Finished(s)
                            /\ Counted(s)' = Counted(s)
    BY <1>8 DEF vars, Registered, Finished, Counted
  <2>2. TypeOK' /\ FirstEnds' /\ ScopeStages' /\ NothingMeansNone'
    BY <1>8, Zenon DEF vars, IInv, TypeOK, FirstEnds, ScopeStages, NothingMeansNone
  <2>3. PlanCounts' /\ ActualCounts'
    BY <1>8, <2>1, Zenon DEF vars, IInv, PlanCounts, ActualCounts
  <2>4. CallWaits' /\ NilMeansPlanFinished' /\ NilMeansSeenFinished'
    BY <1>8, <2>1, Zenon DEF vars, IInv, CallWaits, NilMeansPlanFinished, NilMeansSeenFinished, Need
  <2> QED BY <2>2, <2>3, <2>4 DEF IInv
<1> QED BY <1>1, <1>2, <1>3, <1>4, <1>5, <1>6, <1>7, <1>8
        DEF Next, ChildStep, TaskStep, DoneStep

(* Type correctness of WithWait's counters and of the calls of done: in     *)
(* particular actualC never goes below zero.                                *)
THEOREM TypeCorrect == Spec => []TypeOK
<1>1. IInv => TypeOK
  BY DEF IInv
<1> QED BY InitIInv, NextIInv, <1>1, PTL DEF Spec

(* actualC is the number of children inside the scope (Ctx.go WithWait,     *)
(* WaitCtx), whatever mix of first, repeated and waiting done calls runs.   *)
THEOREM ActualCorrect == Spec => []ActualCounts
<1>1. IInv => ActualCounts
  BY DEF IInv
<1> QED BY InitIInv, NextIInv, <1>1, PTL DEF Spec

(* A done call of WithWait that returns nil waited for planNum children.    *)
THEOREM NilCorrect == Spec => []NilMeansPlanFinished
<1>1. IInv => NilMeansPlanFinished
  BY DEF IInv
<1> QED BY InitIInv, NextIInv, <1>1, PTL DEF Spec

(* A done call that returns nil waited for every child registered before it,*)
(* and one that returns ErrNothingWait left no registered child behind.     *)
THEOREM SeenCorrect == Spec => [](NilMeansSeenFinished /\ NothingMeansNone)
<1>1. IInv => NilMeansSeenFinished /\ NothingMeansNone
  BY DEF IInv
<1> QED BY InitIInv, NextIInv, <1>1, PTL DEF Spec
=============================================================================
