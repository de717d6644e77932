----------------------------- MODULE Bounds_proofs -----------------------------
(***************************************************************************)
(* AddCount of web.Limits, for every number of items, slots and requests   *)
(* and every relation between requests and items; web.Exprier, for every   *)
(* number of keys and every max, when one goroutine registers; slice.Buf,  *)
(* for every size of the pieces, number of calls and number of readers;    *)
(* the copies of package io, for every size, configuration, pattern of     *)
(* reads and failure; and the searches of file.File, for every content,    *)
(* separator, limit and size of the pieces.                                *)
(***************************************************************************)
EXTENDS MCBounds, FiniteSetTheorems, FunctionTheorems, SequenceTheorems, WellFoundedInduction,
        TLAPS

----------------------------------------------------------------------------
\* The requests that have a slot are finitely many, so their number counts.
LEMMA HoldersFinite ==
  ASSUME NEW i \in Items
  PROVE  IsFiniteSet(Holders(i)) /\ Cardinality(Holders(i)) \in Nat
<1>1. Holders(i) \in SUBSET Reqs
  BY DEF Holders
<1>2. IsFiniteSet(Holders(i))
  BY <1>1, ReqLimitsAssumption, FS_Subset
<1> QED
  BY <1>2, FS_CardinalityType

\* New limits: all slots are free and nobody is in AddCount.
LEMMA InitIInv == Init => IInv
<1> SUFFICES ASSUME Init
             PROVE  IInv
  OBVIOUS
<1>1. TypeOK
  BY ReqLimitsAssumption DEF Init, TypeOK, Pcs
<1>2. Slots
  <2> SUFFICES ASSUME NEW i \in Items
               PROVE  available[i] = Max[i] - Cardinality(Holders(i))
    BY DEF Slots
  <2>1. Holders(i) = {}
    BY DEF Init, Holders, Has
  <2>2. Cardinality(Holders(i)) = 0
    BY <2>1, FS_EmptySet
  <2> QED
    BY <2>2, ReqLimitsAssumption DEF Init
<1>3. Locked /\ Room /\ MatchsAll
  BY ReqLimitsAssumption DEF Init, Locked, Room, MatchsAll
<1> QED
  BY <1>1, <1>2, <1>3 DEF IInv

\* A step that neither changes a counter nor who has slots keeps the counters
\* right.
LEMMA SlotsUntouched ==
  ASSUME IInv, UNCHANGED available,
         \A q \in Reqs, i \in Items : Has(q, i)' <=> Has(q, i)
  PROVE  Slots'
<1>1. \A i \in Items : Holders(i)' = Holders(i)
  BY DEF Holders
<1> QED
  BY <1>1 DEF IInv, Slots

\* AddCount up to the lock: the first look at the items.
LEMMA EnterIInv ==
  ASSUME IInv, NEW r \in Reqs,
         \/ Begin(r) \/ ScanEnd(r) \/ Lock(r) \/ CheckEnd(r) \/ CtxDone(r) \/ ReturnLock(r)
         \/ \E i \in Items : Scan(r, i) \/ Check(r, i)
  PROVE  IInv'
<1> USE DEF IInv
<1>1. TypeOK'
  BY ReqLimitsAssumption DEF TypeOK, Pcs, Begin, Scan, ScanEnd, Lock, Check, CheckEnd, CtxDone, ReturnLock, Goto, Least
<1>2. Locked'
  BY ReqLimitsAssumption DEF TypeOK, Locked, Begin, Scan, ScanEnd, Lock, Check, CheckEnd, CtxDone, ReturnLock, Goto, Least
<1>3. MatchsAll'
  <2>1. CASE Begin(r)
    BY <2>1, ReqLimitsAssumption DEF TypeOK, MatchsAll, Begin, Goto
  <2>2. ASSUME NEW i \in Items, Scan(r, i)
        PROVE  MatchsAll'
    BY <2>2, ReqLimitsAssumption DEF TypeOK, MatchsAll, Scan, Goto, Least
  <2>3. CASE ScanEnd(r) \/ CtxDone(r)
    BY <2>3 DEF TypeOK, MatchsAll, ScanEnd, CtxDone, Goto
  <2>4. CASE Lock(r) \/ CheckEnd(r) \/ ReturnLock(r)
    BY <2>4 DEF TypeOK, MatchsAll, Lock, CheckEnd, ReturnLock, Goto
  <2>5. ASSUME NEW i \in Items, Check(r, i)
        PROVE  MatchsAll'
    BY <2>5 DEF TypeOK, MatchsAll, Check, Goto
  <2> QED
    BY <2>1, <2>2, <2>3, <2>4, <2>5
<1>4. Room'
  <2>1. CASE Begin(r) \/ ScanEnd(r) \/ CtxDone(r) \/ ReturnLock(r)
    BY <2>1 DEF TypeOK, Room, Begin, ScanEnd, CtxDone, ReturnLock, Goto
  <2>2. CASE Lock(r) \/ CheckEnd(r)
    BY <2>2 DEF TypeOK, Room, Lock, CheckEnd, Goto
  <2>3. ASSUME NEW i \in Items, Scan(r, i)
        PROVE  Room'
    BY <2>3 DEF TypeOK, Room, Scan, Goto
  <2>4. ASSUME NEW i \in Items, Check(r, i)
        PROVE  Room'
    <3>1. available[i] # 0 => available[i] > 0
      BY DEF TypeOK
    <3> QED
      BY <2>4, <3>1 DEF TypeOK, Room, Check, Goto, Least
  <2> QED
    BY <2>1, <2>2, <2>3, <2>4
<1>5. Slots'
  <2>1. UNCHANGED available
    BY DEF Begin, Scan, ScanEnd, Lock, Check, CheckEnd, CtxDone, ReturnLock
  <2>2. \A q \in Reqs, i \in Items : Has(q, i)' <=> Has(q, i)
    BY DEF TypeOK, MatchsAll, Has, Begin, Scan, ScanEnd, Lock, Check, CheckEnd, CtxDone, ReturnLock, Goto, Least
  <2> QED
    BY <2>1, <2>2, SlotsUntouched
<1> QED
  BY <1>1, <1>2, <1>3, <1>4, <1>5

\* The two loops end and t.l is given back.
LEMMA LeaveIInv ==
  ASSUME IInv, NEW r \in Reqs, TakeEnd(r) \/ GiveEnd(r)
  PROVE  IInv'
<1> USE DEF IInv
<1>1. TypeOK'
  BY DEF TypeOK, Pcs, TakeEnd, GiveEnd, Goto
<1>2. Locked'
  BY ReqLimitsAssumption DEF TypeOK, Locked, TakeEnd, GiveEnd, Goto
<1>3. MatchsAll' /\ Room'
  BY DEF TypeOK, MatchsAll, Room, TakeEnd, GiveEnd, Goto
<1>4. Slots'
  <2>1. \A q \in Reqs, i \in Items : Has(q, i)' <=> Has(q, i)
    BY DEF TypeOK, MatchsAll, Has, TakeEnd, GiveEnd, Goto
  <2> QED
    BY <2>1, SlotsUntouched DEF TakeEnd, GiveEnd
<1> QED
  BY <1>1, <1>2, <1>3, <1>4

\* One slot is taken; the lock keeps the second look valid for the others.
LEMMA TakeIInv ==
  ASSUME IInv, NEW r \in Reqs, NEW i \in Items, Take(r, i)
  PROVE  IInv'
<1> USE DEF IInv, Take, Least
<1>1. available[i] \in Nat /\ available[i] > 0
  BY DEF TypeOK, Room
<1>2. TypeOK'
  BY <1>1 DEF TypeOK
<1>3. Locked' /\ MatchsAll'
  BY DEF TypeOK, Locked, MatchsAll
<1>4. Room'
  <2>1. \A q \in Reqs : q # r => pc[q] \notin {"check", "take"}
    BY DEF Locked
  <2>2. \A j \in todo'[r] : available'[j] = available[j]
    BY DEF TypeOK
  <2> QED
    BY <2>1, <2>2 DEF TypeOK, Room
<1>5. Slots'
  <2> SUFFICES ASSUME NEW j \in Items
               PROVE  available'[j] = Max[j] - Cardinality(Holders(j)')
    BY DEF Slots
  <2>1. CASE j = i
    <3>1. r \notin Holders(i)
      BY DEF Holders, Has
    <3>2. Holders(i)' = Holders(i) \cup {r}
      BY DEF Holders, Has, TypeOK, MatchsAll
    <3>3. Cardinality(Holders(i)') = Cardinality(Holders(i)) + 1
      BY <3>1, <3>2, HoldersFinite, FS_AddElement
    <3>4. available'[i] = Max[i] - Cardinality(Holders(i)')
      <4>1. Max[i] \in Nat /\ Cardinality(Holders(i)) \in Nat
        BY HoldersFinite, ReqLimitsAssumption
      <4>2. available[i] = Max[i] - Cardinality(Holders(i))
        BY DEF Slots
      <4> QED
        BY <3>3, <4>1, <4>2 DEF TypeOK
    <3> QED
      BY <2>1, <3>4
  <2>2. CASE j # i
    <3>1. Holders(j)' = Holders(j)
      BY <2>2 DEF Holders, Has, TypeOK
    <3> QED
      BY <2>2, <3>1 DEF Slots, TypeOK
  <2> QED
    BY <2>1, <2>2
<1> QED
  BY <1>2, <1>3, <1>4, <1>5

\* The goroutine gives one slot back.
LEMMA GiveIInv ==
  ASSUME IInv, NEW r \in Reqs, NEW i \in Items, Give(r, i)
  PROVE  IInv'
<1> USE DEF IInv, Give, Least
<1>1. TypeOK'
  BY DEF TypeOK
<1>2. Locked' /\ MatchsAll'
  BY DEF TypeOK, Locked, MatchsAll
<1>3. Room'
  <2>1. \A q \in Reqs : pc[q] \notin {"check", "take"}
    BY DEF Locked
  <2> QED
    BY <2>1 DEF Room
<1>4. Slots'
  <2> SUFFICES ASSUME NEW j \in Items
               PROVE  available'[j] = Max[j] - Cardinality(Holders(j)')
    BY DEF Slots
  <2>1. CASE j = i
    <3>1. r \in Holders(i)
      BY DEF Holders, Has, MatchsAll
    <3>2. Holders(i)' = Holders(i) \ {r}
      BY DEF Holders, Has, TypeOK
    <3>3. Cardinality(Holders(i)') = Cardinality(Holders(i)) - 1
      BY <3>1, <3>2, HoldersFinite, FS_RemoveElement
    <3>4. available'[i] = Max[i] - Cardinality(Holders(i)')
      <4>1. Max[i] \in Nat /\ Cardinality(Holders(i)) \in Nat
        BY HoldersFinite, ReqLimitsAssumption
      <4>2. available[i] = Max[i] - Cardinality(Holders(i))
        BY DEF Slots
      <4> QED
        BY <3>3, <4>1, <4>2 DEF TypeOK
    <3> QED
      BY <2>1, <3>4
  <2>2. CASE j # i
    <3>1. Holders(j)' = Holders(j)
      BY <2>2 DEF Holders, Has, TypeOK
    <3> QED
      BY <2>2, <3>1 DEF Slots, TypeOK
  <2> QED
    BY <2>1, <2>2
<1> QED
  BY <1>1, <1>2, <1>3, <1>4

LEMMA NextIInv == IInv /\ [Next]_vars => IInv'
<1> SUFFICES ASSUME IInv, [Next]_vars
             PROVE  IInv'
  OBVIOUS
<1>1. ASSUME NEW r \in Reqs, Begin(r) \/ Count(r) \/ CtxDone(r) \/ Return(r)
      PROVE  IInv'
  BY <1>1, EnterIInv, LeaveIInv, TakeIInv, GiveIInv DEF Count, Return
<1>2. CASE UNCHANGED vars
  <2>1. \A q \in Reqs, i \in Items : Has(q, i)' <=> Has(q, i)
    BY <1>2 DEF vars, Has
  <2>2. Slots'
    BY <1>2, <2>1, SlotsUntouched DEF vars
  <2> QED
    BY <1>2, <2>2 DEF vars, IInv, TypeOK, Locked, Room, MatchsAll
<1> QED
  BY <1>1, <1>2 DEF Next

\* The counters, the lock and the two looks of AddCount fit together in every
\* state.
THEOREM IInvCorrect == Spec => []IInv
BY InitIInv, NextIInv, PTL DEF Spec

\* No item ever has more requests under way than NewLimitItem was given,
\* however many requests race between the two looks of AddCount.
THEOREM NeverOverCorrect == Spec => []NeverOver
<1>1. IInv => NeverOver
  <2> SUFFICES ASSUME IInv, NEW i \in Items
               PROVE  Cardinality(Holders(i)) <= Max[i]
    BY DEF NeverOver
  <2>1. available[i] \in Nat /\ available[i] = Max[i] - Cardinality(Holders(i))
    BY DEF IInv, TypeOK, Slots
  <2> QED
    BY <2>1, HoldersFinite, ReqLimitsAssumption
<1> QED
  BY <1>1, IInvCorrect, PTL

\* A request that AddCount lets through has a slot of every item it matches.
THEOREM AllItemsCorrect == Spec => []AllItems
<1>1. IInv => AllItems
  BY ReqLimitsAssumption DEF IInv, MatchsAll, AllItems, Has
<1> QED
  BY <1>1, IInvCorrect, PTL

\* AddCount turns a request away only when some item it matches is full.
THEOREM OnlyWhenFullCorrect == Spec => OnlyWhenFull
<1> DEFINE FullThen == \A r \in Reqs : pc'[r] = "rejected" /\ pc[r] # "rejected" =>
                         \E i \in Matches[r] : Cardinality(Holders(i)) = Max[i]
<1>1. IInv /\ [Next]_vars => [FullThen]_vars
  <2> SUFFICES ASSUME IInv, Next,
                      NEW r \in Reqs, pc'[r] = "rejected", pc[r] # "rejected"
               PROVE  \E i \in Matches[r] : Cardinality(Holders(i)) = Max[i]
    OBVIOUS
  <2>1. PICK q \in Reqs : Begin(q) \/ Count(q) \/ CtxDone(q) \/ Return(q)
    BY DEF Next
  <2>2. \E i \in Items : (Scan(r, i) \/ Check(r, i)) /\ available[i] = 0
    BY <2>1 DEF IInv, TypeOK, Begin, Count, CtxDone, Return, Scan, ScanEnd, Lock, Check, CheckEnd,
       Take, TakeEnd, ReturnLock, Give, GiveEnd, Goto
  <2>3. PICK i \in Items : (Scan(r, i) \/ Check(r, i)) /\ available[i] = 0
    BY <2>2
  <2>4. i \in Matches[r]
    BY <2>3 DEF IInv, MatchsAll, Scan, Check, Least
  <2>5. Cardinality(Holders(i)) = Max[i]
    BY <2>3, HoldersFinite, ReqLimitsAssumption DEF IInv, Slots
  <2> QED
    BY <2>4, <2>5
<1> QED
  BY <1>1, IInvCorrect, PTL DEF Spec, OnlyWhenFull
----------------------------------------------------------------------------
\* The types of Exprier; only a registrar is inside Reg.
InReg == {"put", "evict", "send", "sendOnly"}
KeyTypes ==
  /\ m \in [Uuids -> {"none", "valid", "expired"}]
  /\ mc \in Seq(Uuids) /\ order \in Seq(Uuids)
  /\ kpc \in [Expiring!Threads -> InReg \cup {"idle", "renew", "delete"}]
  /\ key \in [Expiring!Threads -> Uuids \cup {None}]
  /\ calls \in [Expiring!Threads -> Nat]
  /\ \A t \in Expiring!Threads : /\ kpc[t] # "idle" => key[t] \in Uuids
                                 /\ kpc[t] \in InReg => t \in Registrars
                                 /\ kpc[t] = "renew" => t \in Renewers /\ calls[t] # 0

\* The steps that are not of Reg.
Others ==
  \/ \E k \in Uuids : Expiring!Expire(k)
  \/ \E t \in Expiring!Threads :
       \/ \E k \in Uuids : Expiring!Renew(t, k) \/ Expiring!Drop(t, k) \/ Expiring!Check(t, k)
       \/ Expiring!RenewPut(t) \/ Expiring!CheckDelete(t)

\* The steps of Reg.
RegStep(t) ==
  \/ \E k \in Uuids : Expiring!Reg(t, k)
  \/ Expiring!RegPut(t) \/ Expiring!RegEvict(t) \/ Expiring!RegEmpty(t) \/ Expiring!RegSend(t)

\* The others leave the channel and whoever is inside Reg alone, and put nothing in the map
\* unless somebody renews a key.
Aside ==
  /\ mc' = mc /\ order' = order
  /\ \A t \in Expiring!Threads : kpc[t] \in InReg \/ kpc'[t] \in InReg =>
       kpc'[t] = kpc[t] /\ key'[t] = key[t]
  /\ Expiring!NobodyRenewed' => \A k \in Uuids : m'[k] # "none" => m[k] # "none"

\* No key was made.
LEMMA KeyInit ==
  ASSUME Expiring!Init
  PROVE  KeyTypes
BY EmptySeq DEF Expiring!Init, KeyTypes, InReg

\* The steps that are not of Reg keep the types and stay aside.
LEMMA OthersAside ==
  ASSUME KeyTypes, Others
  PROVE  KeyTypes' /\ Aside
<1> USE DEF Expiring!Goto, Expiring!Begin, KeyTypes, InReg, Aside
<1>1. ASSUME NEW k \in Uuids, Expiring!Expire(k)
      PROVE  KeyTypes' /\ Aside
  BY <1>1 DEF Expiring!Expire
<1>2. ASSUME NEW t \in Expiring!Threads, NEW k \in Uuids, Expiring!Renew(t, k)
      PROVE  KeyTypes' /\ Aside
  BY <1>2 DEF Expiring!Renew
<1>3. ASSUME NEW t \in Expiring!Threads, NEW k \in Uuids, Expiring!Drop(t, k)
      PROVE  KeyTypes' /\ Aside
  BY <1>3 DEF Expiring!Drop
<1>4. ASSUME NEW t \in Expiring!Threads, NEW k \in Uuids, Expiring!Check(t, k)
      PROVE  KeyTypes' /\ Aside
  BY <1>4 DEF Expiring!Check
<1>5. ASSUME NEW t \in Expiring!Threads, Expiring!RenewPut(t)
      PROVE  KeyTypes' /\ Aside
  <2>1. t \in Renewers /\ calls'[t] # 0
    BY <1>5 DEF Expiring!RenewPut
  <2>2. ~Expiring!NobodyRenewed'
    BY <2>1 DEF Expiring!NobodyRenewed
  <2> QED
    BY <1>5, <2>2 DEF Expiring!RenewPut
<1>6. ASSUME NEW t \in Expiring!Threads, Expiring!CheckDelete(t)
      PROVE  KeyTypes' /\ Aside
  BY <1>6 DEF Expiring!CheckDelete
<1> QED
  BY <1>1, <1>2, <1>3, <1>4, <1>5, <1>6 DEF Others

\* The steps of Reg keep the types.
LEMMA RegTypes ==
  ASSUME KeyTypes, NEW t \in Expiring!Threads, RegStep(t)
  PROVE  KeyTypes'
<1> USE DEF Expiring!Goto, KeyTypes, InReg
<1>1. ASSUME NEW k \in Uuids, Expiring!Reg(t, k)
      PROVE  KeyTypes'
  <2>1. CASE mc' = Append(mc, k) /\ Expiring!Goto(t, "put")
    BY <1>1, <2>1 DEF Expiring!Reg
  <2>2. CASE mc' = mc /\ Expiring!Goto(t, "evict")
    BY <1>1, <2>2 DEF Expiring!Reg
  <2> QED
    BY <1>1, <2>1, <2>2 DEF Expiring!Reg
<1>2. CASE Expiring!RegPut(t)
  BY <1>2 DEF Expiring!RegPut
<1>3. CASE Expiring!RegEvict(t)
  <2>1. mc' \in Seq(Uuids) /\ Head(mc) \in Uuids
    BY <1>3, HeadTailProperties DEF Expiring!RegEvict
  <2> QED
    BY <1>3, <2>1 DEF Expiring!RegEvict
<1>4. CASE Expiring!RegEmpty(t)
  BY <1>4 DEF Expiring!RegEmpty
<1>5. CASE Expiring!RegSend(t)
  <2>1. /\ mc' = Append(mc, key[t]) /\ key[t] \in Uuids /\ kpc[t] \in InReg
        /\ UNCHANGED <<m, order, key, calls>>
    BY <1>5 DEF Expiring!RegSend
  <2>2. CASE kpc' = [kpc EXCEPT ![t] = "put"]
    BY <2>1, <2>2
  <2>3. CASE kpc' = [kpc EXCEPT ![t] = "idle"]
    BY <2>1, <2>3
  <2> QED
    BY <1>5, <2>2, <2>3 DEF Expiring!RegSend
<1> QED
  BY <1>1, <1>2, <1>3, <1>4, <1>5 DEF RegStep

\* A step is one of Reg, or stays aside.
LEMMA KeySteps ==
  ASSUME KeyTypes, [Expiring!Next]_(Expiring!vars)
  PROVE  /\ KeyTypes'
         /\ Aside \/ \E t \in Expiring!Threads : RegStep(t)
         /\ Expiring!NobodyRenewed' => Expiring!NobodyRenewed
<1>1. /\ KeyTypes'
      /\ Aside \/ \E t \in Expiring!Threads : RegStep(t)
  <2>1. CASE UNCHANGED Expiring!vars
    BY <2>1 DEF Expiring!vars, KeyTypes, Aside
  <2>2. CASE Others
    BY <2>2, OthersAside
  <2>3. ASSUME NEW t \in Expiring!Threads, RegStep(t)
        PROVE  KeyTypes'
    BY <2>3, RegTypes
  <2> QED
    BY <2>1, <2>2, <2>3 DEF Expiring!Next, Others, RegStep
<1>2. ASSUME NEW t \in Renewers, calls'[t] = 0
      PROVE  calls[t] = 0
  <2>1. calls' = calls \/ \E u \in Expiring!Threads : calls' = [calls EXCEPT ![u] = @ + 1]
    BY DEF Expiring!Next, Expiring!vars, Expiring!Expire, Expiring!Reg, Expiring!RegPut, Expiring!RegEvict,
       Expiring!RegEmpty, Expiring!RegSend, Expiring!Renew, Expiring!RenewPut, Expiring!Drop,
       Expiring!Check, Expiring!CheckDelete, Expiring!Begin
  <2>2. t \in Expiring!Threads /\ calls[t] \in Nat /\ DOMAIN calls = Expiring!Threads
    BY DEF KeyTypes, Expiring!Threads
  <2> QED
    BY <1>2, <2>1, <2>2
<1> QED
  BY <1>1, <1>2 DEF Expiring!NobodyRenewed

\* The channel holds at most max keys, and there is room in it for the registrar that
\* has made some.
RoomInChannel ==
  /\ Len(mc) <= max
  /\ \A t \in Expiring!Threads : kpc[t] \in {"send", "sendOnly"} => Len(mc) < max

\* What the steps of Reg do to the channel.
LEMMA Channel ==
  ASSUME KeyTypes, NEW t \in Expiring!Threads
  PROVE  /\ Len(mc) \in Nat
         /\ \A k \in Uuids :
              /\ Len(Append(mc, k)) = Len(mc) + 1 /\ Append(mc, k)[Len(mc) + 1] = k
              /\ \A i \in 1..Len(mc) : Append(mc, k)[i] = mc[i]
         /\ mc # <<>> => /\ Len(Tail(mc)) = Len(mc) - 1 /\ Len(mc) > 0
                         /\ Head(mc) = mc[1]
                         /\ \A i \in 1..(Len(mc) - 1) : Tail(mc)[i] = mc[i + 1]
         /\ mc = <<>> => Len(mc) = 0
BY HeadTailProperties DEF KeyTypes

\* Every step keeps the room, when one goroutine registers.
LEMMA RoomNext ==
  ASSUME Expiring!ExprierAssumption, NEW reg, Registrars = {reg}, KeyTypes, RoomInChannel, [Expiring!Next]_(Expiring!vars)
  PROVE  RoomInChannel'
<1>0. max \in Nat \ {0} /\ Len(mc) \in Nat
  BY DEF Expiring!ExprierAssumption, KeyTypes
<1>1. CASE Aside
  BY <1>1 DEF Aside, RoomInChannel, InReg, KeyTypes
<1>2. ASSUME NEW t \in Expiring!Threads, t = reg, RegStep(t)
      PROVE  RoomInChannel'
  <2> USE DEF Expiring!Goto
  <2>0. /\ \A u \in Expiring!Threads : kpc[u] \in InReg => u = t
        /\ DOMAIN kpc = Expiring!Threads
    BY <1>2 DEF KeyTypes
  <2>1. ASSUME NEW k \in Uuids, Expiring!Reg(t, k)
        PROVE  RoomInChannel'
    BY <1>0, <2>0, <2>1, Channel DEF Expiring!Reg, RoomInChannel, InReg
  <2>2. CASE Expiring!RegPut(t)
    BY <1>0, <2>0, <2>2 DEF Expiring!RegPut, RoomInChannel, InReg
  <2>3. CASE Expiring!RegEvict(t)
    BY <1>0, <2>0, <2>3, Channel DEF Expiring!RegEvict, RoomInChannel, InReg
  <2>4. CASE Expiring!RegEmpty(t)
    BY <1>0, <2>0, <2>4, Channel DEF Expiring!RegEmpty, RoomInChannel, InReg
  <2>5. CASE Expiring!RegSend(t)
    <3>1. key[t] \in Uuids
      BY <2>5 DEF Expiring!RegSend, KeyTypes
    <3>2. Len(mc') = Len(mc) + 1 /\ Len(mc) < max
      BY <2>5, <3>1, Channel DEF Expiring!RegSend
    <3>3. \A u \in Expiring!Threads : kpc'[u] \notin {"send", "sendOnly"}
      BY <2>0, <2>5 DEF Expiring!RegSend, InReg
    <3> QED
      BY <1>0, <3>2, <3>3 DEF RoomInChannel
  <2> QED
    BY <1>2, <2>1, <2>2, <2>3, <2>4, <2>5 DEF RegStep
<1>3. \A t \in Expiring!Threads : RegStep(t) => t = reg
  BY DEF RegStep, Expiring!Reg, Expiring!RegPut, Expiring!RegEvict, Expiring!RegEmpty, Expiring!RegSend, KeyTypes, InReg
<1> QED
  BY <1>1, <1>2, <1>3, KeySteps

\* web/Web.go Exprier.Reg: a goroutine that has made room in the channel never waits
\* for room in it, whoever renews, drops and checks keys meanwhile.
THEOREM RegNeverWaitsCorrect ==
  ASSUME Expiring!ExprierAssumption, NEW reg, Registrars = {reg}
  PROVE  Expiring!Spec => []Expiring!RegNeverWaits
<1>1. Expiring!Init => KeyTypes /\ RoomInChannel
  BY KeyInit, EmptySeq DEF Expiring!Init, Expiring!ExprierAssumption, RoomInChannel
<1>2. KeyTypes /\ RoomInChannel /\ [Expiring!Next]_(Expiring!vars) => (KeyTypes /\ RoomInChannel)'
  BY RoomNext, KeySteps
<1>3. RoomInChannel => Expiring!RegNeverWaits
  BY DEF RoomInChannel, Expiring!RegNeverWaits, Expiring!Threads
<1> QED
  BY <1>1, <1>2, <1>3, PTL DEF Expiring!Spec

\* What the map has, the channel has as well, and the key that Reg is about to put in
\* the map.
InChannel(k) == \E i \in 1..Len(mc) : mc[i] = k
MapInChannel ==
  /\ \A k \in Uuids : m[k] # "none" => InChannel(k)
  /\ \A t \in Expiring!Threads : kpc[t] = "put" => InChannel(key[t])

\* Every step keeps that, when one goroutine registers and nobody has renewed a key.
LEMMA MapInChannelNext ==
  ASSUME NEW reg, Registrars = {reg}, KeyTypes, MapInChannel, [Expiring!Next]_(Expiring!vars),
         Expiring!NobodyRenewed'
  PROVE  MapInChannel'
<1>1. CASE Aside
  BY <1>1 DEF Aside, MapInChannel, InChannel, InReg, KeyTypes
<1>2. ASSUME NEW t \in Expiring!Threads, t = reg, RegStep(t)
      PROVE  MapInChannel'
  <2> USE DEF Expiring!Goto
  <2>0. /\ \A u \in Expiring!Threads : kpc[u] \in InReg => u = t
        /\ DOMAIN kpc = Expiring!Threads /\ DOMAIN key = Expiring!Threads /\ DOMAIN m = Uuids
        /\ Len(mc) \in Nat
    BY <1>2 DEF KeyTypes
  <2>1. ASSUME NEW k \in Uuids, Expiring!Reg(t, k)
        PROVE  MapInChannel'
    <3>1. CASE mc' = Append(mc, k) /\ kpc' = [kpc EXCEPT ![t] = "put"]
      <4>1. /\ Len(mc') = Len(mc) + 1 /\ mc'[Len(mc) + 1] = k
            /\ \A i \in 1..Len(mc) : mc'[i] = mc[i] /\ i \in 1..(Len(mc) + 1)
            /\ Len(mc) + 1 \in 1..(Len(mc) + 1)
        BY <2>0, <3>1, Channel
      <4>2. InChannel(k)' /\ \A j \in Uuids : InChannel(j) => InChannel(j)'
        BY <4>1 DEF InChannel
      <4>3. m' = m /\ key'[t] = k /\ \A u \in Expiring!Threads : u # t => kpc'[u] # "put"
        BY <2>0, <2>1, <3>1 DEF Expiring!Reg, InReg
      <4> QED
        BY <4>2, <4>3 DEF MapInChannel
    <3>2. CASE mc' = mc /\ kpc' = [kpc EXCEPT ![t] = "evict"]
      BY <2>0, <2>1, <3>2 DEF Expiring!Reg, MapInChannel, InChannel, InReg
    <3> QED
      BY <2>1, <3>1, <3>2 DEF Expiring!Reg
  <2>2. CASE Expiring!RegPut(t)
    BY <2>0, <2>2 DEF Expiring!RegPut, MapInChannel, InChannel, InReg
  <2>3. CASE Expiring!RegEvict(t)
    <3>1. /\ mc # <<>> /\ mc' = Tail(mc) /\ m' = [m EXCEPT ![mc[1]] = "none"]
          /\ \A u \in Expiring!Threads : kpc'[u] # "put"
      BY <2>0, <2>3, Channel DEF Expiring!RegEvict, InReg
    <3>2. ASSUME NEW k \in Uuids, m'[k] # "none"
          PROVE  InChannel(k)'
      <4>1. k # mc[1] /\ m[k] # "none"
        BY <2>0, <3>1, <3>2
      <4>2. PICK i \in 1..Len(mc) : mc[i] = k /\ i # 1
        BY <4>1 DEF MapInChannel, InChannel
      <4>3. i - 1 \in 1..(Len(mc) - 1) /\ (i - 1) + 1 = i
        BY <2>0, <4>2
      <4>4. Tail(mc)[i - 1] = k /\ Len(Tail(mc)) = Len(mc) - 1
        BY <3>1, <4>2, <4>3, Channel
      <4> QED
        BY <3>1, <4>3, <4>4 DEF InChannel
    <3> QED
      BY <3>1, <3>2 DEF MapInChannel
  <2>4. CASE Expiring!RegEmpty(t)
    BY <2>0, <2>4 DEF Expiring!RegEmpty, MapInChannel, InChannel, InReg
  <2>5. CASE Expiring!RegSend(t)
    <3>1. key[t] \in Uuids
      BY <2>5 DEF Expiring!RegSend, KeyTypes
    <3>2. mc' = Append(mc, key[t]) /\ m' = m /\ key' = key
      BY <2>5 DEF Expiring!RegSend
    <3>3. /\ Len(mc') = Len(mc) + 1 /\ mc'[Len(mc) + 1] = key[t]
          /\ \A i \in 1..Len(mc) : mc'[i] = mc[i] /\ i \in 1..(Len(mc) + 1)
          /\ Len(mc) + 1 \in 1..(Len(mc) + 1)
      BY <2>0, <3>1, <3>2, Channel
    <3>4. InChannel(key[t])' /\ \A j \in Uuids : InChannel(j) => InChannel(j)'
      BY <3>2, <3>3 DEF InChannel
    <3>5. \A u \in Expiring!Threads : u # t => kpc'[u] # "put"
      BY <2>0, <2>5 DEF Expiring!RegSend, InReg
    <3> QED
      BY <3>1, <3>2, <3>4, <3>5 DEF MapInChannel
  <2> QED
    BY <1>2, <2>1, <2>2, <2>3, <2>4, <2>5 DEF RegStep
<1>3. \A t \in Expiring!Threads : RegStep(t) => t = reg
  BY DEF RegStep, Expiring!Reg, Expiring!RegPut, Expiring!RegEvict, Expiring!RegEmpty, Expiring!RegSend, KeyTypes, InReg
<1> QED
  BY <1>1, <1>2, <1>3, KeySteps

\* So it is kept until somebody renews a key.
FreshInChannel == Expiring!NobodyRenewed => MapInChannel

\* The number of keys that Exprier counts with is that of the finite sets.
LEMMA KeysCardinality == ASSUME NEW S PROVE Expiring!Cardinality(S) = Cardinality(S)
BY DEF Expiring!Cardinality, Cardinality

\* The keys that the channel has are no more than its length.
LEMMA NoMoreThanChannel ==
  ASSUME NEW S, NEW q \in Seq(Uuids), \A k \in S : \E i \in 1..Len(q) : q[i] = k
  PROVE  Cardinality(S) <= Len(q) /\ IsFiniteSet(S)
<1>1. Len(q) \in Nat
  OBVIOUS
<1> DEFINE at == [k \in S |-> CHOOSE i \in 1..Len(q) : q[i] = k]
<1>2. \A k \in S : at[k] \in 1..Len(q) /\ q[at[k]] = k
  OBVIOUS
<1>3. at \in [S -> 1..Len(q)]
  BY <1>2
<1>4. at \in Injection(S, 1..Len(q))
  <2>1. \A j, k \in S : at[j] = at[k] => j = k
    BY <1>2
  <2> HIDE DEF at
  <2> QED
    BY <1>3, <2>1, Fun_IsInj
<1>5. IsFiniteSet(1..Len(q)) /\ Cardinality(1..Len(q)) = Len(q)
  BY <1>1, FS_Interval
<1> QED
  BY <1>4, <1>5, FS_Injection

\* web/Web.go Exprier: the map never has more than max keys, whoever drops and checks them
\* meanwhile.
THEOREM KeysBoundedCorrect ==
  ASSUME Expiring!ExprierAssumption, NEW reg, Registrars = {reg}
  PROVE  Expiring!Spec => []Expiring!Bounded
<1>1. Expiring!Init => KeyTypes /\ RoomInChannel /\ FreshInChannel
  <2>1. Expiring!Init => RoomInChannel
    BY EmptySeq DEF Expiring!Init, Expiring!ExprierAssumption, RoomInChannel
  <2>2. Expiring!Init => FreshInChannel
    BY DEF Expiring!Init, FreshInChannel, MapInChannel
  <2> QED
    BY <2>1, <2>2, KeyInit
<1>2. KeyTypes /\ RoomInChannel /\ FreshInChannel /\ [Expiring!Next]_(Expiring!vars)
        => (KeyTypes /\ RoomInChannel /\ FreshInChannel)'
  BY RoomNext, MapInChannelNext, KeySteps DEF FreshInChannel
<1>3. KeyTypes /\ RoomInChannel /\ FreshInChannel => Expiring!Bounded
  <2> SUFFICES ASSUME KeyTypes, RoomInChannel, FreshInChannel, Expiring!NobodyRenewed
               PROVE  Cardinality(Expiring!Present) <= max
    BY KeysCardinality DEF Expiring!Bounded
  <2>1. mc \in Seq(Uuids) /\ Len(mc) \in Nat /\ Len(mc) <= max /\ max \in Nat
    BY DEF KeyTypes, RoomInChannel, Expiring!ExprierAssumption
  <2>2. \A k \in Expiring!Present : \E i \in 1..Len(mc) : mc[i] = k
    BY DEF FreshInChannel, MapInChannel, InChannel, Expiring!Present
  <2>3. Cardinality(Expiring!Present) <= Len(mc) /\ IsFiniteSet(Expiring!Present)
    BY <2>1, <2>2, NoMoreThanChannel
  <2>4. Cardinality(Expiring!Present) \in Nat
    BY <2>3, FS_CardinalityType
  <2> QED
    BY <2>1, <2>3, <2>4
<1> QED
  BY <1>1, <1>2, <1>3, PTL DEF Expiring!Spec

\* The keys of q stand in o, whose keys differ, and in the order of o.
Sorted(q, o) ==
  /\ \A a, b \in 1..Len(o) : o[a] = o[b] => a = b
  /\ \A i \in 1..Len(q) : \E a \in 1..Len(o) : q[i] = o[a]
  /\ \A i, j \in 1..Len(q) : \A a, b \in 1..Len(o) :
       i < j /\ q[i] = o[a] /\ q[j] = o[b] => a < b

\* A key that was not in o can be appended to o.
LEMMA SortedMade ==
  ASSUME NEW q \in Seq(Uuids), NEW o \in Seq(Uuids), NEW k \in Uuids, Sorted(q, o),
         \A a \in 1..Len(o) : o[a] # k
  PROVE  Sorted(q, Append(o, k)) /\ \A i \in 1..Len(q) : q[i] # k
<1> DEFINE p == Append(o, k)
           n == Len(o)
<1>1. /\ n \in Nat /\ Len(p) = n + 1 /\ p[n + 1] = k
      /\ \A a \in 1..n : p[a] = o[a] /\ a \in 1..(n + 1)
      /\ \A a \in 1..(n + 1) : a \in 1..n \/ a = n + 1
  OBVIOUS
<1>2. \A a \in 1..n : o[a] # k
  OBVIOUS
<1>3. \A i \in 1..Len(q) : \E a \in 1..n : q[i] = o[a]
  BY DEF Sorted
<1>4. \A a, b \in 1..n : o[a] = o[b] => a = b
  BY DEF Sorted
<1>5. \A i, j \in 1..Len(q) : \A a, b \in 1..n : i < j /\ q[i] = o[a] /\ q[j] = o[b] => a < b
  BY DEF Sorted
<1>6. \A i \in 1..Len(q) : q[i] # k
  BY <1>2, <1>3
<1> HIDE DEF p, n
<1>7. \A i \in 1..Len(q) : \A a \in 1..(n + 1) : q[i] = p[a] => a \in 1..n /\ q[i] = o[a]
  BY <1>1, <1>6
<1>8. Sorted(q, p)
  <2>1. \A a, b \in 1..(n + 1) : p[a] = p[b] => a = b
    BY <1>1, <1>2, <1>4
  <2>2. \A i \in 1..Len(q) : \E a \in 1..(n + 1) : q[i] = p[a]
    BY <1>1, <1>3
  <2>3. \A i, j \in 1..Len(q) : \A a, b \in 1..(n + 1) : i < j /\ q[i] = p[a] /\ q[j] = p[b] => a < b
    BY <1>5, <1>7
  <2> QED
    BY <1>1, <2>1, <2>2, <2>3 DEF Sorted
<1> QED
  BY <1>6, <1>8 DEF p

\* The last key of o can be appended to q.
LEMMA SortedSent ==
  ASSUME NEW q \in Seq(Uuids), NEW o \in Seq(Uuids), Sorted(q, o), NEW k \in Uuids,
         Len(o) > 0, k = o[Len(o)], \A i \in 1..Len(q) : q[i] # k
  PROVE  Sorted(Append(q, k), o)
<1> DEFINE p == Append(q, k)
           n == Len(q)
<1>1. /\ n \in Nat /\ Len(p) = n + 1 /\ p[n + 1] = k
      /\ \A i \in 1..n : p[i] = q[i]
      /\ \A i \in 1..(n + 1) : i \in 1..n \/ i = n + 1
      /\ Len(o) \in Nat /\ Len(o) \in 1..Len(o)
  OBVIOUS
<1>2. \A i \in 1..n : q[i] # k
  OBVIOUS
<1> HIDE DEF p, n
<1>3. \A a \in 1..Len(o) : o[a] = k => a = Len(o)
  BY <1>1 DEF Sorted
<1>4. \A i \in 1..n : \E a \in 1..Len(o) : q[i] = o[a]
  BY DEF Sorted, n
<1>5. \A i, j \in 1..n : \A a, b \in 1..Len(o) : i < j /\ q[i] = o[a] /\ q[j] = o[b] => a < b
  BY DEF Sorted, n
<1>6. \A i \in 1..(n + 1) : \E a \in 1..Len(o) : p[i] = o[a]
  BY <1>1, <1>4
<1>7. ASSUME NEW i \in 1..(n + 1), NEW j \in 1..(n + 1), NEW a \in 1..Len(o), NEW b \in 1..Len(o),
             i < j, p[i] = o[a], p[j] = o[b]
      PROVE  a < b
  <2>1. i \in 1..n /\ p[i] = q[i]
    BY <1>1, <1>7
  <2>2. CASE j \in 1..n
    BY <1>1, <1>5, <1>7, <2>1, <2>2
  <2>3. CASE j = n + 1
    <3>1. b = Len(o)
      BY <1>1, <1>3, <1>7, <2>3
    <3>2. a # Len(o)
      BY <1>2, <1>7, <2>1
    <3> QED
      BY <1>1, <3>1, <3>2
  <2> QED
    BY <1>1, <2>2, <2>3
<1>8. Sorted(p, o)
  BY <1>1, <1>6, <1>7 DEF Sorted
<1> QED
  BY <1>8 DEF p

\* The first key of q can be taken off.
LEMMA SortedTaken ==
  ASSUME NEW q \in Seq(Uuids), NEW o \in Seq(Uuids), Sorted(q, o), q # <<>>
  PROVE  Sorted(Tail(q), o)
<1>1. Len(q) \in Nat /\ Len(q) > 0 /\ Len(Tail(q)) = Len(q) - 1
  BY HeadTailProperties
<1>2. \A i \in 1..(Len(q) - 1) : Tail(q)[i] = q[i + 1] /\ i + 1 \in 1..Len(q)
  BY <1>1, HeadTailProperties
<1>3. \A i, j \in 1..(Len(q) - 1) : i < j => i + 1 < j + 1
  BY <1>1
<1> QED
  BY <1>1, <1>2, <1>3 DEF Sorted

\* The channel has the keys in the order in which they were made; the key that waits to be
\* sent is the newest and not in it.
KeyOrder ==
  /\ Sorted(mc, order)
  /\ \A t \in Expiring!Threads : kpc[t] \in {"evict", "send", "sendOnly"} =>
       /\ Len(order) > 0 /\ key[t] = order[Len(order)]
       /\ \A i \in 1..Len(mc) : mc[i] # key[t]

\* Every step keeps that, when one goroutine registers.
LEMMA KeyOrderNext ==
  ASSUME NEW reg, Registrars = {reg}, KeyTypes, KeyOrder, [Expiring!Next]_(Expiring!vars)
  PROVE  KeyOrder'
<1>1. CASE Aside
  BY <1>1 DEF Aside, KeyOrder, InReg, KeyTypes
<1>2. ASSUME NEW t \in Expiring!Threads, t = reg, RegStep(t)
      PROVE  KeyOrder'
  <2> USE DEF Expiring!Goto
  <2>0. /\ \A u \in Expiring!Threads : kpc[u] \in InReg => u = t
        /\ DOMAIN kpc = Expiring!Threads /\ DOMAIN key = Expiring!Threads
        /\ mc \in Seq(Uuids) /\ order \in Seq(Uuids) /\ Len(mc) \in Nat /\ Len(order) \in Nat
        /\ Sorted(mc, order)
    BY <1>2 DEF KeyTypes, KeyOrder
  <2>1. ASSUME NEW k \in Uuids, Expiring!Reg(t, k)
        PROVE  KeyOrder'
    <3>1. /\ order' = Append(order, k) /\ key' = [key EXCEPT ![t] = k]
          /\ Len(order') = Len(order) + 1 /\ order'[Len(order')] = k /\ order' \in Seq(Uuids)
          /\ Len(order') > 0
      BY <2>0, <2>1 DEF Expiring!Reg
    <3>2. \A a \in 1..Len(order) : order[a] # k
      BY <2>0, <2>1 DEF Expiring!Reg, Expiring!ToSet
    <3>3. Sorted(mc, order') /\ \A i \in 1..Len(mc) : mc[i] # k
      BY <2>0, <3>1, <3>2, SortedMade
    <3>4. \A u \in Expiring!Threads : u # t => kpc'[u] \notin InReg
      BY <2>0, <2>1 DEF Expiring!Reg
    <3>5. CASE mc' = Append(mc, k) /\ kpc' = [kpc EXCEPT ![t] = "put"]
      <4>1. Sorted(Append(mc, k), order')
        BY <2>0, <3>1, <3>3, SortedSent
      <4> QED
        BY <2>0, <3>4, <3>5, <4>1 DEF KeyOrder, InReg
    <3>6. CASE mc' = mc /\ kpc' = [kpc EXCEPT ![t] = "evict"]
      BY <2>0, <3>1, <3>3, <3>4, <3>6 DEF KeyOrder, InReg
    <3> QED
      BY <2>1, <3>5, <3>6 DEF Expiring!Reg
  <2>2. CASE Expiring!RegPut(t)
    BY <2>0, <2>2 DEF Expiring!RegPut, KeyOrder, InReg
  <2>3. CASE Expiring!RegEvict(t)
    <3>1. mc # <<>> /\ mc' = Tail(mc) /\ order' = order /\ key' = key /\ kpc[t] = "evict"
      BY <2>3 DEF Expiring!RegEvict
    <3>2. Sorted(mc', order)
      BY <2>0, <3>1, SortedTaken
    <3>3. \A i \in 1..Len(mc') : mc'[i] # key[t]
      <4>1. \A i \in 1..(Len(mc) - 1) : Tail(mc)[i] = mc[i + 1] /\ i + 1 \in 1..Len(mc)
        BY <2>0, <3>1, HeadTailProperties
      <4> QED
        BY <2>0, <3>1, <4>1, HeadTailProperties DEF KeyOrder
    <3>4. \A u \in Expiring!Threads : u # t => kpc'[u] \notin InReg
      BY <2>0, <2>3 DEF Expiring!RegEvict
    <3> QED
      BY <3>1, <3>2, <3>3, <3>4 DEF KeyOrder, InReg
  <2>4. CASE Expiring!RegEmpty(t)
    BY <2>0, <2>4 DEF Expiring!RegEmpty, KeyOrder, InReg
  <2>5. CASE Expiring!RegSend(t)
    <3>1. mc' = Append(mc, key[t]) /\ order' = order /\ key[t] \in Uuids
      BY <2>5 DEF Expiring!RegSend, KeyTypes
    <3>2. Sorted(mc', order)
      BY <2>0, <2>5, <3>1, SortedSent DEF Expiring!RegSend, KeyOrder
    <3>3. \A u \in Expiring!Threads : kpc'[u] \notin {"evict", "send", "sendOnly"}
      BY <2>0, <2>5 DEF Expiring!RegSend, InReg
    <3> QED
      BY <3>1, <3>2, <3>3 DEF KeyOrder
  <2> QED
    BY <1>2, <2>1, <2>2, <2>3, <2>4, <2>5 DEF RegStep
<1>3. \A t \in Expiring!Threads : RegStep(t) => t = reg
  BY DEF RegStep, Expiring!Reg, Expiring!RegPut, Expiring!RegEvict, Expiring!RegEmpty, Expiring!RegSend, KeyTypes, InReg
<1> QED
  BY <1>1, <1>2, <1>3, KeySteps

\* web/Web.go Exprier.Reg: the key that makes room for a new one is the oldest in the map.
THEOREM OldestGoesCorrect ==
  ASSUME Expiring!ExprierAssumption, NEW reg, Registrars = {reg}
  PROVE  Expiring!Spec => Expiring!EvictsOldest
<1> DEFINE OldestGoes ==
      Expiring!NobodyRenewed' => \A k \in Expiring!Present :
        m'[k] = "none" /\ (\E t \in Registrars : kpc[t] = "evict" /\ kpc'[t] = "send") =>
          \A j \in Expiring!Present : ~Expiring!Older(j, k)
<1>1. Expiring!Init => KeyTypes /\ FreshInChannel /\ KeyOrder
  <2>1. Expiring!Init => FreshInChannel
    BY DEF Expiring!Init, FreshInChannel, MapInChannel
  <2>2. Expiring!Init => KeyOrder
    BY EmptySeq DEF Expiring!Init, KeyOrder, Sorted
  <2> QED
    BY <2>1, <2>2, KeyInit
<1>2. KeyTypes /\ FreshInChannel /\ KeyOrder /\ [Expiring!Next]_(Expiring!vars)
        => (KeyTypes /\ FreshInChannel /\ KeyOrder)'
  BY KeyOrderNext, MapInChannelNext, KeySteps DEF FreshInChannel
<1>3. KeyTypes /\ FreshInChannel /\ KeyOrder /\ [Expiring!Next]_(Expiring!vars) => [OldestGoes]_(Expiring!vars)
  <2> SUFFICES ASSUME KeyTypes, FreshInChannel, KeyOrder, Expiring!Next, Expiring!NobodyRenewed',
                      NEW k \in Expiring!Present, m'[k] = "none",
                      NEW t \in Registrars, kpc[t] = "evict", kpc'[t] = "send",
                      NEW j \in Expiring!Present, Expiring!Older(j, k)
               PROVE  FALSE
    OBVIOUS
  <2>0. t \in Expiring!Threads /\ j \in Uuids /\ k \in Uuids /\ m[j] # "none" /\ m[k] # "none"
    BY DEF Expiring!Threads, Expiring!Present
  <2>1. ~Aside
    BY <2>0 DEF Aside, InReg
  <2>2. PICK u \in Expiring!Threads : RegStep(u)
    BY <2>1, KeySteps
  <2>3. u = t
    BY <2>0, <2>2 DEF RegStep, Expiring!Reg, Expiring!RegPut, Expiring!RegEvict, Expiring!RegEmpty, Expiring!RegSend, Expiring!Goto, KeyTypes
  <2>4. Expiring!RegEvict(t)
    BY <2>0, <2>2, <2>3 DEF RegStep, Expiring!Reg, Expiring!RegPut, Expiring!RegEmpty, Expiring!RegSend, Expiring!Goto, KeyTypes
  <2>5. mc # <<>> /\ k = mc[1] /\ Len(mc) \in Nat /\ 1 \in 1..Len(mc)
    BY <2>0, <2>4, Channel DEF Expiring!RegEvict, KeyTypes
  <2>6. MapInChannel
    BY KeySteps DEF FreshInChannel
  <2>7. PICK i \in 1..Len(mc) : mc[i] = j
    BY <2>0, <2>6 DEF MapInChannel, InChannel
  <2>8. DOMAIN order = 1..Len(order) /\ Len(order) \in Nat
    BY DEF KeyTypes
  <2>9. PICK a \in 1..Len(order), b \in 1..Len(order) : order[a] = j /\ order[b] = k /\ a < b
    BY <2>8 DEF Expiring!Older
  <2>10. CASE i = 1
    BY <2>5, <2>7, <2>8, <2>9, <2>10 DEF KeyOrder, Sorted
  <2>11. CASE 1 < i
    BY <2>5, <2>7, <2>8, <2>9, <2>11 DEF KeyOrder, Sorted
  <2> QED
    BY <2>5, <2>10, <2>11
<1> QED
  BY <1>1, <1>2, <1>3, PTL DEF Expiring!Spec, Expiring!EvictsOldest

----------------------------------------------------------------------------
(* slice.Buf.  A Buf is written QBuf, and QRaw while the first Append makes *)
(* its array.                                                              *)

QRaw == {b \in [arr : Seq(Nat), len : Nat, size : Nat, isnil : BOOLEAN, hit : BOOLEAN] :
           b.len <= Len(b.arr)}
QBuf == {b \in QRaw : b.isnil => Len(b.arr) = 0}

\* s and t agree up to n; s has what t has behind k; s has d behind n.
Agree(s, t, n) == \A i \in 1..n : s[i] = t[i]
Down(s, t, k, n) == \A i \in 1..n : s[i] = t[k + i]
Behind(s, n, d) == \A i \in 1..Len(d) : s[n + i] = d[i]

\* What the first n elements are.
LEMMA FirstOf ==
  ASSUME NEW s \in Seq(Nat), NEW n \in 0..Len(s)
  PROVE  /\ Queue!First(s, n) \in Seq(Nat)
         /\ Len(Queue!First(s, n)) = n
         /\ \A i \in 1..n : Queue!First(s, n)[i] = s[i]
<1>1. \A i \in 1..n : s[i] \in Nat
  BY LenProperties, ElementOfSeq
<1> DEFINE f == SubSeq(s, 1, n)
<1>2. /\ f \in Seq(Nat)
      /\ Len(f) = IF 1 <= n THEN n - 1 + 1 ELSE 0
      /\ \A i \in 1..(n - 1 + 1) : f[i] = s[1 + i - 1]
  BY <1>1, SubSeqProperties, LenProperties
<1> QED
  BY <1>2 DEF Queue!First

\* What follows the first n elements.
LEMMA FromOf ==
  ASSUME NEW s \in Seq(Nat), NEW n \in Nat
  PROVE  /\ Queue!From(s, n) \in Seq(Nat)
         /\ Len(Queue!From(s, n)) = IF n <= Len(s) THEN Len(s) - n ELSE 0
         /\ \A i \in 1..(Len(s) - n) : Queue!From(s, n)[i] = s[n + i]
<1>0. Len(s) \in Nat
  BY LenProperties
<1>1. \A i \in (n + 1)..Len(s) : s[i] \in Nat
  BY <1>0, ElementOfSeq
<1> DEFINE f == SubSeq(s, n + 1, Len(s))
<1>2. /\ f \in Seq(Nat)
      /\ Len(f) = IF n + 1 <= Len(s) THEN Len(s) - (n + 1) + 1 ELSE 0
      /\ \A i \in 1..(Len(s) - (n + 1) + 1) : f[i] = s[n + 1 + i - 1]
  BY <1>0, <1>1, SubSeqProperties
<1> QED
  BY <1>0, <1>2 DEF Queue!From

\* What a slice s[n:k] holds.
LEMMA CutOf ==
  ASSUME NEW s \in Seq(Nat), NEW n \in Nat, NEW k \in Nat, n <= k, k <= Len(s)
  PROVE  /\ SubSeq(s, n + 1, k) \in Seq(Nat)
         /\ Len(SubSeq(s, n + 1, k)) = k - n
         /\ \A i \in 1..(k - n) : SubSeq(s, n + 1, k)[i] = s[n + i]
<1> DEFINE f == SubSeq(s, n + 1, k)
<1>0. Len(s) \in Nat
  BY LenProperties
<1>1. \A i \in (n + 1)..k : s[i] \in Nat
  BY <1>0, ElementOfSeq
<1>2. /\ f \in Seq(Nat)
      /\ Len(f) = IF n + 1 <= k THEN k - (n + 1) + 1 ELSE 0
      /\ \A i \in 1..(k - (n + 1) + 1) : f[i] = s[n + 1 + i - 1]
  BY <1>1, SubSeqProperties
<1> HIDE DEF f
<1>3. Len(f) = k - n
  BY <1>2
<1>4. ASSUME NEW i \in 1..(k - n) PROVE f[i] = s[n + i]
  <2>1. i \in 1..(k - (n + 1) + 1) /\ n + 1 + i - 1 = n + i
    OBVIOUS
  <2> QED
    BY <1>2, <2>1
<1> QED
  BY <1>2, <1>3, <1>4 DEF f

\* A new array.
LEMMA ZerosOf ==
  ASSUME NEW n \in Nat
  PROVE  Queue!Zeros(n) \in Seq(Nat) /\ Len(Queue!Zeros(n)) = n
BY DEF Queue!Zeros

\* What append joins.
LEMMA ConcatOf ==
  ASSUME NEW s \in Seq(Nat), NEW t \in Seq(Nat)
  PROVE  /\ s \o t \in Seq(Nat)
         /\ Len(s \o t) = Len(s) + Len(t)
         /\ \A i \in 1..Len(s) : (s \o t)[i] = s[i]
         /\ \A i \in 1..Len(t) : (s \o t)[Len(s) + i] = t[i]
<1> DEFINE c == s \o t
<1>1. Len(s) \in Nat /\ Len(t) \in Nat
  BY LenProperties
<1>2. /\ c \in Seq(Nat) /\ Len(c) = Len(s) + Len(t)
      /\ \A i \in 1..(Len(s) + Len(t)) : c[i] = IF i <= Len(s) THEN s[i] ELSE t[i - Len(s)]
  BY ConcatProperties
<1> HIDE DEF c
<1>3. ASSUME NEW i \in 1..Len(s) PROVE c[i] = s[i]
  BY <1>1, <1>2, <1>3
<1>4. ASSUME NEW i \in 1..Len(t) PROVE c[Len(s) + i] = t[i]
  <2>1. Len(s) + i \in 1..(Len(s) + Len(t)) /\ ~(Len(s) + i <= Len(s)) /\ Len(s) + i - Len(s) = i
    BY <1>1, <1>4
  <2> QED
    BY <1>2, <2>1
<1> QED
  BY <1>2, <1>3, <1>4 DEF c

\* append(b[:n], d...)
LEMMA AppendToOf ==
  ASSUME NEW b \in QRaw, NEW n \in 0..Len(b.arr), NEW d \in Seq(Nat),
         NEW c, c = Queue!AppendTo(b, n, d)
  PROVE  /\ c \in QBuf
         /\ Len(c.arr) >= n + Len(d) /\ Len(c.arr) >= Len(b.arr)
         /\ c.len = n + Len(d) /\ c.size = b.size /\ c.hit = b.hit
         /\ Agree(c.arr, b.arr, n)
         /\ Behind(c.arr, n, d)
<1> DEFINE all == Queue!First(b.arr, n) \o d
           cap == IF Len(all) <= Len(b.arr) THEN Len(b.arr)
                  ELSE IF Len(all) > 2 * Len(b.arr) THEN Len(all) ELSE 2 * Len(b.arr)
           old == IF cap = Len(b.arr) THEN Queue!From(b.arr, Len(all))
                  ELSE Queue!Zeros(cap - Len(all))
<1>1. b.arr \in Seq(Nat) /\ Len(b.arr) \in Nat /\ Len(d) \in Nat
  BY LenProperties DEF QBuf, QRaw
<1>2. /\ all \in Seq(Nat) /\ Len(all) = n + Len(d)
      /\ \A i \in 1..n : all[i] = b.arr[i]
      /\ \A i \in 1..Len(d) : all[n + i] = d[i]
  <2> DEFINE f == Queue!First(b.arr, n)
  <2>1. /\ f \in Seq(Nat) /\ Len(f) = n
        /\ \A i \in 1..n : f[i] = b.arr[i]
    BY <1>1, FirstOf
  <2> HIDE DEF f
  <2>2. /\ f \o d \in Seq(Nat) /\ Len(f \o d) = Len(f) + Len(d)
        /\ \A i \in 1..Len(f) : (f \o d)[i] = f[i]
        /\ \A i \in 1..Len(d) : (f \o d)[Len(f) + i] = d[i]
    BY <2>1, ConcatOf
  <2>3. all = f \o d
    BY DEF f
  <2> QED
    BY <2>1, <2>2, <2>3
<1> HIDE DEF all
<1>3. /\ cap \in Nat /\ cap >= Len(all) /\ cap >= Len(b.arr)
      /\ cap = Len(b.arr) => Len(all) <= Len(b.arr)
  BY <1>1, <1>2
<1> HIDE DEF cap
<1>4. old \in Seq(Nat) /\ Len(old) = cap - Len(all)
  <2>1. CASE cap = Len(b.arr)
    <3>1. Len(all) \in Nat /\ Len(all) <= Len(b.arr)
      BY <1>1, <1>2, <1>3, <2>1
    <3> QED
      BY <1>1, <2>1, <3>1, FromOf
  <2>2. CASE cap # Len(b.arr)
    <3>1. cap - Len(all) \in Nat
      BY <1>1, <1>2, <1>3
    <3> QED
      BY <2>2, <3>1, ZerosOf
  <2> QED
    BY <2>1, <2>2
<1>5. c = [b EXCEPT !.arr = all \o old, !.len = Len(all), !.isnil = FALSE]
  BY DEF Queue!AppendTo, all, cap
<1> HIDE DEF old
<1> DEFINE arr == all \o old
<1>6. /\ arr \in Seq(Nat) /\ Len(arr) = cap
      /\ \A i \in 1..Len(all) : arr[i] = all[i]
  <2>1. /\ arr \in Seq(Nat) /\ Len(arr) = Len(all) + Len(old)
        /\ \A i \in 1..Len(all) : arr[i] = all[i]
    BY <1>2, <1>4, ConcatOf
  <2>2. Len(all) \in Nat /\ cap \in Nat
    BY <1>1, <1>2, <1>3
  <2> HIDE DEF arr
  <2>3. Len(all) + Len(old) = cap
    BY <1>4, <2>2
  <2> QED
    BY <2>1, <2>3
<1> HIDE DEF arr
<1>7. c = [arr |-> arr, len |-> Len(all), size |-> b.size, isnil |-> FALSE, hit |-> b.hit]
  BY <1>5 DEF QBuf, QRaw, arr
<1>8. c \in QBuf /\ c.arr = arr /\ c.len = Len(all) /\ c.size = b.size /\ c.hit = b.hit
  BY <1>2, <1>3, <1>6, <1>7 DEF QBuf, QRaw
<1>9. Agree(c.arr, b.arr, n)
  BY <1>1, <1>2, <1>6, <1>8 DEF Agree
<1>10. Behind(c.arr, n, d)
  <2> SUFFICES ASSUME NEW i \in 1..Len(d) PROVE c.arr[n + i] = d[i]
    BY DEF Behind
  <2>1. n + i \in 1..Len(all)
    BY <1>1, <1>2
  <2> QED
    BY <1>2, <1>6, <1>8, <2>1
<1> QED
  BY <1>1, <1>2, <1>3, <1>6, <1>8, <1>9, <1>10

\* Changing the size of a Buf leaves the rest of it alone.
LEMMA SizedOf ==
  ASSUME NEW b \in QBuf, NEW n \in Nat, NEW c, c = [b EXCEPT !.size = n]
  PROVE  c \in QBuf /\ c.size = n /\ c.arr = b.arr /\ c.len = b.len /\ c.hit = b.hit
BY DEF QBuf, QRaw

\* resetSize
LEMMA ResetSizeOf ==
  ASSUME NEW b \in QBuf, NEW c, c = Queue!ResetSize(b)
  PROVE  /\ c \in QBuf /\ c.size = b.size /\ c.hit = b.hit
         /\ c.size <= Len(c.arr) /\ Len(c.arr) >= Len(b.arr)
         /\ Agree(c.arr, b.arr, Len(b.arr))
<1>1. b.arr \in Seq(Nat) /\ Len(b.arr) \in Nat /\ b.size \in Nat /\ b.len \in Nat
  BY LenProperties DEF QBuf, QRaw
<1>2. CASE Len(b.arr) < b.size
  <2> DEFINE n == Len(b.arr)
             k == b.size - Len(b.arr)
             d == Queue!Zeros(k)
  <2>1. n \in 0..Len(b.arr) /\ k \in Nat /\ n + k = b.size /\ n = Len(b.arr)
    BY <1>1, <1>2
  <2>2. d \in Seq(Nat) /\ Len(d) = k
    BY <2>1, ZerosOf
  <2>3. c = Queue!AppendTo(b, n, d)
    BY <1>2 DEF Queue!ResetSize
  <2> HIDE DEF d, k, n
  <2>4. /\ c \in QBuf /\ Len(c.arr) >= n + Len(d) /\ Len(c.arr) >= Len(b.arr)
        /\ c.size = b.size /\ c.hit = b.hit
        /\ Agree(c.arr, b.arr, n)
    BY <2>1, <2>2, <2>3, AppendToOf DEF QBuf
  <2> QED
    BY <2>1, <2>2, <2>4
<1>3. CASE ~(Len(b.arr) < b.size) /\ b.len < b.size
  <2>1. c = [b EXCEPT !.len = b.size]
    BY <1>3 DEF Queue!ResetSize
  <2>2. c \in QBuf /\ c.arr = b.arr /\ c.size = b.size /\ c.hit = b.hit
    BY <1>1, <1>3, <2>1 DEF QBuf, QRaw
  <2> QED
    BY <1>1, <1>3, <2>2 DEF Agree
<1>4. CASE ~(Len(b.arr) < b.size) /\ ~(b.len < b.size)
  <2>1. c = b
    BY <1>4 DEF Queue!ResetSize
  <2> QED
    BY <1>1, <1>4, <2>1 DEF Agree
<1> QED
  BY <1>2, <1>3, <1>4

\* copy within the array, and the new size
LEMMA MovedOf ==
  ASSUME NEW b \in QBuf, NEW n \in Nat, n <= b.size, b.size <= Len(b.arr),
         NEW c, c = Queue!Moved(b, n)
  PROVE  /\ c \in QBuf /\ c.size = b.size - n /\ c.hit = b.hit
         /\ c.size <= Len(c.arr)
         /\ Down(c.arr, b.arr, n, b.size - n)
<1>1. b.arr \in Seq(Nat) /\ Len(b.arr) \in Nat /\ b.size \in Nat /\ b.len \in Nat
  BY LenProperties DEF QBuf, QRaw
<1> DEFINE moved == SubSeq(b.arr, n + 1, b.size)
<1>2. /\ moved \in Seq(Nat) /\ Len(moved) = b.size - n
      /\ \A i \in 1..(b.size - n) : moved[i] = b.arr[n + i]
  BY <1>1, CutOf
<1> DEFINE old == Queue!From(b.arr, Len(moved))
<1>3. old \in Seq(Nat) /\ Len(old) = Len(b.arr) - Len(moved)
  <2>1. Len(moved) \in Nat /\ Len(moved) <= Len(b.arr)
    BY <1>1, <1>2
  <2> QED
    BY <1>1, <2>1, FromOf
<1>4. c = [b EXCEPT !.arr = moved \o old, !.size = Len(moved)]
  BY DEF Queue!Moved
<1> HIDE DEF old, moved
<1> DEFINE arr == moved \o old
<1>5. /\ arr \in Seq(Nat) /\ Len(arr) = Len(b.arr)
      /\ \A i \in 1..Len(moved) : arr[i] = moved[i]
  <2>1. /\ arr \in Seq(Nat) /\ Len(arr) = Len(moved) + Len(old)
        /\ \A i \in 1..Len(moved) : arr[i] = moved[i]
    BY <1>2, <1>3, ConcatOf
  <2>2. Len(moved) + Len(old) = Len(b.arr)
    <3>1. Len(old) = Len(b.arr) - Len(moved) /\ Len(moved) \in Int /\ Len(b.arr) \in Nat
      BY <1>1, <1>2, <1>3
    <3> QED
      BY <3>1
  <2> QED
    BY <2>1, <2>2
<1>6. c = [arr |-> arr, len |-> b.len, size |-> Len(moved), isnil |-> b.isnil, hit |-> b.hit]
  BY <1>4 DEF QBuf, QRaw
<1> HIDE DEF arr
<1>7. c \in QBuf /\ c.arr = arr /\ c.size = Len(moved) /\ c.hit = b.hit
  <2>1. /\ arr \in Seq(Nat) /\ Len(moved) \in Nat
        /\ b.isnil \in BOOLEAN /\ b.hit \in BOOLEAN /\ b.len \in Nat /\ b.len <= Len(arr)
        /\ (b.isnil => Len(arr) = 0)
    BY <1>1, <1>2, <1>5 DEF QBuf, QRaw
  <2> QED
    BY <1>6, <2>1 DEF QBuf, QRaw
<1>8. Down(c.arr, b.arr, n, b.size - n)
  BY <1>1, <1>2, <1>5, <1>7 DEF Down
<1>9. c.size = b.size - n /\ c.size <= Len(c.arr)
  BY <1>1, <1>2, <1>5, <1>7
<1> QED
  BY <1>7, <1>8, <1>9

\* RemoveFront moves what is left to the start.
LEMMA ShiftedOf ==
  ASSUME NEW b \in QBuf, b.size <= Len(b.arr), NEW n \in Nat, n <= b.size,
         NEW c, c = Queue!Shifted(b, n)
  PROVE  /\ c \in QBuf /\ c.size = b.size - n /\ c.hit = b.hit
         /\ c.size <= Len(c.arr)
         /\ Down(c.arr, b.arr, n, b.size - n)
<1>1. b.arr \in Seq(Nat) /\ Len(b.arr) \in Nat /\ b.size \in Nat
  BY LenProperties DEF QBuf, QRaw
<1>2. CASE b.size = n
  <2>1. c = [b EXCEPT !.size = 0]
    BY <1>2 DEF Queue!Shifted
  <2>2. c \in QBuf /\ c.size = 0 /\ c.arr = b.arr /\ c.hit = b.hit
    BY <2>1, SizedOf
  <2> QED
    BY <1>1, <1>2, <2>2 DEF Down
<1>3. CASE b.size # n
  <2> DEFINE e == Queue!ResetSize(b)
  <2>1. /\ e \in QBuf /\ e.size = b.size /\ e.hit = b.hit
        /\ e.size <= Len(e.arr)
        /\ Agree(e.arr, b.arr, Len(b.arr))
    BY ResetSizeOf
  <2>2. c = Queue!Moved(e, n)
    BY <1>3 DEF Queue!Shifted
  <2> HIDE DEF e
  <2>3. /\ c \in QBuf /\ c.size = e.size - n /\ c.hit = e.hit
        /\ c.size <= Len(c.arr)
        /\ Down(c.arr, e.arr, n, e.size - n)
    BY <2>1, <2>2, MovedOf
  <2>4. ASSUME NEW i \in 1..(b.size - n) PROVE c.arr[i] = b.arr[n + i]
    <3>2. i \in 1..(e.size - n)
      BY <2>1
    <3>1. n + i \in 1..Len(b.arr)
      BY <1>1
    <3> QED
      BY <2>1, <2>3, <3>1, <3>2 DEF Agree, Down
  <2> QED
    BY <2>1, <2>3, <2>4 DEF Down
<1> QED
  BY <1>2, <1>3

\* The array has room, and what was content stays unless the zero hit it.
LEMMA GrowOf ==
  ASSUME NEW b \in QBuf, b.size <= Len(b.arr), NEW c, c = Queue!Grow(b)
  PROVE  /\ c \in QBuf /\ c.size = b.size /\ c.size <= Len(c.arr)
         /\ b.hit => c.hit
         /\ ~c.hit => Agree(c.arr, b.arr, b.size)
<1>1. b.arr \in Seq(Nat) /\ Len(b.arr) \in Nat /\ b.size \in Nat /\ b.len \in Nat
      /\ b.len <= Len(b.arr) /\ b.hit \in BOOLEAN
  BY LenProperties DEF QBuf, QRaw
<1>2. CASE Len(b.arr) # b.size
  BY <1>1, <1>2 DEF Queue!Grow, Agree
<1>3. CASE Len(b.arr) = b.size
  <2> DEFINE d == <<0>>
             e == Queue!AppendTo(b, b.len, d)
  <2>1. d \in Seq(Nat) /\ Len(d) = 1
    OBVIOUS
  <2>0. b.len \in 0..Len(b.arr)
    BY <1>1
  <2> HIDE DEF d
  <2>2. /\ e \in QBuf
        /\ Len(e.arr) >= b.len + Len(d) /\ Len(e.arr) >= Len(b.arr)
        /\ e.size = b.size /\ e.hit = b.hit
        /\ Agree(e.arr, b.arr, b.len)
    BY <2>0, <2>1, AppendToOf DEF QBuf
  <2>3. c = [e EXCEPT !.len = Len(e.arr), !.hit = @ \/ b.len < b.size]
    BY <1>3 DEF Queue!Grow, d
  <2> HIDE DEF e
  <2> PICK h \in BOOLEAN : h <=> (e.hit \/ b.len < b.size)
    OBVIOUS
  <2>4. h = (e.hit \/ b.len < b.size)
    BY <2>2 DEF QBuf, QRaw
  <2>5. c = [arr |-> e.arr, len |-> Len(e.arr), size |-> e.size, isnil |-> e.isnil, hit |-> h]
    BY <2>2, <2>3, <2>4 DEF QBuf, QRaw
  <2>6. e.arr \in Seq(Nat) /\ Len(e.arr) \in Nat
    BY <2>2, LenProperties DEF QBuf, QRaw
  <2>7. c \in QBuf /\ c.arr = e.arr /\ c.size = e.size /\ c.hit = h
    BY <2>2, <2>5, <2>6 DEF QBuf, QRaw
  <2>8. ASSUME ~c.hit PROVE Agree(c.arr, b.arr, b.size)
    <3>1. ~(b.len < b.size)
      BY <2>4, <2>7, <2>8
    <3> QED
      BY <1>1, <1>3, <2>2, <2>7, <3>1 DEF Agree
  <2> QED
    BY <1>1, <1>3, <2>2, <2>4, <2>6, <2>7, <2>8
<1> QED
  BY <1>2, <1>3

\* A read writes behind the content.
LEMMA FilledOf ==
  ASSUME NEW b \in QBuf, NEW d \in Seq(Nat), b.size + Len(d) <= Len(b.arr),
         NEW c, c = Queue!Filled(b, d)
  PROVE  /\ c \in QBuf /\ c.size = b.size + Len(d) /\ c.hit = b.hit
         /\ c.size <= Len(c.arr)
         /\ Agree(c.arr, b.arr, b.size)
         /\ Behind(c.arr, b.size, d)
<1>1. /\ b.arr \in Seq(Nat) /\ Len(b.arr) \in Nat /\ b.size \in Nat /\ Len(d) \in Nat
      /\ b.len \in Nat /\ b.len <= Len(b.arr)
  BY LenProperties DEF QBuf, QRaw
<1> DEFINE s == b.size
           m1 == Len(d)
           n1 == s + m1
           f == Queue!First(b.arr, s)
           old == Queue!From(b.arr, n1)
<1>a. s \in 0..Len(b.arr) /\ n1 \in Nat /\ n1 <= Len(b.arr) /\ m1 \in Nat /\ n1 = s + m1
  BY <1>1
<1>4. c = [b EXCEPT !.arr = (f \o d) \o old, !.size = n1]
  BY DEF Queue!Filled
<1>b. s = b.size /\ m1 = Len(d)
  OBVIOUS
<1> HIDE DEF s, m1, n1
<1>2. /\ f \in Seq(Nat) /\ Len(f) = s
      /\ \A i \in 1..s : f[i] = b.arr[i]
  BY <1>1, <1>a, FirstOf
<1>3. old \in Seq(Nat) /\ Len(old) = Len(b.arr) - n1
  BY <1>1, <1>a, FromOf
<1> HIDE DEF f, old
<1> DEFINE g == f \o d
<1>5. /\ g \in Seq(Nat) /\ Len(g) = n1
      /\ \A i \in 1..s : g[i] = b.arr[i]
      /\ \A i \in 1..m1 : g[s + i] = d[i]
  <2>1. /\ g \in Seq(Nat) /\ Len(g) = Len(f) + Len(d)
        /\ \A i \in 1..Len(f) : g[i] = f[i]
        /\ \A i \in 1..Len(d) : g[Len(f) + i] = d[i]
    BY <1>2, ConcatOf
  <2> QED
    BY <1>a, <1>b, <1>2, <2>1
<1>6. c = [b EXCEPT !.arr = g \o old, !.size = n1]
  BY <1>4
<1> HIDE DEF g
<1> DEFINE arr == g \o old
<1>7. /\ arr \in Seq(Nat) /\ Len(arr) = Len(b.arr)
      /\ \A i \in 1..n1 : arr[i] = g[i]
  <2>1. /\ arr \in Seq(Nat) /\ Len(arr) = Len(g) + Len(old)
        /\ \A i \in 1..Len(g) : arr[i] = g[i]
    BY <1>3, <1>5, ConcatOf
  <2>2. Len(g) + Len(old) = Len(b.arr)
    <3>1. Len(g) = n1 /\ Len(old) = Len(b.arr) - n1 /\ n1 \in Nat /\ Len(b.arr) \in Nat
      BY <1>1, <1>a, <1>3, <1>5
    <3> QED
      BY <3>1
  <2> QED
    BY <1>5, <2>1, <2>2
<1>8. c = [arr |-> arr, len |-> b.len, size |-> n1, isnil |-> b.isnil, hit |-> b.hit]
  BY <1>6 DEF QBuf, QRaw
<1> HIDE DEF arr
<1>9. c \in QBuf /\ c.arr = arr /\ c.size = n1 /\ c.hit = b.hit
  <2>1. /\ arr \in Seq(Nat) /\ n1 \in Nat
        /\ b.isnil \in BOOLEAN /\ b.hit \in BOOLEAN /\ b.len \in Nat /\ b.len <= Len(arr)
        /\ (b.isnil => Len(arr) = 0)
    BY <1>1, <1>a, <1>7 DEF QBuf, QRaw
  <2> QED
    BY <1>8, <2>1 DEF QBuf, QRaw
<1>10. ASSUME NEW i \in 1..m1 PROVE c.arr[s + i] = d[i]
  <2>1. s + i \in 1..n1
    BY <1>a
  <2> QED
    BY <1>5, <1>7, <1>9, <2>1
<1>11. ASSUME NEW i \in 1..s PROVE c.arr[i] = b.arr[i]
  <2>1. i \in 1..n1
    BY <1>a
  <2> QED
    BY <1>5, <1>7, <1>9, <2>1
<1>12. c.size <= Len(c.arr) /\ c.size = b.size + Len(d)
  BY <1>a, <1>b, <1>7, <1>9
<1> QED
  BY <1>b, <1>9, <1>10, <1>11, <1>12 DEF Agree, Behind

\* What was given out and what is still in the queue rises, below n.
Under(s, n) == \A i \in 1..Len(s) : s[i] < n
Rises(s) == \A i, j \in 1..Len(s) : i < j => s[i] < s[j]
Before(s, t) == \A i \in 1..Len(s), j \in 1..Len(t) : s[i] < t[j]
Rise(g, w, n) == Rises(g) /\ Rises(w) /\ Before(g, w) /\ Under(g, n) /\ Under(w, n)

\* d is the numbers from n on.
Numbers(d, n) == d \in Seq(Nat) /\ \A i \in 1..Len(d) : d[i] = n + i - 1

\* More numbers behind.
LEMMA RiseMore ==
  ASSUME NEW g \in Seq(Nat), NEW w \in Seq(Nat), NEW n \in Nat, NEW k \in Nat, n <= k,
         Rise(g, w, n)
  PROVE  Rise(g, w, k)
<1>1. Len(g) \in Nat /\ Len(w) \in Nat
  BY LenProperties
<1>2. \A i \in 1..Len(g) : g[i] \in Nat
  BY ElementOfSeq
<1>3. \A i \in 1..Len(w) : w[i] \in Nat
  BY ElementOfSeq
<1>4. Under(g, k)
  BY <1>1, <1>2 DEF Rise, Under
<1>5. Under(w, k)
  BY <1>1, <1>3 DEF Rise, Under
<1> QED
  BY <1>4, <1>5 DEF Rise

\* The queue is emptied.
LEMMA RiseEmpty ==
  ASSUME NEW g, NEW w, NEW n, Rise(g, w, n)
  PROVE  Rise(g, <<>>, n)
BY DEF Rise, Rises, Before, Under

\* Numbers are appended.
LEMMA RiseAppend ==
  ASSUME NEW g \in Seq(Nat), NEW w \in Seq(Nat), NEW n \in Nat, Rise(g, w, n),
         NEW d, Numbers(d, n)
  PROVE  Rise(g, w \o d, n + Len(d))
<1>1. Len(g) \in Nat /\ Len(w) \in Nat /\ Len(d) \in Nat /\ d \in Seq(Nat)
  BY LenProperties DEF Numbers
<1>2. (\A i \in 1..Len(g) : g[i] \in Nat) /\ (\A i \in 1..Len(w) : w[i] \in Nat)
  BY ElementOfSeq
<1> DEFINE c == w \o d
<1>3. /\ c \in Seq(Nat) /\ Len(c) = Len(w) + Len(d)
      /\ \A i \in 1..Len(w) : c[i] = w[i]
      /\ \A i \in 1..Len(d) : c[Len(w) + i] = d[i]
  BY <1>1, ConcatOf
<1> HIDE DEF c
<1>4. ASSUME NEW i \in 1..Len(c), i > Len(w)
      PROVE  c[i] = n + (i - Len(w)) - 1
  <2> DEFINE j == i - Len(w)
  <2>1. j \in 1..Len(d) /\ Len(w) + j = i
    BY <1>1, <1>3, <1>4
  <2>2. d[j] = n + j - 1
    BY <2>1 DEF Numbers
  <2> QED
    BY <1>3, <2>1, <2>2
<1>5. Rises(c)
  <2> SUFFICES ASSUME NEW i \in 1..Len(c), NEW j \in 1..Len(c), i < j PROVE c[i] < c[j]
    BY DEF Rises
  <2>1. CASE j <= Len(w)
    <3>1. i \in 1..Len(w) /\ j \in 1..Len(w)
      BY <1>1, <1>3, <2>1
    <3> QED
      BY <1>3, <3>1 DEF Rise, Rises
  <2>2. CASE j > Len(w) /\ i > Len(w)
    BY <1>1, <1>4, <2>2
  <2>3. CASE j > Len(w) /\ i <= Len(w)
    <3>1. i \in 1..Len(w) /\ w[i] < n /\ w[i] \in Nat
      BY <1>1, <1>2, <1>3, <2>3 DEF Rise, Under
    <3>2. c[i] = w[i] /\ c[j] = n + (j - Len(w)) - 1
      BY <1>3, <1>4, <2>3, <3>1
    <3> QED
      BY <1>1, <2>3, <3>1, <3>2
  <2> QED
    BY <1>1, <1>3, <2>1, <2>2, <2>3
<1>6. Before(g, c)
  <2> SUFFICES ASSUME NEW i \in 1..Len(g), NEW j \in 1..Len(c) PROVE g[i] < c[j]
    BY DEF Before
  <2>1. CASE j <= Len(w)
    <3>1. j \in 1..Len(w)
      BY <1>1, <1>3, <2>1
    <3> QED
      BY <1>3, <3>1 DEF Rise, Before
  <2>2. CASE j > Len(w)
    <3>1. g[i] < n /\ g[i] \in Nat
      BY <1>2 DEF Rise, Under
    <3>2. c[j] = n + (j - Len(w)) - 1
      BY <1>4, <2>2
    <3> QED
      BY <1>1, <2>2, <3>1, <3>2
  <2> QED
    BY <1>1, <1>3, <2>1, <2>2
<1>7. Under(c, n + Len(d))
  <2> SUFFICES ASSUME NEW j \in 1..Len(c) PROVE c[j] < n + Len(d)
    BY DEF Under
  <2>1. CASE j <= Len(w)
    <3>1. j \in 1..Len(w)
      BY <1>1, <1>3, <2>1
    <3>2. c[j] = w[j] /\ w[j] < n /\ w[j] \in Nat
      BY <1>2, <1>3, <3>1 DEF Rise, Under
    <3> QED
      BY <1>1, <3>2
  <2>2. CASE j > Len(w)
    <3>1. c[j] = n + (j - Len(w)) - 1
      BY <1>4, <2>2
    <3> QED
      BY <1>1, <1>3, <2>2, <3>1
  <2> QED
    BY <1>1, <1>3, <2>1, <2>2
<1>8. Under(g, n + Len(d))
  <2>1. n + Len(d) \in Nat /\ n <= n + Len(d)
    BY <1>1
  <2> QED
    BY <2>1, RiseMore DEF Rise
<1> QED
  BY <1>5, <1>6, <1>7, <1>8 DEF Rise, c

\* A part of the queue that is cut out of it.
LEMMA RiseCut ==
  ASSUME NEW g \in Seq(Nat), NEW w \in Seq(Nat), NEW n, Rise(g, w, n),
         NEW k \in Nat, NEW v \in Seq(Nat), Len(v) + k <= Len(w),
         \A i \in 1..Len(v) : v[i] = w[k + i]
  PROVE  Rise(g, v, n)
<1>1. Len(v) \in Nat /\ Len(w) \in Nat
  BY LenProperties
<1>2. ASSUME NEW i \in 1..Len(v) PROVE v[i] = w[k + i] /\ k + i \in 1..Len(w)
  BY <1>1
<1>3. Rises(v)
  <2> SUFFICES ASSUME NEW i \in 1..Len(v), NEW j \in 1..Len(v), i < j PROVE v[i] < v[j]
    BY DEF Rises
  <2>1. k + i < k + j
    BY <1>1
  <2> QED
    BY <1>2, <2>1 DEF Rise, Rises
<1>4. Before(g, v)
  BY <1>2 DEF Rise, Before
<1>5. Under(v, n)
  BY <1>2 DEF Rise, Under
<1> QED
  BY <1>3, <1>4, <1>5 DEF Rise

\* The front of the queue is given out.
LEMMA RiseTake ==
  ASSUME NEW g \in Seq(Nat), NEW w \in Seq(Nat), NEW n, Rise(g, w, n),
         NEW d \in Seq(Nat), Len(d) <= Len(w), \A i \in 1..Len(d) : d[i] = w[i]
  PROVE  Rise(g \o d, Queue!From(w, Len(d)), n)
<1>1. Len(g) \in Nat /\ Len(w) \in Nat /\ Len(d) \in Nat
  BY LenProperties
<1> DEFINE c == g \o d
           v == Queue!From(w, Len(d))
<1>2. /\ c \in Seq(Nat) /\ Len(c) = Len(g) + Len(d)
      /\ \A i \in 1..Len(g) : c[i] = g[i]
      /\ \A i \in 1..Len(d) : c[Len(g) + i] = d[i]
  BY ConcatOf
<1>3. /\ v \in Seq(Nat) /\ Len(v) = Len(w) - Len(d)
      /\ \A i \in 1..(Len(w) - Len(d)) : v[i] = w[Len(d) + i]
  BY <1>1, FromOf
<1> HIDE DEF c, v
<1>4. ASSUME NEW i \in 1..Len(c), i > Len(g)
      PROVE  i - Len(g) \in 1..Len(w) /\ i - Len(g) <= Len(d) /\ c[i] = w[i - Len(g)]
  <2> DEFINE j == i - Len(g)
  <2>1. j \in 1..Len(d) /\ Len(g) + j = i /\ j \in 1..Len(w) /\ j <= Len(d)
    BY <1>1, <1>2, <1>4
  <2> HIDE DEF j
  <2>2. c[Len(g) + j] = d[j] /\ d[j] = w[j]
    BY <1>2, <2>1
  <2>3. c[i] = w[j]
    BY <2>1, <2>2
  <2> QED
    BY <2>1, <2>3 DEF j
<1>5. ASSUME NEW i \in 1..Len(v) PROVE v[i] = w[Len(d) + i] /\ Len(d) + i \in 1..Len(w)
  BY <1>1, <1>3
<1>6. Rises(c)
  <2> SUFFICES ASSUME NEW i \in 1..Len(c), NEW j \in 1..Len(c), i < j PROVE c[i] < c[j]
    BY DEF Rises
  <2>1. CASE j <= Len(g)
    <3>1. i \in 1..Len(g) /\ j \in 1..Len(g)
      BY <1>1, <1>2, <2>1
    <3> QED
      BY <1>2, <3>1 DEF Rise, Rises
  <2>2. CASE j > Len(g) /\ i > Len(g)
    <3> DEFINE p == i - Len(g)
               q == j - Len(g)
    <3>1. p \in 1..Len(w) /\ q \in 1..Len(w) /\ c[i] = w[p] /\ c[j] = w[q]
      BY <1>4, <2>2
    <3>2. p < q
      BY <1>1, <1>2
    <3> HIDE DEF p, q
    <3> QED
      BY <3>1, <3>2 DEF Rise, Rises
  <2>3. CASE j > Len(g) /\ i <= Len(g)
    <3>1. i \in 1..Len(g) /\ c[i] = g[i]
      BY <1>1, <1>2, <2>3
    <3>2. j - Len(g) \in 1..Len(w) /\ c[j] = w[j - Len(g)]
      BY <1>4, <2>3
    <3> QED
      BY <3>1, <3>2 DEF Rise, Before
  <2> QED
    BY <1>1, <1>2, <2>1, <2>2, <2>3
<1>7. Rises(v)
  <2> SUFFICES ASSUME NEW i \in 1..Len(v), NEW j \in 1..Len(v), i < j PROVE v[i] < v[j]
    BY DEF Rises
  <2>1. Len(d) + i < Len(d) + j
    BY <1>1, <1>3
  <2> QED
    BY <1>5, <2>1 DEF Rise, Rises
<1>8. Before(c, v)
  <2> SUFFICES ASSUME NEW i \in 1..Len(c), NEW j \in 1..Len(v) PROVE c[i] < v[j]
    BY DEF Before
  <2>0. v[j] = w[Len(d) + j] /\ Len(d) + j \in 1..Len(w)
    BY <1>5
  <2>1. CASE i <= Len(g)
    <3>1. i \in 1..Len(g) /\ c[i] = g[i]
      BY <1>1, <1>2, <2>1
    <3> QED
      BY <2>0, <3>1 DEF Rise, Before
  <2>2. CASE i > Len(g)
    <3> DEFINE p == i - Len(g)
               q == Len(d) + j
    <3>1. p \in 1..Len(w) /\ p <= Len(d) /\ c[i] = w[p]
      BY <1>4, <2>2
    <3>2. p < q
      BY <1>1, <1>3, <3>1
    <3> HIDE DEF p, q
    <3>3. q \in 1..Len(w) /\ v[j] = w[q]
      BY <2>0 DEF q
    <3> QED
      BY <3>1, <3>2, <3>3 DEF Rise, Rises
  <2> QED
    BY <1>1, <1>2, <2>1, <2>2
<1>9. Under(c, n)
  <2> SUFFICES ASSUME NEW i \in 1..Len(c) PROVE c[i] < n
    BY DEF Under
  <2>1. CASE i <= Len(g)
    <3>1. i \in 1..Len(g) /\ c[i] = g[i]
      BY <1>1, <1>2, <2>1
    <3> QED
      BY <3>1 DEF Rise, Under
  <2>2. CASE i > Len(g)
    <3>1. i - Len(g) \in 1..Len(w) /\ c[i] = w[i - Len(g)]
      BY <1>4, <2>2
    <3> QED
      BY <3>1 DEF Rise, Under
  <2> QED
    BY <1>1, <1>2, <2>1, <2>2
<1>10. Under(v, n)
  BY <1>5 DEF Rise, Under
<1> QED
  BY <1>6, <1>7, <1>8, <1>9, <1>10 DEF Rise, c, v

QHist ==
  [ops : Nat, next : Nat, snap : [t : Nat, data : Seq(Nat)], torn : BOOLEAN, resized : BOOLEAN]
QRd == [pc : {"idle", "copied"}, data : Seq(Nat)]

QTypes ==
  /\ sbuf \in QBuf /\ sbuf.size <= Len(sbuf.arr)
  /\ stamp \in Nat /\ want \in Seq(Nat) /\ got \in Seq(Nat)
  /\ rd \in [Readers -> QRd]
  /\ fill \in [kind : {"none", "count", "toEnd"}, left : Nat]
  /\ hist \in QHist /\ hist.snap.t <= stamp /\ fill.left < hist.next

\* A buffer that is filled is locked; two readers hold copies only when they overlap.
AllIdle == \A r \in Readers : rd[r].pc = "idle"
QAlone ==
  /\ fill # Queue!NoFill => AllIdle
  /\ ~hist.torn => \A r, q \in Readers : rd[r].pc = "copied" /\ rd[q].pc = "copied" => r = q

\* The content of b is w; it begins with d.
Match(b, w) == Len(w) = b.size /\ Agree(b.arr, w, b.size)
Starts(b, d) == Len(d) <= b.size /\ Agree(b.arr, d, Len(d))
QSame ==
  ~hist.torn /\ ~sbuf.hit =>
    /\ Match(sbuf, want)
    /\ stamp = hist.snap.t => Match(sbuf, hist.snap.data)
    /\ \A r \in Readers : rd[r].pc = "copied" => Starts(sbuf, rd[r].data)

QOrdered ==
  ~hist.torn /\ ~sbuf.hit /\ ~hist.resized => Rise(got, want, hist.next - fill.left)

QInv == QTypes /\ QAlone /\ QSame /\ QOrdered

\* What the content is, when it matches.
LEMMA ContentOf ==
  ASSUME NEW b \in QBuf, b.size <= Len(b.arr), NEW w \in Seq(Nat), Match(b, w)
  PROVE  Queue!First(b.arr, b.size) = w
<1>1. b.arr \in Seq(Nat) /\ Len(b.arr) \in Nat /\ b.size \in Nat
  BY LenProperties DEF QBuf, QRaw
<1>2. b.size \in 0..Len(b.arr)
  BY <1>1
<1> DEFINE f == Queue!First(b.arr, b.size)
<1>3. f \in Seq(Nat) /\ Len(f) = b.size /\ \A i \in 1..b.size : f[i] = b.arr[i]
  BY <1>1, <1>2, FirstOf
<1> HIDE DEF f
<1>4. Len(f) = Len(w) /\ \A i \in 1..Len(f) : f[i] = w[i]
  BY <1>3 DEF Match, Agree
<1>5. f = w
  BY <1>3, <1>4, SeqEqual
<1> QED
  BY <1>5 DEF f

\* The inductive invariant says what the run checks.
LEMMA QExact == QInv => Queue!QueueExact
<1> SUFFICES ASSUME QInv, ~hist.torn, ~sbuf.hit
             PROVE  /\ Queue!Content = want
                    /\ stamp = hist.snap.t => Queue!Content = hist.snap.data
                    /\ ~hist.resized => \A i, j \in DOMAIN got : i < j => got[i] < got[j]
  BY DEF Queue!QueueExact
<1>1. sbuf \in QBuf /\ sbuf.size <= Len(sbuf.arr) /\ want \in Seq(Nat) /\ hist.snap.data \in Seq(Nat)
  BY DEF QInv, QTypes, QHist
<1>2. Queue!Content = want
  <2>1. Match(sbuf, want)
    BY DEF QInv, QSame
  <2> QED
    BY <1>1, <2>1, ContentOf DEF Queue!Content
<1>3. ASSUME stamp = hist.snap.t PROVE Queue!Content = hist.snap.data
  <2>1. Match(sbuf, hist.snap.data)
    BY <1>3 DEF QInv, QSame
  <2> QED
    BY <1>1, <2>1, ContentOf DEF Queue!Content
<1>4. ASSUME ~hist.resized PROVE \A i, j \in DOMAIN got : i < j => got[i] < got[j]
  <2>1. Rises(got)
    BY <1>4 DEF QInv, QOrdered, Rise
  <2>2. DOMAIN got = 1..Len(got)
    BY LenProperties DEF QInv, QTypes
  <2> QED
    BY <2>1, <2>2 DEF Rises
<1> QED
  BY <1>2, <1>3, <1>4

\* The buffer is made.
LEMMA QInit == Queue!Init => QInv
<1> SUFFICES ASSUME Queue!Init PROVE QInv
  OBVIOUS
<1> USE DEF Queue!Init, Queue!NilBuf, Queue!NoFill
<1>1. <<>> \in Seq(Nat) /\ Len(<<>>) = 0
  BY EmptySeq
<1>2. QTypes
  <2>1. sbuf \in QBuf
    BY <1>1 DEF QBuf, QRaw
  <2>2. hist \in QHist
    BY <1>1 DEF QHist
  <2>3. rd \in [Readers -> QRd]
    BY <1>1 DEF QRd
  <2> QED
    BY <1>1, <2>1, <2>2, <2>3 DEF QTypes
<1>3. QAlone
  BY DEF QAlone
<1>4. QSame
  BY <1>1 DEF QSame, Match, Agree
<1>5. QOrdered
  BY <1>1 DEF QOrdered, Rise, Rises, Before, Under
<1> QED
  BY <1>2, <1>3, <1>4, <1>5 DEF QInv

\* The numbers that a call writes.
LEMMA FreshOf ==
  ASSUME QTypes, NEW n \in Nat
  PROVE  Numbers(Queue!Fresh(n), hist.next) /\ Len(Queue!Fresh(n)) = n
<1>1. hist.next \in Nat
  BY DEF QTypes, QHist
<1> DEFINE d == [i \in 1..n |-> hist.next + i - 1]
<1>2. \A i \in 1..n : hist.next + i - 1 \in Nat
  BY <1>1
<1>3. d \in Seq(Nat) /\ Len(d) = n /\ \A i \in 1..n : d[i] = hist.next + i - 1
  BY <1>2
<1> QED
  BY <1>3 DEF Queue!Fresh, Numbers

\* The numbers that one turn of a fill reads.
LEMMA PieceOf ==
  ASSUME QTypes, NEW n \in Nat
  PROVE  Numbers(Queue!Piece(n), hist.next - fill.left) /\ Len(Queue!Piece(n)) = n
<1> DEFINE p == hist.next - fill.left
<1>1. p \in Nat
  BY DEF QTypes, QHist
<1> DEFINE d == [i \in 1..n |-> p + i - 1]
<1>2. \A i \in 1..n : p + i - 1 \in Nat
  BY <1>1
<1> HIDE DEF p
<1>3. d \in Seq(Nat) /\ Len(d) = n /\ \A i \in 1..n : d[i] = p + i - 1
  BY <1>2
<1>4. d = Queue!Piece(n)
  BY DEF Queue!Piece, p
<1> QED
  BY <1>3, <1>4 DEF Numbers, p

\* What a call leaves of hist.
LEMMA Called ==
  ASSUME QTypes, NEW n \in Nat, Queue!Call(n)
  PROVE  /\ hist' \in QHist /\ hist'.next = hist.next + n /\ hist'.snap = hist.snap
         /\ hist'.torn = hist.torn /\ hist'.resized = hist.resized
         /\ Queue!Locked /\ fill = Queue!NoFill /\ fill.left = 0 /\ AllIdle
<1>1. hist \in QHist
  BY DEF QTypes
<1>2. hist' = [ops |-> hist.ops + 1, next |-> hist.next + n, snap |-> hist.snap,
               torn |-> hist.torn, resized |-> hist.resized]
  BY <1>1 DEF QHist, Queue!Call
<1>3. hist' \in QHist
  BY <1>1, <1>2 DEF QHist
<1> QED
  BY <1>2, <1>3 DEF Queue!Call, Queue!Locked, Queue!NoFill, AllIdle

\* A call that changes what the buffer holds, and moves the stamp.
LEMMA Changed ==
  ASSUME QInv, AllIdle, rd' = rd, stamp' = stamp + 1,
         QTypes', QOrdered',
         hist'.snap = hist.snap,
         ~hist'.torn /\ ~sbuf'.hit => Match(sbuf', want')
  PROVE  QInv'
<1>1. QAlone'
  BY DEF QAlone, AllIdle
<1>2. stamp' # hist'.snap.t
  BY DEF QInv, QTypes, QHist
<1>3. QSame'
  BY <1>2 DEF QSame, AllIdle
<1> QED
  BY <1>1, <1>3 DEF QInv

\* A step that leaves the content as it is.
LEMMA Kept ==
  ASSUME QInv, AllIdle, rd' = rd, stamp' = stamp, want' = want, QTypes', QOrdered',
         hist'.snap = hist.snap, hist'.torn = hist.torn, sbuf'.size = sbuf.size,
         ~sbuf'.hit => ~sbuf.hit /\ Agree(sbuf'.arr, sbuf.arr, sbuf.size)
  PROVE  QInv'
<1>1. QAlone'
  BY DEF QAlone, AllIdle
<1>2. ASSUME ~hist'.torn, ~sbuf'.hit, NEW w, Match(sbuf, w)
      PROVE  Match(sbuf', w)
  BY <1>2 DEF Match, Agree
<1>3. QSame'
  BY <1>2 DEF QSame, QInv, AllIdle
<1> QED
  BY <1>1, <1>3 DEF QInv

\* A call that changes nothing but hist.
LEMMA Refused ==
  ASSUME QInv, NEW n \in Nat, Queue!Call(n), UNCHANGED <<sbuf, stamp, want, got, rd, fill>>
  PROVE  QInv'
<1>1. QTypes /\ QOrdered
  BY DEF QInv
<1>2. /\ hist' \in QHist /\ hist'.next = hist.next + n /\ hist'.snap = hist.snap
      /\ hist'.torn = hist.torn /\ hist'.resized = hist.resized
      /\ fill.left = 0 /\ AllIdle
  BY <1>1, Called
<1>3. QTypes'
  BY <1>1, <1>2 DEF QTypes, QHist
<1>4. QOrdered'
  <2> SUFFICES ASSUME ~hist.torn, ~sbuf.hit, ~hist.resized
               PROVE  Rise(got, want, hist'.next - fill.left)
    BY <1>2 DEF QOrdered
  <2>1. Rise(got, want, hist.next - fill.left)
    BY <1>1 DEF QOrdered
  <2>2. hist.next - fill.left \in Nat /\ hist'.next - fill.left \in Nat
        /\ hist.next - fill.left <= hist'.next - fill.left
    BY <1>1, <1>2 DEF QTypes, QHist
  <2> QED
    BY <1>1, <2>1, <2>2, RiseMore DEF QTypes
<1>5. Agree(sbuf.arr, sbuf.arr, sbuf.size)
  BY DEF Agree
<1> QED
  BY <1>2, <1>3, <1>4, <1>5, Kept

\* A call that puts w into the buffer b, and the order that w keeps.
LEMMA Put ==
  ASSUME QInv, NEW n \in Nat, Queue!Call(n), UNCHANGED <<got, rd, fill>>,
         sbuf' \in QBuf, sbuf'.size <= Len(sbuf'.arr), sbuf'.hit = sbuf.hit,
         want' \in Seq(Nat), stamp' = stamp + 1,
         ~hist.torn /\ ~sbuf.hit => Match(sbuf', want'),
         ~hist.torn /\ ~sbuf.hit /\ ~hist.resized => Rise(got, want', hist.next + n)
  PROVE  QInv'
<1>1. QTypes /\ QOrdered
  BY DEF QInv
<1>2. /\ hist' \in QHist /\ hist'.next = hist.next + n /\ hist'.snap = hist.snap
      /\ hist'.torn = hist.torn /\ hist'.resized = hist.resized
      /\ fill.left = 0 /\ AllIdle
  BY <1>1, Called
<1>3. QTypes'
  BY <1>1, <1>2 DEF QTypes, QHist
<1>4. QOrdered'
  <2> SUFFICES ASSUME ~hist.torn, ~sbuf.hit, ~hist.resized
               PROVE  Rise(got, want', hist'.next - fill.left)
    BY <1>2 DEF QOrdered
  <2>1. hist'.next - fill.left = hist.next + n
    BY <1>1, <1>2 DEF QTypes, QHist
  <2> QED
    BY <2>1
<1> QED
  BY <1>2, <1>3, <1>4, Changed

\* The first Append makes an array.
LEMMA MadeOf ==
  ASSUME QTypes, NEW n \in Nat, NEW b, b = Queue!Made(n)
  PROVE  /\ b \in QRaw /\ b.size = sbuf.size /\ b.size <= Len(b.arr) /\ b.hit = sbuf.hit
         /\ Agree(b.arr, sbuf.arr, sbuf.size)
<1>1. sbuf \in QBuf /\ sbuf.size <= Len(sbuf.arr)
  BY DEF QTypes
<1>2. CASE sbuf.isnil
  <2>1. sbuf.size = 0
    BY <1>1, <1>2 DEF QBuf, QRaw
  <2>2. Queue!Zeros(n) \in Seq(Nat) /\ Len(Queue!Zeros(n)) = n
    BY ZerosOf
  <2> DEFINE z == Queue!Zeros(n)
  <2>3. b = [arr |-> z, len |-> n, size |-> sbuf.size, isnil |-> TRUE, hit |-> sbuf.hit]
    BY <1>1, <1>2 DEF Queue!Made, QBuf, QRaw
  <2> QED
    BY <1>1, <2>1, <2>2, <2>3 DEF QBuf, QRaw, Agree
<1>3. CASE ~sbuf.isnil
  BY <1>1, <1>3 DEF Queue!Made, Agree, QBuf, QRaw
<1> QED
  BY <1>2, <1>3

\* More is put behind what matches.
LEMMA MatchMore ==
  ASSUME NEW b \in QRaw, NEW c \in QRaw, NEW w \in Seq(Nat), NEW d \in Seq(Nat), Match(b, w),
         c.size = b.size + Len(d), Agree(c.arr, b.arr, b.size), Behind(c.arr, b.size, d)
  PROVE  Match(c, w \o d)
<1> DEFINE v == w \o d
           s == b.size
<1>1. s \in Nat /\ Len(d) \in Nat /\ Len(w) = s
  BY LenProperties DEF QRaw, Match
<1>2. /\ v \in Seq(Nat) /\ Len(v) = s + Len(d)
      /\ \A i \in 1..s : v[i] = w[i]
      /\ \A i \in 1..Len(d) : v[s + i] = d[i]
  <2>1. /\ v \in Seq(Nat) /\ Len(v) = Len(w) + Len(d)
        /\ \A i \in 1..Len(w) : v[i] = w[i]
        /\ \A i \in 1..Len(d) : v[Len(w) + i] = d[i]
    BY ConcatOf
  <2> HIDE DEF v, s
  <2> QED
    BY <1>1, <2>1
<1>3. (\A i \in 1..s : c.arr[i] = b.arr[i]) /\ (\A i \in 1..s : b.arr[i] = w[i])
      /\ (\A i \in 1..Len(d) : c.arr[s + i] = d[i]) /\ c.size = s + Len(d)
  BY DEF Agree, Behind, Match
<1> HIDE DEF v, s
<1>4. ASSUME NEW i \in 1..(s + Len(d)) PROVE c.arr[i] = v[i]
  <2>1. CASE i <= s
    <3>1. i \in 1..s
      BY <1>1, <2>1
    <3>2. c.arr[i] = b.arr[i] /\ b.arr[i] = w[i]
      BY <1>3, <3>1
    <3>3. v[i] = w[i]
      BY <1>2, <3>1
    <3> QED
      BY <3>2, <3>3
  <2>2. CASE i > s
    <3> DEFINE j == i - s
    <3>1. j \in 1..Len(d) /\ s + j = i
      BY <1>1, <2>2
    <3> HIDE DEF j
    <3>2. c.arr[s + j] = d[j] /\ v[s + j] = d[j]
      BY <1>2, <1>3, <3>1
    <3> QED
      BY <3>1, <3>2
  <2> QED
    BY <1>1, <2>1, <2>2
<1>5. Len(v) = c.size /\ Agree(c.arr, v, c.size)
  BY <1>2, <1>3, <1>4 DEF Agree
<1> QED
  BY <1>5 DEF Match, v

\* The front of what matches is taken off.
LEMMA MatchLess ==
  ASSUME NEW b \in QRaw, NEW c, NEW w \in Seq(Nat), Match(b, w), NEW n \in Nat, n <= b.size,
         c.size = b.size - n, Down(c.arr, b.arr, n, b.size - n)
  PROVE  Match(c, Queue!From(w, n)) /\ Queue!From(w, n) \in Seq(Nat)
<1> DEFINE v == Queue!From(w, n)
<1>1. b.size \in Nat /\ Len(w) = b.size
  BY DEF QRaw, Match
<1>2. v \in Seq(Nat) /\ Len(v) = b.size - n /\ \A i \in 1..(b.size - n) : v[i] = w[n + i]
  BY <1>1, FromOf
<1> HIDE DEF v
<1>3. ASSUME NEW i \in 1..c.size PROVE c.arr[i] = v[i]
  <2>1. i \in 1..(b.size - n) /\ n + i \in 1..b.size
    BY <1>1
  <2>2. c.arr[i] = b.arr[n + i] /\ b.arr[n + i] = w[n + i] /\ v[i] = w[n + i]
    BY <1>2, <2>1 DEF Down, Match, Agree
  <2> QED
    BY <2>2
<1>4. Match(c, v)
  BY <1>2, <1>3 DEF Match, Agree
<1> QED
  BY <1>2, <1>4 DEF v

\* The end of what matches is taken off.
LEMMA MatchCut ==
  ASSUME NEW b \in QRaw, NEW c, NEW w \in Seq(Nat), Match(b, w), NEW n \in Nat, n <= b.size,
         c.size = n, c.arr = b.arr
  PROVE  Match(c, Queue!First(w, n)) /\ Queue!First(w, n) \in Seq(Nat)
<1> DEFINE v == Queue!First(w, n)
<1>1. b.size \in Nat /\ Len(w) = b.size /\ n \in 0..Len(w)
  BY DEF QRaw, Match
<1>2. v \in Seq(Nat) /\ Len(v) = n /\ \A i \in 1..n : v[i] = w[i]
  BY <1>1, FirstOf
<1> HIDE DEF v
<1>3. ASSUME NEW i \in 1..n PROVE b.arr[i] = v[i]
  <2>1. i \in 1..b.size
    BY <1>1
  <2> QED
    BY <1>2, <2>1 DEF Match, Agree
<1> QED
  BY <1>2, <1>3 DEF Match, Agree, v

\* Nothing matches an empty buffer but the empty queue.
LEMMA MatchNone ==
  ASSUME NEW b, b.size = 0
  PROVE  Match(b, <<>>) /\ <<>> \in Seq(Nat)
BY EmptySeq DEF Match, Agree

\* Append
LEMMA QAppend ==
  ASSUME QInv, NEW n \in Nat, Queue!Append_(n)
  PROVE  QInv'
<1>1. Queue!Call(n) /\ QTypes /\ UNCHANGED <<got, rd, fill>>
  BY DEF Queue!Append_, QInv
<1>2. CASE Queue!OverMax(n)
  BY <1>1, <1>2, Refused DEF Queue!Append_
<1>3. CASE ~Queue!OverMax(n)
  <2> DEFINE b == Queue!Made(n)
             d == Queue!Fresh(n)
             e == Queue!AppendTo(b, sbuf.size, d)
             k == sbuf.size + n
  <2>1. sbuf' = [e EXCEPT !.size = k] /\ want' = want \o d /\ stamp' = stamp + 1
    BY <1>3 DEF Queue!Append_, Queue!Touch
  <2>2. sbuf \in QBuf /\ sbuf \in QRaw /\ sbuf.size \in Nat /\ want \in Seq(Nat) /\ got \in Seq(Nat)
        /\ hist.next \in Nat /\ fill.left = 0
    BY <1>1, Called DEF QTypes, QBuf, QRaw, QHist
  <2>3. Numbers(d, hist.next) /\ Len(d) = n
    BY <1>1, FreshOf
  <2>4. /\ b \in QRaw /\ b.size = sbuf.size /\ b.size <= Len(b.arr) /\ b.hit = sbuf.hit
        /\ Agree(b.arr, sbuf.arr, sbuf.size)
    BY <1>1, MadeOf
  <2> HIDE DEF b, d
  <2>5. d \in Seq(Nat) /\ b.size \in 0..Len(b.arr)
    BY <2>2, <2>3, <2>4, LenProperties DEF Numbers, QRaw
  <2>6. /\ e \in QBuf /\ Len(e.arr) >= sbuf.size + Len(d)
        /\ e.hit = b.hit
        /\ Agree(e.arr, b.arr, sbuf.size) /\ Behind(e.arr, sbuf.size, d)
    BY <2>4, <2>5, AppendToOf
  <2> HIDE DEF e
  <2>7. k \in Nat /\ k = sbuf.size + Len(d)
    BY <2>2, <2>3
  <2> HIDE DEF k
  <2>8. sbuf' \in QBuf /\ sbuf'.size = k /\ sbuf'.arr = e.arr /\ sbuf'.hit = e.hit
    BY <2>1, <2>6, <2>7, SizedOf
  <2>9. sbuf'.size <= Len(sbuf'.arr) /\ sbuf'.hit = sbuf.hit /\ sbuf' \in QRaw
    BY <2>4, <2>6, <2>7, <2>8 DEF QBuf
  <2>10. Agree(sbuf'.arr, sbuf.arr, sbuf.size) /\ Behind(sbuf'.arr, sbuf.size, d)
    BY <2>4, <2>6, <2>8 DEF Agree
  <2>11. ASSUME ~hist.torn, ~sbuf.hit PROVE Match(sbuf', want')
    <3>1. Match(sbuf, want)
      BY <2>11 DEF QInv, QSame
    <3> QED
      BY <2>1, <2>2, <2>5, <2>7, <2>8, <2>9, <2>10, <3>1, MatchMore
  <2>12. ASSUME ~hist.torn, ~sbuf.hit, ~hist.resized PROVE Rise(got, want', hist.next + n)
    <3>1. Rise(got, want, hist.next)
      BY <2>2, <2>12 DEF QInv, QOrdered
    <3> QED
      BY <2>1, <2>2, <2>3, <3>1, RiseAppend
  <2>13. want' \in Seq(Nat)
    BY <2>1, <2>2, <2>5, ConcatOf
  <2> QED
    BY <1>1, <2>1, <2>8, <2>9, <2>11, <2>12, <2>13, Put
<1> QED
  BY <1>2, <1>3

\* SetFrom
LEMMA QSetFrom ==
  ASSUME QInv, NEW n \in Nat, Queue!SetFrom(n)
  PROVE  QInv'
<1>1. Queue!Call(n) /\ QTypes /\ UNCHANGED <<got, rd, fill>>
  BY DEF Queue!SetFrom, QInv
<1>2. CASE Queue!OverMax(n)
  BY <1>1, <1>2, Refused DEF Queue!SetFrom
<1>3. CASE ~Queue!OverMax(n)
  <2> DEFINE b == Queue!Made(n)
             d == Queue!Fresh(n)
             e == Queue!AppendTo(b, 0, d)
  <2>1. sbuf' = [e EXCEPT !.size = n] /\ want' = d /\ stamp' = stamp + 1
    BY <1>3 DEF Queue!SetFrom, Queue!Touch
  <2>2. sbuf \in QBuf /\ want \in Seq(Nat) /\ got \in Seq(Nat)
        /\ hist.next \in Nat /\ fill.left = 0
    BY <1>1, Called DEF QTypes, QBuf, QRaw, QHist
  <2>3. Numbers(d, hist.next) /\ Len(d) = n
    BY <1>1, FreshOf
  <2>4. b \in QRaw /\ b.hit = sbuf.hit
    BY <1>1, MadeOf
  <2> HIDE DEF b, d
  <2>5. d \in Seq(Nat) /\ 0 \in 0..Len(b.arr)
    BY <2>3, <2>4, LenProperties DEF Numbers, QRaw
  <2>6. /\ e \in QBuf /\ Len(e.arr) >= 0 + Len(d)
        /\ e.hit = b.hit
        /\ Behind(e.arr, 0, d)
    BY <2>4, <2>5, AppendToOf
  <2> HIDE DEF e
  <2>8. sbuf' \in QBuf /\ sbuf'.size = n /\ sbuf'.arr = e.arr /\ sbuf'.hit = e.hit
    BY <2>1, <2>6, SizedOf
  <2>9. sbuf'.size <= Len(sbuf'.arr) /\ sbuf'.hit = sbuf.hit
    BY <2>3, <2>4, <2>6, <2>8
  <2>11. Match(sbuf', want')
    <3>1. \A i \in 1..n : e.arr[i] = d[i]
      BY <2>3, <2>6 DEF Behind
    <3> QED
      BY <2>1, <2>3, <2>8, <3>1 DEF Match, Agree
  <2>12. ASSUME ~hist.torn, ~sbuf.hit, ~hist.resized PROVE Rise(got, want', hist.next + n)
    <3>1. Rise(got, <<>>, hist.next)
      BY <2>2, <2>12, RiseEmpty DEF QInv, QOrdered
    <3>2. Rise(got, <<>> \o d, hist.next + Len(d)) /\ <<>> \in Seq(Nat)
      BY <2>2, <2>3, <3>1, RiseAppend, EmptySeq
    <3>3. <<>> \o d = d
      BY <2>5, ConcatEmptySeq
    <3> QED
      BY <2>1, <2>3, <3>2, <3>3
  <2> QED
    BY <1>1, <2>1, <2>5, <2>8, <2>9, <2>11, <2>12, Put
<1> QED
  BY <1>2, <1>3

\* A call that leaves the buffer with the numbers of its queue from k on.
LEMMA Dropped ==
  ASSUME QInv, Queue!Call(0), UNCHANGED <<got, rd, fill>>, NEW k \in Nat,
         sbuf' \in QBuf, sbuf'.size <= Len(sbuf'.arr), sbuf'.hit = sbuf.hit,
         stamp' = stamp + 1, want' \in Seq(Nat),
         ~hist.torn /\ ~sbuf.hit =>
           Match(sbuf', want') /\ Len(want') + k <= Len(want) /\ Down(want', want, k, Len(want'))
  PROVE  QInv'
<1>1. QTypes
  BY DEF QInv
<1>2. hist.next \in Nat /\ fill.left = 0 /\ 0 \in Nat
  BY <1>1, Called DEF QTypes, QHist
<1>3. ASSUME ~hist.torn, ~sbuf.hit, ~hist.resized PROVE Rise(got, want', hist.next + 0)
  <2>1. Rise(got, want, hist.next)
    BY <1>2, <1>3 DEF QInv, QOrdered
  <2>2. Rise(got, want', hist.next)
    BY <1>1, <1>3, <2>1, RiseCut DEF QTypes, Down
  <2> QED
    BY <1>2, <2>2
<1> QED
  BY <1>2, <1>3, Put

\* RemoveFront
LEMMA QRemoveFront ==
  ASSUME QInv, NEW n \in Nat, Queue!RemoveFront(n)
  PROVE  QInv'
<1>1. Queue!Call(0) /\ QTypes /\ UNCHANGED <<got, rd, fill>> /\ 0 \in Nat
  BY DEF Queue!RemoveFront, QInv
<1>2. CASE sbuf.size < n
  BY <1>1, <1>2, Refused DEF Queue!RemoveFront
<1>3. CASE ~(sbuf.size < n)
  <2>1. sbuf' = Queue!Shifted(sbuf, n) /\ want' = Queue!From(want, n) /\ stamp' = stamp + 1
    BY <1>3 DEF Queue!RemoveFront, Queue!Touch
  <2>2. sbuf \in QBuf /\ sbuf \in QRaw /\ sbuf.size \in Nat /\ n <= sbuf.size
        /\ sbuf.size <= Len(sbuf.arr) /\ want \in Seq(Nat)
    BY <1>1, <1>3 DEF QTypes, QBuf, QRaw
  <2>3. /\ sbuf' \in QBuf /\ sbuf'.size = sbuf.size - n /\ sbuf'.hit = sbuf.hit
        /\ sbuf'.size <= Len(sbuf'.arr)
        /\ Down(sbuf'.arr, sbuf.arr, n, sbuf.size - n)
    BY <2>1, <2>2, ShiftedOf
  <2>4. /\ want' \in Seq(Nat)
        /\ Len(want') = IF n <= Len(want) THEN Len(want) - n ELSE 0
        /\ \A i \in 1..(Len(want) - n) : want'[i] = want[n + i]
    BY <2>1, <2>2, FromOf
  <2>5. ASSUME ~hist.torn, ~sbuf.hit
        PROVE  /\ Match(sbuf', want') /\ Len(want') + n <= Len(want)
               /\ Down(want', want, n, Len(want'))
    <3>1. Match(sbuf, want)
      BY <2>5 DEF QInv, QSame
    <3>2. Match(sbuf', want')
      BY <2>1, <2>2, <2>3, <3>1, MatchLess
    <3>3. Len(want) = sbuf.size
      BY <3>1 DEF Match
    <3>4. Len(want') = Len(want) - n
      BY <2>2, <2>4, <3>3
    <3>5. \A i \in 1..Len(want') : want'[i] = want[n + i]
      BY <2>4, <3>4
    <3>6. Down(want', want, n, Len(want'))
      BY <3>5 DEF Down
    <3>7. Len(want') + n <= Len(want)
      BY <2>2, <3>3, <3>4
    <3> QED
      BY <3>2, <3>6, <3>7
  <2> QED
    BY <1>1, <2>1, <2>3, <2>4, <2>5, Dropped
<1> QED
  BY <1>2, <1>3

\* RemoveBack
LEMMA QRemoveBack ==
  ASSUME QInv, NEW n \in Nat, Queue!RemoveBack(n)
  PROVE  QInv'
<1>1. Queue!Call(0) /\ QTypes /\ UNCHANGED <<got, rd, fill>> /\ 0 \in Nat
  BY DEF Queue!RemoveBack, QInv
<1>2. CASE sbuf.size < n
  BY <1>1, <1>2, Refused DEF Queue!RemoveBack
<1>3. CASE ~(sbuf.size < n)
  <2> DEFINE k == sbuf.size - n
  <2>2. sbuf \in QBuf /\ sbuf \in QRaw /\ sbuf.size \in Nat /\ k \in Nat /\ k <= sbuf.size
        /\ sbuf.size <= Len(sbuf.arr) /\ want \in Seq(Nat) /\ Len(sbuf.arr) \in Nat
    BY <1>1, <1>3, LenProperties DEF QTypes, QBuf, QRaw
  <2>1. sbuf' = [sbuf EXCEPT !.size = k] /\ want' = Queue!First(want, Len(want) - n)
        /\ stamp' = stamp + 1
    BY <1>3 DEF Queue!RemoveBack, Queue!Touch
  <2> HIDE DEF k
  <2>3. sbuf' \in QBuf /\ sbuf'.size = k /\ sbuf'.arr = sbuf.arr /\ sbuf'.hit = sbuf.hit
    BY <2>1, <2>2, SizedOf
  <2>4. sbuf'.size <= Len(sbuf'.arr)
    BY <2>2, <2>3
  <2>5. want' \in Seq(Nat)
    BY <2>1, <2>2, LenProperties DEF Queue!First
  <2>6. ASSUME ~hist.torn, ~sbuf.hit
        PROVE  /\ Match(sbuf', want') /\ Len(want') + 0 <= Len(want)
               /\ Down(want', want, 0, Len(want'))
    <3>1. Match(sbuf, want)
      BY <2>6 DEF QInv, QSame
    <3>2. Len(want) = sbuf.size /\ Len(want) - n = k
      BY <3>1 DEF Match, k
    <3>3. want' = Queue!First(want, k)
      BY <2>1, <3>2
    <3>4. Match(sbuf', want')
      BY <2>2, <2>3, <3>1, <3>3, MatchCut
    <3>5. k \in 0..Len(want)
      BY <2>2, <3>2
    <3>6. Len(want') = k /\ \A i \in 1..k : want'[i] = want[i]
      BY <2>2, <3>3, <3>5, FirstOf
    <3> QED
      BY <2>2, <3>2, <3>4, <3>6 DEF Down
  <2> QED
    BY <1>1, <2>1, <2>3, <2>4, <2>5, <2>6, Dropped
<1> QED
  BY <1>2, <1>3

\* Reset
LEMMA QReset ==
  ASSUME QInv, Queue!Reset
  PROVE  QInv'
<1>1. Queue!Call(0) /\ QTypes /\ UNCHANGED <<got, rd, fill>> /\ 0 \in Nat
      /\ sbuf' = [sbuf EXCEPT !.size = 0] /\ want' = <<>> /\ stamp' = stamp + 1
  BY DEF Queue!Reset, Queue!Touch, QInv
<1>2. sbuf \in QBuf /\ want \in Seq(Nat) /\ Len(want) \in Nat /\ Len(sbuf.arr) \in Nat
  BY <1>1, LenProperties DEF QTypes, QBuf, QRaw
<1>3. sbuf' \in QBuf /\ sbuf'.size = 0 /\ sbuf'.arr = sbuf.arr /\ sbuf'.hit = sbuf.hit
  BY <1>1, <1>2, SizedOf
<1>4. Match(sbuf', want') /\ want' \in Seq(Nat) /\ Len(want') = 0
  BY <1>1, <1>3, MatchNone, EmptySeq
<1>5. Len(want') + 0 <= Len(want) /\ Down(want', want, 0, Len(want'))
  BY <1>2, <1>4 DEF Down
<1>6. sbuf'.size <= Len(sbuf'.arr)
  BY <1>2, <1>3
<1> QED
  BY <1>1, <1>3, <1>4, <1>5, <1>6, Dropped

\* Clear
LEMMA QClear ==
  ASSUME QInv, Queue!Clear
  PROVE  QInv'
<1>1. Queue!Call(0) /\ QTypes /\ UNCHANGED <<got, rd, fill>> /\ 0 \in Nat
      /\ sbuf' = [Queue!NilBuf EXCEPT !.hit = sbuf.hit] /\ want' = <<>> /\ stamp' = stamp + 1
  BY DEF Queue!Clear, Queue!Touch, QInv
<1>2. sbuf.hit \in BOOLEAN /\ want \in Seq(Nat) /\ Len(want) \in Nat
  BY <1>1, LenProperties DEF QTypes, QBuf, QRaw
<1>3. sbuf' = [arr |-> <<>>, len |-> 0, size |-> 0, isnil |-> TRUE, hit |-> sbuf.hit]
  BY <1>1 DEF Queue!NilBuf
<1>4. sbuf' \in QBuf /\ sbuf'.size = 0 /\ sbuf'.hit = sbuf.hit /\ sbuf'.size <= Len(sbuf'.arr)
  BY <1>2, <1>3, EmptySeq DEF QBuf, QRaw
<1>5. Match(sbuf', want') /\ want' \in Seq(Nat) /\ Len(want') = 0
  BY <1>1, <1>4, MatchNone, EmptySeq
<1>6. Len(want') + 0 <= Len(want) /\ Down(want', want, 0, Len(want'))
  BY <1>2, <1>5 DEF Down
<1> QED
  BY <1>1, <1>4, <1>5, <1>6, Dropped

\* SetSize and AddSize
LEMMA QSetSize ==
  ASSUME QInv, NEW n \in Nat, Queue!SetSize(n)
  PROVE  QInv'
<1> DEFINE b == [sbuf EXCEPT !.size = n]
<1>1. QTypes /\ AllIdle /\ fill = Queue!NoFill /\ UNCHANGED <<got, rd, fill>>
      /\ sbuf' = Queue!ResetSize(b) /\ want' = Queue!First(sbuf'.arr, n) /\ stamp' = stamp + 1
  BY DEF Queue!SetSize, Queue!Locked, Queue!Touch, AllIdle, QInv
<1>2. hist' = [ops |-> hist.ops + 1, next |-> hist.next, snap |-> hist.snap, torn |-> hist.torn,
               resized |-> TRUE]
  BY <1>1 DEF Queue!SetSize, QTypes, QHist
<1>3. hist' \in QHist /\ hist'.snap = hist.snap /\ hist'.next = hist.next /\ hist'.resized
  BY <1>1, <1>2 DEF QTypes, QHist
<1>4. b \in QBuf /\ b.size = n /\ b.arr = sbuf.arr
  BY <1>1, SizedOf DEF QTypes
<1> HIDE DEF b
<1>5. sbuf' \in QBuf /\ sbuf'.size = n /\ n <= Len(sbuf'.arr)
  BY <1>1, <1>4, ResetSizeOf
<1>6. n \in 0..Len(sbuf'.arr) /\ sbuf'.arr \in Seq(Nat)
  BY <1>5, LenProperties DEF QBuf, QRaw
<1>7. want' \in Seq(Nat) /\ Len(want') = n /\ \A i \in 1..n : want'[i] = sbuf'.arr[i]
  BY <1>1, <1>6, FirstOf
<1>8. Match(sbuf', want')
  BY <1>5, <1>7 DEF Match, Agree
<1>9. QTypes'
  BY <1>1, <1>3, <1>5, <1>7 DEF QTypes, QHist
<1>10. QOrdered'
  BY <1>3 DEF QOrdered
<1> QED
  BY <1>1, <1>3, <1>8, <1>9, <1>10, Changed

\* ExpandCapTo and ExpandCap
LEMMA QExpandCapTo ==
  ASSUME QInv, NEW n \in Nat, Queue!ExpandCapTo(n)
  PROVE  QInv'
<1>1. Queue!Call(0) /\ QTypes /\ QOrdered /\ UNCHANGED <<stamp, want, got, rd, fill>> /\ 0 \in Nat
  BY DEF Queue!ExpandCapTo, QInv
<1>2. CASE Len(sbuf.arr) >= n
  BY <1>1, <1>2, Refused DEF Queue!ExpandCapTo
<1>3. CASE ~(Len(sbuf.arr) >= n)
  <2> DEFINE ca == Len(sbuf.arr)
             k == n - Len(sbuf.arr)
             d == Queue!Zeros(k)
  <2>1. sbuf' = Queue!AppendTo(sbuf, ca, d)
    BY <1>3 DEF Queue!ExpandCapTo
  <2>2. sbuf \in QRaw /\ ca \in 0..Len(sbuf.arr) /\ k \in Nat /\ ca = Len(sbuf.arr)
        /\ sbuf.size <= ca /\ sbuf.size \in Nat
    BY <1>1, <1>3, LenProperties DEF QTypes, QBuf, QRaw
  <2>3. d \in Seq(Nat) /\ Len(d) = k
    BY <2>2, ZerosOf
  <2> HIDE DEF ca, k, d
  <2>4. /\ sbuf' \in QBuf /\ Len(sbuf'.arr) >= ca /\ sbuf'.size = sbuf.size /\ sbuf'.hit = sbuf.hit
        /\ Agree(sbuf'.arr, sbuf.arr, ca)
    BY <2>1, <2>2, <2>3, AppendToOf
  <2>5. sbuf'.size <= Len(sbuf'.arr) /\ Agree(sbuf'.arr, sbuf.arr, sbuf.size)
    <3>1. sbuf'.arr \in Seq(Nat) /\ Len(sbuf'.arr) \in Nat
      BY <2>4, LenProperties DEF QBuf, QRaw
    <3> QED
      BY <2>2, <2>4, <3>1 DEF Agree
  <2>6. /\ hist' \in QHist /\ hist'.next = hist.next + 0 /\ hist'.snap = hist.snap
        /\ hist'.torn = hist.torn /\ hist'.resized = hist.resized /\ AllIdle
    BY <1>1, Called
  <2>7. hist'.next = hist.next
    BY <1>1, <2>6 DEF QTypes, QHist
  <2>8. QTypes'
    BY <1>1, <2>4, <2>5, <2>6, <2>7 DEF QTypes, QHist
  <2>9. QOrdered'
    BY <1>1, <2>4, <2>6, <2>7 DEF QOrdered
  <2> QED
    BY <1>1, <2>4, <2>5, <2>6, <2>8, <2>9, Kept
<1> QED
  BY <1>2, <1>3

----------------------------------------------------------------------------
\* What the beginning of a fill leaves.
LEMMA Begun ==
  ASSUME QTypes, NEW kind \in {"count", "toEnd"}, NEW n \in Nat, Queue!FillBegin(kind, n)
  PROVE  /\ fill' \in [kind : {"none", "count", "toEnd"}, left : Nat] /\ fill'.left = n
         /\ hist' \in QHist /\ hist'.next - fill'.left = hist.next - fill.left
         /\ fill'.left < hist'.next /\ hist'.snap = hist.snap
         /\ hist'.torn = hist.torn /\ hist'.resized = hist.resized
         /\ AllIdle /\ got' = got /\ rd' = rd
<1>1. Queue!Call(n) /\ fill' = [kind |-> kind, left |-> n] /\ got' = got /\ rd' = rd
  BY DEF Queue!FillBegin
<1>2. /\ hist' \in QHist /\ hist'.next = hist.next + n /\ hist'.snap = hist.snap
      /\ hist'.torn = hist.torn /\ hist'.resized = hist.resized
      /\ fill.left = 0 /\ AllIdle
  BY <1>1, Called
<1>3. hist.next \in Nat /\ 0 < hist.next
  BY <1>2 DEF QTypes, QHist
<1> QED
  BY <1>1, <1>2, <1>3

\* ReadMoreN
LEMMA QReadMoreN ==
  ASSUME QInv, NEW n \in Nat, Queue!ReadMoreN(n)
  PROVE  QInv'
<1>1. QTypes /\ QOrdered /\ Queue!FillBegin("count", n) /\ UNCHANGED <<sbuf, stamp, want>>
  BY DEF Queue!ReadMoreN, QInv
<1>2. /\ fill' \in [kind : {"none", "count", "toEnd"}, left : Nat]
      /\ hist' \in QHist /\ hist'.next - fill'.left = hist.next - fill.left
      /\ fill'.left < hist'.next /\ hist'.snap = hist.snap
      /\ hist'.torn = hist.torn /\ hist'.resized = hist.resized
      /\ AllIdle /\ got' = got /\ rd' = rd
  BY <1>1, Begun
<1>3. QTypes'
  BY <1>1, <1>2 DEF QTypes
<1>4. QOrdered'
  BY <1>1, <1>2 DEF QOrdered
<1>5. Agree(sbuf.arr, sbuf.arr, sbuf.size)
  BY DEF Agree
<1> QED
  BY <1>1, <1>2, <1>3, <1>4, <1>5, Kept

\* ReadFrom and ReadN empty the buffer first.
LEMMA QEmptied ==
  ASSUME QInv, NEW kind \in {"count", "toEnd"}, NEW n \in Nat, Queue!FillBegin(kind, n), Queue!Emptied
  PROVE  QInv'
<1>1. QTypes /\ QOrdered /\ sbuf' = [sbuf EXCEPT !.size = 0] /\ want' = <<>> /\ stamp' = stamp + 1
  BY DEF Queue!Emptied, Queue!Touch, QInv
<1>2. /\ fill' \in [kind : {"none", "count", "toEnd"}, left : Nat]
      /\ hist' \in QHist /\ hist'.next - fill'.left = hist.next - fill.left
      /\ fill'.left < hist'.next /\ hist'.snap = hist.snap
      /\ hist'.torn = hist.torn /\ hist'.resized = hist.resized
      /\ AllIdle /\ got' = got /\ rd' = rd
  BY <1>1, Begun
<1>3. sbuf \in QBuf /\ Len(sbuf.arr) \in Nat /\ stamp \in Nat
  BY <1>1, LenProperties DEF QTypes, QBuf, QRaw
<1>4. sbuf' \in QBuf /\ sbuf'.size = 0 /\ sbuf'.arr = sbuf.arr /\ sbuf'.hit = sbuf.hit
  BY <1>1, <1>3, SizedOf
<1>5. Match(sbuf', want') /\ want' \in Seq(Nat)
  BY <1>1, <1>4, MatchNone
<1>6. QTypes'
  BY <1>1, <1>2, <1>3, <1>4, <1>5 DEF QTypes, QHist
<1>7. QOrdered'
  <2> SUFFICES ASSUME ~hist.torn, ~sbuf.hit, ~hist.resized
               PROVE  Rise(got, <<>>, hist.next - fill.left)
    BY <1>1, <1>2, <1>4 DEF QOrdered
  <2> QED
    BY <1>1, RiseEmpty DEF QOrdered
<1> QED
  BY <1>1, <1>2, <1>5, <1>6, <1>7, Changed

\* What a turn of the fill leaves, when it gives d.
LEMMA QFillTurn ==
  ASSUME QInv, NEW k \in Nat, Queue!FillTurn(k)
  PROVE  QInv'
<1> DEFINE d == Queue!Piece(k)
           b == Queue!Grow(sbuf)
           p == hist.next - fill.left
<1>1. QTypes /\ QOrdered /\ AllIdle
  BY DEF QInv, QAlone, Queue!FillTurn, Queue!NoFill
<1>2. /\ fill.left > 0 /\ k <= fill.left /\ k <= Len(b.arr) - sbuf.size
      /\ sbuf' = Queue!Filled(b, d) /\ want' = want \o d
      /\ fill' = [fill EXCEPT !.left = fill.left - k]
      /\ stamp' = IF k = 0 THEN stamp ELSE stamp + 1
      /\ got' = got /\ rd' = rd /\ hist' = hist
  BY DEF Queue!FillTurn, Queue!Touch
<1>3. Numbers(d, p) /\ Len(d) = k /\ d \in Seq(Nat)
  BY <1>1, PieceOf DEF Numbers
<1>4. /\ b \in QBuf /\ b.size = sbuf.size /\ b.size <= Len(b.arr)
      /\ sbuf.hit => b.hit
      /\ ~b.hit => Agree(b.arr, sbuf.arr, sbuf.size)
  BY <1>1, GrowOf DEF QTypes
<1> HIDE DEF d, b
<1>5. b.size + Len(d) <= Len(b.arr) /\ sbuf.size \in Nat /\ sbuf \in QRaw /\ b \in QRaw
  <2>1. sbuf.size \in Nat /\ sbuf \in QRaw /\ Len(b.arr) \in Nat /\ b \in QRaw
    BY <1>1, <1>4, LenProperties DEF QTypes, QBuf, QRaw
  <2> QED
    BY <1>2, <1>3, <1>4, <2>1
<1>6. /\ sbuf' \in QBuf /\ sbuf'.size = sbuf.size + Len(d) /\ sbuf'.hit = b.hit
      /\ sbuf'.size <= Len(sbuf'.arr)
      /\ Agree(sbuf'.arr, b.arr, sbuf.size) /\ Behind(sbuf'.arr, sbuf.size, d)
  BY <1>2, <1>3, <1>4, <1>5, FilledOf
<1>7. fill' \in [kind : {"none", "count", "toEnd"}, left : Nat] /\ fill'.left = fill.left - k
      /\ fill.left \in Nat /\ hist.next \in Nat /\ fill.left < hist.next
  <2>1. fill.left \in Nat /\ hist.next \in Nat /\ fill.left < hist.next
    BY <1>1 DEF QTypes, QHist
  <2>2. fill.left - k \in Nat
    BY <1>2, <2>1
  <2> DEFINE lf == fill.left - k
  <2>3. fill' = [kind |-> fill.kind, left |-> lf]
    BY <1>1, <1>2 DEF QTypes
  <2> HIDE DEF lf
  <2>4. fill' \in [kind : {"none", "count", "toEnd"}, left : Nat] /\ fill'.left = lf
    BY <1>1, <2>2, <2>3 DEF QTypes, lf
  <2> QED
    BY <2>1, <2>4 DEF lf
<1>8. p \in Nat /\ p + k = hist.next - fill'.left /\ fill'.left < hist.next
  <2> DEFINE x == fill.left
             y == fill'.left
             z == hist.next
  <2>1. x \in Nat /\ z \in Nat /\ x < z /\ k <= x /\ y = x - k
    BY <1>2, <1>7
  <2> HIDE DEF x, y, z
  <2>2. z - x \in Nat /\ (z - x) + k = z - y /\ y < z
    BY <2>1
  <2> QED
    BY <2>2 DEF x, y, z
<1> HIDE DEF p
<1>9. want' \in Seq(Nat) /\ stamp' \in Nat /\ hist.snap.t <= stamp'
  BY <1>1, <1>2, <1>3, ConcatOf DEF QTypes, QHist
<1>10. QTypes'
  BY <1>1, <1>2, <1>6, <1>7, <1>8, <1>9 DEF QTypes
<1>11. QOrdered'
  <2> SUFFICES ASSUME ~hist.torn, ~b.hit, ~hist.resized PROVE Rise(got, want', p + k)
    BY <1>2, <1>6, <1>8 DEF QOrdered
  <2>1. Rise(got, want, p)
    BY <1>1, <1>4 DEF QOrdered, p
  <2> QED
    BY <1>1, <1>2, <1>3, <1>8, <2>1, RiseAppend DEF QTypes
<1>12. CASE k = 0
  <2>1. Agree(sbuf'.arr, sbuf.arr, sbuf.size) \/ sbuf'.hit
    BY <1>4, <1>6 DEF Agree
  <2>2. sbuf'.size = sbuf.size
    BY <1>3, <1>5, <1>6, <1>12
  <2>3. want' = want
    <3>1. d = <<>>
      BY <1>3, <1>12, EmptySeq
    <3> QED
      BY <1>1, <1>2, <3>1, ConcatEmptySeq DEF QTypes
  <2> QED
    BY <1>1, <1>2, <1>4, <1>6, <1>10, <1>11, <1>12, <2>1, <2>2, <2>3, Kept
<1>13. CASE k # 0
  <2>1. ASSUME ~hist.torn, ~b.hit PROVE Match(sbuf', want')
    <3>1. Match(sbuf, want) /\ want \in Seq(Nat)
      BY <1>1, <1>4, <2>1 DEF QInv, QSame, QTypes
    <3>2. Agree(sbuf'.arr, sbuf.arr, sbuf.size)
      BY <1>4, <1>6, <2>1 DEF Agree
    <3>3. sbuf' \in QRaw
      BY <1>6 DEF QBuf
    <3> QED
      BY <1>2, <1>3, <1>5, <1>6, <3>1, <3>2, <3>3, MatchMore
  <2> QED
    BY <1>1, <1>2, <1>6, <1>10, <1>11, <1>13, <2>1, Changed
<1> QED
  BY <1>12, <1>13

\* The fill ends.
LEMMA QFillEnd ==
  ASSUME QInv, Queue!FillEnd
  PROVE  QInv'
<1>1. QTypes /\ QOrdered /\ AllIdle /\ UNCHANGED <<stamp, want, got, rd, hist>>
  BY DEF QInv, QAlone, Queue!FillEnd
<1>2. fill' \in [kind : {"none", "count", "toEnd"}, left : Nat] /\ fill'.left = 0
  BY DEF Queue!FillEnd, Queue!NoFill
<1>3. /\ sbuf' \in QBuf /\ sbuf'.size = sbuf.size /\ sbuf'.size <= Len(sbuf'.arr)
      /\ sbuf.hit => sbuf'.hit
      /\ ~sbuf'.hit => Agree(sbuf'.arr, sbuf.arr, sbuf.size)
  <2>1. CASE sbuf' = sbuf
    BY <1>1, <2>1 DEF QTypes, Agree
  <2>2. CASE sbuf' = Queue!Grow(sbuf)
    BY <1>1, <2>2, GrowOf DEF QTypes
  <2> QED
    BY <2>1, <2>2 DEF Queue!FillEnd
<1>4. QTypes'
  BY <1>1, <1>2, <1>3 DEF QTypes, QHist
<1>5. QOrdered'
  <2> SUFFICES ASSUME ~hist.torn, ~sbuf'.hit, ~hist.resized
               PROVE  Rise(got, want, hist.next - fill'.left)
    BY <1>1 DEF QOrdered
  <2> DEFINE p == hist.next - fill.left
             q == hist.next - fill'.left
  <2>1. Rise(got, want, p)
    BY <1>1, <1>3 DEF QOrdered
  <2>2. p \in Nat /\ q \in Nat /\ p <= q
    BY <1>1, <1>2 DEF QTypes, QHist
  <2> HIDE DEF p, q
  <2>3. Rise(got, want, q)
    BY <1>1, <2>1, <2>2, RiseMore DEF QTypes
  <2> QED
    BY <2>3 DEF q
<1> QED
  BY <1>1, <1>3, <1>4, <1>5, Kept

\* The first n elements of the content.
LEMMA FrontOf ==
  ASSUME QTypes, NEW n \in Nat, n <= sbuf.size
  PROVE  /\ Queue!First(Queue!Content, n) \in Seq(Nat)
         /\ Len(Queue!First(Queue!Content, n)) = n
         /\ Agree(sbuf.arr, Queue!First(Queue!Content, n), n)
<1>1. sbuf.arr \in Seq(Nat) /\ sbuf.size \in 0..Len(sbuf.arr) /\ sbuf.size \in Nat
  BY LenProperties DEF QTypes, QBuf, QRaw
<1> DEFINE c == Queue!Content
<1>2. c \in Seq(Nat) /\ Len(c) = sbuf.size /\ \A i \in 1..sbuf.size : c[i] = sbuf.arr[i]
  BY <1>1, FirstOf DEF Queue!Content
<1> HIDE DEF c
<1> DEFINE f == Queue!First(c, n)
<1>3. n \in 0..Len(c)
  BY <1>1, <1>2
<1>4. f \in Seq(Nat) /\ Len(f) = n /\ \A i \in 1..n : f[i] = c[i]
  BY <1>2, <1>3, FirstOf
<1> HIDE DEF f
<1>5. ASSUME NEW i \in 1..n PROVE sbuf.arr[i] = f[i]
  <2>1. i \in 1..sbuf.size
    BY <1>1
  <2> QED
    BY <1>2, <1>4, <2>1
<1> QED
  BY <1>4, <1>5 DEF Agree, f, c

\* The front of the queue d is given out, and what follows it stays.
LEMMA Given ==
  ASSUME QTypes, QOrdered, Match(sbuf, want), ~hist.torn, ~sbuf.hit, ~hist.resized,
         NEW d \in Seq(Nat), Starts(sbuf, d)
  PROVE  Rise(got \o d, Queue!From(want, Len(d)), hist.next - fill.left)
<1>1. Len(want) = sbuf.size /\ Len(d) \in Nat /\ sbuf.size \in Nat
  BY LenProperties DEF Match, QTypes, QBuf, QRaw
<1>2. ASSUME NEW i \in 1..Len(d) PROVE d[i] = want[i]
  <2>1. i \in 1..sbuf.size
    BY <1>1 DEF Starts
  <2> QED
    BY <2>1 DEF Starts, Match, Agree
<1>3. Rise(got, want, hist.next - fill.left)
  BY DEF QOrdered
<1>4. Len(d) <= Len(want)
  BY <1>1 DEF Starts
<1> QED
  BY <1>2, <1>3, <1>4, RiseTake DEF QTypes

\* WriteTo
LEMMA QWriteTo ==
  ASSUME QInv, NEW n \in Nat, Queue!WriteTo(n)
  PROVE  QInv'
<1> DEFINE d == Queue!First(Queue!Content, n)
           k == sbuf.size - n
<1>1. QTypes /\ QOrdered /\ AllIdle /\ fill = Queue!NoFill /\ n <= sbuf.size /\ UNCHANGED <<rd, fill>>
      /\ hist' = [hist EXCEPT !.ops = hist.ops + 1, !.torn = hist.torn \/ (n > 0 /\ n < sbuf.size)]
  BY DEF QInv, Queue!WriteTo, Queue!Locked, AllIdle
<1> PICK t \in BOOLEAN : t <=> (hist.torn \/ (n > 0 /\ n < sbuf.size))
  OBVIOUS
<1>2. t = (hist.torn \/ (n > 0 /\ n < sbuf.size))
  BY <1>1 DEF QTypes, QHist
<1>3. hist' = [ops |-> hist.ops + 1, next |-> hist.next, snap |-> hist.snap, torn |-> t,
               resized |-> hist.resized]
  BY <1>1, <1>2 DEF QTypes, QHist
<1>4. /\ hist' \in QHist /\ hist'.next = hist.next /\ hist'.snap = hist.snap /\ hist'.torn = t
      /\ hist'.resized = hist.resized
  BY <1>1, <1>3 DEF QTypes, QHist
<1>5. CASE n = 0
  <2>1. UNCHANGED <<sbuf, stamp, want, got>>
    BY <1>5 DEF Queue!WriteTo
  <2>2. t = hist.torn
    BY <1>1, <1>2, <1>5 DEF QTypes, QHist
  <2>3. QTypes'
    BY <1>1, <1>4, <2>1 DEF QTypes
  <2>4. QOrdered'
    BY <1>1, <1>4, <2>1, <2>2 DEF QOrdered
  <2>5. Agree(sbuf.arr, sbuf.arr, sbuf.size)
    BY DEF Agree
  <2> QED
    BY <1>1, <1>4, <2>1, <2>2, <2>3, <2>4, <2>5, Kept
<1>6. CASE n # 0
  <2>1. got' = got \o d /\ sbuf' = [sbuf EXCEPT !.size = k] /\ want' = Queue!From(want, n)
        /\ stamp' = stamp + 1
    BY <1>6 DEF Queue!WriteTo, Queue!Touch
  <2>2. d \in Seq(Nat) /\ Len(d) = n /\ Agree(sbuf.arr, d, n)
    BY <1>1, FrontOf
  <2> HIDE DEF d
  <2>3. sbuf \in QBuf /\ sbuf.size \in Nat /\ k \in Nat /\ k <= sbuf.size /\ sbuf \in QRaw
        /\ sbuf.size <= Len(sbuf.arr) /\ Len(sbuf.arr) \in Nat
    BY <1>1, LenProperties DEF QTypes, QBuf, QRaw
  <2>4. k = 0 <=> n = sbuf.size
    BY <1>1, <2>3
  <2> HIDE DEF k
  <2>5. sbuf' \in QBuf /\ sbuf'.size = k /\ sbuf'.arr = sbuf.arr /\ sbuf'.hit = sbuf.hit
    BY <2>1, <2>3, SizedOf
  <2>6. want' \in Seq(Nat) /\ got' \in Seq(Nat)
    BY <1>1, <2>1, <2>2, FromOf, ConcatOf DEF QTypes
  <2>7. QTypes'
    <3>1. sbuf'.size <= Len(sbuf'.arr)
      BY <2>3, <2>5
    <3>2. stamp' \in Nat /\ hist'.snap.t <= stamp'
      BY <1>1, <1>4, <2>1 DEF QTypes, QHist
    <3>3. fill' \in [kind : {"none", "count", "toEnd"}, left : Nat] /\ fill'.left < hist'.next
          /\ rd' \in [Readers -> QRd]
      BY <1>1, <1>4 DEF QTypes
    <3> QED
      BY <1>4, <2>5, <2>6, <3>1, <3>2, <3>3 DEF QTypes
  <2>8. ASSUME ~t PROVE n = sbuf.size /\ k = 0 /\ ~hist.torn
    BY <1>1, <1>2, <1>6, <2>3, <2>4, <2>8
  <2>9. ASSUME ~t, ~sbuf.hit PROVE Match(sbuf, want) /\ Starts(sbuf, d)
    BY <1>1, <2>2, <2>8, <2>9 DEF QInv, QSame, Starts
  <2>10. ASSUME ~t, ~sbuf.hit PROVE Match(sbuf', want')
    <3>1. Match(sbuf, want) /\ Len(want) = sbuf.size
      BY <2>9, <2>10 DEF Match
    <3>2. n = Len(want) /\ sbuf'.size = 0 /\ Len(want) \in Nat
      BY <2>3, <2>5, <2>8, <2>10, <3>1
    <3>3. Len(want') = 0
      BY <1>1, <2>1, <3>2, FromOf DEF QTypes
    <3> QED
      BY <3>2, <3>3 DEF Match, Agree
  <2>11. QOrdered'
    <3> SUFFICES ASSUME ~t, ~sbuf.hit, ~hist.resized
                 PROVE  Rise(got', want', hist.next - fill.left)
      BY <1>1, <1>4, <2>5 DEF QOrdered
    <3> QED
      BY <1>1, <2>1, <2>2, <2>8, <2>9, Given
  <2> QED
    BY <1>1, <1>4, <2>1, <2>5, <2>7, <2>10, <2>11, Changed
<1> QED
  BY <1>5, <1>6

\* Read copies.
LEMMA QReadCopy ==
  ASSUME QInv, NEW r \in Readers, NEW n \in Nat, Queue!ReadCopy(r, n)
  PROVE  QInv'
<1> DEFINE k == IF n < sbuf.size THEN n ELSE sbuf.size
           d == Queue!First(Queue!Content, k)
<1>1. QTypes /\ QOrdered /\ fill = Queue!NoFill /\ UNCHANGED <<sbuf, stamp, want, got, fill>>
      /\ rd' = [rd EXCEPT ![r] = [pc |-> "copied", data |-> d]]
      /\ hist' = [hist EXCEPT !.ops = hist.ops + 1, !.torn = hist.torn \/ ~Queue!Locked]
  BY DEF QInv, Queue!ReadCopy
<1>2. Queue!Locked <=> AllIdle
  BY <1>1 DEF Queue!Locked, AllIdle
<1> PICK t \in BOOLEAN : t <=> (hist.torn \/ ~Queue!Locked)
  OBVIOUS
<1>3. t = (hist.torn \/ ~Queue!Locked)
  BY <1>1 DEF QTypes, QHist
<1>4. hist' = [ops |-> hist.ops + 1, next |-> hist.next, snap |-> hist.snap, torn |-> t,
               resized |-> hist.resized]
  BY <1>1, <1>3 DEF QTypes, QHist
<1>5. /\ hist' \in QHist /\ hist'.next = hist.next /\ hist'.snap = hist.snap /\ hist'.torn = t
      /\ hist'.resized = hist.resized
  BY <1>1, <1>4 DEF QTypes, QHist
<1>6. ~t => ~hist.torn /\ AllIdle
  BY <1>2
<1>7. k \in Nat /\ k <= sbuf.size
  BY <1>1 DEF QTypes, QBuf, QRaw
<1> HIDE DEF k
<1>8. d \in Seq(Nat) /\ Len(d) = k /\ Agree(sbuf.arr, d, k)
  BY <1>1, <1>7, FrontOf
<1> HIDE DEF d
<1>9. /\ rd' \in [Readers -> QRd]
      /\ rd'[r].data = d /\ \A q \in Readers : q # r => rd'[q] = rd[q]
  BY <1>1, <1>8 DEF QTypes, QRd
<1>10. QTypes'
  BY <1>1, <1>5, <1>9 DEF QTypes
<1>11. QAlone'
  BY <1>1, <1>5, <1>6, <1>9 DEF QAlone, AllIdle
<1>12. QSame'
  <2> SUFFICES ASSUME ~t, ~sbuf.hit
               PROVE  /\ Match(sbuf, want)
                      /\ stamp = hist.snap.t => Match(sbuf, hist.snap.data)
                      /\ \A q \in Readers : rd'[q].pc = "copied" => Starts(sbuf, rd'[q].data)
    BY <1>1, <1>5 DEF QSame
  <2>1. Starts(sbuf, d)
    BY <1>7, <1>8 DEF Starts
  <2>2. \A q \in Readers : q # r => rd'[q].pc = "idle"
    BY <1>6, <1>9 DEF AllIdle
  <2> QED
    BY <1>6, <1>9, <2>1, <2>2 DEF QInv, QSame
<1>13. QOrdered'
  BY <1>1, <1>5, <1>6 DEF QOrdered
<1> QED
  BY <1>10, <1>11, <1>12, <1>13 DEF QInv

\* Read removes what it copied.
LEMMA QReadRemove ==
  ASSUME QInv, NEW r \in Readers, Queue!ReadRemove(r)
  PROVE  QInv'
<1> DEFINE d == rd[r].data
           n == Len(d)
<1>1. QTypes /\ QOrdered /\ rd[r].pc = "copied" /\ got' = got \o d
      /\ rd' = [rd EXCEPT ![r].pc = "idle"] /\ UNCHANGED <<fill, hist>>
      /\ \/ sbuf.size < n /\ UNCHANGED <<sbuf, stamp, want>>
         \/ /\ ~(sbuf.size < n)
            /\ sbuf' = Queue!Shifted(sbuf, n) /\ want' = Queue!From(want, n) /\ stamp' = stamp + 1
  BY DEF QInv, Queue!ReadRemove, Queue!Touch
<1>2. fill = Queue!NoFill
  BY <1>1 DEF QInv, QAlone, AllIdle
<1>3. d \in Seq(Nat) /\ n \in Nat /\ sbuf \in QBuf /\ sbuf \in QRaw /\ sbuf.size <= Len(sbuf.arr)
      /\ sbuf.size \in Nat
  BY <1>1, LenProperties DEF QTypes, QRd, QBuf, QRaw
<1>4. rd' \in [Readers -> QRd] /\ rd'[r].pc = "idle" /\ \A q \in Readers : q # r => rd'[q] = rd[q]
  BY <1>1 DEF QTypes, QRd
<1> HIDE DEF d, n
<1>5. got' \in Seq(Nat)
  BY <1>1, <1>3, ConcatOf DEF QTypes
<1>6. ASSUME ~(sbuf.size < n)
      PROVE  /\ sbuf' \in QBuf /\ sbuf'.size = sbuf.size - n /\ sbuf'.hit = sbuf.hit
             /\ sbuf'.size <= Len(sbuf'.arr)
             /\ Down(sbuf'.arr, sbuf.arr, n, sbuf.size - n)
             /\ want' \in Seq(Nat) /\ want' = Queue!From(want, n) /\ stamp' = stamp + 1
  <2>1. sbuf' = Queue!Shifted(sbuf, n) /\ want' = Queue!From(want, n) /\ stamp' = stamp + 1
    BY <1>1, <1>6
  <2>2. n <= sbuf.size
    BY <1>3, <1>6
  <2>3. want' \in Seq(Nat)
    BY <1>1, <1>3, <2>1, FromOf DEF QTypes
  <2> QED
    BY <1>3, <2>1, <2>2, <2>3, ShiftedOf
<1>7. QTypes'
  <2>1. CASE sbuf.size < n
    BY <1>1, <1>4, <1>5, <2>1 DEF QTypes
  <2>2. CASE ~(sbuf.size < n)
    BY <1>1, <1>4, <1>5, <1>6, <2>2 DEF QTypes, QHist
  <2> QED
    BY <2>1, <2>2
<1>8. QAlone'
  BY <1>1, <1>2, <1>4 DEF QInv, QAlone
<1>9. ASSUME ~hist.torn PROVE \A q \in Readers : rd'[q].pc # "copied"
  <2> SUFFICES ASSUME NEW q \in Readers, rd'[q].pc = "copied" PROVE FALSE
    OBVIOUS
  <2>1. q # r /\ rd[q].pc = "copied"
    BY <1>4
  <2> QED
    BY <1>1, <1>9, <2>1 DEF QInv, QAlone
<1>10. ASSUME ~hist.torn, ~(sbuf'.hit)
       PROVE  Match(sbuf, want) /\ Starts(sbuf, d) /\ ~(sbuf.size < n) /\ ~sbuf.hit
  <2>1. ~sbuf.hit
    BY <1>1, <1>6, <1>10
  <2>2. Match(sbuf, want) /\ Starts(sbuf, d)
    BY <1>1, <1>10, <2>1 DEF QInv, QSame, d
  <2> QED
    BY <1>3, <2>1, <2>2 DEF Starts, n
<1>11. QSame'
  <2> SUFFICES ASSUME ~hist.torn, ~(sbuf'.hit)
               PROVE  Match(sbuf', want') /\ stamp' # hist.snap.t
    BY <1>1, <1>9 DEF QSame
  <2>1. Match(sbuf, want) /\ ~(sbuf.size < n)
    BY <1>10
  <2>2. n <= sbuf.size
    BY <1>3, <2>1
  <2>3. Match(sbuf', want')
    BY <1>1, <1>3, <1>6, <2>1, <2>2, MatchLess DEF QTypes
  <2>4. stamp' # hist.snap.t
    BY <1>1, <1>6, <2>1 DEF QTypes, QHist
  <2> QED
    BY <2>3, <2>4
<1>12. QOrdered'
  <2> SUFFICES ASSUME ~hist.torn, ~(sbuf'.hit), ~hist.resized
               PROVE  Rise(got', want', hist.next - fill.left)
    BY <1>1 DEF QOrdered
  <2>1. Match(sbuf, want) /\ Starts(sbuf, d) /\ ~(sbuf.size < n) /\ ~sbuf.hit
    BY <1>10
  <2>2. Rise(got \o d, Queue!From(want, Len(d)), hist.next - fill.left)
    BY <1>1, <1>3, <2>1, Given
  <2> QED
    BY <1>1, <1>6, <2>1, <2>2 DEF n
<1> QED
  BY <1>7, <1>8, <1>11, <1>12 DEF QInv

\* GetModified
LEMMA QGetModified ==
  ASSUME QInv, Queue!GetModified
  PROVE  QInv'
<1> DEFINE c == Queue!First(sbuf.arr, sbuf.size)
<1>1. QTypes /\ QOrdered /\ AllIdle /\ UNCHANGED <<sbuf, stamp, want, got, rd, fill>>
      /\ hist' = [hist EXCEPT !.snap = [t |-> stamp, data |-> c]]
  BY DEF QInv, Queue!GetModified, Queue!Locked, AllIdle, Queue!Content
<1>2. sbuf.arr \in Seq(Nat) /\ sbuf.size \in 0..Len(sbuf.arr)
  BY <1>1, LenProperties DEF QTypes, QBuf, QRaw
<1>3. c \in Seq(Nat) /\ Len(c) = sbuf.size /\ \A i \in 1..sbuf.size : c[i] = sbuf.arr[i]
  BY <1>2, FirstOf
<1> HIDE DEF c
<1>4. /\ hist' \in QHist /\ hist'.next = hist.next /\ hist'.torn = hist.torn
      /\ hist'.resized = hist.resized /\ hist'.snap.t = stamp /\ hist'.snap.data = c
  BY <1>1, <1>3 DEF QTypes, QHist
<1>5. QTypes'
  BY <1>1, <1>4 DEF QTypes
<1>6. QAlone'
  BY <1>1, <1>4 DEF QInv, QAlone, AllIdle
<1>7. Match(sbuf, c)
  BY <1>3 DEF Match, Agree
<1>8. QSame'
  BY <1>1, <1>4, <1>7 DEF QInv, QSame
<1>9. QOrdered'
  BY <1>1, <1>4 DEF QOrdered
<1> QED
  BY <1>5, <1>6, <1>8, <1>9 DEF QInv

\* Every step of a Buf keeps the invariant.
LEMMA QNext ==
  ASSUME QInv, [Queue!Next]_(Queue!vars)
  PROVE  QInv'
<1>1. CASE UNCHANGED Queue!vars
  BY <1>1 DEF Queue!vars, QInv, QTypes, QAlone, AllIdle, QSame, QOrdered
<1>2. CASE Queue!Next
  <2>1. 1..MaxPiece \subseteq Nat /\ 0..MaxPiece \subseteq Nat
    BY BoundsAssumptions DEF Queue!SliceBufAssumption
  <2>2. ASSUME NEW n \in Nat,
               \/ Queue!Append_(n) \/ Queue!SetFrom(n) \/ Queue!RemoveFront(n)
               \/ Queue!RemoveBack(n) \/ Queue!SetSize(n) \/ Queue!ExpandCapTo(n)
        PROVE  QInv'
    BY <2>2, QAppend, QSetFrom, QRemoveFront, QRemoveBack, QSetSize, QExpandCapTo
  <2>3. ASSUME NEW n \in Nat, Queue!ReadFrom(n) \/ Queue!ReadMoreN(n) \/ Queue!ReadN(n)
        PROVE  QInv'
    BY <2>3, QReadMoreN, QEmptied DEF Queue!ReadFrom, Queue!ReadN
  <2>4. ASSUME NEW n \in Nat, NEW r \in Readers, Queue!ReadCopy(r, n) \/ Queue!ReadRemove(r)
        PROVE  QInv'
    BY <2>4, QReadCopy, QReadRemove
  <2>5. ASSUME NEW n \in Nat, Queue!WriteTo(n) \/ Queue!FillTurn(n)
        PROVE  QInv'
    BY <2>5, QWriteTo, QFillTurn
  <2>6. ASSUME Queue!FillEnd \/ Queue!Reset \/ Queue!Clear \/ Queue!GetModified
        PROVE  QInv'
    BY <2>6, QFillEnd, QReset, QClear, QGetModified
  <2>7. CASE \E n \in 1..MaxPiece :
               \/ Queue!Append_(n) \/ Queue!SetFrom(n) \/ Queue!RemoveFront(n)
               \/ Queue!RemoveBack(n) \/ Queue!SetSize(n) \/ Queue!ExpandCapTo(n)
               \/ Queue!ReadFrom(n) \/ Queue!ReadMoreN(n) \/ Queue!ReadN(n)
               \/ \E r \in Readers : Queue!ReadCopy(r, n)
    <3> PICK n \in 1..MaxPiece :
               \/ Queue!Append_(n) \/ Queue!SetFrom(n) \/ Queue!RemoveFront(n)
               \/ Queue!RemoveBack(n) \/ Queue!SetSize(n) \/ Queue!ExpandCapTo(n)
               \/ Queue!ReadFrom(n) \/ Queue!ReadMoreN(n) \/ Queue!ReadN(n)
               \/ \E r \in Readers : Queue!ReadCopy(r, n)
      BY <2>7
    <3>1. n \in Nat
      BY <2>1
    <3> QED
      BY <2>2, <2>3, <2>4, <3>1
  <2>8. CASE \E n \in 0..MaxPiece : Queue!WriteTo(n) \/ Queue!FillTurn(n)
    BY <2>1, <2>5, <2>8
  <2>9. CASE \E r \in Readers : Queue!ReadRemove(r)
    BY <2>4, <2>9
  <2> QED
    BY <1>2, <2>6, <2>7, <2>8, <2>9 DEF Queue!Next
<1> QED
  BY <1>1, <1>2

\* slice/Slice.go Buf: the content is the queue that the calls describe, an unmodified stamp stands
\* for the same content, and what was given out is in order and comes once.
THEOREM QueueExactCorrect == Queue!Spec => []Queue!QueueExact
<1> QED
  BY QInit, QNext, QExact, PTL DEF Queue!Spec

----------------------------------------------------------------------------
(* The copies of package io.                                               *)

\* s is the bytes behind the a-th.
Run(s, a) == s \in Seq(Nat) /\ \A i \in 1..Len(s) : s[i] = a + i

\* No bytes at all.
LEMMA RunNone == ASSUME NEW a PROVE Run(<<>>, a) /\ Len(<<>>) = 0
BY EmptySeq DEF Run

\* The bytes of a reader are those behind the 0th.
LEMMA RunBytes ==
  ASSUME NEW n \in Nat
  PROVE  Run(Copy!Bytes(n), 0) /\ Len(Copy!Bytes(n)) = n
BY DEF Run, Copy!Bytes

\* Bytes from one place on are known by their number.
LEMMA RunSame ==
  ASSUME NEW s, NEW t, NEW a, Run(s, a), Run(t, a), Len(s) = Len(t)
  PROVE  s = t
BY SeqEqual DEF Run

\* The bytes that a read gives.
LEMMA RunPrefix ==
  ASSUME NEW s, NEW a, Run(s, a), NEW n \in Nat, n <= Len(s)
  PROVE  Run(Copy!Prefix(s, n), a) /\ Len(Copy!Prefix(s, n)) = n
<1>1. s \in Seq(Nat) /\ Len(s) \in Nat
  BY LenProperties DEF Run
<1>2. Copy!LowOf(n, Len(s)) = n
  BY <1>1 DEF Copy!LowOf
<1> DEFINE p == SubSeq(s, 0 + 1, n)
<1>3. /\ p \in Seq(Nat) /\ Len(p) = n - 0
      /\ \A i \in 1..(n - 0) : p[i] = s[0 + i]
  BY <1>1, CutOf
<1>4. p = Copy!Prefix(s, n)
  BY <1>2 DEF Copy!Prefix
<1> HIDE DEF p
<1>5. Len(p) = n /\ \A i \in 1..n : p[i] = a + i
  BY <1>1, <1>3 DEF Run
<1> QED
  BY <1>3, <1>4, <1>5 DEF Run

\* The bytes that a read leaves.
LEMMA RunTail ==
  ASSUME NEW s, NEW a \in Nat, Run(s, a), NEW n \in Nat, n <= Len(s)
  PROVE  Run(Copy!Tail1(s, n), a + n) /\ Len(Copy!Tail1(s, n)) = Len(s) - n
<1>1. s \in Seq(Nat) /\ Len(s) \in Nat
  BY LenProperties DEF Run
<1> DEFINE p == SubSeq(s, n + 1, Len(s))
           k == Len(s)
<1>2. k \in Nat /\ n <= k /\ k <= Len(s)
  BY <1>1
<1> HIDE DEF k
<1> DEFINE q == SubSeq(s, n + 1, k)
<1>3. /\ q \in Seq(Nat) /\ Len(q) = k - n
      /\ \A i \in 1..(k - n) : q[i] = s[n + i]
  BY <1>1, <1>2, CutOf
<1>4. q = Copy!Tail1(s, n)
  BY DEF Copy!Tail1, k
<1> HIDE DEF q
<1>5. ASSUME NEW i \in 1..Len(q) PROVE q[i] = (a + n) + i
  <2>1. n + i \in 1..Len(s) /\ i \in 1..(k - n)
    BY <1>2, <1>3
  <2>2. q[i] = s[n + i] /\ s[n + i] = a + (n + i)
    BY <1>3, <2>1 DEF Run
  <2> QED
    BY <2>1, <2>2
<1> QED
  BY <1>3, <1>4, <1>5 DEF Run, k

\* A seek beyond the end leaves none.
LEMMA RunTailNone ==
  ASSUME NEW s, NEW a \in Nat, Run(s, a), NEW n \in Nat, Len(s) <= n
  PROVE  Copy!Tail1(s, n) = <<>>
<1>1. s \in Seq(Nat) /\ Len(s) \in Nat
  BY LenProperties DEF Run
<1> QED
  BY <1>1, SubSeqEmpty DEF Copy!Tail1

\* Bytes written behind those that they follow.
LEMMA RunConcat ==
  ASSUME NEW s, NEW t, NEW a \in Nat, Run(s, a), Run(t, a + Len(s))
  PROVE  Run(s \o t, a) /\ Len(s \o t) = Len(s) + Len(t)
<1>1. s \in Seq(Nat) /\ Len(s) \in Nat /\ t \in Seq(Nat) /\ Len(t) \in Nat
  BY LenProperties DEF Run
<1> DEFINE p == s \o t
<1>2. /\ p \in Seq(Nat) /\ Len(p) = Len(s) + Len(t)
      /\ \A i \in 1..Len(s) : p[i] = s[i]
      /\ \A i \in 1..Len(t) : p[Len(s) + i] = t[i]
  BY <1>1, ConcatOf
<1> HIDE DEF p
<1>3. ASSUME NEW i \in 1..Len(p) PROVE p[i] = a + i
  <2>1. CASE i <= Len(s)
    <3>1. i \in 1..Len(s)
      BY <1>1, <1>2, <2>1
    <3> QED
      BY <1>2, <3>1 DEF Run
  <2>2. CASE i > Len(s)
    <3> DEFINE j == i - Len(s)
    <3>1. j \in 1..Len(t) /\ Len(s) + j = i
      BY <1>1, <1>2, <2>2
    <3> HIDE DEF j
    <3>2. p[Len(s) + j] = t[j] /\ t[j] = (a + Len(s)) + j
      BY <1>2, <3>1 DEF Run
    <3>3. (a + Len(s)) + j = a + i
      <4> DEFINE x == Len(s)
      <4>1. x \in Nat /\ j \in Int /\ i = x + j
        BY <1>1, <3>1
      <4> HIDE DEF x
      <4>2. (a + x) + j = a + i
        BY <4>1
      <4> QED
        BY <4>2 DEF x
    <3> QED
      BY <3>1, <3>2, <3>3
  <2> QED
    BY <1>1, <1>2, <2>1, <2>2
<1> QED
  BY <1>2, <1>3 DEF Run, p

\* Fewer bytes from the same place on are a prefix.
LEMMA RunIsPrefix ==
  ASSUME NEW s, NEW t, NEW a \in Nat, Run(s, a), Run(t, a), Len(s) <= Len(t)
  PROVE  Copy!IsPrefix(s, t)
<1>1. s \in Seq(Nat) /\ Len(s) \in Nat /\ t \in Seq(Nat) /\ Len(t) \in Nat
  BY LenProperties DEF Run
<1> DEFINE p == Copy!Prefix(s, Len(s))
           q == Copy!Prefix(t, Len(s))
<1>2. Run(p, a) /\ Len(p) = Len(s)
  BY <1>1, RunPrefix
<1>3. Run(q, a) /\ Len(q) = Len(s)
  BY <1>1, RunPrefix
<1>4. p = q
  BY <1>2, <1>3, RunSame
<1>5. p = SubSeq(s, 1, Len(s)) /\ q = SubSeq(t, 1, Len(s))
  BY <1>1 DEF Copy!Prefix, Copy!LowOf
<1> QED
  BY <1>4, <1>5 DEF Copy!IsPrefix

\* What follows the bytes that are skipped.
LEMMA SkippedOf ==
  ASSUME NEW c, c.skip \in Nat, job.size \in Nat
  PROVE  /\ Run(Copy!Skipped(c), c.skip)
         /\ Len(Copy!Skipped(c)) = IF c.skip <= job.size THEN job.size - c.skip ELSE 0
<1> DEFINE b == Copy!Bytes(job.size)
           n == c.skip
<1>1. Run(b, 0) /\ Len(b) = job.size
  BY RunBytes
<1>2. Copy!Skipped(c) = Copy!Tail1(b, n)
  BY <1>1 DEF Copy!Skipped, Copy!Tail1
<1> HIDE DEF b
<1>3. CASE n <= job.size
  <2>1. Run(Copy!Tail1(b, n), 0 + n) /\ Len(Copy!Tail1(b, n)) = Len(b) - n
    BY <1>1, <1>3, RunTail
  <2> QED
    BY <1>1, <1>2, <1>3, <2>1
<1>4. CASE ~(n <= job.size)
  <2>1. Copy!Tail1(b, n) = <<>>
    BY <1>1, <1>4, RunTailNone
  <2> QED
    BY <1>2, <1>4, <2>1, RunNone
<1> QED
  BY <1>3, <1>4

\* What the loops that are left can still copy, the last of them left bytes.
LoopRoom(n, bpl, left) == (n - 1) * bpl + IF left = 0 THEN bpl ELSE left

\* leftN and MaxLoop are quotient and remainder.
LEMMA DivMod ==
  ASSUME NEW x \in Nat, NEW b \in Nat \ {0}
  PROVE  /\ x \div b \in Nat /\ x % b \in 0..(b - 1)
         /\ x = b * (x \div b) + (x % b)
OBVIOUS

\* A loop less is one bpl less.
LEMMA LoopRoomLess ==
  ASSUME NEW n \in Int, NEW b \in Int, NEW lf \in Int
  PROVE  LoopRoom(n - 1, b, lf) = LoopRoom(n, b, lf) - b
<1>1. (n - 1 - 1) * b = (n - 1) * b - b
  OBVIOUS
<1> QED
  BY <1>1 DEF LoopRoom

\* The configuration of Copy.
CopyConfig == [bpl : Nat, maxLoop : Nat, maxByte : Nat, skip : Nat, seeker : BOOLEAN]

\* leftN and MaxLoop of a limit that is no less than one loop.
LEMMA LoopsOf ==
  ASSUME NEW x \in Nat, NEW b \in Nat \ {0}, NEW lp, lp = Copy!Loops(x, b)
  PROVE  /\ lp.left \in 0..(b - 1) /\ lp.loops \in Nat
         /\ b <= x => lp.loops >= 1 /\ LoopRoom(lp.loops, b, lp.left) = x /\ (lp.loops = 1 => lp.left = 0)
<1> DEFINE d == x \div b
           r == x % b
<1>1. d \in Nat /\ r \in 0..(b - 1) /\ x = b * d + r
  BY DivMod
<1>2. lp = [left |-> r, loops |-> d + IF r > 0 THEN 1 ELSE 0]
  BY DEF Copy!Loops
<1> HIDE DEF d, r
<1>3. lp.left = r /\ lp.loops = d + IF r > 0 THEN 1 ELSE 0
  BY <1>2
<1>4. ASSUME b <= x PROVE d >= 1
  <2>1. d = 0 => b * d = 0
    OBVIOUS
  <2> QED
    BY <1>1, <1>4, <2>1
<1>5. b * d = d * b /\ (d - 1) * b = d * b - b /\ (d + 1 - 1) * b = d * b
  BY <1>1
<1>6. LoopRoom(lp.loops, b, lp.left) = x
  <2>1. CASE r > 0
    <3>1. lp.loops = d + 1 /\ r # 0
      BY <1>1, <1>3, <2>1
    <3>2. (d + 1 - 1) * b + r = x
      BY <1>1, <1>5
    <3>3. LoopRoom(d + 1, b, r) = x
      BY <1>1, <3>1, <3>2 DEF LoopRoom
    <3> QED
      BY <1>3, <3>1, <3>3
  <2>2. CASE r = 0
    <3>1. lp.loops = d
      BY <1>1, <1>3, <2>2
    <3>2. (d - 1) * b + b = x
      BY <1>1, <1>5, <2>2
    <3> QED
      BY <1>3, <2>2, <3>1, <3>2 DEF LoopRoom
  <2> QED
    BY <1>1, <2>1, <2>2
<1> QED
  BY <1>1, <1>3, <1>4, <1>6

\* The normal form of a configuration, and what it lets through.
LEMMA NormalOf ==
  ASSUME NEW c \in CopyConfig, NEW k, k = Copy!Normal(c)
  PROVE  /\ k.bpl \in Nat \ {0} /\ k.left \in Nat /\ k.loops \in Nat
         /\ c.maxByte >= k.bpl =>
              /\ k.loops >= 1 /\ LoopRoom(k.loops, k.bpl, k.left) <= c.maxByte
              /\ k.loops = 1 => k.left = 0
<1> DEFINE b == IF c.bpl = 0 THEN Chunk ELSE Copy!LowOf(c.bpl, Chunk)
           f == IF c.bpl = 0 THEN Chunk ELSE c.bpl
           w == c.maxLoop * f
           x == IF c.maxLoop = 0 THEN c.maxByte
                ELSE IF c.maxByte # 0 THEN Copy!LowOf(c.maxByte, w)
                ELSE IF c.bpl = 0 THEN 0 ELSE w
           lp == Copy!Loops(x, b)
<1>1. c.bpl \in Nat /\ c.maxLoop \in Nat /\ c.maxByte \in Nat /\ Chunk \in Nat /\ Chunk > 0
  BY BoundsAssumptions DEF CopyConfig, Copy!IoCopyAssumption
<1>2. b \in Nat \ {0} /\ f \in Nat /\ b <= f
  BY <1>1 DEF Copy!LowOf
<1>3. k = [bpl |-> b, left |-> IF x = 0 THEN 0 ELSE lp.left,
           loops |-> IF x = 0 THEN c.maxLoop ELSE lp.loops]
  BY DEF Copy!Normal
<1> HIDE DEF b, f
<1>4. w \in Nat /\ (c.maxLoop # 0 => f <= w)
  <2>1. w \in Nat
    BY <1>1, <1>2
  <2>2. ASSUME c.maxLoop # 0 PROVE f <= w
    <3> DEFINE e == c.maxLoop - 1
    <3>1. e \in Nat /\ c.maxLoop = e + 1
      BY <1>1, <2>2
    <3> HIDE DEF e
    <3>2. (e + 1) * f = e * f + f /\ e * f \in Nat
      BY <1>2, <3>1
    <3> QED
      BY <1>2, <3>1, <3>2
  <2> QED
    BY <2>1, <2>2
<1> HIDE DEF w
<1>5. x \in Nat /\ (c.maxByte >= b => b <= x /\ x <= c.maxByte)
  <2>1. CASE c.maxLoop = 0
    BY <1>1, <2>1
  <2>2. CASE c.maxLoop # 0 /\ c.maxByte # 0
    BY <1>1, <1>2, <1>4, <2>2 DEF Copy!LowOf
  <2>3. CASE c.maxLoop # 0 /\ c.maxByte = 0
    <3>1. x \in Nat
      BY <1>1, <1>4, <2>3
    <3> QED
      BY <1>2, <2>3, <3>1
  <2> QED
    BY <2>1, <2>2, <2>3
<1> HIDE DEF x
<1>6. /\ lp.left \in 0..(b - 1) /\ lp.loops \in Nat
      /\ b <= x => lp.loops >= 1 /\ LoopRoom(lp.loops, b, lp.left) = x /\ (lp.loops = 1 => lp.left = 0)
  BY <1>2, <1>5, LoopsOf
<1> HIDE DEF lp
<1>7. k.bpl = b /\ k.left = (IF x = 0 THEN 0 ELSE lp.left)
      /\ k.loops = (IF x = 0 THEN c.maxLoop ELSE lp.loops)
  BY <1>3
<1>8. k.bpl \in Nat \ {0} /\ k.left \in Nat /\ k.loops \in Nat
  BY <1>1, <1>2, <1>6, <1>7
<1>9. ASSUME c.maxByte >= k.bpl
      PROVE  /\ k.loops >= 1 /\ LoopRoom(k.loops, k.bpl, k.left) <= c.maxByte
             /\ k.loops = 1 => k.left = 0
  <2>1. b <= x /\ x <= c.maxByte /\ x # 0
    BY <1>2, <1>5, <1>7, <1>9
  <2>2. k.bpl = b /\ k.left = lp.left /\ k.loops = lp.loops
    BY <1>7, <2>1
  <2> QED
    BY <1>1, <1>5, <1>6, <2>1, <2>2
<1> QED
  BY <1>8, <1>9

CopyJob ==
  [kind : {"copy"}, c : CopyConfig, size : Nat, loops : Nat, left : Nat, buf : Nat, skip : Nat,
   err : {"none", "nil", "skipped", "ErrLoopMax", "ErrCopyRead", "ErrCopyWrite"}]
ConfigJob ==
  [kind : {"config"}, c : CopyConfig, size : Nat, skip : Nat, err : {"none", "ErrLoopMax", "ErrWrite"}]
AllJob == [kind : {"readall"}, size : Nat, cap : Nat, err : {"none", "nil"}]
LineJob ==
  [kind : {"readline"}, size : Nat, cap : Nat, buf : Seq(Nat), cu : Nat, whole : BOOLEAN,
   err : {"none", "nil"}]
DealErrors ==
  {"none", "nil", "ErrCopyDealerStop", "ErrCopyDealerBufOF", "ErrRead", "ErrWrite", "EOF", "panic"}
DealJob ==
  [kind : {"dealer"}, size : Nat, len : Nat, si : Nat \ {0}, left : Seq(Nat),
   dealt : SUBSET {"changed", "longer"}, err : DealErrors]
Lines == [first : Nat, last : Nat]

\* How many bytes follow the ones that are skipped.
Following(j) == IF j.c.skip <= j.size THEN j.size - j.c.skip ELSE 0

\* The bytes that Copy has written, and those it has still to read.
InOrder(j, o, r) ==
  /\ j.skip = 0 /\ Run(o, j.c.skip) /\ r \in Seq(Nat) /\ Len(o) + Len(r) <= Following(j)
  /\ j.err \in {"none", "nil", "ErrLoopMax"} =>
       Run(r, j.c.skip + Len(o)) /\ Len(o) + Len(r) = Following(j)
  /\ j.err = "nil" => r = <<>>

\* What is written, and what the loops that are left may write, keeps to MaxByte.
InLimit(j, o) ==
  LET k == Copy!Normal(j.c) IN
  j.c.maxByte >= k.bpl =>
    /\ Len(o) <= j.c.maxByte
    /\ j.err = "none" =>
         /\ j.loops >= 1 /\ j.left = k.left
         /\ Len(o) + LoopRoom(j.loops, k.bpl, k.left) <= j.c.maxByte
         /\ j.buf = IF j.loops = 1 /\ k.left # 0 THEN k.left ELSE k.bpl

InNone == job = Copy!NoJob /\ out = <<>> /\ Run(rest, 0)
InCopy ==
  /\ job \in CopyJob
  /\ job.c.seeker \/ job.c.skip = 0 => InOrder(job, out, rest) /\ InLimit(job, out)
\* What the reader has still to give are its last bytes.
RestIs == Len(rest) <= job.size /\ Run(rest, job.size - Len(rest))
InConfig ==
  /\ job \in ConfigJob /\ RestIs
  /\ Run(out, job.c.skip) /\ (out # <<>> => job.c.skip + Len(out) <= job.size)
  /\ job.err = "none" =>
       /\ job.skip > 0 => out = <<>>
       /\ job.c.skip + Len(out) = (job.size - Len(rest)) + job.skip
InAll ==
  /\ job \in AllJob /\ Run(out, 0) /\ Run(rest, Len(out)) /\ Len(out) + Len(rest) = job.size
  /\ job.err = "nil" => rest = <<>>
InDeal ==
  /\ job \in DealJob /\ RestIs
  /\ job.dealt = {} =>
       /\ Run(out, 0) /\ Len(out) <= job.size
       /\ job.err = "none" =>
            Run(job.left, Len(out)) /\ Len(out) + Len(job.left) + Len(rest) = job.size
       /\ job.err = "nil" => Len(out) = job.size
  /\ "longer" \notin job.dealt => Len(job.left) < 2 * job.si /\ job.err # "panic"
\* The lines follow each other up to the buffer.
Followed(o, n) ==
  /\ \A k \in 1..Len(o) :
       /\ o[k].first = IF k = 1 THEN 1 ELSE o[k - 1].last + 2
       /\ o[k].last + 1 \in Breaks
  /\ n = IF o = <<>> THEN 0 ELSE o[Len(o)].last + 1
InLine ==
  /\ job \in LineJob /\ out \in Seq(Lines)
  /\ Len(rest) + Len(job.buf) <= job.size
  /\ Run(rest, job.size - Len(rest))
  /\ Run(job.buf, job.size - Len(rest) - Len(job.buf))
  /\ job.whole =>
       /\ job.cu = 0 => job.buf = <<>>
       /\ Followed(out, job.size - Len(rest) - Len(job.buf))

CInv == InNone \/ InCopy \/ InConfig \/ InAll \/ InDeal \/ InLine

\* The inductive invariant says what the run checks.
LEMMA CExact == CInv => Copy!CopiedExact
<1>1. ASSUME InNone PROVE Copy!CopiedExact
  BY <1>1 DEF InNone, Copy!NoJob, Copy!CopiedExact
<1>2. ASSUME InConfig PROVE Copy!CopiedExact
  <2>1. /\ job.kind = "config" /\ job.size \in Nat /\ job.c.skip \in Nat /\ job.skip \in Nat
        /\ Run(out, job.c.skip) /\ (out # <<>> => job.c.skip + Len(out) <= job.size)
    BY <1>2 DEF InConfig, ConfigJob, CopyConfig
  <2>2. Len(out) \in Nat /\ Len(rest) \in Nat
    BY <1>2, LenProperties DEF InConfig, RestIs, Run
  <2> DEFINE s == Copy!Skipped(job.c)
             given == job.size - Len(rest)
  <2>3. Run(s, job.c.skip) /\ Len(s) = IF job.c.skip <= job.size THEN job.size - job.c.skip ELSE 0
    BY <2>1, SkippedOf
  <2> HIDE DEF s
  <2>4. Len(out) <= Len(s)
    <3>1. CASE out = <<>>
      BY <2>1, <2>3, <3>1, EmptySeq
    <3>2. CASE out # <<>>
      BY <2>1, <2>2, <2>3, <3>2
    <3> QED
      BY <3>1, <3>2
  <2>5. Copy!IsPrefix(out, s)
    BY <2>1, <2>3, <2>4, RunIsPrefix
  <2>6. ASSUME job.err = "none"
        PROVE  Len(out) = IF given <= job.c.skip THEN 0 ELSE given - job.c.skip
    <3>1. (job.skip > 0 => out = <<>>) /\ job.c.skip + Len(out) = given + job.skip
      BY <1>2, <2>6 DEF InConfig
    <3>2. CASE job.skip > 0
      BY <2>1, <2>2, <3>1, <3>2, EmptySeq
    <3>3. CASE job.skip = 0
      BY <2>1, <2>2, <3>1, <3>3
    <3> QED
      BY <2>1, <3>2, <3>3
  <2> QED
    BY <2>1, <2>5, <2>6 DEF Copy!CopiedExact, s
<1>3. ASSUME InAll PROVE Copy!CopiedExact
  <2>1. job.kind = "readall" /\ Run(out, 0) /\ Len(out) \in Nat /\ Len(rest) \in Nat
        /\ Len(out) + Len(rest) = job.size /\ (job.err = "nil" => rest = <<>>)
    BY <1>3, LenProperties DEF InAll, AllJob, Run
  <2>2. Run(Copy!Bytes(Len(out)), 0) /\ Len(Copy!Bytes(Len(out))) = Len(out)
    BY <2>1, RunBytes
  <2>3. out = Copy!Bytes(Len(out))
    BY <2>1, <2>2, RunSame
  <2>4. job.err = "nil" => Len(out) = job.size
    BY <2>1, EmptySeq
  <2> QED
    BY <2>1, <2>3, <2>4 DEF Copy!CopiedExact
<1>4. ASSUME InDeal PROVE Copy!CopiedExact
  <2>1. job.kind = "dealer" /\ job.size \in Nat
        /\ ("longer" \notin job.dealt => Len(job.left) < 2 * job.si /\ job.err # "panic")
    BY <1>4 DEF InDeal, DealJob
  <2> DEFINE b == Copy!Bytes(job.size)
  <2>2. Run(b, 0) /\ Len(b) = job.size
    BY <2>1, RunBytes
  <2> HIDE DEF b
  <2>3. ASSUME job.dealt = {} PROVE Copy!IsPrefix(out, b) /\ (job.err = "nil" => out = b)
    <3>1. Run(out, 0) /\ Len(out) <= job.size /\ (job.err = "nil" => Len(out) = job.size)
      BY <1>4, <2>3 DEF InDeal
    <3> QED
      BY <2>2, <3>1, RunIsPrefix, RunSame
  <2> QED
    BY <2>1, <2>3 DEF Copy!CopiedExact, b
<1>5. ASSUME InLine PROVE Copy!CopiedExact
  <2>1. job.kind = "readline" /\ DOMAIN out = 1..Len(out)
    BY <1>5, LenProperties DEF InLine, LineJob
  <2>2. CASE ~job.whole
    BY <2>1, <2>2 DEF Copy!CopiedExact
  <2>3. CASE job.whole
    <3>1. Followed(out, job.size - Len(rest) - Len(job.buf))
      BY <1>5, <2>3 DEF InLine
    <3> QED
      BY <2>1, <2>3, <3>1 DEF Copy!CopiedExact, Followed
  <2> QED
    BY <2>2, <2>3
<1>6. ASSUME InCopy PROVE Copy!CopiedExact
  <2>1. job.kind = "copy" /\ job.size \in Nat /\ job.c \in CopyConfig /\ job.c.skip \in Nat
    BY <1>6 DEF InCopy, CopyJob, CopyConfig
  <2>2. CASE ~(job.c.seeker \/ job.c.skip = 0)
    BY <2>1, <2>2 DEF Copy!CopiedExact
  <2>3. CASE job.c.seeker \/ job.c.skip = 0
    <3>1. InOrder(job, out, rest) /\ InLimit(job, out)
      BY <1>6, <2>3 DEF InCopy
    <3> DEFINE s == Copy!Skipped(job.c)
    <3>2. Run(s, job.c.skip) /\ Len(s) = Following(job)
      BY <2>1, SkippedOf DEF Following
    <3> HIDE DEF s
    <3>3. Run(out, job.c.skip) /\ Len(out) <= Len(s) /\ (job.err = "nil" => Len(out) = Len(s))
      <4>1. Len(out) \in Nat
        BY <3>1, LenProperties DEF InOrder, Run
      <4>2. Following(job) \in Nat
        BY <2>1 DEF Following
      <4>3. job.err = "nil" => Len(out) = Len(s)
        BY <3>1, <3>2, <4>1, <4>2, EmptySeq DEF InOrder
      <4>4. job.err # "nil" => Len(out) <= Len(s)
        <5>1. Len(rest) \in Nat
          BY <3>1, LenProperties DEF InOrder
        <5> QED
          BY <3>1, <3>2, <4>1, <4>2, <5>1 DEF InOrder
      <4> QED
        BY <3>1, <4>1, <4>3, <4>4 DEF InOrder
    <3>4. Copy!IsPrefix(out, s) /\ (job.err = "nil" => out = s)
      BY <2>1, <3>2, <3>3, RunIsPrefix, RunSame
    <3>5. job.c.maxByte >= Copy!Normal(job.c).bpl => Len(out) <= job.c.maxByte
      BY <3>1 DEF InLimit
    <3> QED
      BY <2>1, <2>3, <3>4, <3>5 DEF Copy!CopiedExact, s
  <2> QED
    BY <2>2, <2>3
<1> QED
  BY <1>1, <1>2, <1>3, <1>4, <1>5, <1>6 DEF CInv

\* A sequence without bytes.
LEMMA ZeroRun == ASSUME NEW s, NEW a, Run(s, a), Len(s) = 0 PROVE s = <<>>
BY EmptySeq DEF Run

\* What a read of n bytes leaves.
LEMMA RunRead ==
  ASSUME NEW r, NEW a \in Nat, Run(r, a), NEW n \in Nat, n <= Len(r)
  PROVE  /\ Run(Copy!Prefix(r, n), a) /\ Len(Copy!Prefix(r, n)) = n
         /\ Run(Copy!Tail1(r, n), a + n) /\ Len(Copy!Tail1(r, n)) = Len(r) - n
         /\ Len(r) \in Nat
<1>1. Len(r) \in Nat
  BY LenProperties DEF Run
<1> QED
  BY <1>1, RunPrefix, RunTail

\* How much a read can give.
LEMMA ReadsOf ==
  ASSUME rest \in Seq(Nat), NEW k, NEW n \in Copy!Reads(k)
  PROVE  /\ n \in Nat /\ n <= Len(rest) /\ (n = 0 <=> rest = <<>>)
         /\ n # 0 => n <= k
<1>1. Len(rest) \in Nat
  BY LenProperties
<1>2. CASE rest = <<>>
  BY <1>1, <1>2 DEF Copy!Reads
<1>3. CASE rest # <<>>
  BY <1>1, <1>3 DEF Copy!Reads
<1> QED
  BY <1>2, <1>3

\* The bytes are there.
LEMMA CInit == Copy!Init => CInv
<1> SUFFICES ASSUME Copy!Init PROVE CInv
  OBVIOUS
<1>1. PICK n \in Sizes : rest = Copy!Bytes(n) /\ out = <<>> /\ job = Copy!NoJob
  BY DEF Copy!Init
<1>2. n \in Nat
  BY BoundsAssumptions DEF Copy!IoCopyAssumption
<1> QED
  BY <1>1, <1>2, RunBytes DEF CInv, InNone

\* The room of the loops is never negative, and that of the last loop is its buffer.
LEMMA LoopRoomIs ==
  ASSUME NEW n \in Nat, n >= 1, NEW b \in Nat, NEW lf \in Nat
  PROVE  LoopRoom(n, b, lf) \in Nat /\ LoopRoom(1, b, lf) = IF lf = 0 THEN b ELSE lf
<1> DEFINE x == (n - 1) * b
           y == (1 - 1) * b
           z == IF lf = 0 THEN b ELSE lf
<1>1. x \in Nat /\ y = 0 /\ z \in Nat
  OBVIOUS
<1>2. LoopRoom(n, b, lf) = x + z /\ LoopRoom(1, b, lf) = y + z
  BY DEF LoopRoom
<1> HIDE DEF x, y, z
<1>3. LoopRoom(n, b, lf) \in Nat /\ LoopRoom(1, b, lf) = z
  BY <1>1, <1>2
<1> QED
  BY <1>3 DEF z

\* The buffer of a turn is no more than the room of the loops.
LEMMA BufInRoom ==
  ASSUME NEW n \in Nat, n >= 1, NEW b \in Nat \ {0}, NEW lf \in Nat, NEW bf,
         bf = IF n = 1 /\ lf # 0 THEN lf ELSE b
  PROVE  bf \in Nat /\ LoopRoom(n, b, lf) \in Nat /\ bf <= LoopRoom(n, b, lf)
<1>1. LoopRoom(n, b, lf) \in Nat /\ LoopRoom(1, b, lf) = IF lf = 0 THEN b ELSE lf
  BY LoopRoomIs
<1>2. CASE n = 1
  BY <1>1, <1>2
<1>3. CASE n # 1
  <2>1. n - 1 \in Nat /\ n - 1 >= 1
    BY <1>3
  <2> DEFINE q == n - 1
  <2> HIDE DEF q
  <2>2. LoopRoom(q, b, lf) \in Nat
    BY <2>1, LoopRoomIs DEF q
  <2>3. LoopRoom(q, b, lf) = LoopRoom(n, b, lf) - b
    BY LoopRoomLess DEF q
  <2>4. bf = b
    BY <1>3
  <2> QED
    BY <1>1, <2>2, <2>3, <2>4
<1> QED
  BY <1>2, <1>3

\* Copy begins.
LEMMA CCopyBegin ==
  ASSUME CInv, NEW c \in CopyConfigs, Copy!CopyBegin(c)
  PROVE  InCopy'
<1> DEFINE k == Copy!Normal(c)
           sk == IF c.seeker THEN 0 ELSE c.skip
           sz == Len(rest)
<1>1. /\ job = Copy!NoJob /\ out' = out
      /\ job' = [kind |-> "copy", c |-> c, size |-> sz, loops |-> k.loops, left |-> k.left,
                 buf |-> k.bpl, skip |-> sk, err |-> "none"]
      /\ rest' = IF c.seeker THEN Copy!Tail1(rest, c.skip) ELSE rest
  BY DEF Copy!CopyBegin
<1>2. out = <<>> /\ Run(rest, 0)
  BY <1>1 DEF CInv, InNone, InCopy, InConfig, InAll, InDeal, InLine, Copy!NoJob, CopyJob, ConfigJob,
              AllJob, DealJob, LineJob
<1>3. c \in CopyConfig /\ c.skip \in Nat /\ c.maxByte \in Nat
  BY BoundsAssumptions DEF Copy!IoCopyAssumption, CopyConfig
<1>4. /\ k.bpl \in Nat \ {0} /\ k.left \in Nat /\ k.loops \in Nat
      /\ c.maxByte >= k.bpl =>
           /\ k.loops >= 1 /\ LoopRoom(k.loops, k.bpl, k.left) <= c.maxByte
           /\ k.loops = 1 => k.left = 0
  BY <1>3, NormalOf
<1> HIDE DEF k
<1>5. sz \in Nat /\ sk \in Nat
  BY <1>2, <1>3, LenProperties DEF Run
<1> HIDE DEF sz, sk
<1>6. /\ job' \in CopyJob /\ job'.c = c /\ job'.size = sz /\ job'.loops = k.loops
      /\ job'.left = k.left /\ job'.buf = k.bpl /\ job'.skip = sk /\ job'.err = "none"
  BY <1>1, <1>3, <1>4, <1>5 DEF CopyJob
<1>7. Len(out') = 0 /\ Run(out', c.skip)
  BY <1>1, <1>2, RunNone
<1>8. ASSUME c.seeker \/ c.skip = 0
      PROVE  sk = 0 /\ Run(rest', c.skip) /\ Len(rest') = Following(job')
  <2>1. Following(job') = IF c.skip <= sz THEN sz - c.skip ELSE 0
    BY <1>6 DEF Following
  <2>2. CASE ~c.seeker
    BY <1>1, <1>2, <1>5, <1>8, <2>1, <2>2 DEF sk, sz
  <2>3. CASE c.seeker /\ c.skip <= sz
    <3>1. Run(rest', 0 + c.skip) /\ Len(rest') = sz - c.skip
      BY <1>1, <1>2, <1>3, <2>3, RunTail DEF sz
    <3> QED
      BY <1>3, <2>1, <2>3, <3>1 DEF sk
  <2>4. CASE c.seeker /\ ~(c.skip <= sz)
    <3>1. sz <= c.skip
      BY <1>3, <1>5, <2>4
    <3>2. rest' = <<>>
      BY <1>1, <1>2, <1>3, <2>4, <3>1, RunTailNone DEF sz
    <3> QED
      BY <2>1, <2>4, <3>2, RunNone DEF sk
  <2> QED
    BY <2>2, <2>3, <2>4
<1>9. ASSUME c.seeker \/ c.skip = 0 PROVE InOrder(job', out', rest')
  <2>1. Run(rest', c.skip + 0) /\ rest' \in Seq(Nat) /\ Len(rest') \in Nat
    BY <1>3, <1>8, <1>9, LenProperties DEF Run
  <2>2. 0 + Len(rest') = Following(job')
    BY <1>8, <1>9, <2>1
  <2>3. Following(job') \in Nat
    BY <2>1, <2>2
  <2> QED
    BY <1>6, <1>7, <1>8, <1>9, <2>1, <2>2, <2>3 DEF InOrder
<1>10. InLimit(job', out')
  <2> SUFFICES ASSUME c.maxByte >= k.bpl
               PROVE  /\ Len(out') <= c.maxByte
                      /\ k.loops >= 1
                      /\ Len(out') + LoopRoom(k.loops, k.bpl, k.left) <= c.maxByte
                      /\ k.bpl = IF k.loops = 1 /\ k.left # 0 THEN k.left ELSE k.bpl
    BY <1>6 DEF InLimit, k
  <2>1. LoopRoom(k.loops, k.bpl, k.left) \in Nat
    BY <1>4, LoopRoomIs
  <2> QED
    BY <1>3, <1>4, <1>7, <2>1
<1> QED
  BY <1>6, <1>9, <1>10 DEF InCopy

\* A call of any kind has begun: which disjunct holds.
LEMMA KindOfJob ==
  ASSUME CInv
  PROVE  /\ job = Copy!NoJob => InNone
         /\ job.kind = "copy" => InCopy
         /\ job.kind = "config" => InConfig
         /\ job.kind = "readall" => InAll
         /\ job.kind = "dealer" => InDeal
         /\ job.kind = "readline" => InLine
BY DEF CInv, InNone, InCopy, InConfig, InAll, InDeal, InLine, Copy!NoJob, CopyJob, ConfigJob,
       AllJob, DealJob, LineJob

\* What a read leaves are the last bytes again.
LEMMA RestRead ==
  ASSUME RestIs, job.size \in Nat, NEW n \in Nat, n <= Len(rest),
         rest' = Copy!Tail1(rest, n), job'.size = job.size
  PROVE  /\ RestIs' /\ Len(rest') = Len(rest) - n /\ Len(rest) \in Nat
         /\ Run(Copy!Prefix(rest, n), job.size - Len(rest)) /\ Len(Copy!Prefix(rest, n)) = n
<1> DEFINE g == job.size - Len(rest)
<1>1. Len(rest) \in Nat /\ g \in Nat /\ Run(rest, g)
  BY LenProperties DEF RestIs, Run
<1> HIDE DEF g
<1>2. /\ Run(Copy!Prefix(rest, n), g) /\ Len(Copy!Prefix(rest, n)) = n
      /\ Run(rest', g + n) /\ Len(rest') = Len(rest) - n
  BY <1>1, RunRead
<1>3. job'.size - Len(rest') = g + n /\ Len(rest') <= job'.size
  BY <1>1, <1>2 DEF g, RestIs
<1> QED
  BY <1>1, <1>2, <1>3 DEF RestIs, g

\* WriterWithConfig: one Write.
LEMMA CConfigWrite ==
  ASSUME CInv, Copy!ConfigWrite
  PROVE  InConfig'
<1>1. InConfig /\ job \in ConfigJob /\ job.err = "none"
  BY KindOfJob DEF Copy!ConfigWrite, Copy!Working, InConfig
<1> DEFINE KeptOf(n) == Copy!Tail1(Copy!Prefix(rest, n), job.skip)
           SentOf(n) == IF job.c.maxByte = 0 THEN KeptOf(n) ELSE Copy!Prefix(KeptOf(n), job.c.maxByte)
           ErrOf(n) == IF job.c.maxByte > 0 /\ Len(SentOf(n)) = job.c.maxByte THEN "ErrLoopMax" ELSE "none"
<1>2. PICK n \in 1..Len(rest) :
        /\ rest' = Copy!Tail1(rest, n)
        /\ \/ n <= job.skip /\ job' = [job EXCEPT !.skip = job.skip - n] /\ out' = out
           \/ /\ n > job.skip /\ out' = out \o SentOf(n)
              /\ job' = [job EXCEPT !.skip = 0, !.err = ErrOf(n)]
           \/ /\ n > job.skip /\ job' = [job EXCEPT !.err = "ErrWrite"]
              /\ \E k \in 0..Len(SentOf(n)) : out' = out \o Copy!Prefix(SentOf(n), k)
  BY DEF Copy!ConfigWrite, Copy!Finish, Copy!WriteFails
<1> DEFINE a == job.c.skip
           g == job.size - Len(rest)
           kept == KeptOf(n)
           sent == SentOf(n)
           e == ErrOf(n)
<1>3. /\ RestIs /\ job.size \in Nat /\ job.skip \in Nat /\ a \in Nat /\ job.c.maxByte \in Nat
      /\ Run(out, a) /\ (job.skip > 0 => out = <<>>) /\ a + Len(out) = g + job.skip
      /\ Len(out) \in Nat /\ Len(rest) \in Nat /\ Len(rest) <= job.size
  BY <1>1, LenProperties DEF InConfig, ConfigJob, CopyConfig, RestIs, Run
<1>4. n \in Nat /\ n >= 1 /\ n <= Len(rest) /\ g \in Nat /\ g + n <= job.size
  BY <1>3
<1>5. e \in {"none", "ErrLoopMax"}
  OBVIOUS
<1> HIDE DEF g, a, kept, sent, e, KeptOf, SentOf, ErrOf
<1>6. ASSUME NEW f \in {"none", "ErrLoopMax", "ErrWrite"}, NEW sk \in Nat,
             job' = [kind |-> "config", c |-> job.c, size |-> job.size, skip |-> sk, err |-> f]
      PROVE  /\ job' \in ConfigJob /\ job'.c.skip = a /\ job'.size = job.size /\ job'.skip = sk
             /\ job'.err = f
             /\ RestIs' /\ Len(rest') = Len(rest) - n
             /\ Run(Copy!Prefix(rest, n), g) /\ Len(Copy!Prefix(rest, n)) = n
             /\ job'.size - Len(rest') = g + n
  <2>1. job' \in ConfigJob /\ job'.c = job.c /\ job'.size = job.size /\ job'.skip = sk /\ job'.err = f
    BY <1>1, <1>6 DEF ConfigJob
  <2>2. /\ RestIs' /\ Len(rest') = Len(rest) - n
        /\ Run(Copy!Prefix(rest, n), g) /\ Len(Copy!Prefix(rest, n)) = n
    BY <1>2, <1>3, <1>4, <2>1, RestRead DEF g
  <2>3. job'.size - Len(rest') = g + n
    BY <1>3, <1>4, <2>1, <2>2 DEF g
  <2> QED
    BY <2>1, <2>2, <2>3 DEF a
<1>7. CASE n <= job.skip /\ job' = [job EXCEPT !.skip = job.skip - n] /\ out' = out
  <2> DEFINE sk == job.skip - n
  <2>1. sk \in Nat /\ (sk > 0 => job.skip > 0) /\ job.skip > 0
    BY <1>3, <1>4, <1>7
  <2>2. a + Len(out) = (g + n) + sk
    BY <1>3, <1>4
  <2> HIDE DEF sk
  <2>3. job' = [kind |-> "config", c |-> job.c, size |-> job.size, skip |-> sk, err |-> "none"]
    BY <1>1, <1>7 DEF ConfigJob, sk
  <2>4. /\ job' \in ConfigJob /\ job'.c.skip = a /\ job'.size = job.size /\ job'.skip = sk
        /\ job'.err = "none" /\ RestIs' /\ job'.size - Len(rest') = g + n
    BY <1>6, <2>1, <2>3
  <2>5. out' = <<>> /\ Run(out', a)
    BY <1>3, <1>7, <2>1
  <2> QED
    BY <1>7, <2>2, <2>4, <2>5 DEF InConfig
\* What is written follows what was, and is not more than was given.
<1>8. ASSUME n > job.skip, NEW t, Run(t, a + Len(out)), Len(t) <= n - job.skip, out' = out \o t,
             NEW f \in {"none", "ErrLoopMax", "ErrWrite"}, NEW sk \in Nat,
             f = "none" => sk = 0 /\ Len(t) = n - job.skip,
             job' = [kind |-> "config", c |-> job.c, size |-> job.size, skip |-> sk, err |-> f]
      PROVE  InConfig'
  <2>1. /\ job' \in ConfigJob /\ job'.c.skip = a /\ job'.size = job.size /\ job'.skip = sk
        /\ job'.err = f /\ RestIs' /\ job'.size - Len(rest') = g + n
    BY <1>6, <1>8
  <2>2. Run(out', a) /\ Len(out') = Len(out) + Len(t) /\ Len(t) \in Nat
    BY <1>3, <1>8, RunConcat, LenProperties DEF Run
  <2>3. a + Len(out') <= job.size
    BY <1>3, <1>4, <1>8, <2>2
  <2>4. ASSUME f = "none" PROVE a + Len(out') = (g + n) + sk
    <3> DEFINE js == job.skip
    <3>1. sk = 0 /\ Len(t) = n - js /\ js \in Nat /\ a + Len(out) = g + js
      BY <1>3, <1>8, <2>4
    <3> HIDE DEF js
    <3>2. a + (Len(out) + Len(t)) = (g + n) + sk
      BY <1>3, <1>4, <2>2, <3>1
    <3> QED
      BY <2>2, <3>2
  <2>5. f = "none" => ~(sk > 0)
    BY <1>8
  <2> QED
    BY <2>1, <2>2, <2>3, <2>4, <2>5 DEF InConfig
<1>9. ASSUME n > job.skip
      PROVE  /\ Run(sent, a + Len(out)) /\ Len(sent) \in Nat /\ Len(sent) <= n - job.skip
             /\ e = "none" => Len(sent) = n - job.skip
  <2> DEFINE p == Copy!Prefix(rest, n)
  <2>1. Run(p, g) /\ Len(p) = n
    <3>1. Run(rest, g)
      BY <1>3 DEF RestIs, g
    <3> QED
      BY <1>4, <3>1, RunPrefix
  <2> HIDE DEF p
  <2>2. Run(kept, g + job.skip) /\ Len(kept) = n - job.skip
    <3> DEFINE js == job.skip
    <3>0. js \in Nat /\ js <= Len(p)
      BY <1>3, <1>4, <1>9, <2>1
    <3> HIDE DEF js
    <3>1. Run(Copy!Tail1(p, js), g + js) /\ Len(Copy!Tail1(p, js)) = Len(p) - js
      BY <1>4, <2>1, <3>0, RunTail
    <3> QED
      BY <2>1, <3>1 DEF kept, KeptOf, p, js
  <2>3. Len(kept) \in Nat /\ Run(kept, a + Len(out))
    BY <1>3, <1>4, <1>9, <2>2
  <2>4. CASE job.c.maxByte = 0
    BY <1>3, <2>2, <2>3, <2>4 DEF sent, SentOf, kept
  <2>5. CASE job.c.maxByte # 0 /\ job.c.maxByte <= Len(kept)
    <3>1. sent = Copy!Prefix(kept, job.c.maxByte)
      BY <2>5 DEF sent, SentOf, kept
    <3>2. Run(sent, a + Len(out)) /\ Len(sent) = job.c.maxByte
      BY <1>3, <2>3, <2>5, <3>1, RunPrefix
    <3>3. e = "ErrLoopMax"
      BY <1>3, <2>5, <3>2 DEF e, ErrOf, sent
    <3> QED
      BY <1>3, <2>2, <2>3, <2>5, <3>2, <3>3
  <2>6. CASE job.c.maxByte # 0 /\ ~(job.c.maxByte <= Len(kept))
    <3>1. Copy!LowOf(job.c.maxByte, Len(kept)) = Len(kept) /\ Copy!LowOf(Len(kept), Len(kept)) = Len(kept)
      BY <1>3, <2>3, <2>6 DEF Copy!LowOf
    <3>2. sent = Copy!Prefix(kept, Len(kept))
      BY <2>6, <3>1 DEF sent, SentOf, kept, Copy!Prefix
    <3>3. Run(sent, a + Len(out)) /\ Len(sent) = Len(kept)
      BY <2>3, <3>2, RunPrefix
    <3> QED
      BY <2>2, <2>3, <3>3
  <2> QED
    BY <2>4, <2>5, <2>6
<1>10. CASE n > job.skip /\ out' = out \o sent /\ job' = [job EXCEPT !.skip = 0, !.err = e]
  <2>1. job' = [kind |-> "config", c |-> job.c, size |-> job.size, skip |-> 0, err |-> e]
    BY <1>1, <1>10 DEF ConfigJob
  <2> QED
    BY <1>5, <1>8, <1>9, <1>10, <2>1
<1>11. ASSUME n > job.skip, job' = [job EXCEPT !.err = "ErrWrite"],
              NEW k \in 0..Len(sent), out' = out \o Copy!Prefix(sent, k)
       PROVE  InConfig'
  <2> DEFINE t == Copy!Prefix(sent, k)
  <2>1. Run(sent, a + Len(out)) /\ Len(sent) \in Nat /\ Len(sent) <= n - job.skip
    BY <1>9, <1>11
  <2>2. k \in Nat /\ k <= Len(sent) /\ k <= n - job.skip
    BY <1>3, <1>4, <1>11, <2>1
  <2>3. Run(t, a + Len(out)) /\ Len(t) = k
    BY <2>1, <2>2, RunPrefix
  <2>4. job' = [kind |-> "config", c |-> job.c, size |-> job.size, skip |-> job.skip, err |-> "ErrWrite"]
    BY <1>1, <1>11 DEF ConfigJob
  <2>5. out' = out \o t
    BY <1>11
  <2> HIDE DEF t
  <2> QED
    BY <1>3, <1>8, <1>11, <2>2, <2>3, <2>4, <2>5
<1> QED
  BY <1>2, <1>7, <1>10, <1>11 DEF sent, e

\* WriterWithConfig makes a writer.
LEMMA CConfigBegin ==
  ASSUME CInv, NEW c \in CopyConfigs, Copy!ConfigBegin(c)
  PROVE  InConfig'
<1>1. out = <<>> /\ Run(rest, 0) /\ UNCHANGED <<rest, out>>
  BY KindOfJob DEF InNone, Copy!ConfigBegin
<1>2. c \in CopyConfig /\ c.skip \in Nat
  BY BoundsAssumptions DEF Copy!IoCopyAssumption, CopyConfig
<1> DEFINE sz == Len(rest)
<1>3. sz \in Nat /\ Len(out) = 0 /\ Run(out, c.skip)
  BY <1>1, LenProperties, RunNone DEF Run
<1>4. job' = [kind |-> "config", c |-> c, size |-> sz, skip |-> c.skip, err |-> "none"]
  BY DEF Copy!ConfigBegin
<1>5. /\ job' \in ConfigJob /\ job'.c = c /\ job'.size = sz /\ job'.skip = c.skip /\ job'.err = "none"
  BY <1>2, <1>3, <1>4 DEF ConfigJob
<1>6. sz - sz = 0 /\ c.skip + 0 = 0 + c.skip /\ sz <= sz
  BY <1>2, <1>3
<1>7. RestIs'
  BY <1>1, <1>5, <1>6 DEF RestIs
<1> QED
  BY <1>1, <1>3, <1>5, <1>6, <1>7 DEF InConfig

\* ReadAll begins, ReadLine begins, CopyDealer begins.
LEMMA CBegin ==
  ASSUME CInv, NEW len \in BufLens,
         Copy!ReadAllBegin(len) \/ Copy!ReadLineBegin(len) \/ Copy!CopyDealerBegin(len)
  PROVE  CInv'
<1>1. out = <<>> /\ Run(rest, 0) /\ UNCHANGED <<rest, out>>
  BY KindOfJob DEF InNone, Copy!ReadAllBegin, Copy!ReadLineBegin, Copy!CopyDealerBegin
<1>2. len \in Nat
  BY BoundsAssumptions DEF Copy!IoCopyAssumption
<1>3. Len(rest) \in Nat /\ Len(out) = 0 /\ Len(<<>>) = 0 /\ Run(out, 0) /\ Run(<<>>, 0) /\ <<>> \in Seq(Nat)
      /\ out \in Seq(Lines)
  BY <1>1, LenProperties, RunNone, EmptySeq DEF Run
<1> DEFINE sz == Len(rest)
<1>4. CASE Copy!ReadAllBegin(len)
  <2>1. job' = [kind |-> "readall", size |-> sz, cap |-> len, err |-> "none"]
    BY <1>4 DEF Copy!ReadAllBegin
  <2>2. job' \in AllJob /\ job'.size = sz /\ job'.err = "none"
    BY <1>2, <1>3, <2>1 DEF AllJob
  <2> QED
    BY <1>1, <1>3, <2>2 DEF CInv, InAll
<1>5. CASE Copy!ReadLineBegin(len)
  <2>1. job' = [kind |-> "readline", size |-> sz, cap |-> len, buf |-> <<>>, cu |-> 0,
                whole |-> TRUE, err |-> "none"]
    BY <1>5 DEF Copy!ReadLineBegin
  <2>2. job' \in LineJob /\ job'.size = sz /\ job'.buf = <<>>
    BY <1>2, <1>3, <2>1 DEF LineJob
  <2>3. sz - sz = 0 /\ sz - sz - 0 = 0 /\ sz + 0 <= sz
    BY <1>3
  <2>4. Followed(out, 0)
    BY <1>1, <1>3 DEF Followed
  <2> QED
    BY <1>1, <1>3, <2>2, <2>3, <2>4 DEF CInv, InLine
<1>6. CASE Copy!CopyDealerBegin(len)
  <2> DEFINE th == len \div 3
  <2>0. th \in Nat \ {0}
    <3>1. len >= 3
      BY <1>6 DEF Copy!CopyDealerBegin
    <3>2. th \in Nat /\ len % 3 \in 0..2 /\ len = 3 * th + (len % 3)
      BY <1>2, DivMod
    <3> QED
      BY <1>2, <3>1, <3>2
  <2>1. job' = [kind |-> "dealer", size |-> sz, len |-> len, si |-> th, left |-> <<>>, dealt |-> {},
                err |-> "none"]
    BY <1>6 DEF Copy!CopyDealerBegin
  <2> HIDE DEF th
  <2>2. /\ job' \in DealJob /\ job'.size = sz /\ job'.left = <<>> /\ job'.err = "none"
        /\ job'.si \in Nat \ {0}
    BY <1>2, <1>3, <2>0, <2>1 DEF DealJob, DealErrors
  <2>3. 0 + 0 + sz = sz /\ 0 <= sz /\ sz - sz = 0 /\ sz <= sz
    BY <1>3
  <2>4. RestIs'
    BY <1>1, <2>2, <2>3 DEF RestIs
  <2>5. Len(job'.left) < 2 * job'.si
    BY <1>3, <2>2
  <2> QED
    BY <1>1, <1>3, <2>2, <2>3, <2>4, <2>5 DEF CInv, InDeal
<1> QED
  BY <1>4, <1>5, <1>6

\* What a turn leaves of the call, and what changes with the loops.
LEMMA TurnJob ==
  ASSUME NEW j \in CopyJob, j.err = "none", NEW jn, jn = Copy!AfterTurn(j)
  PROVE  /\ jn \in CopyJob /\ jn.c = j.c /\ jn.size = j.size /\ jn.left = j.left /\ jn.skip = j.skip
         /\ jn.err = IF j.loops = 1 THEN "ErrLoopMax" ELSE "none"
         /\ j.loops > 1 => /\ jn.loops = j.loops - 1
                          /\ jn.buf = IF j.loops = 2 /\ j.left # 0 THEN j.left ELSE j.buf
<1>1. CASE j.loops = 1
  <2>1. jn = [j EXCEPT !.err = "ErrLoopMax"]
    BY <1>1 DEF Copy!AfterTurn
  <2> QED
    BY <1>1, <2>1 DEF CopyJob
<1>2. CASE j.loops = 0
  <2>1. jn = j
    BY <1>2 DEF Copy!AfterTurn
  <2> QED
    BY <1>2, <2>1 DEF CopyJob
<1>3. CASE j.loops # 0 /\ j.loops # 1
  <2> DEFINE b == IF j.loops = 2 /\ j.left # 0 THEN j.left ELSE j.buf
             lf == j.loops - 1
             i == [j EXCEPT !.loops = lf]
  <2>1. jn = [i EXCEPT !.buf = b]
    BY <1>3 DEF Copy!AfterTurn, Copy!LoopDone
  <2>2. b \in Nat /\ lf \in Nat /\ j.loops > 1
    BY <1>3 DEF CopyJob
  <2> HIDE DEF b, lf
  <2>3. i = [kind |-> "copy", c |-> j.c, size |-> j.size, loops |-> lf, left |-> j.left,
             buf |-> j.buf, skip |-> j.skip, err |-> "none"]
    BY DEF CopyJob
  <2> HIDE DEF i
  <2>4. jn = [kind |-> "copy", c |-> j.c, size |-> j.size, loops |-> lf, left |-> j.left,
              buf |-> b, skip |-> j.skip, err |-> "none"]
    BY <2>1, <2>3
  <2>5. /\ jn \in CopyJob /\ jn.c = j.c /\ jn.size = j.size /\ jn.left = j.left
        /\ jn.skip = j.skip /\ jn.err = "none" /\ jn.loops = lf /\ jn.buf = b
    BY <2>2, <2>4 DEF CopyJob
  <2> QED
    BY <1>3, <2>2, <2>5 DEF b, lf
<1> QED
  BY <1>1, <1>2, <1>3

\* The bytes to skip are spent.
LEMMA SpentJob ==
  ASSUME NEW j \in CopyJob, NEW i, i = [j EXCEPT !.skip = 0]
  PROVE  /\ i \in CopyJob /\ i.c = j.c /\ i.size = j.size /\ i.err = j.err
         /\ j.skip = 0 => i = j
<1>1. i \in CopyJob /\ i.c = j.c /\ i.size = j.size /\ i.err = j.err
  BY DEF CopyJob
<1>2. j.skip = 0 => i = j
  BY DEF CopyJob
<1> QED
  BY <1>1, <1>2

\* A copy that ends keeps its configuration.
LEMMA EndedJob ==
  ASSUME job \in CopyJob, NEW e \in {"nil", "skipped", "ErrCopyRead", "ErrCopyWrite"},
         job' = [job EXCEPT !.err = e]
  PROVE  /\ job' \in CopyJob /\ job'.c = job.c /\ job'.size = job.size /\ job'.skip = job.skip
         /\ job'.err = e
BY DEF CopyJob

\* A turn of Copy that writes the n bytes it read, or none.
LEMMA CopyTurn ==
  ASSUME job \in CopyJob, job.err = "none", InOrder(job, out, rest), InLimit(job, out),
         NEW n \in Nat, n <= Len(rest), n <= job.buf,
         rest' \in Seq(Nat), Run(out', job.c.skip), Run(rest', job.c.skip + Len(out')),
         Len(out') = Len(out) + n, Len(rest') = Len(rest) - n,
         job' = Copy!AfterTurn(job)
  PROVE  InOrder(job', out', rest') /\ InLimit(job', out')
<1> DEFINE a == job.c.skip
           lo == Len(out)
           lr == Len(rest)
<1>1. /\ job' \in CopyJob /\ job'.c = job.c /\ job'.size = job.size /\ job'.left = job.left
      /\ job'.skip = 0
      /\ job'.err = IF job.loops = 1 THEN "ErrLoopMax" ELSE "none"
      /\ job.loops > 1 => /\ job'.loops = job.loops - 1
                          /\ job'.buf = IF job.loops = 2 /\ job.left # 0 THEN job.left ELSE job.buf
  BY TurnJob DEF InOrder
<1>2. /\ a \in Nat /\ job.c \in CopyConfig /\ job.c.maxByte \in Nat /\ job.loops \in Nat
      /\ job.buf \in Nat /\ job.left \in Nat /\ job.size \in Nat
  BY DEF CopyJob, CopyConfig
<1>3. Run(out, a) /\ rest \in Seq(Nat) /\ Len(out) + Len(rest) = Following(job)
  BY DEF InOrder
<1> HIDE DEF a
<1>4. Len(out) \in Nat /\ Len(rest) \in Nat
  BY <1>3, LenProperties DEF Run
<1>7. Len(out') = lo + n
  OBVIOUS
<1>8. Len(out') + Len(rest') = Following(job')
  <2>1. (lo + n) + (lr - n) = lo + lr
    BY <1>4
  <2>2. Following(job') = Following(job)
    BY <1>1 DEF Following
  <2> QED
    BY <1>3, <2>1, <2>2
<1>9. InOrder(job', out', rest')
  <2>1. Following(job') \in Nat
    BY <1>1, <1>2 DEF Following, a
  <2> QED
    BY <1>1, <1>8, <2>1 DEF InOrder
<1> DEFINE k == Copy!Normal(job.c)
<1>10. k.bpl \in Nat \ {0} /\ k.left \in Nat
  BY <1>2, NormalOf
<1>11. InLimit(job', out')
  <2> HIDE DEF k, lo
  <2> SUFFICES ASSUME job.c.maxByte >= k.bpl
               PROVE  /\ Len(out') <= job.c.maxByte
                      /\ job'.err = "none" =>
                           /\ job'.loops >= 1 /\ job'.left = k.left
                           /\ Len(out') + LoopRoom(job'.loops, k.bpl, k.left) <= job.c.maxByte
                           /\ job'.buf = IF job'.loops = 1 /\ k.left # 0 THEN k.left ELSE k.bpl
    BY <1>1 DEF InLimit, k
  <2>1. /\ job.loops >= 1 /\ job.left = k.left
        /\ lo + LoopRoom(job.loops, k.bpl, k.left) <= job.c.maxByte
        /\ job.buf = IF job.loops = 1 /\ k.left # 0 THEN k.left ELSE k.bpl
    BY DEF InLimit, k, lo
  <2> DEFINE bp == k.bpl
             kl == k.left
             jl == job.loops
             rj == LoopRoom(jl, bp, kl)
  <2>0. bp \in Nat /\ kl \in Nat /\ jl \in Nat /\ jl >= 1
    BY <1>2, <1>10, <2>1
  <2>00. rj \in Nat /\ LoopRoom(1, bp, kl) = IF kl = 0 THEN bp ELSE kl
    <3> HIDE DEF bp, kl, jl
    <3> QED
      BY <2>0, LoopRoomIs
  <2>2. CASE job.loops = 1
    <3>1. LoopRoom(1, k.bpl, k.left) = job.buf
      BY <2>1, <2>00, <2>2
    <3>2. lo + job.buf <= job.c.maxByte /\ lo \in Nat
      BY <1>4, <2>1, <2>2, <3>1 DEF lo
    <3>3. lo + n <= job.c.maxByte
      BY <1>2, <3>2
    <3> QED
      BY <1>1, <1>7, <2>2, <3>3
  <2>3. CASE job.loops # 1
    <3> DEFINE q == jl - 1
               rm == LoopRoom(q, bp, kl)
    <3>1. q \in Nat /\ q >= 1 /\ job.loops > 1 /\ (job.loops = 2 <=> q = 1) /\ q = job.loops - 1
      BY <1>2, <2>1, <2>3
    <3>4. rm \in Nat /\ rj = rm + bp
      <4> HIDE DEF bp, kl, jl
      <4>1. rm = rj - bp
        BY <2>0, LoopRoomLess
      <4>2. rm \in Nat
        <5> HIDE DEF q
        <5> QED
          BY <2>0, <3>1, LoopRoomIs
      <4> HIDE DEF rj, rm
      <4> QED
        BY <2>0, <2>00, <4>1, <4>2
    <3>5. n <= bp /\ lo \in Nat /\ lo + rj <= job.c.maxByte /\ bp \in Nat
      BY <1>4, <1>10, <2>1, <2>3 DEF lo
    <3> HIDE DEF rj, rm, bp
    <3>6. (lo + n) + rm <= job.c.maxByte /\ lo + n <= job.c.maxByte
      BY <1>2, <3>4, <3>5
    <3>7. job'.loops = q /\ job'.left = k.left /\ job'.buf = IF q = 1 /\ k.left # 0 THEN k.left ELSE k.bpl
      BY <1>1, <2>1, <2>3, <3>1
    <3>8. rm = LoopRoom(q, k.bpl, k.left)
      BY DEF rm, bp
    <3> HIDE DEF q
    <3> QED
      BY <1>7, <3>1, <3>6, <3>7, <3>8
  <2> QED
    BY <2>2, <2>3
<1> QED
  BY <1>9, <1>11

\* A turn of Copy.
LEMMA CCopyStep ==
  ASSUME CInv, Copy!CopyStep
  PROVE  InCopy'
<1>1. InCopy /\ job \in CopyJob /\ job.err = "none"
  BY KindOfJob DEF Copy!CopyStep, Copy!Working, InCopy
<1> DEFINE DataOf(n) == IF job.skip = 0 THEN Copy!Prefix(rest, n)
                ELSE Copy!Tail1(Copy!Prefix(rest, n) \o [i \in 1..(job.buf - n) |-> 0], job.skip)
           Spent == [job EXCEPT !.skip = 0]
           Ends(e) == job' = [job EXCEPT !.err = e]
<1>2. PICK n \in Copy!Reads(job.buf) \cup {0} :
        /\ rest' = Copy!Tail1(rest, n)
        /\ \/ n = 0 /\ rest = <<>> /\ Ends("nil") /\ out' = out
           \/ n = 0 /\ Ends("ErrCopyRead") /\ out' = out
           \/ n = 0 /\ job' = Copy!AfterTurn(job) /\ out' = out
           \/ n > 0 /\ job.skip > 0 /\ Ends("skipped") /\ out' = out
           \/ n > 0 /\ out' = out \o DataOf(n) /\ job' = Copy!AfterTurn(Spent)
           \/ /\ n > 0 /\ Ends("ErrCopyWrite")
              /\ \E k \in 0..Len(DataOf(n)) : out' = out \o Copy!Prefix(DataOf(n), k)
  BY DEF Copy!CopyStep, Copy!Finish, Copy!WriteFails
<1>0. Spent \in CopyJob /\ Spent.c = job.c /\ Spent.size = job.size /\ Spent.err = job.err
      /\ (job.skip = 0 => Spent = job)
  BY <1>1, SpentJob
<1> HIDE DEF Spent
<1>3. job' \in CopyJob /\ job'.c = job.c /\ job'.size = job.size
  <2>1. CASE job' = Copy!AfterTurn(job)
    BY <1>1, <2>1, TurnJob
  <2>2. CASE job' = Copy!AfterTurn(Spent)
    <3>1. Spent.err = "none"
      BY <1>0, <1>1
    <3>2. job' \in CopyJob /\ job'.c = Spent.c /\ job'.size = Spent.size
      BY <1>0, <2>2, <3>1, TurnJob
    <3> QED
      BY <1>0, <3>2
  <2>3. CASE \E e \in {"nil", "skipped", "ErrCopyRead", "ErrCopyWrite"} : job' = [job EXCEPT !.err = e]
    BY <1>1, <2>3, EndedJob
  <2> HIDE DEF DataOf
  <2> QED
    BY <1>2, <2>1, <2>2, <2>3
<1>4. ASSUME job.c.seeker \/ job.c.skip = 0
      PROVE  InOrder(job', out', rest') /\ InLimit(job', out')
  <2>1. InOrder(job, out, rest) /\ InLimit(job, out)
    BY <1>1, <1>4 DEF InCopy
  <2>2. job.skip = 0 /\ rest \in Seq(Nat) /\ Len(rest) \in Nat
    BY <2>1, LenProperties DEF InOrder
  <2>3. n \in Nat /\ n <= Len(rest) /\ (n # 0 => n <= job.buf)
    <3>1. CASE n \in Copy!Reads(job.buf)
      BY <2>2, <3>1, ReadsOf
    <3>2. CASE n = 0
      BY <2>2, <3>2
    <3> QED
      BY <1>2, <3>1, <3>2
  <2> DEFINE d == Copy!Prefix(rest, n)
             a == job.c.skip
             al == a + Len(out)
  <2>4. DataOf(n) = d
    BY <2>2
  <2> HIDE DEF DataOf
  <2>5. /\ a \in Nat /\ Following(job) \in Nat /\ Run(out, a) /\ Run(rest, al) /\ Len(out) \in Nat
        /\ Len(out) + Len(rest) = Following(job) /\ al \in Nat
    BY <1>1, <2>1, LenProperties DEF InOrder, Run, Following, CopyJob, CopyConfig
  <2> HIDE DEF al, a, d
  <2>6. Run(d, al) /\ Len(d) = n /\ Run(rest', al + n) /\ Len(rest') = Len(rest) - n
    BY <1>2, <2>3, <2>5, RunRead DEF d
  <2>7. rest' \in Seq(Nat) /\ Len(rest') \in Nat
    BY <2>6, LenProperties DEF Run
  \* What is written of the bytes read.
  <2>8. ASSUME NEW t, Run(t, al), out' = out \o t
        PROVE  Run(out', a) /\ Len(out') = Len(out) + Len(t)
    BY <2>5, <2>8, RunConcat DEF al
  <2>9. ASSUME job' = Copy!AfterTurn(job), n <= job.buf,
               Run(out', a), Len(out') = Len(out) + n
        PROVE  InOrder(job', out', rest') /\ InLimit(job', out')
    <3>1. al + n = a + (Len(out) + n)
      BY <2>3, <2>5 DEF al
    <3>2. Run(rest', a + Len(out'))
      BY <2>6, <2>9, <3>1
    <3> QED
      BY <1>1, <2>1, <2>3, <2>6, <2>7, <2>9, <3>2, CopyTurn DEF a
  <2>10. ASSUME n > 0, out' = out \o DataOf(n), job' = Copy!AfterTurn(Spent)
         PROVE  InOrder(job', out', rest') /\ InLimit(job', out')
    <3>1. Run(out', a) /\ Len(out') = Len(out) + n
      BY <2>4, <2>6, <2>8, <2>10
    <3> QED
      BY <1>0, <2>2, <2>3, <2>9, <2>10, <3>1
  <2>11. ASSUME n = 0, out' = out, job' = Copy!AfterTurn(job)
         PROVE  InOrder(job', out', rest') /\ InLimit(job', out')
    <3>1. Run(out', a) /\ Len(out') = Len(out) + n /\ n <= job.buf
      BY <1>1, <2>5, <2>11 DEF CopyJob
    <3> QED
      BY <2>9, <2>11, <3>1
  <2>12. ASSUME NEW e \in {"ErrCopyRead", "ErrCopyWrite"}, job' = [job EXCEPT !.err = e],
                Run(out', a), Len(out') \in Nat, Len(out') <= Len(out) + n
         PROVE  InOrder(job', out', rest')
    <3>1. job'.c = job.c /\ job'.size = job.size /\ job'.skip = 0 /\ job'.err = e
      BY <1>1, <2>2, <2>12, EndedJob
    <3>2. Following(job') = Following(job)
      BY <3>1 DEF Following
    <3>3. Len(out') + Len(rest') <= Following(job)
      BY <2>2, <2>3, <2>5, <2>6, <2>7, <2>12
    <3> QED
      BY <2>7, <2>12, <3>1, <3>2, <3>3 DEF InOrder, a
  <2>13. ASSUME n = 0, out' = out, Ends("ErrCopyRead")
         PROVE  InOrder(job', out', rest')
    BY <2>5, <2>12, <2>13
  <2>14. ASSUME n = 0, rest = <<>>, out' = out, Ends("nil")
         PROVE  InOrder(job', out', rest')
    <3>1. job'.c = job.c /\ job'.size = job.size /\ job'.skip = 0 /\ job'.err = "nil"
      BY <1>1, <2>2, <2>14, EndedJob
    <3>2. Following(job') = Following(job)
      BY <3>1 DEF Following
    <3>3. Len(rest) = 0 /\ al + n = al
      BY <2>5, <2>14, EmptySeq
    <3>4. Len(rest') = 0 /\ Run(rest', al)
      BY <2>6, <2>14, <3>3
    <3>5. rest' = <<>>
      BY <3>4, ZeroRun
    <3>6. Len(out') + Len(rest') = Following(job')
      BY <2>5, <2>14, <3>2, <3>3, <3>4
    <3> QED
      BY <2>5, <2>7, <2>14, <3>1, <3>2, <3>4, <3>5, <3>6 DEF InOrder, a, al
  <2>15. ASSUME NEW k \in 0..Len(DataOf(n)), out' = out \o Copy!Prefix(DataOf(n), k), Ends("ErrCopyWrite")
         PROVE  InOrder(job', out', rest') /\ Len(out') <= Len(out) + n
    <3> DEFINE t == Copy!Prefix(d, k)
    <3>1. k \in Nat /\ k <= n
      BY <2>3, <2>4, <2>6, <2>15
    <3>2. Run(t, al) /\ Len(t) = k
      BY <2>6, <3>1, RunPrefix
    <3>3. out' = out \o t
      BY <2>4, <2>15
    <3> HIDE DEF t
    <3>4. Run(out', a) /\ Len(out') = Len(out) + k
      BY <2>8, <3>2, <3>3
    <3>5. Len(out') <= Len(out) + n /\ Len(out') \in Nat
      BY <2>3, <2>5, <3>1, <3>4
    <3> QED
      BY <2>12, <2>15, <3>4, <3>5
  \* A call that has ended has kept to its limit.
  <2>16. ASSUME NEW e \in {"nil", "ErrCopyRead"}, Ends(e), out' = out PROVE InLimit(job', out')
    <3>1. job'.c = job.c /\ job'.err = e
      BY <1>1, <2>16, EndedJob
    <3> QED
      BY <2>1, <2>16, <3>1 DEF InLimit
  <2>17. ASSUME n > 0, Ends("ErrCopyWrite"), Len(out') <= Len(out) + n, Len(out') \in Nat PROVE InLimit(job', out')
    <3>1. job'.c = job.c /\ job'.err = "ErrCopyWrite"
      BY <1>1, <2>17, EndedJob
    <3> DEFINE k == Copy!Normal(job.c)
    <3>2. k.bpl \in Nat \ {0} /\ k.left \in Nat /\ job.c.maxByte \in Nat /\ job.loops \in Nat
      BY <1>1, NormalOf DEF CopyJob, CopyConfig
    <3> SUFFICES ASSUME job.c.maxByte >= k.bpl PROVE Len(out') <= job.c.maxByte
      BY <3>1 DEF InLimit
    <3>3. /\ job.loops >= 1 /\ Len(out) + LoopRoom(job.loops, k.bpl, k.left) <= job.c.maxByte
          /\ job.buf = IF job.loops = 1 /\ k.left # 0 THEN k.left ELSE k.bpl
      BY <1>1, <2>1 DEF InLimit
    <3> HIDE DEF k
    <3>4. job.buf <= LoopRoom(job.loops, k.bpl, k.left) /\ job.buf \in Nat
          /\ LoopRoom(job.loops, k.bpl, k.left) \in Nat
      BY <3>2, <3>3, BufInRoom
    <3> QED
      BY <2>3, <2>5, <2>17, <3>2, <3>3, <3>4
  <2>18. ASSUME n > 0, Ends("ErrCopyWrite"), NEW k \in 0..Len(DataOf(n)), out' = out \o Copy!Prefix(DataOf(n), k)
         PROVE  InOrder(job', out', rest') /\ InLimit(job', out')
    <3>1. InOrder(job', out', rest') /\ Len(out') <= Len(out) + n
      BY <2>15, <2>18
    <3>2. Len(out') \in Nat
      BY <3>1, LenProperties DEF InOrder, Run
    <3> QED
      BY <2>17, <2>18, <3>1, <3>2
  <2>19. ~(job.skip > 0)
    BY <2>2
  <2>20. ASSUME n = 0, out' = out, Ends("ErrCopyRead") PROVE InOrder(job', out', rest') /\ InLimit(job', out')
    BY <2>13, <2>16, <2>20
  <2>21. ASSUME n = 0, rest = <<>>, out' = out, Ends("nil") PROVE InOrder(job', out', rest') /\ InLimit(job', out')
    BY <2>14, <2>16, <2>21
  <2> HIDE DEF Ends
  <2> QED
    BY <1>2, <2>10, <2>11, <2>18, <2>19, <2>20, <2>21
<1> QED
  BY <1>3, <1>4 DEF InCopy

\* A turn of ReadAll.
LEMMA CReadAllStep ==
  ASSUME CInv, Copy!ReadAllStep
  PROVE  InAll'
<1>1. InAll /\ job \in AllJob /\ job.err = "none"
  BY KindOfJob DEF Copy!ReadAllStep, Copy!Working, InAll
<1>2. PICK n \in Copy!Reads(job.cap - Len(out)) \cup IF job.cap = Len(out) THEN {0} ELSE {} :
        /\ rest' = Copy!Tail1(rest, n)
        /\ out' = out \o Copy!Prefix(rest, n)
        /\ \/ rest = <<>> /\ job' = [job EXCEPT !.err = "nil"]
           \/ job' = [job EXCEPT !.cap = IF Len(out') = job.cap THEN 2 * job.cap + 1 ELSE job.cap]
  BY DEF Copy!ReadAllStep, Copy!Finish
<1>3. /\ Run(out, 0) /\ Run(rest, Len(out)) /\ Len(out) + Len(rest) = job.size /\ Len(out) \in Nat
      /\ rest \in Seq(Nat) /\ Len(rest) \in Nat
  BY <1>1, LenProperties DEF InAll, Run
<1>4. n \in Nat /\ n <= Len(rest)
  <2>1. CASE n \in Copy!Reads(job.cap - Len(out))
    BY <1>3, <2>1, ReadsOf
  <2>2. CASE n = 0
    BY <1>3, <2>2
  <2> QED
    BY <1>2, <2>1, <2>2
<1> DEFINE d == Copy!Prefix(rest, n)
           lo == Len(out)
           lr == Len(rest)
<1>5. Run(d, lo) /\ Len(d) = n /\ Run(rest', lo + n) /\ Len(rest') = lr - n
  BY <1>2, <1>3, <1>4, RunRead
<1>6. Run(out', 0) /\ Len(out') = lo + n
  <2> HIDE DEF d
  <2>1. Run(d, 0 + Len(out))
    BY <1>3, <1>5
  <2> QED
    BY <1>2, <1>3, <1>5, <2>1, RunConcat DEF d
<1>7. job' \in AllJob /\ job'.size = job.size /\ (job'.err = "nil" => rest = <<>>)
  <2>1. CASE rest = <<>> /\ job' = [job EXCEPT !.err = "nil"]
    BY <1>1, <2>1 DEF AllJob
  <2>2. CASE job' = [job EXCEPT !.cap = IF Len(out') = job.cap THEN 2 * job.cap + 1 ELSE job.cap]
    <3> DEFINE k == IF Len(out') = job.cap THEN 2 * job.cap + 1 ELSE job.cap
    <3>1. k \in Nat
      BY <1>1 DEF AllJob
    <3> HIDE DEF k
    <3>2. job' = [kind |-> "readall", size |-> job.size, cap |-> k, err |-> "none"]
      BY <1>1, <2>2 DEF AllJob, k
    <3> QED
      BY <1>1, <3>1, <3>2 DEF AllJob
  <2> QED
    BY <1>2, <2>1, <2>2
<1>8. Len(out') + Len(rest') = job.size
  <2> HIDE DEF lo, lr
  <2>1. lo \in Nat /\ lr \in Nat /\ lo + lr = job.size
    BY <1>3 DEF lo, lr
  <2>2. (lo + n) + (lr - n) = job.size
    BY <1>4, <2>1
  <2> QED
    BY <1>5, <1>6, <2>2
<1>9. rest = <<>> => rest' = <<>>
  <2> SUFFICES ASSUME rest = <<>> PROVE rest' = <<>>
    OBVIOUS
  <2>1. Len(rest) = 0
    BY EmptySeq
  <2>2. Len(rest') = 0
    BY <1>3, <1>4, <1>5, <2>1
  <2> QED
    BY <1>5, <2>2, ZeroRun
<1> QED
  BY <1>5, <1>6, <1>7, <1>8, <1>9 DEF InAll

\* ReadLine reads into the start of its buffer.
LEMMA CReadLineRead ==
  ASSUME CInv, Copy!ReadLineRead
  PROVE  InLine'
<1>1. InLine /\ job \in LineJob /\ job.err = "none" /\ job.cu = 0 /\ out' = out
  BY KindOfJob DEF Copy!ReadLineRead, Copy!Working, InLine
<1>2. PICK n \in Copy!Reads(job.cap) :
        /\ rest' = Copy!Tail1(rest, n)
        /\ IF n = 0 THEN job' = [job EXCEPT !.err = "nil"]
           ELSE job' = [job EXCEPT !.buf = Copy!Prefix(rest, n), !.cu = 1]
  BY DEF Copy!ReadLineRead, Copy!Finish
<1> DEFINE lr == Len(rest)
           lb == Len(job.buf)
           sz == job.size
           a == sz - lr
<1>3. /\ Run(rest, a) /\ rest \in Seq(Nat) /\ lr \in Nat /\ lb \in Nat /\ sz \in Nat
      /\ lr + lb <= sz /\ out \in Seq(Lines)
      /\ Run(job.buf, a - lb)
      /\ job.whole => job.buf = <<>> /\ Followed(out, a - lb)
  BY <1>1, LenProperties DEF InLine, LineJob, Run
<1>4. n \in Nat /\ n <= Len(rest) /\ (n = 0 <=> rest = <<>>)
  BY <1>2, <1>3, ReadsOf
<1>5. a \in Nat
  BY <1>3
<1> HIDE DEF a
<1>6. /\ Run(Copy!Prefix(rest, n), a) /\ Len(Copy!Prefix(rest, n)) = n
      /\ Run(rest', a + n) /\ Len(rest') = lr - n
  BY <1>2, <1>3, <1>4, <1>5, RunRead
<1> DEFINE d == Copy!Prefix(rest, n)
<1> HIDE DEF d
<1>7. CASE n = 0
  <2>1. job' \in LineJob /\ job'.size = sz /\ job'.buf = job.buf /\ job'.cu = 0 /\ job'.whole = job.whole
    BY <1>1, <1>2, <1>7 DEF LineJob
  <2>2. Len(rest') = lr /\ a + n = a
    BY <1>3, <1>5, <1>6, <1>7
  <2>3. sz - Len(rest') = a
    BY <2>2 DEF a
  <2> QED
    BY <1>1, <1>3, <1>6, <2>1, <2>2, <2>3 DEF InLine
<1>8. CASE n # 0
  <2>0. d \in Seq(Nat) /\ Run(d, a) /\ Len(d) = n
    BY <1>6 DEF Run, d
  <2>1. job' = [kind |-> "readline", size |-> sz, cap |-> job.cap, buf |-> d, cu |-> 1,
                whole |-> job.whole, err |-> "none"]
    BY <1>1, <1>2, <1>8 DEF LineJob, d
  <2>2. job' \in LineJob /\ job'.size = sz /\ job'.buf = d /\ job'.cu = 1 /\ job'.whole = job.whole
    BY <1>1, <2>0, <2>1 DEF LineJob
  <2>3. sz - Len(rest') = a + n /\ a + n - n = a /\ Len(rest') + n <= sz
    <3>1. sz - (lr - n) = (sz - lr) + n /\ (lr - n) + n <= sz
      BY <1>3, <1>4
    <3> QED
      BY <1>4, <1>5, <1>6, <3>1 DEF a
  <2>4. job.whole => Followed(out, a)
    <3> SUFFICES ASSUME job.whole PROVE Followed(out, a)
      OBVIOUS
    <3>1. lb = 0 /\ a - lb = a
      BY <1>3, <1>5, EmptySeq
    <3> QED
      BY <1>3, <3>1
  <2>5. Run(rest', job'.size - Len(rest'))
    BY <1>6, <2>2, <2>3
  <2>6. job'.size - Len(rest') - Len(job'.buf) = a
    <3>1. job'.size - Len(rest') = a + n /\ Len(job'.buf) = n
      BY <2>0, <2>2, <2>3
    <3> QED
      BY <1>4, <1>5, <3>1
  <2>7. Len(rest') + Len(job'.buf) <= job'.size /\ out' \in Seq(Lines)
    BY <1>1, <1>3, <2>0, <2>2, <2>3
  <2> QED
    BY <1>1, <2>0, <2>2, <2>4, <2>5, <2>6, <2>7 DEF InLine
<1> QED
  BY <1>7, <1>8

\* A line is added to the lines that follow each other.
LEMMA FollowedMore ==
  ASSUME NEW o \in Seq(Lines), NEW p \in Nat, Followed(o, p), NEW e \in Nat, e + 1 \in Breaks
  PROVE  Followed(Append(o, [first |-> p + 1, last |-> e]), e + 1)
<1> DEFINE w == [first |-> p + 1, last |-> e]
           q == Append(o, w)
           lo == Len(o)
<1>1. w \in Lines
  BY DEF Lines
<1>2. w.first = p + 1 /\ w.last = e
  OBVIOUS
<1> HIDE DEF w
<1>3. lo \in Nat /\ q \in Seq(Lines) /\ Len(q) = lo + 1 /\ q[lo + 1] = w
      /\ \A i \in 1..lo : q[i] = o[i]
  BY <1>1, LenProperties, AppendProperties
<1> HIDE DEF q
<1>4. ASSUME NEW k \in 1..Len(q)
      PROVE  /\ q[k].first = IF k = 1 THEN 1 ELSE q[k - 1].last + 2
             /\ q[k].last + 1 \in Breaks
  <2>1. CASE k \in 1..lo
    <3>1. q[k] = o[k] /\ (k # 1 => q[k - 1] = o[k - 1])
      BY <1>3, <2>1
    <3> QED
      BY <2>1, <3>1 DEF Followed
  <2>2. CASE k = lo + 1
    <3>1. CASE lo = 0
      <4>1. o = <<>>
        BY <3>1, EmptySeq
      <4>2. p = 0
        BY <4>1 DEF Followed
      <4> QED
        BY <1>2, <1>3, <2>2, <3>1, <4>2
    <3>2. CASE lo # 0
      <4>1. o # <<>>
        BY <3>2, EmptySeq
      <4>2. p = o[lo].last + 1 /\ lo \in 1..lo
        BY <1>3, <3>2, <4>1 DEF Followed
      <4>3. q[k - 1] = o[lo] /\ k # 1 /\ q[k] = w
        BY <1>3, <2>2, <3>2, <4>2
      <4>4. o[lo].last \in Nat
        <5>1. o[lo] \in Lines
          BY <4>2, ElementOfSeq
        <5> QED
          BY <5>1 DEF Lines
      <4>5. p + 1 = q[k - 1].last + 2
        BY <4>2, <4>3, <4>4
      <4> QED
        BY <1>2, <4>3, <4>5
    <3> QED
      BY <3>1, <3>2
  <2> QED
    BY <1>3, <2>1, <2>2
<1>5. q # <<>> /\ q[Len(q)].last = e
  BY <1>2, <1>3, EmptySeq
<1> QED
  BY <1>4, <1>5 DEF Followed, q, w

\* ReadLine yields a line, or finds none.
LEMMA CReadLineYield ==
  ASSUME CInv, Copy!ReadLineYield
  PROVE  InLine'
<1>1. InLine /\ job \in LineJob /\ job.err = "none" /\ job.cu > 0 /\ rest' = rest
  BY KindOfJob DEF Copy!ReadLineYield, Copy!Working, InLine
<1> DEFINE lr == Len(rest)
           b == job.buf
           lb == Len(b)
           sz == job.size
           a == sz - lr - lb
<1>3. /\ Run(rest, sz - lr) /\ lr \in Nat /\ lb \in Nat /\ sz \in Nat
      /\ lr + lb <= sz /\ out \in Seq(Lines)
      /\ Run(b, a) /\ b \in Seq(Nat)
      /\ job.whole => Followed(out, a)
  BY <1>1, LenProperties DEF InLine, LineJob, Run
<1>4. a \in Nat /\ sz - lr = a + lb
  BY <1>3
<1> HIDE DEF a
<1>5. ASSUME NEW i \in 1..lb, job.buf[i] \in Breaks,
             out' = Append(out, [first |-> job.buf[1], last |-> job.buf[i] - 1]),
             job' = [job EXCEPT !.buf = Copy!Tail1(job.buf, i), !.cu = 2]
      PROVE  InLine'
  <2> DEFINE t == Copy!Tail1(b, i)
             e == a + i - 1
  <2>1. i \in Nat /\ i <= Len(b) /\ 1 \in 1..lb
    BY <1>3
  <2>2. Run(t, a + i) /\ Len(t) = lb - i
    BY <1>3, <1>4, <2>1, RunTail
  <2> HIDE DEF t
  <2>3. b[1] = a + 1 /\ b[i] = a + i
    BY <1>3, <2>1 DEF Run
  <2>4. e \in Nat /\ e + 1 = a + i
    BY <1>4
  <2>5. t \in Seq(Nat)
    BY <2>2 DEF Run
  <2>6. job' = [kind |-> "readline", size |-> sz, cap |-> job.cap, buf |-> t, cu |-> 2,
                whole |-> job.whole, err |-> "none"]
    BY <1>1, <1>5 DEF LineJob, t
  <2>7. job' \in LineJob /\ job'.size = sz /\ job'.buf = t /\ job'.cu = 2 /\ job'.whole = job.whole
    BY <1>1, <2>5, <2>6 DEF LineJob
  <2>8. out' = Append(out, [first |-> a + 1, last |-> e])
    <3>1. job.buf[i] - 1 = e /\ job.buf[1] = a + 1
      BY <1>4, <2>3
    <3> HIDE DEF e
    <3> QED
      BY <1>5, <3>1
  <2>9. [first |-> a + 1, last |-> e] \in Lines
    BY <1>4, <2>4 DEF Lines
  <2>10. out' \in Seq(Lines)
    BY <1>3, <2>8, <2>9, AppendProperties
  <2>11. job.whole => Followed(out', a + i)
    <3>1. job.whole => Followed(out', e + 1)
      BY <1>3, <1>4, <1>5, <2>3, <2>4, <2>8, FollowedMore
    <3> QED
      BY <2>4, <3>1
  <2>12. sz - lr - Len(t) = a + i /\ lr + Len(t) <= sz
    BY <1>3, <1>4, <2>1, <2>2
  <2>13. Run(rest', job'.size - Len(rest')) /\ Len(rest') + Len(job'.buf) <= job'.size
    BY <1>1, <1>3, <2>7, <2>12
  <2>14. job'.size - Len(rest') - Len(job'.buf) = a + i
    BY <1>1, <2>7, <2>12
  <2> QED
    BY <2>2, <2>7, <2>10, <2>11, <2>13, <2>14 DEF InLine
<1>6. ASSUME job' = [job EXCEPT !.cu = 0, !.whole = job.whole /\ job.buf = <<>>], out' = out
      PROVE  InLine'
  <2> PICK h \in BOOLEAN : h <=> (job.whole /\ job.buf = <<>>)
    OBVIOUS
  <2>1. h = (job.whole /\ job.buf = <<>>)
    BY <1>1 DEF LineJob
  <2>2. job' = [kind |-> "readline", size |-> sz, cap |-> job.cap, buf |-> b, cu |-> 0,
                whole |-> h, err |-> "none"]
    BY <1>1, <1>6, <2>1 DEF LineJob
  <2>3. job' \in LineJob /\ job'.size = sz /\ job'.buf = b /\ job'.cu = 0 /\ job'.whole = h
    BY <1>1, <2>2 DEF LineJob
  <2>4. sz - lr - lb = a
    BY DEF a
  <2> QED
    BY <1>1, <1>3, <1>6, <2>3, <2>4 DEF InLine
<1> QED
  BY <1>5, <1>6 DEF Copy!ReadLineYield, Copy!IsLine

\* What follows the first n members of a sequence.
LEMMA TailOf ==
  ASSUME NEW s \in Seq(Nat), NEW n \in Nat, n <= Len(s)
  PROVE  Copy!Tail1(s, n) \in Seq(Nat) /\ Len(Copy!Tail1(s, n)) = Len(s) - n
<1> DEFINE k == Len(s)
<1>1. k \in Nat /\ n <= k /\ k <= Len(s)
  BY LenProperties
<1> HIDE DEF k
<1>2. SubSeq(s, n + 1, k) \in Seq(Nat) /\ Len(SubSeq(s, n + 1, k)) = k - n
  BY <1>1, CutOf
<1> QED
  BY <1>2 DEF Copy!Tail1, k

\* A call of CopyDealer that ends.
LEMMA DealEnds ==
  ASSUME InDeal, NEW e \in DealErrors \ {"none"}, job' = [job EXCEPT !.err = e], RestIs',
         e = "panic" => Len(job.left) > 2 * job.si,
         job.dealt = {} => Run(out', 0) /\ Len(out') <= job.size /\ (e = "nil" => Len(out') = job.size)
  PROVE  InDeal'
<1>1. /\ job' \in DealJob /\ job'.size = job.size /\ job'.err = e /\ job'.dealt = job.dealt
      /\ job'.left = job.left /\ job'.si = job.si /\ job.si \in Nat /\ Len(job.left) \in Nat
  BY LenProperties DEF InDeal, DealJob
<1>2. ASSUME "longer" \notin job'.dealt PROVE Len(job'.left) < 2 * job'.si /\ e # "panic"
  <2>1. Len(job.left) < 2 * job.si
    BY <1>1, <1>2 DEF InDeal
  <2> QED
    BY <1>1, <2>1
<1> QED
  BY <1>1, <1>2 DEF InDeal

\* What was dealt is written in part.
LEMMA DealWritten ==
  ASSUME InDeal, job.err = "none", RestIs', NEW buf \in Seq(Nat),
         NEW dealt \in SUBSET {"changed", "longer"},
         job.dealt \subseteq dealt,
         "longer" \notin dealt => Len(buf) <= 2 * job.si,
         NEW wn \in 1..Copy!LowOf(job.si, Len(buf)),
         out' = IF dealt = {} THEN out \o Copy!Prefix(buf, wn) ELSE out,
         dealt = {} => Run(buf, Len(out)) /\ Len(out) + Len(buf) + Len(rest') = job.size,
         job' = [kind |-> "dealer", size |-> job.size, len |-> job.len, si |-> job.si,
                 left |-> Copy!Tail1(buf, wn), dealt |-> dealt, err |-> "none"]
  PROVE  InDeal'
<1> DEFINE t == Copy!Tail1(buf, wn)
           h == Copy!Prefix(buf, wn)
<1>1. /\ job \in DealJob /\ job.si \in Nat \ {0} /\ Len(buf) \in Nat /\ job.size \in Nat
      /\ Len(rest') \in Nat
  BY LenProperties DEF InDeal, DealJob, RestIs, Run
<1>2. wn \in Nat /\ wn >= 1 /\ wn <= Len(buf)
  BY <1>1 DEF Copy!LowOf
<1>3. t \in Seq(Nat) /\ Len(t) = Len(buf) - wn
  BY <1>2, TailOf
<1> HIDE DEF t
<1>4. job' = [kind |-> "dealer", size |-> job.size, len |-> job.len, si |-> job.si, left |-> t,
              dealt |-> dealt, err |-> "none"]
  BY DEF t
<1>5. /\ job' \in DealJob /\ job'.size = job.size /\ job'.si = job.si /\ job'.left = t
      /\ job'.dealt = dealt /\ job'.err = "none"
  <2>1. job.size \in Nat /\ job.len \in Nat /\ "none" \in DealErrors
    BY <1>1 DEF DealJob, DealErrors
  <2>2. job' \in DealJob
    <3> DEFINE E == DealErrors
               D == SUBSET {"changed", "longer"}
    <3>1. dealt \in D /\ "none" \in E
      BY <2>1
    <3> HIDE DEF E, D
    <3>2. job' \in [kind : {"dealer"}, size : Nat, len : Nat, si : Nat \ {0}, left : Seq(Nat),
                    dealt : D, err : E]
      BY <1>1, <1>3, <1>4, <2>1, <3>1
    <3> QED
      BY <3>2 DEF E, D, DealJob
  <2> QED
    BY <1>4, <2>2
<1>6. ASSUME "longer" \notin dealt PROVE Len(t) < 2 * job.si
  <2>1. Len(buf) <= 2 * job.si
    BY <1>6
  <2> QED
    BY <1>1, <1>2, <1>3, <2>1
<1>7. ASSUME dealt = {}
      PROVE  /\ Run(out', 0) /\ Len(out') <= job.size
             /\ Run(t, Len(out')) /\ Len(out') + Len(t) + Len(rest') = job.size
  <2>1. job.dealt = {} /\ Run(buf, Len(out)) /\ out' = out \o h
    BY <1>7
  <2>2. Run(out, 0) /\ Len(out) \in Nat /\ Len(out) + Len(buf) + Len(rest') = job.size
    BY <1>7, <2>1, LenProperties DEF InDeal, Run
  <2>3. Run(h, Len(out)) /\ Len(h) = wn /\ Run(t, Len(out) + wn)
    BY <1>2, <2>1, <2>2, RunRead DEF t
  <2> HIDE DEF h
  <2>4. Run(h, 0 + Len(out))
    BY <2>2, <2>3
  <2>5. Run(out', 0) /\ Len(out') = Len(out) + wn
    BY <2>1, <2>2, <2>3, <2>4, RunConcat
  <2>6. Len(out) + wn <= job.size /\ (Len(out) + wn) + (Len(buf) - wn) + Len(rest') = job.size
    BY <1>1, <1>2, <2>2
  <2> QED
    BY <1>3, <2>3, <2>5, <2>6
<1> QED
  BY <1>5, <1>6, <1>7 DEF InDeal

\* A turn of CopyDealer.
LEMMA CDealerStep ==
  ASSUME CInv, Copy!CopyDealerStep
  PROVE  InDeal'
<1>1. InDeal /\ job \in DealJob /\ job.err = "none" /\ RestIs
  BY KindOfJob DEF Copy!CopyDealerStep, Copy!Working, InDeal
<1> DEFINE room == 2 * job.si - Len(job.left)
           Ends(e) == job' = [job EXCEPT !.err = e]
           BufOf(n) == job.left \o Copy!Prefix(rest, n)
<1>2. /\ Len(job.left) \in Nat /\ job.left \in Seq(Nat) /\ job.si \in Nat \ {0} /\ job.size \in Nat
      /\ rest \in Seq(Nat) /\ Len(rest) \in Nat /\ Len(rest) <= job.size /\ job.len \in Nat
      /\ job.dealt \in SUBSET {"changed", "longer"}
  BY <1>1, LenProperties DEF DealJob, RestIs, Run
\* Nothing was written in a call that has ended.
<1>3. ASSUME NEW e \in DealErrors \ {"none", "nil"}, Ends(e), out' = out, RestIs',
             e = "panic" => Len(job.left) > 2 * job.si
      PROVE  InDeal'
  <2>1. job.dealt = {} => Run(out', 0) /\ Len(out') <= job.size
    BY <1>1, <1>3 DEF InDeal
  <2> QED
    BY <1>1, <1>3, <2>1, DealEnds
\* The reader gives nothing: what was followed still is.
<1>4. ASSUME NEW e \in DealErrors, Ends(e) PROVE job'.size = job.size
  BY <1>1, <1>4 DEF DealJob
<1>5. CASE Len(job.left) > 2 * job.si /\ Ends("panic") /\ UNCHANGED <<rest, out>>
  <2>1. RestIs'
    BY <1>1, <1>4, <1>5 DEF RestIs, DealErrors
  <2> QED
    BY <1>3, <1>5, <2>1 DEF DealErrors
<1>6. ASSUME NEW e \in {"ErrRead", "ErrWrite", "EOF"}, Ends(e), UNCHANGED <<rest, out>> PROVE InDeal'
  <2>1. RestIs'
    BY <1>1, <1>4, <1>6 DEF RestIs, DealErrors
  <2> QED
    BY <1>3, <1>6, <2>1 DEF DealErrors
<1>7. CASE UNCHANGED job /\ UNCHANGED <<rest, out>>
  BY <1>1, <1>7 DEF InDeal, RestIs
<1>8. ASSUME NEW n \in Copy!Reads(room), rest' = Copy!Tail1(rest, n),
             \/ n = 0 /\ Copy!DealerEnd
             \/ n > 0 /\ Ends("ErrCopyDealerStop") /\ UNCHANGED out
             \/ n > 0 /\ Ends("ErrCopyDealerBufOF") /\ UNCHANGED out
             \/ n > 0 /\ job.dealt = {} /\ Copy!DealerWrite(BufOf(n), {})
             \/ n > 0 /\ job' = [job EXCEPT !.dealt = job.dealt \cup {"changed"}] /\ UNCHANGED out
             \/ /\ n > 0
                /\ \E k \in 1..job.len :
                     Copy!DealerWrite([i \in 1..k |-> 0],
                       job.dealt \cup IF k > Len(BufOf(n)) THEN {"changed", "longer"} ELSE {"changed"})
      PROVE  InDeal'
  <2> DEFINE g == job.size - Len(rest)
             d == Copy!Prefix(rest, n)
             buf == BufOf(n)
  <2>1. n \in Nat /\ n <= Len(rest) /\ (n = 0 <=> rest = <<>>) /\ (n # 0 => n <= room)
    BY <1>2, <1>8, ReadsOf
  <2>2. ASSUME job'.size = job.size
        PROVE  RestIs' /\ Len(rest') = Len(rest) - n
    BY <1>1, <1>2, <1>8, <2>1, <2>2, RestRead
  <2>3. Run(d, g) /\ Len(d) = n /\ d \in Seq(Nat)
    <3>1. Run(rest, g)
      BY <1>1 DEF RestIs
    <3>2. Run(d, g) /\ Len(d) = n
      BY <2>1, <3>1, RunPrefix
    <3> QED
      BY <3>2 DEF Run
  <2> HIDE DEF d
  <2>4. buf \in Seq(Nat) /\ Len(buf) = Len(job.left) + n
    <3>1. job.left \o d \in Seq(Nat) /\ Len(job.left \o d) = Len(job.left) + Len(d)
      BY <1>2, <2>3, ConcatOf
    <3> QED
      BY <2>3, <3>1 DEF d
  <2>5. n > 0 => Len(buf) <= 2 * job.si
    BY <1>2, <2>1, <2>4
  <2>6. ASSUME job.dealt = {}
        PROVE  /\ Run(buf, Len(out)) /\ Len(out) + Len(buf) + (Len(rest) - n) = job.size
               /\ Run(out, 0) /\ Len(out) \in Nat /\ Len(out) <= job.size
               /\ Run(job.left, Len(out)) /\ Len(out) + Len(job.left) + Len(rest) = job.size
    <3>1. /\ Run(out, 0) /\ Run(job.left, Len(out)) /\ Len(out) + Len(job.left) + Len(rest) = job.size
          /\ Len(out) <= job.size /\ Len(out) \in Nat
      BY <1>1, <2>6, LenProperties DEF InDeal, Run
    <3>2. g = Len(out) + Len(job.left)
      BY <1>2, <3>1
    <3> HIDE DEF g
    <3>3. Run(job.left \o d, Len(out))
      BY <2>3, <3>1, <3>2, RunConcat
    <3>4. Run(buf, Len(out))
      BY <3>3 DEF d
    <3>5. Len(out) + Len(buf) + (Len(rest) - n) = job.size
      BY <1>2, <2>1, <2>4, <3>1
    <3> QED
      BY <3>1, <3>4, <3>5
  <2> HIDE DEF buf, BufOf, g, room
  <2>7. ASSUME NEW e \in {"ErrCopyDealerStop", "ErrCopyDealerBufOF", "ErrWrite", "EOF"}, Ends(e), out' = out
        PROVE  InDeal'
    <3>1. RestIs'
      BY <1>4, <2>2, <2>7 DEF DealErrors
    <3> QED
      BY <1>3, <2>7, <3>1 DEF DealErrors
  <2>8. ASSUME NEW b \in Seq(Nat), NEW dealt \in SUBSET {"changed", "longer"}, job.dealt \subseteq dealt,
               "longer" \notin dealt => Len(b) <= 2 * job.si,
               dealt = {} => b = buf,
               Copy!DealerWrite(b, dealt)
        PROVE  InDeal'
    <3>1. CASE \E e \in {"ErrWrite", "EOF"} : Ends(e) /\ out' = out
      BY <2>7, <3>1
    <3>2. ASSUME NEW wn \in 1..Copy!LowOf(job.si, Len(b)),
                 out' = IF dealt = {} THEN out \o Copy!Prefix(b, wn) ELSE out,
                 job' = [job EXCEPT !.left = Copy!Tail1(b, wn), !.dealt = dealt]
          PROVE  InDeal'
      <4> DEFINE t == Copy!Tail1(b, wn)
      <4>0. job' = [kind |-> "dealer", size |-> job.size, len |-> job.len, si |-> job.si,
                    left |-> t, dealt |-> dealt, err |-> "none"]
        <5> HIDE DEF t
        <5> DEFINE i == [job EXCEPT !.left = t]
                   D == SUBSET {"changed", "longer"}
        <5>0. job \in [kind : {"dealer"}, size : Nat, len : Nat, si : Nat \ {0}, left : Seq(Nat),
                      dealt : D, err : DealErrors]
          BY <1>1 DEF DealJob
        <5> HIDE DEF D
        <5>1. i = [kind |-> "dealer", size |-> job.size, len |-> job.len, si |-> job.si,
                   left |-> t, dealt |-> job.dealt, err |-> "none"]
          <6>1. job.err = "none" /\ job.kind = "dealer"
            BY <1>1, <5>0
          <6>2. i = [kind |-> job.kind, size |-> job.size, len |-> job.len, si |-> job.si,
                     left |-> t, dealt |-> job.dealt, err |-> job.err]
            <7> HIDE DEF i
            <7>1. i = [job EXCEPT !.left = t]
              BY DEF i
            <7> QED
              BY <5>0, <7>1
          <6> QED
            BY <6>1, <6>2
        <5>2. job' = [i EXCEPT !.dealt = dealt]
          BY <3>2 DEF t
        <5> HIDE DEF i
        <5> QED
          BY <5>1, <5>2
      <4>1. job'.size = job.size
        BY <4>0
      <4>2. RestIs' /\ Len(rest') = Len(rest) - n
        BY <2>2, <4>1
      <4>3. dealt = {} => Run(b, Len(out)) /\ Len(out) + Len(b) + Len(rest') = job.size
        BY <2>6, <2>8, <4>2
      <4> QED
        BY <1>1, <2>8, <3>2, <4>0, <4>2, <4>3, DealWritten
    <3> QED
      BY <2>8, <3>1, <3>2 DEF Copy!DealerWrite, Copy!Finish
  <2>9. CASE n = 0 /\ Copy!DealerEnd
    <3>1. ASSUME NEW e \in {"nil", "ErrWrite", "EOF"}, Ends(e), NEW k \in Nat, k <= Len(job.left),
                 out' = out \o Copy!Prefix(job.left, k), e = "nil" => k = Len(job.left)
          PROVE  InDeal'
      <4> DEFINE t == Copy!Prefix(job.left, k)
      <4>1. RestIs' /\ Len(rest) = 0
        BY <1>4, <2>1, <2>2, <2>9, <3>1, EmptySeq DEF DealErrors
      <4>2. ASSUME job.dealt = {}
            PROVE  Run(out', 0) /\ Len(out') <= job.size /\ (e = "nil" => Len(out') = job.size)
        <5>1. /\ Run(out, 0) /\ Len(out) \in Nat /\ Run(job.left, Len(out))
              /\ Len(out) + Len(job.left) + Len(rest) = job.size
          BY <2>6, <4>2
        <5>2. Run(t, 0 + Len(out)) /\ Len(t) = k
          BY <3>1, <5>1, RunPrefix
        <5> HIDE DEF t
        <5>3. Run(out', 0) /\ Len(out') = Len(out) + k
          BY <3>1, <5>1, <5>2, RunConcat DEF t
        <5> QED
          BY <1>2, <3>1, <4>1, <5>1, <5>3
      <4> QED
        BY <1>1, <3>1, <4>1, <4>2, DealEnds DEF DealErrors
    <3> HIDE DEF Ends
    <3>2. CASE out' = out \o job.left /\ Ends("nil")
      <4>1. Copy!Prefix(job.left, Len(job.left)) = job.left
        <5>1. Copy!Prefix(job.left, Len(job.left)) = SubSeq(job.left, 1, Len(job.left))
          BY <1>2 DEF Copy!Prefix, Copy!LowOf
        <5> QED
          BY <1>2, <5>1
      <4> DEFINE k == Len(job.left)
      <4>2. k \in Nat /\ k <= Len(job.left) /\ k = Len(job.left)
        BY <1>2
      <4>3. out' = out \o Copy!Prefix(job.left, k)
        BY <3>2, <4>1
      <4> HIDE DEF k
      <4> QED
        BY <3>1, <3>2, <4>2, <4>3
    <3>3. CASE \E e \in {"ErrWrite", "EOF"} : Copy!WriteFails(job.left, e)
      <4>1. PICK e \in {"ErrWrite", "EOF"}, k \in 0..Len(job.left) :
                out' = out \o Copy!Prefix(job.left, k) /\ Ends(e)
        BY <3>3 DEF Copy!WriteFails, Copy!Finish, Ends
      <4>2. k \in Nat /\ k <= Len(job.left) /\ e # "nil"
        BY <1>2, <4>1
      <4> QED
        BY <3>1, <4>1, <4>2
    <3> QED
      BY <2>9, <3>2, <3>3 DEF Copy!DealerEnd, Copy!Finish, Ends
  <2>10. CASE n > 0 /\ job.dealt = {} /\ Copy!DealerWrite(buf, {})
    BY <2>4, <2>5, <2>8, <2>10
  <2>11. CASE n > 0 /\ job' = [job EXCEPT !.dealt = job.dealt \cup {"changed"}] /\ UNCHANGED out
    <3> DEFINE dl == job.dealt \cup {"changed"}
    <3>1. dl \in SUBSET {"changed", "longer"} /\ dl # {} /\ ("longer" \notin dl => "longer" \notin job.dealt)
      BY <1>2
    <3> HIDE DEF dl
    <3>2. job' = [kind |-> "dealer", size |-> job.size, len |-> job.len, si |-> job.si,
                  left |-> job.left, dealt |-> dl, err |-> "none"]
      BY <1>1, <2>11 DEF DealJob, dl
    <3>3. /\ job' \in DealJob /\ job'.size = job.size /\ job'.si = job.si /\ job'.left = job.left
          /\ job'.dealt = dl /\ job'.err = "none"
      BY <1>1, <3>1, <3>2 DEF DealJob, DealErrors
    <3>4. RestIs'
      BY <2>2, <3>3
    <3> QED
      BY <1>1, <3>1, <3>3, <3>4 DEF InDeal
  <2>12. ASSUME n > 0, NEW k \in 1..job.len,
                Copy!DealerWrite([i \in 1..k |-> 0],
                  job.dealt \cup IF k > Len(buf) THEN {"changed", "longer"} ELSE {"changed"})
         PROVE  InDeal'
    <3> DEFINE z == [i \in 1..k |-> 0]
               dl == job.dealt \cup IF k > Len(buf) THEN {"changed", "longer"} ELSE {"changed"}
    <3>1. z \in Seq(Nat) /\ Len(z) = k /\ k \in Nat
      BY <1>2, <2>12
    <3>2. dl \in SUBSET {"changed", "longer"} /\ job.dealt \subseteq dl /\ dl # {}
          /\ ("longer" \notin dl => ~(k > Len(buf)))
      BY <1>2
    <3>3. Copy!DealerWrite(z, dl)
      BY <2>12
    <3> HIDE DEF z, dl
    <3>4. "longer" \notin dl => Len(z) <= 2 * job.si
      BY <1>2, <2>4, <2>5, <2>12, <3>1, <3>2
    <3> QED
      BY <2>8, <3>1, <3>2, <3>3, <3>4
  <2> QED
    BY <1>8, <2>7, <2>9, <2>10, <2>11, <2>12 DEF buf
<1>9. \/ Len(job.left) > 2 * job.si /\ Ends("panic") /\ UNCHANGED <<rest, out>>
      \/ \E e \in {"ErrRead", "ErrWrite", "EOF"} : Ends(e) /\ UNCHANGED <<rest, out>>
      \/ UNCHANGED job /\ UNCHANGED <<rest, out>>
      \/ \E n \in Copy!Reads(room) :
           /\ rest' = Copy!Tail1(rest, n)
           /\ \/ n = 0 /\ Copy!DealerEnd
              \/ n > 0 /\ Ends("ErrCopyDealerStop") /\ UNCHANGED out
              \/ n > 0 /\ Ends("ErrCopyDealerBufOF") /\ UNCHANGED out
              \/ n > 0 /\ job.dealt = {} /\ Copy!DealerWrite(BufOf(n), {})
              \/ n > 0 /\ job' = [job EXCEPT !.dealt = job.dealt \cup {"changed"}] /\ UNCHANGED out
              \/ /\ n > 0
                 /\ \E k \in 1..job.len :
                      Copy!DealerWrite([i \in 1..k |-> 0],
                        job.dealt \cup IF k > Len(BufOf(n)) THEN {"changed", "longer"} ELSE {"changed"})
  BY DEF Copy!CopyDealerStep, Copy!Finish
<1> QED
  BY <1>5, <1>6, <1>7, <1>8, <1>9

\* Every step of a copy keeps the invariant.
LEMMA CNext ==
  ASSUME CInv, [Copy!Next]_(Copy!vars)
  PROVE  CInv'
<1>1. CASE UNCHANGED Copy!vars
  BY <1>1 DEF Copy!vars, CInv, InNone, InCopy, InConfig, InAll, InDeal, InLine, RestIs
<1>2. CASE Copy!Next
  BY <1>2, CCopyBegin, CConfigBegin, CCopyStep, CConfigWrite, CBegin, CReadAllStep, CReadLineRead,
     CReadLineYield, CDealerStep DEF Copy!Next, CInv
<1> QED
  BY <1>1, <1>2

\* io/io.go and io/copyDealer.go: whatever the pattern of the reads is, whether the reader or the
\* writer fails, and however a writer with a configuration is called, Copy, WriterWithConfig,
\* ReadAll and ReadLine lose, repeat and move no byte, and Copy keeps to MaxByte.  CopyDealer does
\* so while its dealers change nothing, and whatever they change it has room for a read, and does
\* not panic, as long as they never lengthen the data.
THEOREM CopiedExactCorrect == Copy!Spec => []Copy!CopiedExact
<1> QED
  BY CInit, CNext, CExact, PTL DEF Copy!Spec

----------------------------------------------------------------------------
(* The searches of a File.                                                 *)

\* A set of natural numbers has a smallest one.
LEMMA SmallestPlace ==
  ASSUME NEW S \in SUBSET Nat, S # {}
  PROVE  \E n \in S : \A k \in S : n <= k
<1> DEFINE R == OpToRel(<, Nat)
<1>1. IsWellFoundedOn(R, Nat)
  BY NatLessThanWellFounded
<1>2. \E x \in S : \A y \in S : ~ (<<y, x>> \in R)
  <2> HIDE DEF R
  <2> QED
    BY <1>1, WFMin
<1>3. \A x, y \in Nat : <<y, x>> \in R <=> y < x
  BY DEF OpToRel
<1>4. PICK n \in S : \A k \in S : ~ (<<k, n>> \in R)
  BY <1>2
<1> HIDE DEF R
<1>5. \A k \in S : k \in Nat /\ n \in Nat /\ ~(k < n)
  BY <1>3, <1>4
<1> QED
  BY <1>5

\* The separator d is in s behind i elements.
Here(s, d, i) == SubSeq(s, i + 1, i + Len(d)) = d

\* bytes.Index: the first place, or -1.
LEMMA IndexOf ==
  ASSUME NEW s \in Seq(Nat), NEW d \in Seq(Nat), NEW x, x = Search!Index(s, d)
  PROVE  \/ x = -1 /\ \A i \in 0..(Len(s) - Len(d)) : ~ Here(s, d, i)
         \/ /\ x \in 0..(Len(s) - Len(d)) /\ Here(s, d, x)
            /\ \A i \in 0..(Len(s) - Len(d)) : Here(s, d, i) => x <= i
<1> DEFINE T == {i \in 0..(Len(s) - Len(d)) : Here(s, d, i)}
<1>1. x = IF T = {} THEN -1 ELSE Search!Min(T)
  BY DEF Search!Index, Here
<1>2. CASE T = {}
  BY <1>1, <1>2
<1>3. CASE T # {}
  <2>1. T \in SUBSET Nat
    OBVIOUS
  <2>2. \E n \in T : \A k \in T : n <= k
    BY <1>3, <2>1, SmallestPlace
  <2>3. x = CHOOSE n \in T : \A k \in T : n <= k
    BY <1>1, <1>3 DEF Search!Min
  <2>4. x \in T /\ \A k \in T : x <= k
    <3> HIDE DEF T
    <3> QED
      BY <2>2, <2>3
  <2> QED
    BY <2>4
<1> QED
  BY <1>2, <1>3

\* A place of s is a place of t when s lies in t.
LEMMA HereSame ==
  ASSUME NEW s \in Seq(Nat), NEW t \in Seq(Nat), NEW d \in Seq(Nat), NEW u \in Nat,
         u + Len(s) <= Len(t), \A k \in 1..Len(s) : s[k] = t[u + k],
         NEW i \in Nat, i + Len(d) <= Len(s)
  PROVE  Here(s, d, i) <=> Here(t, d, u + i)
<1> DEFINE sl == Len(d)
           n == Len(s)
           a == SubSeq(s, i + 1, i + sl)
           j == u + i
           b == SubSeq(t, j + 1, j + sl)
<1>1. sl \in Nat /\ n \in Nat /\ Len(t) \in Nat
  BY LenProperties
<1>2. i <= i + sl /\ i + sl \in Nat /\ i + sl <= n /\ j \in Nat /\ j + sl \in Nat /\ j <= j + sl
      /\ j + sl <= Len(t) /\ (i + sl) - i = sl /\ (j + sl) - j = sl
  BY <1>1
<1>3. a \in Seq(Nat) /\ Len(a) = sl /\ \A k \in 1..sl : a[k] = s[i + k]
  <2>1. a \in Seq(Nat) /\ Len(a) = (i + sl) - i /\ \A k \in 1..((i + sl) - i) : a[k] = s[i + k]
    BY <1>1, <1>2, CutOf
  <2> HIDE DEF a
  <2> QED
    BY <1>2, <2>1
<1>4. b \in Seq(Nat) /\ Len(b) = sl /\ \A k \in 1..sl : b[k] = t[j + k]
  <2> HIDE DEF j
  <2>1. b \in Seq(Nat) /\ Len(b) = (j + sl) - j /\ \A k \in 1..((j + sl) - j) : b[k] = t[j + k]
    BY <1>1, <1>2, CutOf
  <2> HIDE DEF b
  <2> QED
    BY <1>2, <2>1
<1> HIDE DEF a, b
<1>5. ASSUME NEW k \in 1..Len(a) PROVE a[k] = b[k]
  <2>1. k \in 1..sl
    BY <1>3
  <2>2. i + k \in 1..n /\ u + (i + k) = j + k
    BY <1>1, <1>2, <2>1
  <2>3. s[i + k] = t[u + (i + k)]
    BY <2>2
  <2> QED
    BY <1>3, <1>4, <2>1, <2>2, <2>3
<1>6. a = b
  BY <1>3, <1>4, <1>5, SeqEqual
<1> QED
  BY <1>6 DEF Here, a, b, j, sl

----------------------------------------------------------------------------
\* The calls that search, and where the cursor p may be.
SearchErrs == {"none", "nil", "EOF", "max", "write", "panic"}
SearchCall ==
  [op : {"until", "copy", "seek"}, sep : Seps, per : Pers, from : 0..Len(text), left : Int,
   first : BOOLEAN, area : Seq(Nat), data : Seq(Nat), err : SearchErrs]
STyped(c, p) ==
  /\ p \in 0..Len(text)
  /\ \/ c.op \in {"none", "all", "buf", "index"} /\ c.err # "none"
     \/ c \in SearchCall /\ Len(c.area) = Len(c.sep) - 1 + c.per
\* The calls whose data, and those whose cursor, UntilExact speaks about.
KeepsData(c) == Search!DataKept(c.sep, c.per, c.from)
KeepsPlace(c) == Search!PlaceKept(c.sep, c.per, c.from)
\* The reserve that the next piece moves to the front is the text before the cursor.
Fronted(c, p) ==
  \/ p = Len(text)
  \/ /\ (c.from - Search!SeekBack(c.sep, c.from)) + (Len(c.sep) - 1) <= p
     /\ \A i \in 1..(Len(c.sep) - 1) :
          c.area[(Len(c.sep) - 1) + i] = text[(p - (Len(c.sep) - 1)) + i]
\* While a search is under way, no separator lies before the cursor, and the data is what was
\* read so far.
SUnder(c, p) ==
  /\ \/ Search!FirstSep(c.sep, c.from) < 0
     \/ Search!FirstSep(c.sep, c.from) + Len(c.sep) > p
  /\ c.first => p = c.from - Search!SeekBack(c.sep, c.from) /\ c.data = <<>>
  /\ ~c.first => Fronted(c, p)
  /\ ~c.first /\ KeepsData(c) =>
       /\ c.from <= p /\ (Len(c.sep) = 1 \/ p = Len(text))
       /\ c.op # "seek" => c.data = SubSeq(text, c.from + 1, p)
\* What UntilExact says of a search that has ended.
SExact(c, p) ==
  LET i == Search!FirstSep(c.sep, c.from)
      given == c.op # "seek"
      behind == SubSeq(text, c.from + 1, Len(text))
  IN  /\ KeepsPlace(c) =>
           /\ c.err = "nil" => i >= 0 /\ p = IF given THEN i + Len(c.sep) ELSE i
           /\ c.err = "EOF" => i < 0 /\ p = Len(text)
      /\ given /\ KeepsData(c) =>
           /\ c.err = "nil" => c.data = SubSeq(text, c.from + 1, i)
           /\ c.err = "EOF" => c.data = behind
           /\ c.err = "panic" => i \in 0..(c.from - 1)
           /\ c.err \in {"max", "write"} => Search!IsPrefix(c.data, behind)
SOk(c, p) ==
  /\ STyped(c, p)
  /\ c \in SearchCall =>
       /\ c.err = "none" /\ KeepsPlace(c) => SUnder(c, p)
       /\ c.err # "none" => SExact(c, p)
STypes == text \in Seq(Nat) /\ STyped(call, pos)
SFrom == call.from - Search!SeekBack(call.sep, call.from)
SInv == text \in Seq(Nat) /\ SOk(call, pos)

\* What is known of the constants, and of the separator of a call.
LEMMA SepOf ==
  ASSUME STypes, call \in SearchCall
  PROVE  /\ call.sep \in Seq(Nat) /\ call.sep # <<>> /\ Len(call.sep) \in Nat /\ Len(call.sep) >= 1
         /\ call.per \in Nat /\ call.per >= 1 /\ call.from \in 0..Len(text)
         /\ text \in Seq(Nat) /\ Len(text) \in Nat /\ pos \in 0..Len(text)
         /\ call.area \in Seq(Nat) /\ Len(call.area) = Len(call.sep) - 1 + call.per
<1>1. call.sep \in Seq(Nat) /\ call.sep # <<>> /\ call.per \in Nat /\ call.per >= 1
  <2>1. call.sep \in Seps /\ call.per \in Pers
    BY DEF SearchCall
  <2>2. Seps \subseteq Seq(Nat) \ {<<>>} /\ Pers \subseteq Nat \ {0}
    BY BoundsAssumptions DEF Search!FileSearchAssumption
  <2>3. call.sep \in Seq(Nat) \ {<<>>} /\ call.per \in Nat \ {0}
    BY <2>1, <2>2
  <2> QED
    BY <2>3
<1>2. Len(call.sep) \in Nat /\ Len(call.sep) >= 1
  <2>1. Len(call.sep) \in Nat \ {0}
    BY <1>1, EmptySeq
  <2> QED
    BY <2>1
<1>3. call.op \in {"until", "copy", "seek"} /\ call.from \in 0..Len(text) /\ call.area \in Seq(Nat)
  BY DEF SearchCall
<1>4. text \in Seq(Nat) /\ Len(text) \in Nat /\ pos \in 0..Len(text)
      /\ Len(call.area) = Len(call.sep) - 1 + call.per
  BY <1>3, LenProperties DEF STypes, STyped
<1> QED
  BY <1>1, <1>2, <1>3, <1>4

\* How far the reserve goes.
LEMMA AgainOf ==
  ASSUME STypes, call \in SearchCall
  PROVE  /\ Search!Again \in Nat /\ Search!Again <= Len(call.sep) - 1
         /\ Search!Held \in Nat /\ Search!Held <= Len(call.sep) - 1
         /\ call.first => Search!Held = 0 /\ SFrom = call.from - Search!Again
         /\ ~call.first => Search!Held = Len(call.sep) - 1 /\ Search!Again = Len(call.sep) - 1
         /\ Search!SeekBack(call.sep, call.from) \in 0..call.from /\ SFrom \in 0..Len(text)
         /\ SFrom = call.from - Search!SeekBack(call.sep, call.from)
<1> DEFINE n == Len(call.sep)
           b == Search!SeekBack(call.sep, call.from)
           f == call.from
<1>1. n \in Nat /\ n >= 1 /\ f \in Nat /\ f <= Len(text) /\ Len(text) \in Nat
  BY SepOf
<1>2. b = IF f >= n - 1 THEN n - 1 ELSE 0
  BY DEF Search!SeekBack
<1>3. b \in Nat /\ b <= f /\ b <= n - 1
  BY <1>1, <1>2
<1>4. SFrom = f - b
  BY DEF SFrom
<1>5. call.first \in BOOLEAN
  BY DEF SearchCall
<1>6. /\ Search!Again = IF call.first THEN b ELSE n - 1
      /\ Search!Held = IF call.first THEN 0 ELSE n - 1
  BY DEF Search!Again, Search!Held
<1> HIDE DEF n, b, f
<1>7. f - b \in 0..Len(text) /\ b \in 0..f /\ n - 1 \in Nat
  BY <1>1, <1>3
<1> QED
  BY <1>3, <1>4, <1>5, <1>6, <1>7 DEF n, b, f

\* How much is read.
LEMMA GotOf ==
  ASSUME STypes, call \in SearchCall
  PROVE  /\ Search!Got \in Nat /\ pos + Search!Got <= Len(text)
         /\ Search!Held + Search!Got <= Len(call.area)
         /\ Search!Got = 0 => pos = Len(text)
         /\ call.first => \/ Search!Got = Len(text) - pos
                          \/ Search!Got = Len(call.sep) - 1 + call.per
         /\ Search!Got = Len(text) - pos \/ Search!Held + Search!Got = Len(call.area)
<1> DEFINE h == Search!Held
           g == Search!Got
           n == Len(text)
           a == Len(call.area)
           s == Len(call.sep)
           p == call.per
<1>1. /\ n \in Nat /\ pos \in Nat /\ pos <= n /\ s \in Nat /\ s >= 1 /\ p \in Nat /\ p >= 1
      /\ a = s - 1 + p
  BY SepOf
<1>2. h \in Nat /\ h <= s - 1 /\ (call.first => h = 0)
  BY AgainOf
<1>3. g = IF a - h <= n - pos THEN a - h ELSE n - pos
  BY DEF Search!Got, Search!ReadN
<1> HIDE DEF h, g, n, a, s, p
<1>4. a - h \in Nat /\ a - h >= 1
  BY <1>1, <1>2
<1>5. g \in Nat /\ pos + g <= n /\ h + g <= a /\ (g = 0 => pos = n)
  BY <1>1, <1>2, <1>3, <1>4
<1>6. call.first => g = n - pos \/ g = s - 1 + p
  BY <1>1, <1>2, <1>3
<1>7. g = n - pos \/ h + g = a
  BY <1>1, <1>2, <1>3
<1> QED
  BY <1>5, <1>6, <1>7 DEF h, g, n, a, s, p

\* What is in the area after the read.
LEMMA AreaOf ==
  ASSUME STypes, call \in SearchCall
  PROVE  /\ Search!Area \in Seq(Nat) /\ Len(Search!Area) = Len(call.area)
         /\ \A i \in 1..Search!Got : Search!Area[Search!Held + i] = text[pos + i]
         /\ Search!Held + Search!Held <= Len(call.area) =>
              \A i \in 1..Search!Held : Search!Area[i] = call.area[Search!Held + i]
<1> DEFINE h == Search!Held
           g == Search!Got
           a == Len(call.area)
<1>1. /\ call.area \in Seq(Nat) /\ a \in Nat /\ text \in Seq(Nat) /\ Len(text) \in Nat
      /\ pos \in Nat
  BY SepOf, LenProperties
<1>2. h \in Nat /\ g \in Nat /\ h + g <= a /\ pos + g <= Len(text)
  BY AgainOf, GotOf
<1>3. h <= a /\ a - h \in Nat
  BY <1>1, <1>2
<1> DEFINE m1 == SubSeq(call.area, h + 1, a)
           m2 == SubSeq(call.area, (a - h) + 1, a)
           w == m1 \o m2
<1>4. w \in Seq(Nat) /\ Len(w) = a /\ \A i \in 1..(a - h) : w[i] = call.area[h + i]
  <2>1. m1 \in Seq(Nat) /\ Len(m1) = a - h /\ \A i \in 1..(a - h) : m1[i] = call.area[h + i]
    BY <1>1, <1>2, <1>3, CutOf
  <2>2. m2 \in Seq(Nat) /\ Len(m2) = a - (a - h)
    <3> DEFINE c == a - h
    <3>1. c <= a
      <4> HIDE DEF a, h
      <4> QED
        BY <1>1, <1>2
    <3>2. c \in Nat
      BY <1>3
    <3> HIDE DEF c
    <3>3. SubSeq(call.area, c + 1, a) \in Seq(Nat) /\ Len(SubSeq(call.area, c + 1, a)) = a - c
      BY <1>1, <3>1, <3>2, CutOf
    <3> QED
      BY <3>3 DEF c
  <2> HIDE DEF m1, m2
  <2>3. /\ w \in Seq(Nat) /\ Len(w) = Len(m1) + Len(m2)
        /\ \A i \in 1..Len(m1) : w[i] = m1[i]
    BY <2>1, <2>2, ConcatOf
  <2> HIDE DEF w
  <2>4. (a - h) + (a - (a - h)) = a
    BY <1>1, <1>2
  <2> QED
    BY <2>1, <2>2, <2>3, <2>4
<1>5. w = Search!Moved
  BY DEF Search!Moved
<1> HIDE DEF w
<1> DEFINE q1 == SubSeq(w, 1, h)
           q2 == SubSeq(text, pos + 1, pos + g)
           q3 == SubSeq(w, h + g + 1, Len(w))
<1>6. q1 \in Seq(Nat) /\ Len(q1) = h /\ \A i \in 1..h : q1[i] = w[i]
  <2>1. /\ SubSeq(w, 0 + 1, h) \in Seq(Nat) /\ Len(SubSeq(w, 0 + 1, h)) = h - 0
        /\ \A i \in 1..(h - 0) : SubSeq(w, 0 + 1, h)[i] = w[0 + i]
    BY <1>2, <1>3, <1>4, CutOf
  <2>2. ASSUME NEW i \in 1..h PROVE q1[i] = w[i]
    <3>1. i \in 1..(h - 0) /\ 0 + i = i
      BY <1>2
    <3> QED
      BY <2>1, <3>1
  <2> QED
    BY <1>2, <2>1, <2>2
<1>7. q2 \in Seq(Nat) /\ Len(q2) = g /\ \A i \in 1..g : q2[i] = text[pos + i]
  <2>1. /\ q2 \in Seq(Nat) /\ Len(q2) = (pos + g) - pos
        /\ \A i \in 1..((pos + g) - pos) : q2[i] = text[pos + i]
    <3>1. pos + g \in Nat /\ pos <= pos + g
      BY <1>1, <1>2
    <3> QED
      BY <1>1, <1>2, <3>1, CutOf
  <2>2. (pos + g) - pos = g
    BY <1>1, <1>2
  <2> HIDE DEF q2
  <2> QED
    BY <2>1, <2>2
<1>8. q3 \in Seq(Nat) /\ Len(q3) = a - (h + g)
  <2> DEFINE c == h + g
  <2>1. c \in Nat /\ c <= a
    BY <1>2
  <2> HIDE DEF c
  <2>2. SubSeq(w, c + 1, Len(w)) \in Seq(Nat) /\ Len(SubSeq(w, c + 1, Len(w))) = Len(w) - c
    <3> DEFINE lw == Len(w)
    <3>1. lw \in Nat /\ c <= lw /\ lw <= Len(w)
      BY <1>1, <1>4, <2>1
    <3>2. w \in Seq(Nat)
      BY <1>4
    <3> HIDE DEF lw
    <3>3. SubSeq(w, c + 1, lw) \in Seq(Nat) /\ Len(SubSeq(w, c + 1, lw)) = lw - c
      BY <2>1, <3>1, <3>2, CutOf
    <3> QED
      BY <3>3 DEF lw
  <2> QED
    BY <1>4, <2>2 DEF c
<1>9. Search!Area = (q1 \o q2) \o q3
  BY <1>5 DEF Search!Area
<1> HIDE DEF q1, q2, q3
<1>10. /\ q1 \o q2 \in Seq(Nat) /\ Len(q1 \o q2) = h + g
       /\ \A i \in 1..g : (q1 \o q2)[h + i] = q2[i]
       /\ \A i \in 1..h : (q1 \o q2)[i] = q1[i]
  BY <1>6, <1>7, ConcatOf
<1> DEFINE q == q1 \o q2
<1>11. /\ q \o q3 \in Seq(Nat) /\ Len(q \o q3) = Len(q) + Len(q3)
       /\ \A i \in 1..Len(q) : (q \o q3)[i] = q[i]
  BY <1>8, <1>10, ConcatOf
<1>12. /\ q \in Seq(Nat) /\ Len(q) = h + g
       /\ \A i \in 1..g : q[h + i] = q2[i]
       /\ \A i \in 1..h : q[i] = q1[i]
  BY <1>10
<1> DEFINE r == q \o q3
<1>13. Search!Area = r
  BY <1>9
<1> HIDE DEF q
<1>14. Len(q) + Len(q3) = a
  <2>1. (h + g) + (a - (h + g)) = a
    <3> HIDE DEF a, h, g
    <3> QED
      BY <1>1, <1>2
  <2> QED
    BY <1>8, <1>12, <2>1
<1>15. ASSUME NEW i \in 1..g PROVE r[h + i] = text[pos + i]
  <2>1. h + i \in 1..Len(q)
    BY <1>2, <1>12
  <2>2. r[h + i] = q[h + i] /\ q[h + i] = q2[i]
    BY <1>11, <1>12, <2>1
  <2> QED
    BY <1>7, <2>2
<1>16. ASSUME h + h <= a, NEW i \in 1..h PROVE r[i] = call.area[h + i]
  <2>1. i \in 1..Len(q) /\ i \in 1..(a - h)
    BY <1>1, <1>2, <1>12, <1>16
  <2>2. r[i] = q[i] /\ q[i] = q1[i] /\ q1[i] = w[i]
    BY <1>6, <1>11, <1>12, <2>1
  <2> QED
    BY <1>4, <2>1, <2>2
<1> HIDE DEF r, a, h, g
<1>17. r \in Seq(Nat) /\ Len(r) = a
  BY <1>11, <1>14 DEF r
<1> QED
  BY <1>13, <1>15, <1>16, <1>17 DEF a, h, g

\* Where the separator is.
LEMMA AtOf ==
  ASSUME STypes, call \in SearchCall
  PROVE  /\ Search!At \in Int
         /\ Search!At >= 0 => Search!At + Len(call.sep) <= Search!Held + Search!Got
         /\ Search!At < 0 => Search!At = -1
<1> DEFINE n == Search!Held + Search!Got
           s == SubSeq(Search!Area, 0 + 1, n)
           x == Search!At
<1>1. n \in Nat /\ n <= Len(Search!Area) /\ Search!Area \in Seq(Nat)
  BY AgainOf, GotOf, AreaOf
<1>2. call.sep \in Seq(Nat) /\ Len(call.sep) \in Nat
  BY SepOf
<1>3. s \in Seq(Nat) /\ Len(s) = n
  <2> HIDE DEF n
  <2>1. s \in Seq(Nat) /\ Len(s) = n - 0
    BY <1>1, CutOf
  <2> QED
    BY <1>1, <2>1
<1>4. x = Search!Index(s, call.sep)
  BY DEF Search!At
<1> HIDE DEF s, x
<1>5. x = -1 \/ x \in 0..(Len(s) - Len(call.sep))
  BY <1>2, <1>3, <1>4, IndexOf
<1> HIDE DEF n
<1>6. x \in Int /\ (x >= 0 => x + Len(call.sep) <= n) /\ (x < 0 => x = -1)
  BY <1>1, <1>2, <1>3, <1>5
<1> QED
  BY <1>6 DEF x, n

\* The front of the area is the text behind the cursor, when nothing is held.
LEMMA PieceIs ==
  ASSUME STypes, call \in SearchCall, Search!Held = 0,
         NEW a \in Nat, NEW b \in Nat, a <= b, b <= Search!Got
  PROVE  SubSeq(Search!Area, a + 1, b) = SubSeq(text, (pos + a) + 1, pos + b)
<1> DEFINE s == SubSeq(Search!Area, a + 1, b)
           t == SubSeq(text, (pos + a) + 1, pos + b)
<1>1. /\ Search!Area \in Seq(Nat) /\ Len(Search!Area) \in Nat /\ Search!Got <= Len(Search!Area)
      /\ text \in Seq(Nat) /\ Len(text) \in Nat /\ pos \in Nat /\ Search!Got \in Nat
      /\ pos + Search!Got <= Len(text)
  <2>1. Search!Area \in Seq(Nat) /\ Len(Search!Area) = Len(call.area)
    BY AreaOf
  <2>2. Search!Got \in Nat /\ pos + Search!Got <= Len(text) /\ 0 + Search!Got <= Len(call.area)
    BY GotOf
  <2> QED
    BY <2>1, <2>2, SepOf, LenProperties
<1>2. s \in Seq(Nat) /\ Len(s) = b - a /\ \A i \in 1..(b - a) : s[i] = Search!Area[a + i]
  <2>1. b <= Len(Search!Area)
    BY <1>1
  <2> QED
    BY <1>1, <2>1, CutOf
<1>3. t \in Seq(Nat) /\ Len(t) = b - a /\ \A i \in 1..(b - a) : t[i] = text[pos + a + i]
  <2> DEFINE u == pos + a
             v == pos + b
  <2>1. u \in Nat /\ v \in Nat /\ u <= v /\ v <= Len(text) /\ v - u = b - a
    BY <1>1
  <2> HIDE DEF u, v
  <2>2. /\ SubSeq(text, u + 1, v) \in Seq(Nat) /\ Len(SubSeq(text, u + 1, v)) = v - u
        /\ \A i \in 1..(v - u) : SubSeq(text, u + 1, v)[i] = text[u + i]
    BY <1>1, <2>1, CutOf
  <2> QED
    BY <2>1, <2>2 DEF u, v
<1> HIDE DEF s, t
<1>4. ASSUME NEW i \in 1..Len(s) PROVE s[i] = t[i]
  <2>0. i \in 1..(b - a)
    BY <1>2
  <2>1. i \in 1..(b - a) /\ a + i \in 1..Search!Got /\ pos + (a + i) = pos + a + i
    BY <1>1, <2>0
  <2>2. Search!Area[Search!Held + (a + i)] = text[pos + (a + i)] /\ Search!Held + (a + i) = a + i
    BY <2>1, AreaOf
  <2> QED
    BY <1>2, <1>3, <2>1, <2>2
<1>5. s = t
  BY <1>2, <1>3, <1>4, SeqEqual
<1> QED
  BY <1>5 DEF s, t

\* The text behind a place.
LEMMA RestOf ==
  ASSUME STypes, NEW a \in 0..Len(text)
  PROVE  /\ SubSeq(text, a + 1, Len(text)) \in Seq(Nat)
         /\ Len(SubSeq(text, a + 1, Len(text))) = Len(text) - a
         /\ \A i \in 1..(Len(text) - a) : SubSeq(text, a + 1, Len(text))[i] = text[a + i]
<1>1. text \in Seq(Nat) /\ Len(text) \in Nat /\ a \in Nat /\ a <= Len(text)
  BY LenProperties DEF STypes, STyped
<1> QED
  BY <1>1, CutOf

\* Where the first separator of the text behind the start is.
LEMMA SepFirst ==
  ASSUME STypes, call \in SearchCall, NEW f, f = Search!FirstSep(call.sep, call.from)
  PROVE  \/ /\ f = -1
            /\ \A j \in SFrom..(Len(text) - Len(call.sep)) : ~ Here(text, call.sep, j)
         \/ /\ f \in SFrom..(Len(text) - Len(call.sep)) /\ Here(text, call.sep, f)
            /\ \A j \in SFrom..(Len(text) - Len(call.sep)) : Here(text, call.sep, j) => f <= j
<1> DEFINE u == SFrom
           n == Len(text)
           sl == Len(call.sep)
           s == SubSeq(text, u + 1, n)
           x == Search!Index(s, call.sep)
<1>1. u \in 0..n /\ n \in Nat /\ sl \in Nat /\ sl >= 1 /\ call.sep \in Seq(Nat) /\ text \in Seq(Nat)
  BY AgainOf, SepOf
<1>2. f = IF x < 0 THEN -1 ELSE u + x
  BY DEF Search!FirstSep, SFrom
<1>3. s \in Seq(Nat) /\ Len(s) = n - u /\ \A k \in 1..(n - u) : s[k] = text[u + k]
  <2> HIDE DEF u
  <2> QED
    BY <1>1, RestOf
<1> HIDE DEF s, u
<1>4. ASSUME NEW i \in 0..(Len(s) - sl) PROVE Here(s, call.sep, i) <=> Here(text, call.sep, u + i)
  <2>1. i \in Nat /\ i + sl <= Len(s) /\ u \in Nat /\ u + Len(s) <= n
    <3> HIDE DEF n, sl
    <3> QED
      BY <1>1, <1>3
  <2>2. \A k \in 1..Len(s) : s[k] = text[u + k]
    BY <1>3
  <2> QED
    BY <1>1, <1>3, <2>1, <2>2, HereSame
<1>5. \/ x = -1 /\ \A i \in 0..(Len(s) - sl) : ~ Here(s, call.sep, i)
      \/ /\ x \in 0..(Len(s) - sl) /\ Here(s, call.sep, x)
         /\ \A i \in 0..(Len(s) - sl) : Here(s, call.sep, i) => x <= i
  BY <1>1, <1>3, IndexOf
<1> HIDE DEF x, n, sl
<1>6. ASSUME NEW j \in u..(n - sl) PROVE j - u \in 0..(Len(s) - sl) /\ u + (j - u) = j
  BY <1>1, <1>3
<1>7. CASE x = -1 /\ \A i \in 0..(Len(s) - sl) : ~ Here(s, call.sep, i)
  <2>1. ASSUME NEW j \in u..(n - sl) PROVE ~ Here(text, call.sep, j)
    BY <1>4, <1>6, <1>7
  <2>2. f = -1
    BY <1>2, <1>7
  <2> QED
    BY <2>1, <2>2 DEF u, n, sl
<1>8. CASE /\ x \in 0..(Len(s) - sl) /\ Here(s, call.sep, x)
           /\ \A i \in 0..(Len(s) - sl) : Here(s, call.sep, i) => x <= i
  <2>1. f = u + x /\ f \in u..(n - sl)
    BY <1>1, <1>2, <1>3, <1>8
  <2>2. Here(text, call.sep, f)
    BY <1>4, <1>8, <2>1
  <2>3. ASSUME NEW j \in u..(n - sl), Here(text, call.sep, j) PROVE f <= j
    <3>1. j - u \in 0..(Len(s) - sl) /\ u + (j - u) = j
      BY <1>6
    <3>2. Here(s, call.sep, j - u)
      BY <1>4, <2>3, <3>1
    <3>3. x <= j - u
      BY <1>8, <3>1, <3>2
    <3> QED
      BY <1>1, <1>3, <1>8, <2>1, <3>3
  <2> QED
    BY <2>1, <2>2, <2>3 DEF u, n, sl
<1> QED
  BY <1>5, <1>7, <1>8

\* The area holds the text from the reserve on.
AreaFront == \A i \in 1..(Search!Held + Search!Got) : Search!Area[i] = text[(pos - Search!Held) + i]
LEMMA AreaHolds ==
  ASSUME STypes, call \in SearchCall, KeepsPlace(call), SUnder(call, pos), Search!Got > 0
  PROVE  /\ Search!Held <= pos /\ SFrom <= pos - Search!Held /\ AreaFront
         /\ call.first => pos = SFrom
<1> DEFINE h == Search!Held
           g == Search!Got
           n == Len(text)
           sl == Len(call.sep)
           a == Len(call.area)
<1>1. /\ n \in Nat /\ sl \in Nat /\ sl >= 1 /\ pos \in Nat /\ call.per \in Nat /\ call.per >= 1
      /\ a = (sl - 1) + call.per /\ call.first \in BOOLEAN
  BY SepOf DEF SearchCall
<1>2. /\ h \in Nat /\ g \in Nat /\ g > 0 /\ pos + g <= n /\ h + g <= a
      /\ call.first => h = 0
      /\ ~call.first => h = sl - 1
      /\ SFrom \in 0..n
  BY AgainOf, GotOf
<1>3. /\ \A i \in 1..g : Search!Area[h + i] = text[pos + i]
      /\ h + h <= a => \A i \in 1..h : Search!Area[i] = call.area[h + i]
  BY AreaOf
<1>4. CASE call.first
  <2>1. pos = SFrom /\ h = 0
    BY <1>2, <1>4 DEF SUnder, SFrom
  <2>2. ASSUME NEW i \in 1..(h + g) PROVE Search!Area[i] = text[(pos - h) + i]
    <3>1. i \in 1..g /\ h + i = i /\ (pos - h) + i = pos + i
      BY <1>1, <1>2, <2>1, <2>2
    <3> QED
      BY <1>3, <3>1
  <2>3. Search!Held <= pos /\ SFrom <= pos - Search!Held
    <3> HIDE DEF h
    <3>1. h <= pos /\ SFrom <= pos - h
      BY <1>1, <2>1
    <3> QED
      BY <3>1 DEF h
  <2> QED
    BY <2>1, <2>2, <2>3 DEF AreaFront
<1>5. CASE ~call.first
  <2>1. pos # n /\ h = sl - 1
    <3> HIDE DEF h, g, n, sl
    <3> QED
      BY <1>1, <1>2, <1>5
  <2>2. SFrom + (sl - 1) <= pos /\ \A i \in 1..(sl - 1) : call.area[(sl - 1) + i] = text[(pos - (sl - 1)) + i]
    BY <1>5, <2>1 DEF SUnder, Fronted, SFrom
  <2>3. h + h <= a
    <3>1. sl = 1 \/ call.per = sl - 1
      BY <1>5, <2>1 DEF SUnder, KeepsPlace, KeepsData, Search!PlaceKept
    <3> HIDE DEF h, a, sl
    <3> QED
      BY <1>1, <2>1, <3>1
  <2>4. ASSUME NEW i \in 1..(h + g) PROVE Search!Area[i] = text[(pos - h) + i]
    <3>1. CASE i <= h
      <4>1. i \in 1..h /\ i \in 1..(sl - 1)
        BY <1>2, <2>1, <3>1
      <4>2. Search!Area[i] = call.area[h + i]
        BY <1>3, <2>3, <4>1
      <4>3. call.area[(sl - 1) + i] = text[(pos - (sl - 1)) + i]
        BY <2>2, <4>1
      <4> QED
        BY <2>1, <4>2, <4>3
    <3>2. CASE ~(i <= h)
      <4>1. i - h \in 1..g /\ h + (i - h) = i /\ pos + (i - h) = (pos - h) + i
        BY <1>1, <1>2, <3>2
      <4> QED
        BY <1>3, <4>1
    <3> QED
      BY <3>1, <3>2
  <2>5. h <= pos /\ SFrom <= pos - h
    <3> HIDE DEF h, sl
    <3> QED
      BY <1>1, <1>2, <2>1, <2>2
  <2> QED
    BY <1>5, <2>4, <2>5 DEF AreaFront
<1> QED
  BY <1>4, <1>5

\* Where the separator is in the area.
LEMMA AtIs ==
  ASSUME STypes, call \in SearchCall, AreaFront, Search!Held <= pos
  PROVE  LET u == pos - Search!Held
             n == Search!Held + Search!Got
         IN  \/ /\ Search!At = -1
                /\ \A i \in 0..(n - Len(call.sep)) : ~ Here(text, call.sep, u + i)
             \/ /\ Search!At \in 0..(n - Len(call.sep)) /\ Here(text, call.sep, u + Search!At)
                /\ \A i \in 0..(n - Len(call.sep)) : Here(text, call.sep, u + i) => Search!At <= i
<1> DEFINE n == Search!Held + Search!Got
           u == pos - Search!Held
           sl == Len(call.sep)
           s == SubSeq(Search!Area, 0 + 1, n)
           x == Search!At
<1>1. n \in Nat /\ n <= Len(Search!Area) /\ Search!Area \in Seq(Nat) /\ u \in Nat /\ u + n <= Len(text)
      /\ Len(text) \in Nat /\ text \in Seq(Nat) /\ call.sep \in Seq(Nat) /\ sl \in Nat
  <2>1. Search!Held \in Nat /\ Search!Got \in Nat /\ pos + Search!Got <= Len(text) /\ pos \in Nat
        /\ Len(text) \in Nat /\ Search!Held + Search!Got <= Len(call.area)
    BY AgainOf, GotOf, SepOf
  <2>2. u \in Nat /\ n \in Nat /\ u + n <= Len(text)
    BY <2>1
  <2> QED
    BY <2>1, <2>2, AreaOf, SepOf
<1>2. s \in Seq(Nat) /\ Len(s) = n /\ \A k \in 1..n : s[k] = text[u + k]
  <2> HIDE DEF n
  <2>1. s \in Seq(Nat) /\ Len(s) = n - 0 /\ \A k \in 1..(n - 0) : s[k] = Search!Area[0 + k]
    BY <1>1, CutOf
  <2>2. ASSUME NEW k \in 1..n PROVE s[k] = text[u + k]
    <3>1. k \in 1..(n - 0) /\ 0 + k = k
      BY <1>1
    <3>2. s[k] = Search!Area[k]
      BY <2>1, <3>1
    <3>3. Search!Area[k] = text[u + k]
      BY DEF AreaFront, n, u
    <3> QED
      BY <3>2, <3>3
  <2> HIDE DEF s
  <2> QED
    BY <1>1, <2>1, <2>2
<1>3. x = Search!Index(s, call.sep)
  BY DEF Search!At
<1> HIDE DEF s, x
<1>4. \/ x = -1 /\ \A i \in 0..(Len(s) - sl) : ~ Here(s, call.sep, i)
      \/ /\ x \in 0..(Len(s) - sl) /\ Here(s, call.sep, x)
         /\ \A i \in 0..(Len(s) - sl) : Here(s, call.sep, i) => x <= i
  BY <1>1, <1>2, <1>3, IndexOf
<1> HIDE DEF n, u, sl
<1>5. ASSUME NEW i \in 0..(n - sl) PROVE Here(s, call.sep, i) <=> Here(text, call.sep, u + i)
  <2>1. i \in Nat /\ i + sl <= Len(s) /\ u + Len(s) <= Len(text)
    BY <1>1, <1>2
  <2>2. \A k \in 1..Len(s) : s[k] = text[u + k]
    BY <1>2
  <2> QED
    BY <1>1, <1>2, <2>1, <2>2, HereSame DEF sl
<1>6. \/ x = -1 /\ \A i \in 0..(n - sl) : ~ Here(text, call.sep, u + i)
      \/ /\ x \in 0..(n - sl) /\ Here(text, call.sep, u + x)
         /\ \A i \in 0..(n - sl) : Here(text, call.sep, u + i) => x <= i
  BY <1>2, <1>4, <1>5
<1> QED
  BY <1>6 DEF n, u, sl, x

\* What a piece of a search says of the first separator of the text.
LEMMA PieceFirst ==
  ASSUME STypes, call \in SearchCall, KeepsPlace(call), SUnder(call, pos), Search!Got > 0,
         NEW f, f = Search!FirstSep(call.sep, call.from)
  PROVE  /\ Search!At < 0 => f < 0 \/ f + Len(call.sep) > pos + Search!Got
         /\ Search!At >= 0 => f = (pos - Search!Held) + Search!At
<1> DEFINE h == Search!Held
           g == Search!Got
           n == Len(text)
           sl == Len(call.sep)
           y == Search!At
           u == pos - h
<1>1. n \in Nat /\ sl \in Nat /\ sl >= 1 /\ pos \in Nat /\ call.first \in BOOLEAN
  BY SepOf DEF SearchCall
<1>2. /\ h \in Nat /\ g \in Nat /\ g > 0 /\ pos + g <= n
      /\ call.first => h = 0
      /\ ~call.first => h = sl - 1
      /\ SFrom \in Nat
  BY AgainOf, GotOf
<1>3. h <= pos /\ SFrom <= u /\ AreaFront /\ (call.first => pos = SFrom)
  BY AreaHolds
<1>4. \/ y = -1 /\ \A i \in 0..((h + g) - sl) : ~ Here(text, call.sep, u + i)
      \/ /\ y \in 0..((h + g) - sl) /\ Here(text, call.sep, u + y)
         /\ \A i \in 0..((h + g) - sl) : Here(text, call.sep, u + i) => y <= i
  BY <1>3, AtIs
<1>5. \/ f = -1 /\ \A j \in SFrom..(n - sl) : ~ Here(text, call.sep, j)
      \/ /\ f \in SFrom..(n - sl) /\ Here(text, call.sep, f)
         /\ \A j \in SFrom..(n - sl) : Here(text, call.sep, j) => f <= j
  BY SepFirst
<1>6. f < 0 \/ f + sl > pos
  BY DEF SUnder
<1> HIDE DEF h, g, n, sl, y, u
<1>7. u \in Nat /\ u = pos - h /\ u + (h + g) <= n
  BY <1>1, <1>2, <1>3 DEF u
<1>8. ASSUME f \in SFrom..(n - sl) PROVE f >= u
  <2>1. CASE call.first
    BY <1>1, <1>2, <1>3, <1>7, <1>8, <2>1
  <2>2. CASE ~call.first
    BY <1>1, <1>2, <1>6, <1>7, <1>8, <2>2
  <2> QED
    BY <1>1, <2>1, <2>2
<1>9. CASE y = -1 /\ \A i \in 0..((h + g) - sl) : ~ Here(text, call.sep, u + i)
  <2>1. ASSUME f \in SFrom..(n - sl), Here(text, call.sep, f), ~(f + sl > pos + g) PROVE FALSE
    <3>1. f >= u /\ f \in Nat
      BY <1>1, <1>2, <1>8, <2>1
    <3>2. f - u \in 0..((h + g) - sl) /\ u + (f - u) = f
      BY <1>1, <1>2, <1>7, <2>1, <3>1
    <3> QED
      BY <1>9, <2>1, <3>2
  <2>2. f < 0 \/ f + sl > pos + g
    BY <1>5, <2>1
  <2> QED
    BY <1>9, <2>2 DEF y, g, sl
<1>10. CASE /\ y \in 0..((h + g) - sl) /\ Here(text, call.sep, u + y)
            /\ \A i \in 0..((h + g) - sl) : Here(text, call.sep, u + i) => y <= i
  <2>1. u + y \in SFrom..(n - sl)
    BY <1>1, <1>2, <1>3, <1>7, <1>10
  <2>2. f \in SFrom..(n - sl) /\ Here(text, call.sep, f) /\ f <= u + y
    BY <1>5, <1>10, <2>1
  <2>3. f >= u /\ f \in Nat
    BY <1>1, <1>2, <1>8, <2>2
  <2>4. f - u \in 0..((h + g) - sl) /\ u + (f - u) = f
    BY <1>1, <1>2, <1>7, <1>10, <2>2, <2>3
  <2>5. y <= f - u
    BY <1>10, <2>2, <2>4
  <2>6. f = u + y /\ ~(y < 0)
    BY <1>1, <1>2, <1>7, <1>10, <2>2, <2>3, <2>5
  <2> QED
    BY <2>6 DEF y, u, h
<1> QED
  BY <1>4, <1>9, <1>10

\* A piece of a search whose data is kept.
LEMMA PieceKept ==
  ASSUME STypes, call \in SearchCall, KeepsData(call), SUnder(call, pos), Search!Got > 0
  PROVE  /\ Search!Held = 0 /\ Search!Again <= Search!Got
         /\ call.first => call.from = pos + Search!Again
         /\ ~call.first => call.from <= pos /\ Search!Again = 0
         /\ Len(call.sep) # 1 => call.first
<1> DEFINE a == Search!Again
           g == Search!Got
           n == Len(text)
           sl == Len(call.sep)
           b == Search!SeekBack(call.sep, call.from)
           f == call.from
<1>1. /\ n \in Nat /\ pos \in Nat /\ sl \in Nat /\ sl >= 1 /\ f \in Nat /\ f <= n
      /\ call.first \in BOOLEAN /\ call.per \in Nat
  BY SepOf DEF SearchCall
<1>2. /\ a \in Nat /\ a <= sl - 1 /\ Search!Held \in Nat /\ b \in 0..f
      /\ call.first => Search!Held = 0 /\ a = b
      /\ ~call.first => Search!Held = sl - 1 /\ a = sl - 1
  BY AgainOf DEF Search!Again
<1>3. g \in Nat /\ g > 0 /\ pos + g <= n /\ (call.first => g = n - pos \/ g = (sl - 1) + call.per)
  BY GotOf
<1>4. CASE call.first
  <2>1. pos = f - b
    BY <1>4 DEF SUnder
  <2>2. Search!Held = 0
    BY <1>2, <1>4
  <2> HIDE DEF a, g, n, sl, b, f
  <2>3. f = pos + a /\ a <= g
    BY <1>1, <1>2, <1>3, <1>4, <2>1
  <2> QED
    BY <1>4, <2>2, <2>3 DEF a, g, f
<1>5. CASE ~call.first
  <2>1. f <= pos /\ (sl = 1 \/ pos = n)
    BY <1>5 DEF SUnder
  <2>2. Search!Held = sl - 1 /\ a = sl - 1
    BY <1>2, <1>5
  <2> HIDE DEF a, g, n, sl, b, f
  <2>3. sl = 1 /\ Search!Held = 0 /\ a = 0 /\ a <= g
    BY <1>1, <1>3, <2>1, <2>2
  <2> QED
    BY <1>5, <2>1, <2>3 DEF a, g, f, sl
<1> QED
  BY <1>1, <1>4, <1>5

\* A piece without the separator, when the first read holds all that matters, is the last one.
LEMMA KeptEnds ==
  ASSUME STypes, call \in SearchCall, KeepsData(call), SUnder(call, pos), Search!Got > 0,
         Search!At < 0
  PROVE  Len(call.sep) = 1 \/ pos + Search!Got = Len(text)
<1> DEFINE g == Search!Got
           n == Len(text)
           sl == Len(call.sep)
           f == Search!FirstSep(call.sep, call.from)
           e == SFrom + ((sl - 1) + call.per)
<1> SUFFICES ASSUME sl # 1 PROVE pos + g = n
  OBVIOUS
<1>1. /\ n \in Nat /\ sl \in Nat /\ sl >= 1 /\ pos \in Nat /\ call.per \in Nat
  BY SepOf
<1>2. call.first /\ KeepsPlace(call)
  BY PieceKept DEF KeepsData, KeepsPlace, Search!PlaceKept
<1>3. g \in Nat /\ pos + g <= n /\ (g = n - pos \/ g = (sl - 1) + call.per)
  BY <1>2, GotOf
<1>4. SFrom \in Nat /\ SFrom = call.from - Search!SeekBack(call.sep, call.from)
  BY AgainOf
<1>5. pos = SFrom
  BY <1>2, <1>4 DEF SUnder
<1>6. f < 0 \/ f + sl > pos + g
  BY <1>2, PieceFirst
<1>7. f = -1 \/ f \in SFrom..(n - sl)
  BY SepFirst
<1>8. IF f < 0 THEN n <= e ELSE f + sl <= e
  BY <1>4 DEF KeepsData, Search!DataKept, Search!InFirstRead
<1> HIDE DEF f, g, n, sl
<1>9. CASE f < 0
  BY <1>1, <1>3, <1>5, <1>8, <1>9
<1>10. CASE ~(f < 0)
  BY <1>1, <1>3, <1>4, <1>5, <1>6, <1>7, <1>8, <1>10
<1> QED
  BY <1>9, <1>10

\* What the next piece finds in front of the area, after a piece without the separator.
LEMMA FrontMoves ==
  ASSUME STypes, call \in SearchCall, KeepsPlace(call), SUnder(call, pos), Search!Got > 0,
         Search!At < 0
  PROVE  \/ pos + Search!Got = Len(text)
         \/ /\ SFrom + (Len(call.sep) - 1) <= pos + Search!Got
            /\ \A i \in 1..(Len(call.sep) - 1) :
                 Search!Area[(Len(call.sep) - 1) + i]
                   = text[((pos + Search!Got) - (Len(call.sep) - 1)) + i]
<1> DEFINE h == Search!Held
           g == Search!Got
           n == Len(text)
           sl == Len(call.sep)
<1>1. /\ n \in Nat /\ sl \in Nat /\ sl >= 1 /\ pos \in Nat /\ call.per \in Nat /\ call.per >= 1
      /\ call.first \in BOOLEAN /\ Len(call.area) = (sl - 1) + call.per
  BY SepOf DEF SearchCall
<1>2. /\ h \in Nat /\ g \in Nat /\ g > 0 /\ pos + g <= n
      /\ call.first => h = 0
      /\ ~call.first => h = sl - 1
      /\ SFrom \in Nat
      /\ g = n - pos \/ h + g = Len(call.area)
      /\ SFrom = call.from - Search!SeekBack(call.sep, call.from)
  BY AgainOf, GotOf
<1>3. h <= pos /\ SFrom <= pos - h /\ (call.first => pos = SFrom)
  BY AreaHolds
<1>4. \A i \in 1..g : Search!Area[h + i] = text[pos + i]
  BY AreaOf
<1>5. CASE Search!InFirstRead(call.sep, call.per, call.from) /\ sl # 1
  BY <1>5, KeptEnds DEF KeepsData, Search!DataKept
<1>6. CASE sl = 1
  <2>1. SFrom + (sl - 1) <= pos + g
    <3> HIDE DEF h, g, sl
    <3> QED
      BY <1>1, <1>2, <1>3, <1>6
  <2>2. \A i \in 1..(sl - 1) : FALSE
    BY <1>6
  <2> QED
    BY <2>1, <2>2
<1>7. CASE call.per = sl - 1 /\ g # n - pos
  <2>1. h + g = (sl - 1) + (sl - 1)
    BY <1>1, <1>2, <1>7
  <2> HIDE DEF h, g, n, sl
  <2>2. h = 0 \/ h = sl - 1
    BY <1>1, <1>2
  <2>3. SFrom + (sl - 1) <= pos + g
    BY <1>1, <1>2, <1>3, <2>1, <2>2
  <2>4. ASSUME NEW i \in 1..(sl - 1)
        PROVE  Search!Area[(sl - 1) + i] = text[((pos + g) - (sl - 1)) + i]
    <3> DEFINE k == ((sl - 1) + i) - h
    <3>1. k \in 1..g /\ h + k = (sl - 1) + i /\ pos + k = ((pos + g) - (sl - 1)) + i
      BY <1>1, <1>2, <2>1, <2>2
    <3> QED
      BY <1>4, <3>1
  <2> QED
    BY <2>3, <2>4 DEF g, sl
<1>8. CASE g = n - pos
  <2> HIDE DEF g, n
  <2>1. pos + g = n
    BY <1>1, <1>8
  <2> QED
    BY <2>1 DEF g, n
<1>9. sl = 1 \/ Search!InFirstRead(call.sep, call.per, call.from) \/ call.per = sl - 1
  BY DEF KeepsPlace, Search!PlaceKept, Search!DataKept
<1> QED
  BY <1>5, <1>6, <1>7, <1>8, <1>9

\* The data after a piece.
LEMMA DataMore ==
  ASSUME STypes, call \in SearchCall, KeepsData(call), SUnder(call, pos),
         Search!Got > 0, call.op # "seek", NEW to \in Nat, Search!Again <= to, to <= Search!Got
  PROVE  call.data \o SubSeq(Search!Area, Search!Again + 1, to)
           = SubSeq(text, call.from + 1, pos + to)
<1> DEFINE a == Search!Again
           f == call.from
           d == SubSeq(Search!Area, a + 1, to)
<1>1. /\ text \in Seq(Nat) /\ Len(text) \in Nat /\ pos \in Nat /\ Search!Got \in Nat
      /\ pos + Search!Got <= Len(text) /\ a \in Nat /\ f \in Nat
  BY SepOf, GotOf, AgainOf
<1>2. /\ Search!Held = 0
      /\ call.first => f = pos + a
      /\ ~call.first => f <= pos /\ a = 0
  BY PieceKept
<1>3. d = SubSeq(text, (pos + a) + 1, pos + to)
  BY <1>1, <1>2, PieceIs
<1> HIDE DEF d
<1>4. CASE call.first
  <2>1. call.data = <<>>
    BY <1>4 DEF SUnder
  <2>2. d = SubSeq(text, f + 1, pos + to)
    BY <1>2, <1>3, <1>4
  <2>3. d \in Seq(Nat)
    <3> DEFINE u == pos + to
    <3>1. u \in Nat /\ f <= u /\ u <= Len(text)
      BY <1>1, <1>2, <1>4
    <3> HIDE DEF u
    <3>2. SubSeq(text, f + 1, u) \in Seq(Nat)
      BY <1>1, <3>1, CutOf
    <3> QED
      BY <2>2, <3>2 DEF u
  <2>4. <<>> \o d = d
    BY <2>3, ConcatEmptySeq
  <2> QED
    BY <2>1, <2>2, <2>4 DEF d
<1>5. CASE ~call.first
  <2>1. call.data = SubSeq(text, f + 1, pos) /\ f <= pos /\ a = 0
    BY <1>2, <1>5 DEF SUnder
  <2>2. d = SubSeq(text, pos + 1, pos + to)
    BY <1>1, <1>3, <2>1
  <2> DEFINE w == f + 1
             u == pos + to
  <2>3. w \in 1..(Len(text) + 1) /\ pos \in (w - 1)..Len(text) /\ u \in pos..Len(text)
    BY <1>1, <1>2, <2>1
  <2> HIDE DEF w, u
  <2>4. SubSeq(text, w, pos) \o SubSeq(text, pos + 1, u) = SubSeq(text, w, u)
    BY <1>1, <2>3, ConcatAdjacentSubSeq
  <2> QED
    BY <2>1, <2>2, <2>4 DEF w, u, d
<1>6. call.first \in BOOLEAN
  BY DEF SearchCall
<1> QED
  BY <1>4, <1>5, <1>6

\* The place of a separator is in the text.
LEMMA SepRange ==
  ASSUME text \in Seq(Nat), NEW d \in Seq(Nat), d # <<>>, NEW a \in 0..Len(text),
         NEW f, f = Search!FirstSep(d, a)
  PROVE  /\ Search!SeekBack(d, a) \in 0..a
         /\ f = -1 \/ f \in (a - Search!SeekBack(d, a))..(Len(text) - 1)
<1> DEFINE b == Search!SeekBack(d, a)
           n == Len(text)
           s == SubSeq(text, (a - b) + 1, n)
           x == Search!Index(s, d)
<1>1. n \in Nat /\ a \in Nat /\ a <= n /\ Len(d) \in Nat /\ Len(d) >= 1
  <2>1. Len(d) \in Nat \ {0}
    BY EmptySeq
  <2> QED
    BY <2>1, LenProperties
<1>2. b = IF a >= Len(d) - 1 THEN Len(d) - 1 ELSE 0
  BY DEF Search!SeekBack
<1>3. b \in 0..a
  BY <1>1, <1>2
<1> HIDE DEF b
<1> DEFINE c == a - b
<1>4. c \in Nat /\ c <= n
  BY <1>1, <1>3
<1> HIDE DEF c
<1>5. s \in Seq(Nat) /\ Len(s) = n - c
  <2>1. SubSeq(text, c + 1, n) \in Seq(Nat) /\ Len(SubSeq(text, c + 1, n)) = n - c
    BY <1>1, <1>4, CutOf
  <2> QED
    BY <2>1 DEF c
<1>6. f = IF x < 0 THEN -1 ELSE c + x
  BY DEF Search!FirstSep, b, c
<1> HIDE DEF s, x
<1>7. x = -1 \/ x \in 0..(Len(s) - Len(d))
  BY <1>5, IndexOf DEF x
<1> HIDE DEF n
<1>8. f = -1 \/ f \in c..(n - 1)
  BY <1>1, <1>4, <1>5, <1>6, <1>7
<1> QED
  BY <1>3, <1>8 DEF b, c, n

\* What is read so far is the front of the rest.
LEMMA FrontIs ==
  ASSUME text \in Seq(Nat), NEW a \in 0..Len(text), NEW k \in Int, k <= Len(text)
  PROVE  Search!IsPrefix(SubSeq(text, a + 1, k), SubSeq(text, a + 1, Len(text)))
<1> DEFINE s == SubSeq(text, a + 1, k)
           n == Len(text)
           t == SubSeq(text, a + 1, n)
<1>1. n \in Nat /\ a \in Nat /\ a <= n
  BY LenProperties
<1>2. t \in Seq(Nat) /\ Len(t) = n - a /\ \A i \in 1..(n - a) : t[i] = text[a + i]
  BY <1>1, CutOf
<1> DEFINE c == IF a <= k THEN k - a ELSE 0
<1>3. s \in Seq(Nat) /\ Len(s) = c /\ \A i \in 1..c : s[i] = text[a + i]
  <2>1. CASE a <= k
    <3>1. k \in Nat /\ c = k - a
      BY <1>1, <2>1
    <3> QED
      BY <1>1, <2>1, <3>1, CutOf
  <2>2. CASE ~(a <= k)
    <3>1. s = <<>>
      <4>1. k < a + 1 /\ a + 1 \in Int
        BY <1>1, <2>2
      <4> QED
        BY <4>1, SubSeqEmpty
    <3>2. c = 0
      BY <2>2
    <3> HIDE DEF s, c
    <3> QED
      BY <3>1, <3>2, EmptySeq
  <2> QED
    BY <2>1, <2>2
<1>4. c \in Nat /\ c <= n - a
  BY <1>1
<1> HIDE DEF s, t, c, n
<1> DEFINE p == SubSeq(t, 0 + 1, c)
           q == SubSeq(s, 0 + 1, c)
<1>5. p \in Seq(Nat) /\ Len(p) = c - 0 /\ \A i \in 1..(c - 0) : p[i] = t[0 + i]
  BY <1>1, <1>2, <1>4, CutOf
<1>6. q \in Seq(Nat) /\ Len(q) = c - 0 /\ \A i \in 1..(c - 0) : q[i] = s[0 + i]
  BY <1>3, <1>4, CutOf
<1> HIDE DEF p, q
<1>7. ASSUME NEW i \in 1..Len(q) PROVE q[i] = p[i]
  <2>1. i \in 1..(c - 0) /\ 0 + i = i /\ i \in 1..c /\ i \in 1..(n - a)
    BY <1>1, <1>4, <1>6
  <2>2. p[i] = t[0 + i] /\ q[i] = s[0 + i]
    BY <1>5, <1>6, <2>1
  <2>3. t[i] = text[a + i] /\ s[i] = text[a + i]
    BY <1>2, <1>3, <2>1
  <2> QED
    BY <2>1, <2>2, <2>3
<1>8. q = p
  BY <1>5, <1>6, <1>7, SeqEqual
<1>9. SubSeq(s, 1, Len(s)) = SubSeq(t, 1, Len(s)) /\ Len(s) <= Len(t)
  BY <1>2, <1>3, <1>4, <1>8 DEF p, q
<1> QED
  BY <1>9 DEF Search!IsPrefix, s, t, n

\* Nothing is the front of anything.
LEMMA NothingFirst ==
  ASSUME text \in Seq(Nat), NEW a \in 0..Len(text)
  PROVE  /\ Search!IsPrefix(<<>>, SubSeq(text, a + 1, Len(text)))
         /\ \A k \in Int : k <= a => SubSeq(text, a + 1, k) = <<>>
<1>1. a \in Nat /\ a <= Len(text) /\ Len(text) \in Nat
  BY LenProperties
<1>2. ASSUME NEW k \in Int, k <= a PROVE SubSeq(text, a + 1, k) = <<>>
  <2>1. k < a + 1 /\ a + 1 \in Int
    BY <1>1, <1>2
  <2> QED
    BY <2>1, SubSeqEmpty
<1>3. Search!IsPrefix(SubSeq(text, a + 1, a), SubSeq(text, a + 1, Len(text)))
  BY <1>1, FrontIs
<1>4. SubSeq(text, a + 1, a) = <<>>
  BY <1>1, <1>2
<1> QED
  BY <1>2, <1>3, <1>4

\* What holds of the call and the cursor holds after a step.
LEMMA SPrime ==
  ASSUME text \in Seq(Nat), text' = text, SOk(call', pos')
  PROVE  SInv'
<1>1. STyped(call', pos') => STyped(call, pos)'
  BY DEF STyped, SearchCall
<1>2. \A d, k : Search!FirstSep(d, k)' = Search!FirstSep(d, k)
  BY DEF Search!FirstSep, Search!Index, Search!SeekBack
<1>3. \A d, e, k : Search!InFirstRead(d, e, k)' = Search!InFirstRead(d, e, k)
  BY <1>2 DEF Search!InFirstRead, Search!SeekBack
<1>4. KeepsData(call') = KeepsData(call)' /\ KeepsPlace(call') = KeepsPlace(call)'
  BY <1>3 DEF KeepsData, KeepsPlace, Search!PlaceKept, Search!DataKept
<1>5. Fronted(call', pos') = Fronted(call, pos)'
  BY DEF Fronted, Search!SeekBack
<1>6. SUnder(call', pos') => SUnder(call, pos)'
  BY <1>2, <1>4, <1>5 DEF SUnder, Search!SeekBack
<1>7. SExact(call', pos') => SExact(call, pos)'
  BY <1>2, <1>4 DEF SExact
<1>8. SearchCall' = SearchCall
  BY DEF SearchCall
<1>9. SOk(call', pos') => SOk(call, pos)'
  BY <1>1, <1>4, <1>6, <1>7, <1>8 DEF SOk
<1> QED
  BY <1>9 DEF SInv

\* The invariant says what the run checks.
LEMMA SExactly == SInv => Search!UntilExact
<1> SUFFICES ASSUME SInv, call.op \in {"until", "copy", "seek"}, call.err # "none"
             PROVE  Search!UntilExact
  BY DEF Search!UntilExact
<1>1. call \in SearchCall
  BY DEF SInv, SOk, STyped
<1>2. SExact(call, pos)
  BY <1>1 DEF SInv, SOk
<1> QED
  BY <1>2 DEF SExact, Search!UntilExact, KeepsData, KeepsPlace

\* A new File.
LEMMA SInit == Search!Init => SInv
<1> SUFFICES ASSUME Search!Init PROVE SInv
  OBVIOUS
<1>1. text \in Texts /\ pos = 0 /\ call = [op |-> "none", err |-> "nil"]
  BY DEF Search!Init
<1>2. text \in Seq(Nat)
  BY <1>1, BoundsAssumptions DEF Search!FileSearchAssumption
<1>3. pos \in 0..Len(text)
  BY <1>1, <1>2, LenProperties
<1>4. call.op = "none" /\ call.err # "none"
  BY <1>1
<1>5. call \notin SearchCall
  BY <1>4 DEF SearchCall
<1> QED
  BY <1>2, <1>3, <1>4, <1>5 DEF SInv, SOk, STyped

\* A search begins.
LEMMA SBegin ==
  ASSUME SInv, NEW op \in {"until", "copy", "seek"}, NEW sep \in Seps, NEW per \in Pers,
         NEW most \in Maxs, NEW from \in 0..Len(text), Search!SearchBegin(op, sep, per, most, from)
  PROVE  SInv'
<1> DEFINE b == Search!SeekBack(sep, from)
           z == [i \in 1..(Len(sep) - 1 + per) |-> 0]
           f == Search!FirstSep(sep, from)
<1>1. /\ text' = text /\ pos' = from - b /\ text \in Seq(Nat)
      /\ call' = [op |-> op, sep |-> sep, per |-> per, from |-> from, left |-> most, first |-> TRUE,
                  area |-> z, data |-> <<>>, err |-> "none"]
  BY DEF Search!SearchBegin, Search!Enter, SInv
<1>2. /\ sep \in Seq(Nat) /\ sep # <<>> /\ per \in Nat /\ per >= 1 /\ most \in Int
  <2>1. sep \in Seq(Nat) \ {<<>>} /\ per \in Nat \ {0} /\ most \in Int
    BY BoundsAssumptions DEF Search!FileSearchAssumption
  <2> QED
    BY <2>1
<1>3. Len(sep) - 1 + per \in Nat
  <2>1. Len(sep) \in Nat \ {0}
    BY <1>2, EmptySeq
  <2> QED
    BY <1>2, <2>1
<1>4. z \in Seq(Nat) /\ Len(z) = Len(sep) - 1 + per
  <2> DEFINE k == Len(sep) - 1 + per
  <2>1. k \in Nat
    BY <1>3
  <2> HIDE DEF k
  <2>2. [i \in 1..k |-> 0] \in Seq(Nat) /\ Len([i \in 1..k |-> 0]) = k
    BY <2>1
  <2> QED
    BY <2>2 DEF k
<1>5. b \in 0..from /\ (f = -1 \/ f \in (from - b)..(Len(text) - 1))
  BY <1>1, <1>2, SepRange
<1>6. Len(text) \in Nat /\ from \in Nat /\ from <= Len(text)
  BY <1>1, LenProperties
<1> HIDE DEF z, b, f
<1>7. pos' \in 0..Len(text) /\ (f < 0 \/ f >= pos')
  BY <1>1, <1>5, <1>6
<1>8. call' \in SearchCall
  BY <1>1, <1>2, <1>4, EmptySeq DEF SearchCall, SearchErrs
<1>9. /\ call'.op = op /\ call'.sep = sep /\ call'.per = per /\ call'.from = from /\ call'.first = TRUE
      /\ call'.area = z /\ call'.data = <<>> /\ call'.err = "none"
  BY <1>1
<1>10. STyped(call', pos')
  BY <1>4, <1>7, <1>8, <1>9 DEF STyped
<1>11. SUnder(call', pos')
  <2>1. f < 0 \/ f + Len(sep) > pos'
    <3> DEFINE sl == Len(sep)
    <3>1. sl \in Nat \ {0}
      BY <1>2, EmptySeq
    <3> HIDE DEF sl
    <3>2. f < 0 \/ f + sl > pos'
      BY <1>1, <1>5, <1>6, <1>7, <3>1
    <3> QED
      BY <3>2 DEF sl
  <2> QED
    BY <1>1, <1>9, <2>1 DEF SUnder, b, f
<1>12. SOk(call', pos')
  BY <1>9, <1>10, <1>11 DEF SOk
<1> QED
  BY <1>1, <1>12, SPrime

\* A search that goes on from a step: its fields after the step.
LEMMA FieldsKept ==
  ASSUME STypes, call \in SearchCall, NEW p \in 0..Len(text), NEW err \in SearchErrs,
         Search!Finish(p, err)
  PROVE  /\ text' = text /\ pos' = p /\ STyped(call', pos') /\ call' \in SearchCall
         /\ call'.op = call.op /\ call'.sep = call.sep /\ call'.per = call.per
         /\ call'.from = call.from /\ call'.data = call.data /\ call'.first = call.first
         /\ call'.err = err
<1>1. text' = text /\ pos' = p /\ call' = [call EXCEPT !.err = err]
  BY DEF Search!Finish
<1>2. call' = [op |-> call.op, sep |-> call.sep, per |-> call.per, from |-> call.from,
               left |-> call.left, first |-> call.first, area |-> call.area, data |-> call.data,
               err |-> err]
  BY <1>1 DEF SearchCall
<1>3. call' \in SearchCall
  BY <1>2 DEF SearchCall
<1>4. Len(call'.area) = Len(call'.sep) - 1 + call'.per
  BY <1>2, SepOf
<1>5. STyped(call', pos')
  BY <1>1, <1>3, <1>4 DEF STyped
<1> QED
  BY <1>1, <1>2, <1>3, <1>5

\* The data of a search under way is the front of what is behind its start.
LEMMA DataFront ==
  ASSUME SInv, call \in SearchCall, KeepsData(call), call.op # "seek", call.err = "none"
  PROVE  Search!IsPrefix(call.data, SubSeq(text, call.from + 1, Len(text)))
<1>1. SUnder(call, pos)
  BY DEF SInv, SOk, KeepsData, KeepsPlace, Search!PlaceKept
<1>2. text \in Seq(Nat) /\ call.from \in 0..Len(text) /\ pos \in 0..Len(text) /\ Len(text) \in Nat
  BY SepOf DEF SInv, SOk, STypes
<1>3. CASE call.data = <<>>
  BY <1>2, <1>3, NothingFirst
<1>4. CASE call.data = SubSeq(text, call.from + 1, pos)
  <2>1. pos \in Int /\ pos <= Len(text)
    BY <1>2
  <2> QED
    BY <1>2, <1>4, <2>1, FrontIs
<1>5. call.first \in BOOLEAN
  BY DEF SearchCall
<1> QED
  BY <1>1, <1>3, <1>4, <1>5 DEF SUnder

\* A search ends with nothing more read: the limit, a failing write.
LEMMA EndsShort ==
  ASSUME SInv, call \in SearchCall, call.err = "none", NEW p \in 0..Len(text),
         NEW err \in {"max", "write"}, Search!Finish(p, err)
  PROVE  SInv'
<1>1. STypes
  BY DEF SInv, SOk, STypes
<1>2. /\ text' = text /\ STyped(call', pos') /\ call' \in SearchCall /\ call'.op = call.op
      /\ call'.sep = call.sep /\ call'.per = call.per /\ call'.from = call.from
      /\ call'.data = call.data /\ call'.err = err
  BY <1>1, FieldsKept DEF SearchErrs
<1>3. ASSUME call'.op # "seek", KeepsData(call')
      PROVE  Search!IsPrefix(call'.data, SubSeq(text, call'.from + 1, Len(text)))
  <2>1. KeepsData(call)
    BY <1>2, <1>3 DEF KeepsData
  <2> QED
    BY <1>2, <1>3, <2>1, DataFront
<1>4. SExact(call', pos')
  BY <1>2, <1>3 DEF SExact
<1>5. SOk(call', pos')
  BY <1>2, <1>4 DEF SOk
<1> QED
  BY <1>1, <1>2, <1>5, SPrime DEF STypes

\* No more is read: there is no separator.
LEMMA SNone ==
  ASSUME SInv, call \in SearchCall, Search!PieceNone
  PROVE  SInv'
<1> DEFINE f == Search!FirstSep(call.sep, call.from)
           b == Search!SeekBack(call.sep, call.from)
           sl == Len(call.sep)
           n == Len(text)
<1>1. STypes
  BY DEF SInv, SOk, STypes
<1>2. call.err = "none" /\ Search!Got = 0 /\ Search!Finish(pos, "EOF")
  BY DEF Search!PieceNone, Search!Reading
<1>3. /\ pos = n /\ n \in Nat /\ pos \in 0..n /\ sl \in Nat /\ call.from \in 0..n
      /\ call.first \in BOOLEAN /\ b \in 0..call.from
  BY <1>1, <1>2, GotOf, SepOf, AgainOf DEF SearchCall
<1>4. /\ text' = text /\ pos' = pos /\ STyped(call', pos') /\ call' \in SearchCall
      /\ call'.op = call.op /\ call'.sep = call.sep /\ call'.per = call.per
      /\ call'.from = call.from /\ call'.data = call.data /\ call'.err = "EOF"
  BY <1>1, <1>2, <1>3, FieldsKept DEF SearchErrs
<1>5. ASSUME KeepsPlace(call) PROVE f < 0
  <2>1. f < 0 \/ f + sl > pos
    BY <1>2, <1>5 DEF SInv, SOk, SUnder
  <2>2. f = -1 \/ f \in SFrom..(n - sl)
    BY <1>1, SepFirst
  <2>3. SFrom \in Nat
    BY <1>1, AgainOf
  <2> HIDE DEF f, n, sl
  <2> QED
    BY <1>3, <2>1, <2>2, <2>3
<1>6. ASSUME call.op # "seek", KeepsData(call) PROVE call.data = SubSeq(text, call.from + 1, n)
  <2>1. SUnder(call, pos)
    BY <1>2, <1>6 DEF SInv, SOk, KeepsData, KeepsPlace, Search!PlaceKept
  <2>2. CASE call.first
    <3>1. call.data = <<>> /\ pos = call.from - b
      BY <2>1, <2>2 DEF SUnder
    <3>2. n \in Int /\ n <= call.from
      <4> HIDE DEF n, b
      <4> QED
        BY <1>3, <3>1
    <3> QED
      BY <1>1, <1>3, <3>1, <3>2, NothingFirst DEF STypes
  <2>3. CASE ~call.first
    BY <1>3, <1>6, <2>1, <2>3 DEF SUnder
  <2> QED
    BY <1>3, <2>2, <2>3
<1>7. SExact(call', pos')
  <2>1. KeepsData(call') = KeepsData(call) /\ KeepsPlace(call') = KeepsPlace(call)
    BY <1>4 DEF KeepsData, KeepsPlace
  <2> QED
    BY <1>3, <1>4, <1>5, <1>6, <2>1 DEF SExact
<1>8. SOk(call', pos')
  BY <1>4, <1>7 DEF SOk
<1> QED
  BY <1>1, <1>4, <1>8, SPrime DEF STypes

\* The limit is reached.
LEMMA SLimit ==
  ASSUME SInv, call \in SearchCall, Search!LimitReached
  PROVE  SInv'
<1>1. call.err = "none" /\ Search!Finish(pos, "max")
  BY DEF Search!LimitReached
<1>2. pos \in 0..Len(text)
  BY DEF SInv, SOk, STyped
<1> QED
  BY <1>1, <1>2, EndsShort

\* The calls that are one step.
LEMMA SDone ==
  ASSUME SInv, NEW op \in {"all", "buf", "index"}, NEW d, NEW p \in 0..Len(text),
         NEW err \in {"nil", "EOF", "max", "panic"}, Search!Done(op, d, p, err)
  PROVE  SInv'
<1>1. text' = text /\ pos' = p /\ call' = [op |-> op, data |-> d, err |-> err]
  BY DEF Search!Done, Search!Enter
<1>2. call'.op = op /\ call'.err = err
  BY <1>1
<1>3. call' \notin SearchCall
  BY <1>2 DEF SearchCall
<1>4. STyped(call', pos')
  BY <1>1, <1>2 DEF STyped
<1>5. SOk(call', pos')
  BY <1>3, <1>4 DEF SOk
<1> QED
  BY <1>1, <1>5, SPrime DEF SInv

\* A piece is added to the data.
Added(to) == call.data \o SubSeq(Search!Area, Search!Again + 1, to)
GivenStep(to, p, err) ==
  /\ Search!Again <= to
  /\ pos' = p
  /\ call' = [call EXCEPT !.data = @ \o SubSeq(Search!Area, Search!Again + 1, to), !.err = err,
                          !.first = FALSE, !.left = @ - Search!Got, !.area = Search!Area]
  /\ UNCHANGED <<text, searches>>
LEMMA PieceGiven ==
  ASSUME STypes, call \in SearchCall, NEW to \in 0..Len(call.area), NEW p \in 0..Len(text),
         NEW err \in SearchErrs, GivenStep(to, p, err)
  PROVE  /\ Search!Again <= to /\ text' = text /\ pos' = p
         /\ STyped(call', pos') /\ call' \in SearchCall
         /\ call'.op = call.op /\ call'.sep = call.sep /\ call'.per = call.per
         /\ call'.from = call.from /\ call'.data = Added(to) /\ call'.first = FALSE
         /\ call'.err = err /\ call'.area = Search!Area
<1>1. Search!Area \in Seq(Nat) /\ Len(Search!Area) = Len(call.area)
  BY AreaOf
<1>2. Search!Again \in Nat /\ Search!Got \in Nat
  BY AgainOf, GotOf
<1>3. Added(to) \in Seq(Nat)
  <2>1. to \in Nat /\ to <= Len(Search!Area)
    BY <1>1, SepOf
  <2>2. SubSeq(Search!Area, Search!Again + 1, to) \in Seq(Nat)
    BY <1>1, <1>2, <2>1, CutOf
  <2>3. call.data \in Seq(Nat)
    BY DEF SearchCall
  <2> QED
    BY <2>2, <2>3, ConcatOf DEF Added
<1> DEFINE left == call.left - Search!Got
           area == Search!Area
           data == Added(to)
<1>4. call' = [op |-> call.op, sep |-> call.sep, per |-> call.per, from |-> call.from,
               left |-> left, first |-> FALSE, area |-> area, data |-> data, err |-> err]
  BY DEF SearchCall, Added, GivenStep
<1>5. left \in Int
  BY <1>2 DEF SearchCall
<1>6. /\ call.op \in {"until", "copy", "seek"} /\ call.sep \in Seps /\ call.per \in Pers
      /\ call.from \in 0..Len(text)
  BY DEF SearchCall
<1>7. Search!Again <= to /\ text' = text /\ pos' = p
  BY DEF GivenStep
<1>8. area \in Seq(Nat) /\ Len(area) = Len(call.sep) - 1 + call.per
  BY <1>1, SepOf
<1> HIDE DEF left, area
<1>9. call' \in SearchCall
  <2> HIDE DEF data
  <2>1. data \in Seq(Nat)
    BY <1>3 DEF data
  <2> QED
    BY <1>4, <1>5, <1>6, <1>8, <2>1 DEF SearchCall
<1>10. STyped(call', pos')
  <2>1. Len(call'.area) = Len(call'.sep) - 1 + call'.per
    BY <1>4, <1>8
  <2> QED
    BY <1>7, <1>9, <2>1 DEF STyped
<1>11. /\ call'.op = call.op /\ call'.sep = call.sep /\ call'.per = call.per
       /\ call'.from = call.from /\ call'.data = data /\ call'.first = FALSE
       /\ call'.err = err /\ call'.area = area
  <2> HIDE DEF data
  <2> QED
    BY <1>4
<1> QED
  BY <1>7, <1>9, <1>10, <1>11 DEF area

\* What must hold of the data and the cursor after a piece.
GoesOn(to, p) ==
  LET f == Search!FirstSep(call.sep, call.from)
      sl == Len(call.sep)
  IN  /\ f < 0 \/ f + sl > p
      /\ \/ p = Len(text)
         \/ /\ SFrom + (sl - 1) <= p
            /\ \A i \in 1..(sl - 1) : Search!Area[(sl - 1) + i] = text[(p - (sl - 1)) + i]
      /\ KeepsData(call) =>
           /\ call.from <= p /\ (sl = 1 \/ p = Len(text))
           /\ call.op # "seek" => Added(to) = SubSeq(text, call.from + 1, p)
Found(to, p) ==
  LET f == Search!FirstSep(call.sep, call.from)
  IN  /\ f >= 0 /\ p = IF call.op # "seek" THEN f + Len(call.sep) ELSE f
      /\ call.op # "seek" /\ KeepsData(call) => Added(to) = SubSeq(text, call.from + 1, f)

\* A step with a piece.
LEMMA SGive ==
  ASSUME SInv, call \in SearchCall, call.err = "none", NEW to \in 0..Len(call.area),
         NEW p \in 0..Len(text), NEW err \in {"none", "nil", "max"}, Search!Give(to, p, err),
         KeepsPlace(call) /\ Search!Again <= to /\ err = "none" => GoesOn(to, p),
         KeepsPlace(call) /\ Search!Again <= to /\ err = "nil" => Found(to, p),
         KeepsData(call) /\ call.op # "seek" /\ Search!Again <= to /\ err = "max" =>
           Search!IsPrefix(Added(to), SubSeq(text, call.from + 1, Len(text))),
         KeepsData(call) /\ call.op # "seek" /\ ~(Search!Again <= to) =>
           Search!FirstSep(call.sep, call.from) \in 0..(call.from - 1)
  PROVE  SInv'
<1>1. STypes
  BY DEF SInv, SOk, STypes
<1>2. CASE call.op = "copy" /\ Search!Finish(p, "write")
  BY <1>2, EndsShort
<1>3. CASE Search!Again > to /\ Search!Finish(p, "panic")
  <2>1. /\ text' = text /\ STyped(call', pos') /\ call' \in SearchCall /\ call'.op = call.op
        /\ call'.sep = call.sep /\ call'.per = call.per /\ call'.from = call.from
        /\ call'.err = "panic"
    BY <1>1, <1>3, FieldsKept DEF SearchErrs
  <2>2. ~(Search!Again <= to)
    <3>1. Search!Again \in Nat /\ to \in Nat
      BY <1>1, AgainOf, SepOf
    <3> QED
      BY <1>3, <3>1
  <2>3. KeepsData(call') = KeepsData(call)
    BY <2>1 DEF KeepsData
  <2>4. SExact(call', pos')
    BY <2>1, <2>2, <2>3 DEF SExact
  <2>5. SOk(call', pos')
    BY <2>1, <2>4 DEF SOk
  <2> QED
    BY <1>1, <2>1, <2>5, SPrime DEF STypes
<1>4. CASE GivenStep(to, p, err)
  <2>1. /\ Search!Again <= to /\ text' = text /\ pos' = p
        /\ STyped(call', pos') /\ call' \in SearchCall
        /\ call'.op = call.op /\ call'.sep = call.sep /\ call'.per = call.per
        /\ call'.from = call.from /\ call'.data = Added(to) /\ call'.first = FALSE
        /\ call'.err = err /\ call'.area = Search!Area
    BY <1>1, <1>4, PieceGiven DEF SearchErrs
  <2>2. KeepsData(call') = KeepsData(call) /\ KeepsPlace(call') = KeepsPlace(call)
    BY <2>1 DEF KeepsData, KeepsPlace
  <2>3. CASE err = "none"
    <3>1. ASSUME KeepsPlace(call') PROVE SUnder(call', pos')
      <4>1. GoesOn(to, p)
        BY <2>1, <2>2, <2>3, <3>1
      <4>2. Fronted(call', pos')
        BY <2>1, <4>1 DEF Fronted, GoesOn, SFrom
      <4> QED
        BY <2>1, <2>2, <4>1, <4>2 DEF SUnder, GoesOn
    <3>2. SOk(call', pos')
      BY <2>1, <2>3, <3>1 DEF SOk
    <3> QED
      BY <1>1, <2>1, <3>2, SPrime DEF STypes
  <2>4. CASE err = "nil" \/ err = "max"
    <3>1. ASSUME err = "nil" PROVE SExact(call', pos')
      <4>1. KeepsPlace(call') => Found(to, p)
        BY <2>1, <2>2, <3>1
      <4>2. KeepsData(call') => KeepsPlace(call')
        BY DEF KeepsData, KeepsPlace, Search!PlaceKept
      <4> QED
        BY <2>1, <2>2, <3>1, <4>1, <4>2 DEF SExact, Found
    <3>2. ASSUME err = "max" PROVE SExact(call', pos')
      BY <2>1, <2>2, <3>2 DEF SExact
    <3>3. SOk(call', pos')
      BY <2>1, <2>4, <3>1, <3>2 DEF SOk
    <3> QED
      BY <1>1, <2>1, <3>3, SPrime DEF STypes
  <2> QED
    BY <2>3, <2>4
<1> QED
  BY <1>2, <1>3, <1>4 DEF Search!Give, GivenStep

\* The numbers of a piece.
LEMMA PieceNums ==
  ASSUME STypes, call \in SearchCall
  PROVE  /\ Search!Again \in Nat /\ Search!Got \in Nat /\ Search!Held \in Nat /\ Search!At \in Int
         /\ pos \in Nat /\ Len(text) \in Nat /\ Len(call.area) \in Nat /\ Len(call.sep) \in Nat
         /\ Len(call.sep) >= 1 /\ pos + Search!Got <= Len(text)
         /\ Search!Again <= Len(call.sep) - 1 /\ Search!Held <= Len(call.sep) - 1
         /\ Search!Again <= Len(call.area) /\ Search!Held + Search!Got <= Len(call.area)
         /\ Search!At >= 0 => Search!At + Len(call.sep) <= Search!Held + Search!Got
<1> DEFINE ls == Len(call.sep)
           la == Len(call.area)
           again == Search!Again
<1>1. /\ ls \in Nat /\ ls >= 1 /\ call.per \in Nat /\ la = ls - 1 + call.per
      /\ Len(text) \in Nat /\ pos \in 0..Len(text)
  BY SepOf
<1>2. again \in Nat /\ again <= ls - 1 /\ Search!Held \in Nat /\ Search!Held <= ls - 1
  BY AgainOf
<1>3. Search!Got \in Nat /\ pos + Search!Got <= Len(text) /\ Search!Held + Search!Got <= la
  BY GotOf
<1>4. Search!At \in Int /\ (Search!At >= 0 => Search!At + ls <= Search!Held + Search!Got)
  BY AtOf
<1> HIDE DEF ls, la, again
<1>5. la \in Nat /\ again <= la /\ pos \in Nat
  BY <1>1, <1>2
<1> QED
  BY <1>1, <1>2, <1>3, <1>4, <1>5 DEF ls, la, again

\* The cursor behind, or before, a separator is in the file.
LEMMA PlaceIn ==
  ASSUME NEW ps \in Nat, NEW held \in Nat, NEW at \in Nat, NEW gotn \in Nat, NEW ls \in Nat,
         NEW lt \in Nat, ls >= 1, ps + gotn <= lt, at + ls <= held + gotn, held <= ls - 1
  PROVE  /\ (ps - held + at) + ls \in 0..lt
         /\ ps - held + at >= 0 => ps - held + at \in 0..lt
         /\ ps + gotn \in 0..lt
OBVIOUS

\* A piece without the separator.
LEMMA SMissing ==
  ASSUME SInv, call \in SearchCall, Search!PieceMissing
  PROVE  SInv'
<1> DEFINE to == IF call.op = "seek" THEN Search!Again ELSE Search!Got
           p == pos + Search!Got
           f == Search!FirstSep(call.sep, call.from)
<1>1. STypes
  BY DEF SInv, SOk, STypes
<1>2. call.err = "none" /\ Search!Got > 0 /\ Search!At < 0 /\ Search!Give(to, p, "none")
  BY DEF Search!PieceMissing, Search!Reading
<1>3. /\ Search!Again \in Nat /\ Search!Got \in Nat /\ Search!Held \in Nat /\ pos \in Nat
      /\ Search!Again <= Len(call.area) /\ Search!Got <= Len(call.area) /\ Len(call.area) \in Nat
      /\ p \in 0..Len(text) /\ Len(text) \in Nat
  <2> DEFINE la == Len(call.area)
  <2>1. /\ Search!Again \in Nat /\ Search!Got \in Nat /\ Search!Held \in Nat /\ pos \in Nat
        /\ Search!Again <= la /\ Search!Held + Search!Got <= la /\ la \in Nat
        /\ pos + Search!Got <= Len(text) /\ Len(text) \in Nat
    BY <1>1, PieceNums
  <2> HIDE DEF la
  <2>2. Search!Got <= la
    BY <2>1
  <2>3. p \in 0..Len(text)
    BY <2>1
  <2> QED
    BY <2>1, <2>2, <2>3 DEF la
<1>4. to \in 0..Len(call.area)
  BY <1>3
<1>5. ASSUME KeepsPlace(call) PROVE SUnder(call, pos)
  BY <1>2, <1>5 DEF SInv, SOk
<1>6. ASSUME KeepsData(call)
      PROVE  /\ KeepsPlace(call) /\ Search!Held = 0 /\ Search!Again <= Search!Got /\ Search!Again <= to
             /\ call.from <= p /\ (Len(call.sep) = 1 \/ p = Len(text))
             /\ call.op # "seek" => Added(to) = SubSeq(text, call.from + 1, p)
  <2>1. KeepsPlace(call) /\ SUnder(call, pos)
    BY <1>5, <1>6 DEF KeepsData, KeepsPlace, Search!PlaceKept
  <2>2. /\ Search!Held = 0 /\ Search!Again <= Search!Got
        /\ call.first => call.from = pos + Search!Again
        /\ ~call.first => call.from <= pos
        /\ Len(call.sep) # 1 => call.first
    BY <1>1, <1>2, <1>6, <2>1, PieceKept
  <2>3. call.from \in Nat /\ call.first \in BOOLEAN
    BY <1>1, SepOf DEF SearchCall
  <2>4. Search!Again <= to
    BY <1>3, <2>2
  <2>5. call.from <= p
    BY <1>3, <2>2, <2>3
  <2>6. ASSUME call.op # "seek" PROVE Added(to) = SubSeq(text, call.from + 1, p)
    <3>1. to = Search!Got
      BY <2>6
    <3>2. to \in Nat /\ to <= Search!Got
      BY <1>3, <3>1
    <3> HIDE DEF to
    <3>3. call.data \o SubSeq(Search!Area, Search!Again + 1, to) = SubSeq(text, call.from + 1, pos + to)
      BY <1>1, <1>2, <1>6, <2>1, <2>4, <2>6, <3>2, DataMore
    <3> QED
      BY <3>1, <3>3 DEF Added
  <2>7. Len(call.sep) = 1 \/ p = Len(text)
    BY <1>1, <1>2, <1>6, <2>1, KeptEnds
  <2> QED
    BY <2>1, <2>2, <2>4, <2>5, <2>6, <2>7
<1>7. ASSUME KeepsPlace(call) PROVE GoesOn(to, p)
  <2>1. f < 0 \/ f + Len(call.sep) > p
    BY <1>1, <1>2, <1>5, <1>7, PieceFirst
  <2>2. \/ p = Len(text)
        \/ /\ SFrom + (Len(call.sep) - 1) <= p
           /\ \A i \in 1..(Len(call.sep) - 1) :
                Search!Area[(Len(call.sep) - 1) + i] = text[(p - (Len(call.sep) - 1)) + i]
    BY <1>1, <1>2, <1>5, <1>7, FrontMoves
  <2> HIDE DEF to, p
  <2> QED
    BY <1>6, <2>1, <2>2 DEF GoesOn
<1> HIDE DEF to, p
<1>8. KeepsData(call) => Search!Again <= to
  BY <1>6
<1> QED
  BY <1>2, <1>3, <1>4, <1>7, <1>8, SGive

\* A piece with the separator.
LEMMA SFound ==
  ASSUME SInv, call \in SearchCall, Search!PieceFound
  PROVE  SInv'
<1> DEFINE at == pos - Search!Held + Search!At
           err == IF ~call.first /\ call.left - Search!Got <= 0 THEN "max" ELSE "nil"
           to == IF call.op = "seek" \/ Search!At = 0 THEN Search!Again ELSE Search!At
           p == IF call.op = "seek" THEN (IF at < 0 THEN pos + Search!Got ELSE at)
                ELSE at + Len(call.sep)
           f == Search!FirstSep(call.sep, call.from)
<1>1. STypes
  BY DEF SInv, SOk, STypes
<1>2. call.err = "none" /\ Search!Got > 0 /\ Search!At >= 0
  BY DEF Search!PieceFound, Search!Reading
<1>3. Search!Give(to, p, err)
  <2>1. CASE call.op = "seek"
    BY <2>1 DEF Search!PieceFound
  <2>2. CASE call.op # "seek"
    BY <2>2 DEF Search!PieceFound
  <2> QED
    BY <2>1, <2>2
<1>4. err \in {"nil", "max"}
  OBVIOUS
<1>5. /\ Search!Again \in Nat /\ Search!Got \in Nat /\ Search!Held \in Nat /\ Search!At \in Nat
      /\ pos \in Nat /\ Len(text) \in Nat /\ Len(call.area) \in Nat /\ Len(call.sep) \in Nat
      /\ Len(call.sep) >= 1 /\ Search!Again <= Len(call.area) /\ pos + Search!Got <= Len(text)
      /\ Search!Held + Search!Got <= Len(call.area)
      /\ Search!At + Len(call.sep) <= Search!Held + Search!Got
      /\ Search!Held <= Len(call.sep) - 1
  <2>1. Search!At \in Int /\ Search!At >= 0 => Search!At \in Nat
    OBVIOUS
  <2> QED
    BY <1>1, <1>2, <2>1, PieceNums
<1> HIDE DEF err
<1>6. to \in 0..Len(call.area)
  <2> DEFINE la == Len(call.area)
             ls == Len(call.sep)
  <2>1. /\ la \in Nat /\ ls \in Nat /\ ls >= 1 /\ Search!Again \in Nat /\ Search!At \in Nat
        /\ Search!Again <= la /\ Search!Held + Search!Got <= la
        /\ Search!At + ls <= Search!Held + Search!Got /\ Search!Held + Search!Got \in Nat
    BY <1>5
  <2> HIDE DEF la, ls
  <2>2. Search!At <= la
    BY <2>1
  <2> QED
    BY <2>1, <2>2 DEF la
<1>7. p \in 0..Len(text)
  <2>1. /\ at + Len(call.sep) \in 0..Len(text)
        /\ at >= 0 => at \in 0..Len(text)
        /\ pos + Search!Got \in 0..Len(text)
    BY <1>5, PlaceIn
  <2>2. at \in Int
    BY <1>5
  <2> HIDE DEF at
  <2> QED
    BY <2>1, <2>2
<1>8. ASSUME KeepsPlace(call)
      PROVE  /\ SUnder(call, pos) /\ f = at /\ f \in Nat
             /\ p = IF call.op # "seek" THEN f + Len(call.sep) ELSE f
  <2>1. SUnder(call, pos)
    BY <1>2, <1>8 DEF SInv, SOk
  <2>2. f = at
    BY <1>1, <1>2, <1>8, <2>1, PieceFirst
  <2>3. f \in Nat
    <3>1. f = -1 \/ f \in SFrom..(Len(text) - Len(call.sep))
      BY <1>1, SepFirst
    <3>2. Search!Held <= pos
      BY <1>1, <1>2, <1>8, <2>1, AreaHolds
    <3>3. at \in Nat
      BY <1>5, <3>2
    <3> QED
      BY <2>2, <3>3
  <2>4. p = IF call.op = "seek" THEN (IF at < 0 THEN pos + Search!Got ELSE at)
            ELSE at + Len(call.sep)
    OBVIOUS
  <2> HIDE DEF f, p, at
  <2> QED
    BY <2>1, <2>2, <2>3, <2>4
<1>9. ASSUME KeepsData(call), call.op # "seek"
      PROVE  /\ KeepsPlace(call)
             /\ Search!Again <= to =>
                  /\ Added(to) = SubSeq(text, call.from + 1, f)
                  /\ Search!IsPrefix(Added(to), SubSeq(text, call.from + 1, Len(text)))
             /\ ~(Search!Again <= to) => f \in 0..(call.from - 1)
  <2>1. KeepsPlace(call)
    BY <1>9 DEF KeepsData, KeepsPlace, Search!PlaceKept
  <2>2. SUnder(call, pos) /\ f = at /\ f \in Nat
    BY <1>8, <2>1
  <2>3. /\ Search!Held = 0 /\ Search!Again <= Search!Got
        /\ call.first => call.from = pos + Search!Again
        /\ ~call.first => call.from <= pos /\ Search!Again = 0
    BY <1>1, <1>2, <1>9, <2>2, PieceKept
  <2>4. call.from \in 0..Len(text) /\ call.from \in Nat /\ call.first \in BOOLEAN
    BY <1>1, SepOf DEF SearchCall
  <2>5. f = pos + Search!At
    <3> HIDE DEF f
    <3>1. f = (pos - Search!Held) + Search!At
      BY <2>2
    <3> QED
      BY <1>5, <2>3, <3>1
  <2> HIDE DEF at
  <2>6. /\ Search!At = 0 => to = Search!Again
        /\ Search!At # 0 => to = Search!At
    BY <1>9
  <2> HIDE DEF to, p
  <2>7. to \in Nat /\ to <= Search!Got
    <3> DEFINE sl == Len(call.sep)
    <3>1. sl \in Nat /\ sl >= 1 /\ Search!At + sl <= Search!Held + Search!Got
      BY <1>5
    <3> HIDE DEF sl
    <3>2. Search!At <= Search!Got
      BY <1>5, <2>3, <3>1
    <3> QED
      BY <1>5, <2>3, <2>6, <3>2
  <2>8. ASSUME ~(Search!Again <= to) PROVE f \in 0..(call.from - 1)
    <3>1. to = Search!At /\ Search!At < Search!Again
      BY <1>5, <2>6, <2>8
    <3>2. call.from = pos + Search!Again
      BY <1>5, <2>3, <2>4, <3>1
    <3> HIDE DEF f
    <3> QED
      BY <1>5, <2>4, <2>5, <3>1, <3>2
  <2>9. ASSUME Search!Again <= to PROVE Added(to) = SubSeq(text, call.from + 1, pos + to)
    <3>1. call.data \o SubSeq(Search!Area, Search!Again + 1, to) = SubSeq(text, call.from + 1, pos + to)
      BY <1>1, <1>2, <1>9, <2>2, <2>7, <2>9, DataMore
    <3> QED
      BY <3>1 DEF Added
  <2>10. ASSUME Search!Again <= to
         PROVE  SubSeq(text, call.from + 1, pos + to) = SubSeq(text, call.from + 1, f)
    <3>1. CASE Search!At # 0
      BY <2>5, <2>6, <3>1
    <3>2. CASE Search!At = 0 /\ ~call.first
      <4>1. pos + to = f
        BY <1>5, <2>3, <2>5, <2>6, <3>2
      <4> QED
        BY <4>1
    <3>3. CASE Search!At = 0 /\ call.first
      <4> HIDE DEF f
      <4>1. /\ f = pos /\ pos \in Nat /\ to = Search!Again /\ Search!Again \in Nat
            /\ call.from = pos + Search!Again
        BY <1>5, <2>3, <2>5, <2>6, <3>3
      <4>2. f \in Int /\ pos + to \in Int /\ f <= call.from /\ pos + to <= call.from
        BY <4>1
      <4>3. \A k \in Int : k <= call.from => SubSeq(text, call.from + 1, k) = <<>>
        BY <1>1, <2>4, NothingFirst DEF STypes
      <4>4. SubSeq(text, call.from + 1, pos + to) = <<>>
        BY <4>2, <4>3
      <4>5. SubSeq(text, call.from + 1, f) = <<>>
        BY <4>2, <4>3
      <4> QED
        BY <4>4, <4>5
    <3> QED
      BY <2>4, <3>1, <3>2, <3>3
  <2>11. ASSUME Search!Again <= to
         PROVE  Search!IsPrefix(Added(to), SubSeq(text, call.from + 1, Len(text)))
    <3> DEFINE k == pos + to
    <3>1. k \in Int /\ k <= Len(text)
      BY <1>5, <2>7
    <3>2. Added(to) = SubSeq(text, call.from + 1, k)
      BY <2>9, <2>11
    <3> HIDE DEF k
    <3>3. Search!IsPrefix(SubSeq(text, call.from + 1, k), SubSeq(text, call.from + 1, Len(text)))
      BY <1>1, <2>4, <3>1, FrontIs DEF STypes
    <3> QED
      BY <3>2, <3>3
  <2> QED
    BY <2>1, <2>8, <2>9, <2>10, <2>11
<1> HIDE DEF to, p
<1>10. KeepsPlace(call) /\ Search!Again <= to => Found(to, p)
  BY <1>8, <1>9 DEF Found
<1> QED
  BY <1>2, <1>3, <1>4, <1>6, <1>7, <1>9, <1>10, SGive

\* A step of a file.
LEMMA SNext ==
  ASSUME SInv, [Search!Next]_(Search!vars)
  PROVE  SInv'
<1>1. text \in Seq(Nat) /\ pos \in 0..Len(text) /\ Len(text) \in Nat
  BY LenProperties DEF SInv, SOk, STyped
<1>2. CASE UNCHANGED Search!vars
  <2>1. text' = text /\ pos' = pos /\ call' = call
    BY <1>2 DEF Search!vars
  <2>2. SOk(call', pos')
    BY <2>1 DEF SInv
  <2> QED
    BY <1>1, <2>1, <2>2, SPrime
<1>3. ASSUME NEW sep \in Seps, NEW per \in Pers, NEW most \in Maxs, Search!ReadUntilV2(sep, per, most)
      PROVE  SInv'
  BY <1>1, <1>3, SBegin DEF Search!ReadUntilV2
<1>4. ASSUME NEW sep \in Seps, NEW per \in Pers, NEW most \in Maxs, Search!CopyToUntil(sep, per, most)
      PROVE  SInv'
  BY <1>1, <1>4, SBegin DEF Search!CopyToUntil
<1>5. ASSUME NEW sep \in Seps, NEW per \in Pers, NEW most \in Maxs,
             NEW whence \in {"AtOrigin", "AtCurrent"}, Search!SeekUntil(sep, whence, per, most)
      PROVE  SInv'
  <2> DEFINE from == IF whence = "AtOrigin" THEN 0 ELSE pos
  <2>1. from \in 0..Len(text)
    BY <1>1
  <2>2. Search!SearchBegin("seek", sep, per, most, from)
    BY <1>5 DEF Search!SeekUntil
  <2> HIDE DEF from
  <2> QED
    BY <2>1, <2>2, SBegin
<1>6. ASSUME call.err = "none" PROVE call \in SearchCall
  BY <1>6 DEF SInv, SOk, STyped
<1>7. CASE Search!PieceMissing
  BY <1>6, <1>7, SMissing DEF Search!PieceMissing, Search!Reading
<1>8. CASE Search!PieceFound
  BY <1>6, <1>8, SFound DEF Search!PieceFound, Search!Reading
<1>9. CASE Search!PieceNone
  BY <1>6, <1>9, SNone DEF Search!PieceNone, Search!Reading
<1>10. CASE Search!LimitReached
  BY <1>6, <1>10, SLimit DEF Search!LimitReached
<1>11. pos \in 0..Len(text) /\ Len(text) \in 0..Len(text)
  BY <1>1
<1>12. ASSUME NEW most \in Maxs, Search!ReadAll(most) PROVE SInv'
  BY <1>11, <1>12, SDone DEF Search!ReadAll
<1>13. ASSUME NEW most \in Maxs, NEW b \in Bufs, Search!ReadToBuf(most, b[1], b[2]) PROVE SInv'
  BY <1>11, <1>13, SDone DEF Search!ReadToBuf
<1>14. ASSUME NEW p \in 0..Len(text), Search!SeekIndex(p) PROVE SInv'
  BY <1>14, SDone DEF Search!SeekIndex
<1> QED
  BY <1>2, <1>3, <1>4, <1>5, <1>7, <1>8, <1>9, <1>10, <1>12, <1>13, <1>14 DEF Search!Next

\* The invariant of the searches.
LEMMA SAlways == Search!Spec => []SInv
<1> QED
  BY SInit, SNext, PTL DEF Search!Spec

\* file/FileWR.go: for every file, separator, limit and size of the pieces, a search leaves the
\* cursor at the first separator, and says that there is none only if there is none, if the first
\* read holds it (or all that is left), if it is one byte, or if the pieces are as long as the
\* reserve, also when it then lies across two reads; the data is the bytes before it in the first
\* two cases.  For other separators across two reads the code does not keep this (search_pieces).
THEOREM SearchExactCorrect == Search!Spec => []Search!UntilExact
<1>1. SInv => Search!UntilExact
  BY SExactly
<1> QED
  BY <1>1, SAlways, PTL

----------------------------------------------------------------------------
(* The composition that the run checks.                                    *)

\* Its behaviours are those of the limits beside the others.
LEMMA LimitsSpec == BoundsSpec => Spec
<1>1. BoundsInit => Init
  BY DEF BoundsInit
<1>2. ASSUME [BoundsNext]_<<unit, vars, keyVars, queueVars, copyVars, fileVars>>
      PROVE  [Next]_vars
  BY <1>2 DEF BoundsNext
<1> QED
  BY <1>1, <1>2, PTL DEF BoundsSpec, Spec

\* web/Web.go Limits: no item is overrun, and nobody is turned away while all its items have
\* slots, as NeverOverCorrect and OnlyWhenFullCorrect say.
THEOREM LimitsCorrect == BoundsSpec => []NeverOver /\ OnlyWhenFull
<1> QED
  BY NeverOverCorrect, OnlyWhenFullCorrect, LimitsSpec, PTL

\* Its behaviours are those of the Exprier beside the limits.
LEMMA KeysSpec == BoundsSpec => Expiring!Spec
<1>1. BoundsInit => Expiring!Init
  BY DEF BoundsInit
<1>2. ASSUME [BoundsNext]_<<unit, vars, keyVars, queueVars, copyVars, fileVars>>
      PROVE  [Expiring!Next]_(Expiring!vars)
  BY <1>2 DEF BoundsNext, keyVars, Expiring!vars
<1> QED
  BY <1>1, <1>2, PTL DEF BoundsSpec, Expiring!Spec

\* Its behaviours are those of a Buf beside the others.
LEMMA QueueSpec == BoundsSpec => Queue!Spec
<1>1. BoundsInit => Queue!Init
  BY DEF BoundsInit
<1>2. ASSUME [BoundsNext]_<<unit, vars, keyVars, queueVars, copyVars, fileVars>>
      PROVE  [Queue!Next]_(Queue!vars)
  BY <1>2 DEF BoundsNext, queueVars, Queue!vars
<1> QED
  BY <1>1, <1>2, PTL DEF BoundsSpec, Queue!Spec

\* Its behaviours are those of a copy beside the others.
LEMMA CopySpec == BoundsSpec => Copy!Spec
<1>1. BoundsInit => Copy!Init
  BY DEF BoundsInit
<1>2. ASSUME [BoundsNext]_<<unit, vars, keyVars, queueVars, copyVars, fileVars>>
      PROVE  [Copy!Next]_(Copy!vars)
  BY <1>2 DEF BoundsNext, copyVars, Copy!vars
<1> QED
  BY <1>1, <1>2, PTL DEF BoundsSpec, Copy!Spec

\* Its behaviours are those of a File beside the others.
LEMMA SearchSpec == BoundsSpec => Search!Spec
<1>1. BoundsInit => Search!Init
  BY DEF BoundsInit
<1>2. ASSUME [BoundsNext]_<<unit, vars, keyVars, queueVars, copyVars, fileVars>>
      PROVE  [Search!Next]_(Search!vars)
  BY <1>2 DEF BoundsNext, fileVars, Search!vars
<1> QED
  BY <1>1, <1>2, PTL DEF BoundsSpec, Search!Spec

\* slice/Slice.go and io/io.go: the data is what the calls say, as QueueExactCorrect and
\* CopiedExactCorrect say.
THEOREM DataExactCorrect == BoundsSpec => []DataExact
<1> QED
  BY QueueExactCorrect, CopiedExactCorrect, QueueSpec, CopySpec, PTL DEF DataExact

\* file/FileWR.go: where a search of one behaviour of the run ends, as SearchExactCorrect says.
THEOREM UntilExactCorrect == BoundsSpec => []UntilExact
<1> QED
  BY SearchExactCorrect, SearchSpec, PTL DEF UntilExact

\* web/Web.go Exprier: the map keeps to max keys and Reg never waits, as KeysBoundedCorrect and
\* RegNeverWaitsCorrect say.
THEOREM BoundedCorrect == BoundsSpec => []Bounded
<1>1. PICK reg \in Registrars : Registrars = {reg}
  BY BoundsAssumptions
<1>2. Expiring!Spec => []Expiring!Bounded
  BY <1>1, KeysBoundedCorrect, BoundsAssumptions
<1>3. Expiring!Spec => []Expiring!RegNeverWaits
  BY <1>1, RegNeverWaitsCorrect, BoundsAssumptions
<1> QED
  BY <1>2, <1>3, KeysSpec, PTL DEF Bounded

\* web/Web.go Exprier.Reg: the oldest key makes room, as OldestGoesCorrect says.
THEOREM EvictsOldestCorrect == BoundsSpec => EvictsOldest
<1>1. PICK reg \in Registrars : Registrars = {reg}
  BY BoundsAssumptions
<1>2. Expiring!Spec => Expiring!EvictsOldest
  BY <1>1, OldestGoesCorrect, BoundsAssumptions
<1> QED
  BY <1>2, KeysSpec, PTL DEF EvictsOldest
=============================================================================
