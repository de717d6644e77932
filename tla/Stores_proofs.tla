--------------------------- MODULE Stores_proofs ----------------------------
(***************************************************************************)
(* What keeps data for others, for any number of users.  sync/Map.go: the  *)
(* counter, for goroutines that use neither Swap nor ClearAll.             *)
(* pool/Blocks.go: every block is in one place.  pool/Pool.go and          *)
(* sync/LoadOrStoreFunc.go: nothing is handed out twice.                   *)
(* sync/MapExceeded.go: "loaded" comes with a value.  io/io.go CacheWriter: *)
(* no slot is filled while it waits.                                       *)
(***************************************************************************)
EXTENDS SizedMap, Sequences, FiniteSetTheorems, SequenceTheorems, TLAPS

CONSTANTS
  blockNum, GetUsers, AutoUsers, Flex, None,    \* BL
  PoolUsers, Items, maxsize, HasInUse, InitKeys, \* PO
  TimedKeys, Objs, Callers, TimedOps, MaxTimed,  \* ME
  Writers, slotN, CounterMod, MaxCacheWrites     \* CW

VARIABLES
  free, buf, cleanups, place, offset, got, last, \* BL
  mbuf, made, held, working, cache, store,       \* PO
  xm, data, live, used, blank, wait, xpc, loc, walk, rul, xcalls, kept, \* ME
  bufs, taken, cc, wpc, workers, cnum, cancelled, writes, accepted, below \* CW

BL == INSTANCE Blocks WITH pc <- place
PO == INSTANCE Pools WITH Keys <- InitKeys
ME == INSTANCE MapExceeded WITH
  Keys <- TimedKeys, Ops <- TimedOps, MaxCalls <- MaxTimed, m <- xm, pc <- xpc, calls <- xcalls
CW == INSTANCE CacheWriter

----------------------------------------------------------------------------
\* The types of Map.
Types ==
  /\ m \in SUBSET Keys
  /\ size \in Int
  /\ pc \in [Threads -> {"idle", "add", "sub", "clear"}]
  /\ todo \in [Threads -> SUBSET Keys]
  /\ calls \in [Threads -> Nat]

\* Nobody is in ClearAll.
NoClear == At("clear") = {}

\* The sets that the counter is compared with are finite.
LEMMA Finite ==
  ASSUME Types
  PROVE  /\ IsFiniteSet(m) /\ Cardinality(m) \in Nat
         /\ \A p : IsFiniteSet(At(p)) /\ Cardinality(At(p)) \in Nat
<1>1. IsFiniteSet(m) /\ Cardinality(m) \in Nat
  BY SizedMapAssumption, FS_Subset, FS_CardinalityType DEF Types
<1>2. ASSUME NEW p
      PROVE  IsFiniteSet(At(p)) /\ Cardinality(At(p)) \in Nat
  <2>1. At(p) \in SUBSET Threads
    BY DEF At
  <2> QED
    BY <2>1, SizedMapAssumption, FS_Subset, FS_CardinalityType
<1> QED
  BY <1>1, <1>2

\* An operation that has changed the sync.Map goes from idle to the place
\* before the counter, and the number of those at that place grows by one.
LEMMA Enter ==
  ASSUME Types, NEW t \in Threads, NEW p \in {"add", "sub"}, pc[t] = "idle", Goto(t, p)
  PROVE  /\ Cardinality(At(p)') = Cardinality(At(p)) + 1
         /\ \A q \in {"add", "sub", "clear"} : q # p => At(q)' = At(q)
<1>1. At(p)' = At(p) \cup {t} /\ t \notin At(p)
  BY DEF Types, At, Goto
<1>2. \A q \in {"add", "sub", "clear"} : q # p => At(q)' = At(q)
  BY DEF Types, At, Goto
<1> QED
  BY <1>1, <1>2, Finite, FS_AddElement

\* Add and Sub leave that place again.
LEMMA Leave ==
  ASSUME Types, NEW t \in Threads, NEW p \in {"add", "sub"}, pc[t] = p, Goto(t, "idle")
  PROVE  /\ Cardinality(At(p)') = Cardinality(At(p)) - 1
         /\ \A q \in {"add", "sub", "clear"} : q # p => At(q)' = At(q)
<1>1. At(p)' = At(p) \ {t} /\ t \in At(p)
  BY DEF Types, At, Goto
<1>2. \A q \in {"add", "sub", "clear"} : q # p => At(q)' = At(q)
  BY DEF Types, At, Goto
<1> QED
  BY <1>1, <1>2, Finite, FS_RemoveElement

\* An operation that changed nothing stays idle.
LEMMA Stay ==
  ASSUME Types, NEW t \in Threads, pc[t] = "idle", Goto(t, "idle")
  PROVE  \A q \in {"add", "sub", "clear"} : At(q)' = At(q)
BY DEF Types, At, Goto

\* By how much the counter is off beyond the operations that have yet to count.
Gap == size - (Cardinality(m) - Cardinality(At("add")) + Cardinality(At("sub")))

\* A step that keeps Gap, and neither begins nor ends a ClearAll.
Keeps == Types' /\ Gap' = Gap /\ At("clear")' = At("clear")

\* An empty map.
LEMMA InitGap == ASSUME Init PROVE Types /\ Gap = 0 /\ At("clear") = {}
<1>1. At("add") = {} /\ At("sub") = {} /\ At("clear") = {}
  BY DEF Init, At
<1>2. Cardinality({}) = 0
  BY FS_EmptySet
<1> QED
  BY <1>1, <1>2 DEF Init, Types, Gap

\* Nothing changes.
LEMMA StutterKeeps == ASSUME Types, UNCHANGED vars PROVE Keeps
BY DEF vars, Types, Keeps, Gap, At

\* A new entry: one more in the sync.Map and one more that has yet to count.
LEMMA StoreKeeps ==
  ASSUME Types, NEW t \in Threads, NEW k \in Keys, Store(t, k)
  PROVE  Keeps
<1> USE DEF Store, Begin, Keeps, Gap
<1>1. Types'
  BY DEF Types, Goto
<1>2. CASE k \in m
  <2>1. m' = m
    BY <1>2
  <2>2. \A q \in {"add", "sub", "clear"} : At(q)' = At(q)
    BY <1>2, Stay
  <2> QED
    BY <1>1, <2>1, <2>2
<1>3. CASE k \notin m
  <2>1. Cardinality(m') = Cardinality(m) + 1
    BY <1>3, Finite, FS_AddElement
  <2>2. /\ Cardinality(At("add")') = Cardinality(At("add")) + 1
        /\ At("sub")' = At("sub") /\ At("clear")' = At("clear")
    BY <1>3, Enter
  <2> QED
    BY <1>1, <2>1, <2>2, Finite DEF Types
<1> QED
  BY <1>2, <1>3

\* What an operation does that removes the entry of k, if it does.
LEMMA RemoveKeeps ==
  ASSUME Types, NEW t \in Threads, NEW k \in Keys, NEW deleted \in BOOLEAN,
         pc[t] = "idle", deleted => k \in m,
         m' = (IF deleted THEN m \ {k} ELSE m),
         Goto(t, IF deleted THEN "sub" ELSE "idle"),
         size' = size, Types'
  PROVE  Keeps
<1> USE DEF Keeps, Gap
<1>1. CASE ~deleted
  <2>1. \A q \in {"add", "sub", "clear"} : At(q)' = At(q)
    BY <1>1, Stay
  <2> QED
    BY <1>1, <2>1
<1>2. CASE deleted
  <2>1. Cardinality(m') = Cardinality(m) - 1
    BY <1>2, Finite, FS_RemoveElement
  <2>2. /\ Cardinality(At("sub")') = Cardinality(At("sub")) + 1
        /\ At("add")' = At("add") /\ At("clear")' = At("clear")
    BY <1>2, Enter
  <2> QED
    BY <2>1, <2>2, Finite DEF Types
<1> QED
  BY <1>1, <1>2

LEMMA DeleteKeeps ==
  ASSUME Types, NEW t \in Threads, NEW k \in Keys, Delete(t, k)
  PROVE  Keeps
<1>1. Types'
  BY DEF Types, Delete, Begin, Goto
<1>2. /\ pc[t] = "idle" /\ size' = size
      /\ m' = IF k \in m THEN m \ {k} ELSE m
      /\ Goto(t, IF k \in m THEN "sub" ELSE "idle")
  BY DEF Delete, Begin
<1>3. (k \in m) \in BOOLEAN
  OBVIOUS
<1> QED
  BY <1>1, <1>2, <1>3, RemoveKeeps

LEMMA CompareAndDeleteKeeps ==
  ASSUME Types, NEW t \in Threads, NEW k \in Keys, CompareAndDelete(t, k)
  PROVE  Keeps
<1>1. Types'
  BY DEF Types, CompareAndDelete, Begin, Goto
<1>2. PICK equal \in BOOLEAN :
        /\ m' = IF k \in m /\ equal THEN m \ {k} ELSE m
        /\ Goto(t, IF k \in m /\ equal THEN "sub" ELSE "idle")
  BY DEF CompareAndDelete
<1>3. pc[t] = "idle" /\ size' = size
  BY DEF CompareAndDelete, Begin
<1>4. (k \in m /\ equal) \in BOOLEAN
  OBVIOUS
<1> QED
  BY <1>1, <1>2, <1>3, <1>4, RemoveKeeps

\* The counter catches up with one operation.
LEMMA CountKeeps ==
  ASSUME Types, NEW t \in Threads, Add(t) \/ Sub(t)
  PROVE  Keeps
<1> USE DEF Keeps, Gap
<1>1. Types'
  BY DEF Types, Add, Sub, Goto
<1>2. CASE Add(t)
  <2>1. /\ Cardinality(At("add")') = Cardinality(At("add")) - 1
        /\ At("sub")' = At("sub") /\ At("clear")' = At("clear")
    BY <1>2, Leave DEF Add
  <2> QED
    BY <1>1, <1>2, <2>1, Finite DEF Add, Types
<1>3. CASE Sub(t)
  <2>1. /\ Cardinality(At("sub")') = Cardinality(At("sub")) - 1
        /\ At("add")' = At("add") /\ At("clear")' = At("clear")
    BY <1>3, Leave DEF Sub
  <2> QED
    BY <1>1, <1>3, <2>1, Finite DEF Sub, Types
<1> QED
  BY <1>2, <1>3

\* Swap adds an entry and does not count it.
LEMMA SwapLowers ==
  ASSUME Types, NEW t \in Threads, NEW k \in Keys, Swap(t, k)
  PROVE  Types' /\ Gap' \in Int /\ Gap' <= Gap /\ At("clear")' = At("clear")
<1>1. Types' /\ UNCHANGED <<size, pc>> /\ m' = m \cup {k}
  BY DEF Types, Swap, Begin
<1>2. Cardinality(m') \in Nat /\ Cardinality(m) <= Cardinality(m')
  <2>1. CASE k \in m
    <3>1. m' = m
      BY <1>1, <2>1
    <3> QED
      BY <3>1, Finite
  <2>2. CASE k \notin m
    BY <1>1, <2>2, Finite, FS_AddElement
  <2> QED
    BY <2>1, <2>2
<1>3. \A p : At(p)' = At(p)
  BY <1>1 DEF At
<1> QED
  BY <1>1, <1>2, <1>3, Finite DEF Gap, Types

\* Every step but those of Swap and ClearAll keeps Gap.
LEMMA CountedStep ==
  ASSUME Types, [Next]_vars
  PROVE  \/ Keeps
         \/ \E t \in Threads : \/ ClearAll(t) \/ ClearEnd(t)
                               \/ \E k \in Keys : Swap(t, k) \/ ClearKey(t, k)
<1>1. ASSUME NEW t \in Threads, NEW k \in Keys,
             Store(t, k) \/ Delete(t, k) \/ CompareAndDelete(t, k)
      PROVE  Keeps
  BY <1>1, StoreKeeps, DeleteKeeps, CompareAndDeleteKeeps
<1> QED
  BY <1>1, CountKeeps, StutterKeeps DEF Next

\* Without ClearAll nobody clears, and Swap can only lower the gap.
LEMMA NoClearStep ==
  ASSUME "ClearAll" \notin Ops, Types, NoClear, [Next]_vars
  PROVE  Types' /\ NoClear' /\ Gap' \in Int /\ Gap' <= Gap /\ ("Swap" \notin Ops => Gap' = Gap)
<1>1. Gap \in Int
  BY Finite DEF Gap, Types
<1>2. \A t \in Threads : ~ClearAll(t) /\ ~ClearEnd(t) /\ \A k \in Keys : ~ClearKey(t, k)
  BY DEF NoClear, At, ClearAll, ClearEnd, ClearKey, Begin
<1>3. CASE Keeps
  BY <1>1, <1>3 DEF Keeps, NoClear
<1>4. ASSUME NEW t \in Threads, NEW k \in Keys, Swap(t, k)
      PROVE  Types' /\ NoClear' /\ Gap' \in Int /\ Gap' <= Gap /\ "Swap" \in Ops
  BY <1>4, SwapLowers DEF NoClear, Swap, Begin
<1> QED
  BY <1>2, <1>3, <1>4, CountedStep

\* Without Swap and ClearAll the counter is off by the operations under way
\* and by nothing else, however many goroutines store and delete.
THEOREM InFlightCorrect ==
  ASSUME Ops \cap {"Swap", "ClearAll"} = {}
  PROVE  Spec => []InFlight
<1>1. Init => Types /\ NoClear /\ Gap = 0
  BY InitGap DEF NoClear
<1>2. Types /\ NoClear /\ Gap = 0 /\ [Next]_vars => (Types /\ NoClear /\ Gap = 0)'
  BY NoClearStep
<1>3. Types /\ Gap = 0 => InFlight
  BY Finite DEF InFlight, Gap, Types
<1> QED
  BY <1>1, <1>2, <1>3, PTL DEF Spec

\* Len is exact at rest if Gap is 0.
LEMMA AtRest == ASSUME Types, Gap = 0 PROVE LenExact
<1> SUFFICES ASSUME \A t \in Threads : pc[t] = "idle"
             PROVE  size = Cardinality(m)
  BY DEF LenExact
<1>1. At("add") = {} /\ At("sub") = {}
  BY DEF At
<1>2. Cardinality({}) = 0
  BY FS_EmptySet
<1>3. Cardinality(m) \in Nat
  BY Finite
<1>4. size - (Cardinality(m) - 0 + 0) = 0 /\ size \in Int
  BY <1>1, <1>2 DEF Gap, Types
<1> QED
  BY <1>3, <1>4

\* So Len is the number of entries whenever no operation is under way.
THEOREM LenCorrect ==
  ASSUME Ops \cap {"Swap", "ClearAll"} = {}
  PROVE  Spec => []LenExact
<1>1. Init => Types /\ NoClear /\ Gap = 0
  BY InitGap DEF NoClear
<1>2. Types /\ NoClear /\ Gap = 0 /\ [Next]_vars => (Types /\ NoClear /\ Gap = 0)'
  BY NoClearStep
<1>3. Types /\ Gap = 0 => LenExact
  BY AtRest
<1> QED
  BY <1>1, <1>2, <1>3, PTL DEF Spec

\* With Swap, which never counts, Len can be too small and never too large.
THEOREM NeverTooManyCorrect ==
  ASSUME "ClearAll" \notin Ops
  PROVE  Spec => []NeverTooMany
<1>1. Init => Types /\ NoClear /\ Gap <= 0
  BY InitGap DEF NoClear
<1>2. ASSUME Types, NoClear, Gap <= 0, [Next]_vars
      PROVE  (Types /\ NoClear /\ Gap <= 0)'
  <2>1. Types' /\ NoClear' /\ Gap' <= Gap /\ Gap' \in Int /\ Gap \in Int
    BY <1>2, NoClearStep, Finite DEF Gap, Types
  <2> QED
    BY <1>2, <2>1
<1>3. Types /\ Gap <= 0 => NeverTooMany
  BY Finite DEF NeverTooMany, Gap, Types
<1> QED
  BY <1>1, <1>2, <1>3, PTL DEF Spec

\* ClearAll by the only goroutine: what is in the map is still to be visited.
ClearTodo == \A t \in Threads : pc[t] = "clear" => m \subseteq todo[t]

\* ClearAll of the only goroutine leaves Len exact: it deletes every key before it
\* stores 0.
THEOREM ClearCorrect ==
  ASSUME "Swap" \notin Ops, NEW t, Threads = {t}
  PROVE  Spec => []LenExact
<1> DEFINE Inv == Types /\ ClearTodo /\ (NoClear => Gap = 0)
<1>1. Init => Inv
  BY InitGap DEF Init, ClearTodo
<1>2. ASSUME Inv, [Next]_vars
      PROVE  Inv'
  <2>1. CASE Keeps
    <3>1. NoClear' = NoClear /\ Types'
      BY <2>1 DEF Keeps, NoClear
    <3>2. ClearTodo'
      <4>1. CASE NoClear
        BY <1>2, <2>1, <3>1, <4>1 DEF NoClear, At, ClearTodo
      <4>2. CASE ~NoClear
        <5>1. pc[t] = "clear" /\ pc'[t] = "clear"
          BY <1>2, <2>1, <4>2 DEF Keeps, NoClear, At
        <5>2. UNCHANGED vars \/ \E k \in Keys : ClearKey(t, k)
          BY <1>2, <5>1 DEF Next, Add, Sub, ClearAll, ClearEnd, Store, Swap, Delete,
             CompareAndDelete, Begin, Goto, Types
        <5> QED
          BY <1>2, <5>1, <5>2 DEF ClearTodo, ClearKey, vars, Types
      <4> QED
        BY <4>1, <4>2
    <3> QED
      BY <1>2, <2>1, <3>1, <3>2 DEF Keeps
  <2>2. CASE ClearAll(t)
    BY <1>2, <2>2 DEF ClearAll, Begin, Goto, Types, ClearTodo, NoClear, At
  <2>3. CASE \E k \in Keys : ClearKey(t, k)
    BY <1>2, <2>3 DEF ClearKey, Types, ClearTodo, NoClear, At
  <2>4. CASE ClearEnd(t)
    <3>1. m = {} /\ m' = {} /\ size' = 0 /\ At("add")' = {} /\ At("sub")' = {}
      BY <1>2, <2>4 DEF ClearEnd, Goto, Types, ClearTodo, At
    <3>2. Cardinality({}) = 0
      BY FS_EmptySet
    <3>3. Gap' = 0
      BY <3>1, <3>2 DEF Gap
    <3> QED
      BY <1>2, <2>4, <3>3 DEF ClearEnd, Goto, Types, ClearTodo, NoClear, At
  <2>5. \A k \in Keys : ~Swap(t, k)
    BY DEF Swap, Begin
  <2> QED
    BY <1>2, <2>1, <2>2, <2>3, <2>4, <2>5, CountedStep
<1>3. Inv => LenExact
  <2>1. ASSUME Inv, ~NoClear PROVE LenExact
    BY <2>1 DEF NoClear, At, LenExact
  <2> QED
    BY <2>1, AtRest
<1> QED
  BY <1>1, <1>2, <1>3, PTL DEF Spec


----------------------------------------------------------------------------
\* The types of blocks and flexBlocks; whoever returns a block called Get.
BlockTypes ==
  /\ free \in Seq(BL!Offsets)
  /\ cleanups \subseteq BL!Offsets
  /\ place \in [BL!Users -> {"idle", "use", "send"}]
  /\ DOMAIN offset = BL!Users
  /\ \A u \in BL!Users : place[u] # "idle" => offset[u] \in BL!Offsets
  /\ \A u \in BL!Users : place[u] = "send" => u \in GetUsers
  /\ buf \in [BL!Offsets -> GetUsers \cup {None}] /\ last = buf
  /\ got \in [BL!Users -> GetUsers \cup {None}]

\* No offset is in two places: twice in the channel, with two callers of Get,
\* or at two of the channel, a caller of Get and a cleanup.
OnePlace ==
  /\ \A i, j \in 1..Len(free) : free[i] = free[j] => i = j
  /\ \A u, v \in GetUsers :
       place[u] # "idle" /\ place[v] # "idle" /\ offset[u] = offset[v] => u = v
  /\ \A u \in GetUsers : place[u] # "idle" =>
       offset[u] \notin cleanups /\ \A i \in 1..Len(free) : free[i] # offset[u]
  /\ \A i \in 1..Len(free) : free[i] \notin cleanups

\* And none is lost.
SomePlace ==
  \A o \in BL!Offsets :
    \/ \E i \in 1..Len(free) : free[i] = o
    \/ \E u \in GetUsers : place[u] # "idle" /\ offset[u] = o
    \/ o \in cleanups

\* The user of a block has the slice that was kept for it.
KeptSeen == \A u \in GetUsers : place[u] = "use" => got[u] = buf[offset[u]]

BlockIInv == BlockTypes /\ OnePlace /\ SomePlace /\ KeptSeen

\* All blocks are in the channel.
LEMMA BlockInitIInv ==
  ASSUME BL!BlocksAssumption, BL!Init
  PROVE  BlockIInv
<1> USE DEF BL!BlocksAssumption, BL!Init, BL!Offsets, BL!Users
<1>1. free \in Seq(BL!Offsets) /\ Len(free) = blockNum
  OBVIOUS
<1> QED
  BY <1>1 DEF BlockIInv, BlockTypes, OnePlace, SomePlace, KeptSeen

\* Get and GetAuto take the offset at the head of the channel.
LEMMA TakeIInv ==
  ASSUME BL!BlocksAssumption, BlockIInv, NEW u \in BL!Users, BL!Get(u) \/ BL!GetAuto(u)
  PROVE  BlockIInv'
<1> DEFINE o == Head(free)
<1>1. /\ place[u] = "idle" /\ free # <<>> /\ free' = Tail(free)
      /\ offset' = [offset EXCEPT ![u] = o] /\ got' = [got EXCEPT ![u] = buf[o]]
      /\ place' = [place EXCEPT ![u] = "use"] /\ buf' = buf /\ last' = last
      /\ \/ u \in GetUsers /\ cleanups' = cleanups
         \/ u \in AutoUsers /\ cleanups' = cleanups \cup {o}
  BY DEF BL!Get, BL!GetAuto, BL!Take
<1>2. /\ Len(free) \in Nat \ {0} /\ o = free[1] /\ o \in BL!Offsets
      /\ free' \in Seq(BL!Offsets) /\ Len(free') = Len(free) - 1
      /\ \A i \in 1..Len(free') : free'[i] = free[i + 1]
  BY <1>1 DEF BlockIInv, BlockTypes
<1>3. /\ place'[u] = "use" /\ offset'[u] = o /\ got'[u] = buf[o]
      /\ \A v \in BL!Users : v # u => place'[v] = place[v] /\ offset'[v] = offset[v] /\ got'[v] = got[v]
      /\ GetUsers \subseteq BL!Users /\ GetUsers \cap AutoUsers = {}
  BY <1>1 DEF BlockIInv, BlockTypes, BL!BlocksAssumption, BL!Users
<1>4. BlockTypes'
  BY <1>1, <1>2, <1>3 DEF BlockIInv, BlockTypes
<1> HIDE DEF o
<1>5. \A i \in 1..Len(free) : free[i] = o => i = 1
  BY <1>2 DEF BlockIInv, OnePlace
<1>6. \A i \in 1..Len(free') : free'[i] # o /\ i + 1 \in 1..Len(free)
  BY <1>2, <1>5
<1>7. OnePlace'
  <2>1. \A i, j \in 1..Len(free') : free'[i] = free'[j] => i = j
    BY <1>2, <1>6 DEF BlockIInv, OnePlace
  <2>2. \A v \in GetUsers : place[v] # "idle" => offset[v] # o /\ v # u
    BY <1>1, <1>2 DEF BlockIInv, OnePlace
  <2>3. o \notin cleanups
    BY <1>2 DEF BlockIInv, OnePlace
  <2>4. \A v, w \in GetUsers :
          place'[v] # "idle" /\ place'[w] # "idle" /\ offset'[v] = offset'[w] => v = w
    BY <1>3, <2>2 DEF BlockIInv, OnePlace
  <2>5. \A v \in GetUsers : place'[v] # "idle" =>
          offset'[v] \notin cleanups' /\ \A i \in 1..Len(free') : free'[i] # offset'[v]
    BY <1>1, <1>2, <1>3, <1>6, <2>2, <2>3 DEF BlockIInv, OnePlace
  <2>6. \A i \in 1..Len(free') : free'[i] \notin cleanups'
    BY <1>1, <1>2, <1>6 DEF BlockIInv, OnePlace
  <2> QED
    BY <2>1, <2>4, <2>5, <2>6 DEF OnePlace
<1>8. SomePlace'
  <2> SUFFICES ASSUME NEW b \in BL!Offsets
               PROVE  \/ \E i \in 1..Len(free') : free'[i] = b
                      \/ \E v \in GetUsers : place'[v] # "idle" /\ offset'[v] = b
                      \/ b \in cleanups'
    BY DEF SomePlace
  <2>1. CASE \E i \in 1..Len(free) : free[i] = b
    <3>1. PICK i \in 1..Len(free) : free[i] = b
      BY <2>1
    <3>2. CASE i = 1
      BY <1>1, <1>2, <1>3, <3>1, <3>2
    <3>3. CASE i # 1
      <4>1. i - 1 \in 1..Len(free') /\ free'[i - 1] = b
        BY <1>2, <3>1, <3>3
      <4> QED
        BY <4>1
    <3> QED
      BY <3>2, <3>3
  <2>2. CASE \E v \in GetUsers : place[v] # "idle" /\ offset[v] = b
    BY <1>1, <1>3, <2>2
  <2>3. CASE b \in cleanups
    BY <1>1, <2>3
  <2> QED
    BY <2>1, <2>2, <2>3 DEF BlockIInv, SomePlace
<1>9. KeptSeen'
  BY <1>1, <1>3 DEF BlockIInv, KeptSeen
<1> QED
  BY <1>4, <1>7, <1>8, <1>9 DEF BlockIInv

\* putBack keeps the slice and still has the block.
LEMMA PutBackIInv ==
  ASSUME BL!BlocksAssumption, BlockIInv, NEW u \in BL!Users, BL!PutBack(u)
  PROVE  BlockIInv'
<1>1. /\ u \in GetUsers /\ place[u] = "use" /\ place' = [place EXCEPT ![u] = "send"]
      /\ \/ buf' = [buf EXCEPT ![offset[u]] = u] /\ last' = [last EXCEPT ![offset[u]] = u]
         \/ buf' = buf /\ last' = last
      /\ free' = free /\ cleanups' = cleanups /\ offset' = offset /\ got' = got
  BY DEF BL!PutBack
<1>2. /\ GetUsers \subseteq BL!Users
      /\ \A v \in BL!Users : v # u => place'[v] = place[v]
      /\ place'[u] = "send" /\ offset[u] \in BL!Offsets
  BY <1>1 DEF BlockIInv, BlockTypes, BL!Users
<1>3. BlockTypes'
  BY <1>1, <1>2 DEF BlockIInv, BlockTypes
<1>4. OnePlace'
  BY <1>1, <1>2 DEF BlockIInv, OnePlace
<1>5. SomePlace'
  BY <1>1, <1>2 DEF BlockIInv, SomePlace
<1>6. KeptSeen'
  <2> SUFFICES ASSUME NEW v \in GetUsers, place'[v] = "use"
               PROVE  got[v] = buf'[offset[v]]
    BY <1>1 DEF KeptSeen
  <2>1. v # u /\ place[v] = "use" /\ offset[v] # offset[u] /\ offset[v] \in BL!Offsets
    BY <1>1, <1>2 DEF BlockIInv, BlockTypes, OnePlace
  <2>2. buf'[offset[v]] = buf[offset[v]]
    BY <1>1, <1>2, <2>1 DEF BlockIInv, BlockTypes
  <2> QED
    BY <2>1, <2>2 DEF BlockIInv, KeptSeen
<1> QED
  BY <1>3, <1>4, <1>5, <1>6 DEF BlockIInv

\* The offset goes back into the channel.
LEMMA SendIInv ==
  ASSUME BL!BlocksAssumption, BlockIInv, NEW u \in BL!Users, BL!Send(u)
  PROVE  BlockIInv'
<1> DEFINE o == offset[u]
<1>1. /\ place[u] = "send" /\ free' = Append(free, o)
      /\ place' = [place EXCEPT ![u] = "idle"] /\ offset' = [offset EXCEPT ![u] = None]
      /\ buf' = buf /\ last' = last /\ cleanups' = cleanups /\ got' = got
  BY DEF BL!Send
<1>2. /\ GetUsers \subseteq BL!Users /\ u \in GetUsers /\ o \in BL!Offsets
      /\ place'[u] = "idle"
      /\ \A v \in BL!Users : v # u => place'[v] = place[v] /\ offset'[v] = offset[v]
  BY <1>1 DEF BlockIInv, BlockTypes, BL!Users
<1> HIDE DEF o
<1>3. /\ Len(free) \in Nat /\ free' \in Seq(BL!Offsets) /\ Len(free') = Len(free) + 1
      /\ free'[Len(free) + 1] = o
      /\ \A i \in 1..Len(free) : free'[i] = free[i]
  BY <1>1, <1>2 DEF BlockIInv, BlockTypes
<1>4. /\ o \notin cleanups
      /\ \A i \in 1..Len(free) : free[i] # o
      /\ \A v \in GetUsers : v # u /\ place[v] # "idle" => offset[v] # o
  BY <1>1, <1>2 DEF BlockIInv, OnePlace, o
<1>5. BlockTypes'
  BY <1>1, <1>2, <1>3 DEF BlockIInv, BlockTypes
<1>6. OnePlace'
  <2>1. \A i, j \in 1..Len(free') : free'[i] = free'[j] => i = j
    BY <1>3, <1>4 DEF BlockIInv, OnePlace
  <2>2. \A v, w \in GetUsers :
          place'[v] # "idle" /\ place'[w] # "idle" /\ offset'[v] = offset'[w] => v = w
    BY <1>2 DEF BlockIInv, OnePlace
  <2>3. \A v \in GetUsers : place'[v] # "idle" =>
          offset'[v] \notin cleanups' /\ \A i \in 1..Len(free') : free'[i] # offset'[v]
    BY <1>1, <1>2, <1>3, <1>4 DEF BlockIInv, OnePlace
  <2>4. \A i \in 1..Len(free') : free'[i] \notin cleanups'
    BY <1>1, <1>3, <1>4 DEF BlockIInv, OnePlace
  <2> QED
    BY <2>1, <2>2, <2>3, <2>4 DEF OnePlace
<1>7. SomePlace'
  <2> SUFFICES ASSUME NEW b \in BL!Offsets
               PROVE  \/ \E i \in 1..Len(free') : free'[i] = b
                      \/ \E v \in GetUsers : place'[v] # "idle" /\ offset'[v] = b
                      \/ b \in cleanups'
    BY DEF SomePlace
  <2>1. CASE b = o
    BY <1>3, <2>1
  <2>2. CASE b # o
    <3>1. (\E i \in 1..Len(free) : free[i] = b) => \E i \in 1..Len(free') : free'[i] = b
      BY <1>3
    <3> QED
      BY <1>1, <1>2, <2>2, <3>1 DEF BlockIInv, SomePlace, o
  <2> QED
    BY <2>1, <2>2
<1>8. KeptSeen'
  BY <1>1, <1>2 DEF BlockIInv, KeptSeen
<1> QED
  BY <1>5, <1>6, <1>7, <1>8 DEF BlockIInv

\* A caller of GetAuto does not return the block itself.
LEMMA AutoEndIInv ==
  ASSUME BL!BlocksAssumption, BlockIInv, NEW u \in BL!Users, BL!AutoEnd(u)
  PROVE  BlockIInv'
<1>1. /\ u \in AutoUsers /\ u \notin GetUsers /\ GetUsers \subseteq BL!Users
      /\ place' = [place EXCEPT ![u] = "idle"] /\ offset' = [offset EXCEPT ![u] = None]
      /\ UNCHANGED <<free, buf, cleanups, got, last>>
  BY DEF BL!AutoEnd, BL!BlocksAssumption, BL!Users
<1>2. \A v \in BL!Users : v # u => place'[v] = place[v] /\ offset'[v] = offset[v]
  BY <1>1 DEF BlockIInv, BlockTypes
<1>3. BlockTypes'
  BY <1>1, <1>2 DEF BlockIInv, BlockTypes
<1> QED
  BY <1>1, <1>2, <1>3 DEF BlockIInv, OnePlace, SomePlace, KeptSeen

\* The cleanup returns it.
LEMMA CleanupIInv ==
  ASSUME BL!BlocksAssumption, BlockIInv, NEW o \in cleanups, BL!Cleanup(o)
  PROVE  BlockIInv'
<1>1. /\ free' = Append(free, o) /\ cleanups' = cleanups \ {o} /\ o \in BL!Offsets
      /\ UNCHANGED <<buf, place, offset, got, last>>
  BY DEF BL!Cleanup, BlockIInv, BlockTypes
<1>2. /\ Len(free) \in Nat /\ free' \in Seq(BL!Offsets) /\ Len(free') = Len(free) + 1
      /\ free'[Len(free) + 1] = o
      /\ \A i \in 1..Len(free) : free'[i] = free[i]
  BY <1>1 DEF BlockIInv, BlockTypes
<1>3. /\ \A i \in 1..Len(free) : free[i] # o
      /\ \A v \in GetUsers : place[v] # "idle" => offset[v] # o
  BY DEF BlockIInv, OnePlace
<1>4. BlockTypes'
  BY <1>1, <1>2 DEF BlockIInv, BlockTypes
<1>5. OnePlace'
  <2>1. \A i, j \in 1..Len(free') : free'[i] = free'[j] => i = j
    BY <1>2, <1>3 DEF BlockIInv, OnePlace
  <2>2. \A v \in GetUsers : place[v] # "idle" =>
          offset[v] \notin cleanups' /\ \A i \in 1..Len(free') : free'[i] # offset[v]
    BY <1>1, <1>2, <1>3 DEF BlockIInv, OnePlace
  <2>3. \A i \in 1..Len(free') : free'[i] \notin cleanups'
    BY <1>1, <1>2 DEF BlockIInv, OnePlace
  <2> QED
    BY <1>1, <2>1, <2>2, <2>3 DEF BlockIInv, OnePlace
<1>6. SomePlace'
  <2> SUFFICES ASSUME NEW b \in BL!Offsets
               PROVE  \/ \E i \in 1..Len(free') : free'[i] = b
                      \/ \E v \in GetUsers : place[v] # "idle" /\ offset[v] = b
                      \/ b \in cleanups'
    BY <1>1 DEF SomePlace
  <2>1. CASE b = o
    BY <1>2, <2>1
  <2>2. CASE b # o
    <3>1. (\E i \in 1..Len(free) : free[i] = b) => \E i \in 1..Len(free') : free'[i] = b
      BY <1>2
    <3> QED
      BY <1>1, <2>2, <3>1 DEF BlockIInv, SomePlace
  <2> QED
    BY <2>1, <2>2
<1> QED
  BY <1>1, <1>4, <1>5, <1>6 DEF BlockIInv, KeptSeen

\* The Cardinality that Blocks sees is that of FiniteSets.
LEMMA BlocksCardinality == ASSUME NEW S PROVE BL!Cardinality(S) = Cardinality(S)
BY DEF BL!Cardinality, Cardinality

\* The sets that Accounted counts have one element altogether.
LEMMA OneIsAccounted ==
  ASSUME BL!BlocksAssumption, BlockIInv
  PROVE  BL!Accounted
<1> SUFFICES ASSUME NEW o \in BL!Offsets
             PROVE  Cardinality({i \in DOMAIN free : free[i] = o})
                      + Cardinality({u \in GetUsers : BL!Has(u, o)})
                      + Cardinality(cleanups \cap {o}) = 1
  BY BlocksCardinality DEF BL!Accounted
<1> DEFINE F == {i \in DOMAIN free : free[i] = o}
           G == {u \in GetUsers : BL!Has(u, o)}
           C == cleanups \cap {o}
<1>1. DOMAIN free = 1..Len(free)
  BY DEF BlockIInv, BlockTypes
<1>2. Cardinality({}) = 0 /\ \A e : Cardinality({e}) = 1
  BY FS_EmptySet, FS_Singleton
<1>3. CASE \E i \in 1..Len(free) : free[i] = o
  <2>1. PICK i \in 1..Len(free) : free[i] = o
    BY <1>3
  <2>2. F = {i} /\ G = {} /\ C = {}
    BY <1>1, <2>1 DEF BlockIInv, OnePlace, BL!Has
  <2> HIDE DEF F, G, C
  <2>3. Cardinality(F) = 1 /\ Cardinality(G) = 0 /\ Cardinality(C) = 0
    BY <1>2, <2>2
  <2> QED
    BY <2>3 DEF F, G, C
<1>4. CASE \E u \in GetUsers : place[u] # "idle" /\ offset[u] = o
  <2>1. PICK u \in GetUsers : place[u] # "idle" /\ offset[u] = o
    BY <1>4
  <2>2. F = {} /\ G = {u} /\ C = {}
    BY <1>1, <2>1 DEF BlockIInv, OnePlace, BL!Has
  <2> HIDE DEF F, G, C
  <2>3. Cardinality(F) = 0 /\ Cardinality(G) = 1 /\ Cardinality(C) = 0
    BY <1>2, <2>2
  <2> QED
    BY <2>3 DEF F, G, C
<1>5. CASE o \in cleanups
  <2>1. F = {} /\ G = {} /\ C = {o}
    BY <1>1, <1>5 DEF BlockIInv, OnePlace, BL!Has
  <2> HIDE DEF F, G, C
  <2>2. Cardinality(F) = 0 /\ Cardinality(G) = 0 /\ Cardinality(C) = 1
    BY <1>2, <2>1
  <2> QED
    BY <2>2 DEF F, G, C
<1> QED
  BY <1>3, <1>4, <1>5 DEF BlockIInv, SomePlace

\* What blocks and flexBlocks (pool/Blocks.go) keep with every step.
LEMMA BlocksRunCorrect ==
  ASSUME BL!BlocksAssumption
  PROVE  BL!Spec => []BlockIInv
<1>1. BL!Init => BlockIInv
  BY BlockInitIInv
<1>2. ASSUME BlockIInv, [BL!Next]_(BL!vars)
      PROVE  BlockIInv'
  <2>1. CASE UNCHANGED BL!vars
    BY <1>2, <2>1 DEF BL!vars, BlockIInv, BlockTypes, OnePlace, SomePlace, KeptSeen
  <2>2. CASE BL!Next
    BY <1>2, <2>2, TakeIInv, PutBackIInv, SendIInv, AutoEndIInv, CleanupIInv DEF BL!Next
  <2> QED
    BY <1>2, <2>1, <2>2
<1> QED
  BY <1>1, <1>2, PTL DEF BL!Spec

\* No block is lost or doubled (pool/Blocks.go), for any number of blocks and callers
\* and whenever the collector runs the cleanups.
THEOREM AccountedCorrect ==
  ASSUME BL!BlocksAssumption
  PROVE  BL!Spec => []BL!Accounted
<1>1. BlockIInv => BL!Accounted
  BY OneIsAccounted
<1> QED
  BY <1>1, BlocksRunCorrect, PTL

\* Get of flexBlocks gives the slice that the last putBack of the block was given:
\* it is kept before the block is offered.
THEOREM LastPutCorrect ==
  ASSUME BL!BlocksAssumption
  PROVE  BL!Spec => []BL!LastPutSeen
<1>1. BlockIInv => BL!LastPutSeen
  BY DEF BlockIInv, BlockTypes, KeptSeen, BL!LastPutSeen
<1> QED
  BY <1>1, BlocksRunCorrect, PTL
----------------------------------------------------------------------------
\* Objects are numbered as they are made, and a Buf knows finitely many.
PoolTypes ==
  /\ made \in Nat
  /\ mbuf \in [DOMAIN mbuf -> {"out", "pooled"}]
  /\ DOMAIN mbuf \subseteq 1..made /\ IsFiniteSet(DOMAIN mbuf)
  /\ held \in [PoolUsers -> SUBSET (1..made)]
  /\ cache \in 0..made
  /\ store \in [DOMAIN store -> 1..made]

PoolIInv == PoolTypes /\ PO!HandedOutOnce

\* The Cardinality that Pools sees is that of FiniteSets.
LEMMA PoolsCardinality == ASSUME NEW S PROVE PO!Cardinality(S) = Cardinality(S)
BY DEF PO!Cardinality, Cardinality

\* Nothing is made yet.
LEMMA PoolInitIInv ==
  ASSUME PO!Init
  PROVE  PoolIInv
<1>1. DOMAIN mbuf = {} /\ DOMAIN store = {} /\ mbuf = [x \in {} |-> "out"] /\ store = [x \in {} |-> 1]
  BY DEF PO!Init
<1>2. IsFiniteSet({}) /\ Cardinality({}) = 0
  BY FS_EmptySet
<1>3. PoolTypes
  BY <1>1, <1>2 DEF PO!Init, PoolTypes
<1> QED
  BY <1>1, <1>2, <1>3, PoolsCardinality DEF PO!Init, PoolIInv, PO!HandedOutOnce

\* Get gives a pooled object, which nobody holds.
LEMMA GetPooledIInv ==
  ASSUME PO!PoolsAssumption, PoolIInv, NEW u \in PoolUsers, NEW k \in 1..Items, PO!GetPooled(u, k)
  PROVE  PoolIInv'
<1>1. /\ k \in DOMAIN mbuf /\ mbuf[k] = "pooled"
      /\ mbuf' = [mbuf EXCEPT ![k] = "out"]
      /\ held' = [held EXCEPT ![u] = @ \cup {k}]
      /\ UNCHANGED <<made, cache, store>>
  BY DEF PO!GetPooled, PO!Reusable, PO!Idle, PO!Hand
<1>2. \A v \in PoolUsers : k \notin held[v]
  BY <1>1 DEF PoolIInv, PO!HandedOutOnce
<1>3. PoolTypes' /\ DOMAIN mbuf' = DOMAIN mbuf
  BY <1>1 DEF PoolIInv, PoolTypes
<1>4. /\ \A v, w \in PoolUsers : v # w => held'[v] \cap held'[w] = {}
      /\ \A v \in PoolUsers : \A j \in held'[v] : j \in DOMAIN mbuf' => mbuf'[j] = "out"
  BY <1>1, <1>2, <1>3 DEF PoolIInv, PoolTypes, PO!HandedOutOnce
<1> QED
  BY <1>1, <1>3, <1>4 DEF PoolIInv, PO!HandedOutOnce

\* A new object is nobody else's.
LEMMA GetNewIInv ==
  ASSUME PO!PoolsAssumption, PoolIInv, NEW u \in PoolUsers, PO!GetNew(u)
  PROVE  PoolIInv'
<1>1. /\ made' = made + 1
      /\ held' = [held EXCEPT ![u] = @ \cup {made + 1}]
      /\ UNCHANGED <<mbuf, cache, store>>
  BY DEF PO!GetNew, PO!Hand
<1>2. PoolTypes'
  BY <1>1 DEF PoolIInv, PoolTypes
<1>3. made + 1 \notin DOMAIN mbuf /\ \A v \in PoolUsers : made + 1 \notin held[v]
  BY DEF PoolIInv, PoolTypes
<1>4. /\ \A v, w \in PoolUsers : v # w => held'[v] \cap held'[w] = {}
      /\ \A v \in PoolUsers : \A j \in held'[v] : j \in DOMAIN mbuf' => mbuf'[j] = "out"
  BY <1>1, <1>3 DEF PoolIInv, PoolTypes, PO!HandedOutOnce
<1> QED
  BY <1>1, <1>2, <1>4 DEF PoolIInv, PO!HandedOutOnce

\* Put of an object the pool knows, of a new one for which there is room, and of one
\* for which there is none.
LEMMA PutIInv ==
  ASSUME PO!PoolsAssumption, PoolIInv, NEW u \in PoolUsers, NEW k \in held[u],
         NEW goesOn \in BOOLEAN, PO!Put(u, k, goesOn)
  PROVE  PoolIInv'
<1> DEFINE room == maxsize = -1 \/ maxsize > Cardinality(DOMAIN mbuf)
<1>1. /\ mbuf' = IF k \in DOMAIN mbuf THEN [mbuf EXCEPT ![k] = "pooled"]
                 ELSE IF room THEN [x \in DOMAIN mbuf \cup {k} |-> IF x = k THEN "pooled" ELSE mbuf[x]]
                 ELSE mbuf
      /\ held' = [held EXCEPT ![u] = @ \ {k}]
      /\ UNCHANGED <<made, cache, store>>
  BY PoolsCardinality DEF PO!Put
<1>2. k \in 1..made /\ \A v \in PoolUsers : v # u => k \notin held[v]
  BY DEF PoolIInv, PoolTypes, PO!HandedOutOnce
<1>3. /\ \A x \in DOMAIN mbuf' : x # k => x \in DOMAIN mbuf /\ mbuf'[x] = mbuf[x]
      /\ DOMAIN mbuf' = DOMAIN mbuf \/ (DOMAIN mbuf' = DOMAIN mbuf \cup {k} /\ room /\ k \notin DOMAIN mbuf)
      /\ mbuf' \in [DOMAIN mbuf' -> {"out", "pooled"}]
  BY <1>1 DEF PoolIInv, PoolTypes
<1>4. /\ IsFiniteSet(DOMAIN mbuf')
      /\ maxsize >= 0 => Cardinality(DOMAIN mbuf') <= maxsize
  <2>1. CASE DOMAIN mbuf' = DOMAIN mbuf
    BY <2>1, PoolsCardinality DEF PoolIInv, PoolTypes, PO!HandedOutOnce
  <2>2. CASE DOMAIN mbuf' = DOMAIN mbuf \cup {k} /\ room /\ k \notin DOMAIN mbuf
    <3>1. IsFiniteSet(DOMAIN mbuf')
          /\ Cardinality(DOMAIN mbuf') = Cardinality(DOMAIN mbuf) + 1
          /\ Cardinality(DOMAIN mbuf) \in Nat
      BY <2>2, FS_AddElement, FS_CardinalityType DEF PoolIInv, PoolTypes
    <3> QED
      BY <2>2, <3>1 DEF PO!PoolsAssumption
  <2> QED
    BY <1>3, <2>1, <2>2
<1>5. PoolTypes'
  BY <1>1, <1>2, <1>3, <1>4 DEF PoolIInv, PoolTypes
<1>6. /\ \A v, w \in PoolUsers : v # w => held'[v] \cap held'[w] = {}
      /\ \A v \in PoolUsers : \A j \in held'[v] : j \in DOMAIN mbuf' => mbuf'[j] = "out"
  BY <1>1, <1>2, <1>3 DEF PoolIInv, PoolTypes, PO!HandedOutOnce
<1> QED
  BY <1>1, <1>4, <1>5, <1>6, PoolsCardinality DEF PoolIInv, PO!HandedOutOnce

\* LoadOrInit: the object of the cache goes to one key, and the next one is new.
LEMMA LoadOrInitIInv ==
  ASSUME PO!PoolsAssumption, PoolIInv, NEW k \in InitKeys, PO!LoadOrInit(k)
  PROVE  PoolIInv'
<1> DEFINE c == IF cache = 0 THEN made + 1 ELSE cache
<1>1. /\ made' = IF cache = 0 THEN made + 1 ELSE made
      /\ \/ k \in DOMAIN store /\ cache' = c /\ store' = store
         \/ k \notin DOMAIN store /\ cache' = 0
            /\ store' = [x \in DOMAIN store \cup {k} |-> IF x = k THEN c ELSE store[x]]
      /\ UNCHANGED <<mbuf, held>>
  BY DEF PO!LoadOrInit
<1>2. /\ made \in Nat /\ made' \in Nat /\ made <= made' /\ c \in 1..made'
      /\ \A x \in DOMAIN store : store[x] # c /\ store[x] \in 1..made
  BY <1>1 DEF PoolIInv, PoolTypes, PO!HandedOutOnce
<1> HIDE DEF c
<1>3. /\ cache' \in 0..made' /\ store' \in [DOMAIN store' -> 1..made']
      /\ \A x, y \in DOMAIN store' : store'[x] = store'[y] => x = y
      /\ \A x \in DOMAIN store' : store'[x] # cache'
  BY <1>1, <1>2 DEF PoolIInv, PoolTypes, PO!HandedOutOnce
<1>4. PoolTypes'
  <2>1. 1..made \subseteq 1..made'
    BY <1>2
  <2> QED
    BY <1>1, <1>2, <1>3, <2>1 DEF PoolIInv, PoolTypes
<1> QED
  BY <1>1, <1>3, <1>4 DEF PoolIInv, PO!HandedOutOnce

\* An object stops being used, or a key is deleted.
LEMMA LeaveIInv ==
  ASSUME PoolIInv,
         \/ \E k \in working : PO!StopsWork(k)
         \/ \E k \in InitKeys : PO!DeleteKey(k)
         \/ UNCHANGED PO!vars
  PROVE  PoolIInv'
<1>1. CASE \E k \in working : PO!StopsWork(k)
  BY <1>1 DEF PO!StopsWork, PoolIInv, PoolTypes, PO!HandedOutOnce
<1>2. CASE \E k \in InitKeys : PO!DeleteKey(k)
  BY <1>2 DEF PO!DeleteKey, PoolIInv, PoolTypes, PO!HandedOutOnce
<1>3. CASE UNCHANGED PO!vars
  BY <1>3 DEF PO!vars, PoolIInv, PoolTypes, PO!HandedOutOnce
<1> QED
  BY <1>1, <1>2, <1>3

\* No object of pool.Buf (pool/Pool.go) or of LoadOrInitFunc (sync/LoadOrStoreFunc.go) is
\* in two hands, and a Buf knows at most maxsize objects, for any number of users, of
\* objects and of keys.
THEOREM HandedOutOnceCorrect ==
  ASSUME PO!PoolsAssumption
  PROVE  PO!Spec => []PO!HandedOutOnce
<1>1. PO!Init => PoolIInv
  BY PoolInitIInv
<1>2. PoolIInv /\ [PO!Next]_(PO!vars) => PoolIInv'
  BY GetPooledIInv, GetNewIInv, PutIInv, LoadOrInitIInv, LeaveIInv DEF PO!Next
<1>3. PoolIInv => PO!HandedOutOnce
  BY DEF PoolIInv
<1> QED
  BY <1>1, <1>2, <1>3, PTL DEF PO!Spec
----------------------------------------------------------------------------
\* The types of MapExceeded, as far as the proofs need them.
TimedTypes ==
  /\ xpc \in [Callers -> {"idle", "loadExp", "loadData", "delete", "gc", "gcDelete", "read",
                          "store", "storeExp"}]
  /\ DOMAIN loc = Callers /\ DOMAIN rul = Callers /\ DOMAIN wait = Objs
  /\ xm \in [TimedKeys -> Objs \cup {None}]
  /\ \A c \in Callers : xpc[c] \in {"read", "store", "storeExp"} =>
       loc[c].o \in Objs /\ loc[c].k \in TimedKeys

\* An item that counts has data: store writes the data before the time.
LiveHasData ==
  /\ live \subseteq data
  /\ \A c \in Callers : xpc[c] = "storeExp" => loc[c].o \in data

TimedIInv == TimedTypes /\ LiveHasData /\ ME!LoadedHasData

\* The map is empty.
LEMMA TimedInitIInv ==
  ASSUME ME!Init
  PROVE  TimedIInv
BY DEF ME!Init, ME!NoResult, ME!Hand, TimedIInv, TimedTypes, LiveHasData, ME!LoadedHasData

\* Time passes, or the map gets or loses an item in one step.
LEMMA AtOnceIInv ==
  ASSUME TimedIInv,
         \/ \E o \in Objs : ME!Expire(o)
         \/ \E c \in Callers, k \in TimedKeys : ME!Delete(c, k)
         \/ \E c \in Callers, k \in TimedKeys, o \in Objs : ME!Store(c, k, o)
  PROVE  TimedIInv'
<1>1. ASSUME NEW o \in Objs, ME!Expire(o)
      PROVE  TimedIInv'
  BY <1>1 DEF ME!Expire, TimedIInv, TimedTypes, LiveHasData, ME!LoadedHasData
<1>2. ASSUME NEW c \in Callers, NEW k \in TimedKeys, ME!Delete(c, k)
      PROVE  TimedIInv'
  BY <1>2 DEF ME!Delete, TimedIInv, TimedTypes, LiveHasData, ME!LoadedHasData
<1>3. ASSUME NEW c \in Callers, NEW k \in TimedKeys, NEW o \in Objs, ME!Store(c, k, o)
      PROVE  TimedIInv'
  BY <1>3 DEF ME!Store, TimedIInv, TimedTypes, LiveHasData, ME!LoadedHasData
<1> QED
  BY <1>1, <1>2, <1>3

\* The steps of Load, which may delete the key.
LEMMA TimedLoadIInv ==
  ASSUME TimedIInv, NEW c \in Callers,
         \/ \E k \in TimedKeys : ME!LoadItem(c, k)
         \/ ME!LoadExp(c) \/ ME!LoadData(c) \/ ME!LoadDelete(c)
  PROVE  TimedIInv'
<1> USE DEF ME!Goto, ME!Return, ME!Rul
<1>1. ASSUME NEW k \in TimedKeys, ME!LoadItem(c, k)
      PROVE  TimedIInv'
  BY <1>1 DEF ME!LoadItem, ME!Begin, ME!Hand, TimedIInv, TimedTypes, LiveHasData,
              ME!LoadedHasData
<1>2. CASE ME!LoadExp(c)
  BY <1>2 DEF ME!LoadExp, TimedIInv, TimedTypes, LiveHasData, ME!LoadedHasData
<1>3. CASE ME!LoadData(c)
  BY <1>3 DEF ME!LoadData, ME!SeenData, TimedIInv, TimedTypes, LiveHasData, ME!LoadedHasData
<1>4. CASE ME!LoadDelete(c)
  BY <1>4 DEF ME!LoadDelete, TimedIInv, TimedTypes, LiveHasData, ME!LoadedHasData
<1> QED
  BY <1>1, <1>2, <1>3, <1>4

\* The steps of GC and Len.
LEMMA TimedGCIInv ==
  ASSUME TimedIInv, NEW c \in Callers,
         \/ \E k \in TimedKeys : ME!GCVisit(c, k)
         \/ ME!GC(c) \/ ME!GCDelete(c) \/ ME!GCEnd(c)
  PROVE  TimedIInv'
<1> USE DEF ME!Goto
<1>1. ASSUME NEW k \in TimedKeys, ME!GCVisit(c, k)
      PROVE  TimedIInv'
  BY <1>1 DEF ME!GCVisit, ME!Hand, TimedIInv, TimedTypes, LiveHasData, ME!LoadedHasData
<1>2. CASE ME!GC(c)
  BY <1>2 DEF ME!GC, ME!Begin, TimedIInv, TimedTypes, LiveHasData, ME!LoadedHasData
<1>3. CASE ME!GCDelete(c)
  BY <1>3 DEF ME!GCDelete, TimedIInv, TimedTypes, LiveHasData, ME!LoadedHasData
<1>4. CASE ME!GCEnd(c)
  BY <1>4 DEF ME!GCEnd, TimedIInv, TimedTypes, LiveHasData, ME!LoadedHasData
<1> QED
  BY <1>1, <1>2, <1>3, <1>4

\* The steps of LoadOrStore and of the store function that it returns.
LEMMA LoadOrStoreIInv ==
  ASSUME TimedIInv, NEW c \in Callers,
         \/ \E k \in TimedKeys, o \in Objs : ME!LoadOrStore(c, k, o)
         \/ ME!Read(c) \/ ME!NoStore(c) \/ ME!StoreData(c) \/ ME!StoreExp(c)
  PROVE  TimedIInv'
<1> USE DEF ME!Goto
<1>1. ASSUME NEW k \in TimedKeys, NEW o \in Objs, ME!LoadOrStore(c, k, o)
      PROVE  TimedIInv'
  BY <1>1 DEF ME!LoadOrStore, ME!Begin, ME!Hand, TimedIInv, TimedTypes, LiveHasData,
              ME!LoadedHasData
<1>2. CASE ME!Read(c)
  BY <1>2 DEF ME!Read, ME!Rul, TimedIInv, TimedTypes, LiveHasData, ME!LoadedHasData
<1>3. CASE ME!NoStore(c)
  BY <1>3 DEF ME!NoStore, TimedIInv, TimedTypes, LiveHasData, ME!LoadedHasData
<1>4. CASE ME!StoreData(c)
  BY <1>4 DEF ME!StoreData, TimedIInv, TimedTypes, LiveHasData, ME!LoadedHasData
<1>5. CASE ME!StoreExp(c)
  BY <1>5 DEF ME!StoreExp, TimedIInv, TimedTypes, LiveHasData, ME!LoadedHasData
<1> QED
  BY <1>1, <1>2, <1>3, <1>4, <1>5

\* Every step keeps the invariant.
LEMMA TimedNextIInv ==
  ASSUME TimedIInv, [ME!Next]_(ME!vars)
  PROVE  TimedIInv'
<1>1. CASE ME!Next
  BY <1>1, AtOnceIInv, TimedLoadIInv, TimedGCIInv, LoadOrStoreIInv DEF ME!Next
<1>2. CASE UNCHANGED ME!vars
  BY <1>2 DEF ME!vars, TimedIInv, TimedTypes, LiveHasData, ME!LoadedHasData
<1> QED
  BY <1>1, <1>2

\* sync/MapExceeded.go, LoadOrStore with every other operation beside it, while items
\* expire: who is told "loaded" gets a value that somebody stored, never the empty
\* data of an item that is still being stored, for any number of goroutines and keys.
THEOREM LoadedHasDataCorrect ==
  ME!Spec => []ME!LoadedHasData
<1>1. TimedIInv => ME!LoadedHasData
  BY DEF TimedIInv
<1> QED
  BY <1>1, TimedInitIInv, TimedNextIInv, PTL DEF ME!Spec

\* With LoadOrStore and its store function alone, an item stays with its key: whoever
\* is between the two has the item that the map has, and a stored one counts.
StaysInMap ==
  /\ \A c \in Callers : xpc[c] \in {"idle", "read", "store", "storeExp"}
  /\ \A c \in Callers : xpc[c] # "idle" => xm[loc[c].k] = loc[c].o
  /\ \A k \in kept : k \in TimedKeys /\ xm[k] \in live /\ xm[k] # None

\* sync/MapExceeded.go, users who only call LoadOrStore and the function it returns:
\* what was stored is found, with its data, until it is over.
THEOREM StoredFoundCorrect ==
  ASSUME ME!MapExceededAssumption, TimedOps = {"LoadOrStore"}
  PROVE  ME!Spec => []ME!StoredFound
<1> DEFINE Inv == TimedIInv /\ StaysInMap
<1>1. ME!Init => Inv
  BY TimedInitIInv DEF ME!Init, StaysInMap
<1>2. ASSUME Inv, [ME!Next]_(ME!vars)
      PROVE  Inv'
  <2> USE DEF ME!Goto
  <2>1. TimedIInv'
    BY <1>2, TimedNextIInv
  <2>2. TimedTypes /\ StaysInMap
    BY <1>2 DEF TimedIInv
  <2>3. ASSUME NEW o \in Objs, ME!Expire(o)
        PROVE  StaysInMap'
    BY <2>2, <2>3 DEF ME!Expire, StaysInMap
  <2>4. ASSUME NEW c \in Callers, NEW k \in TimedKeys, NEW o \in Objs, ME!LoadOrStore(c, k, o)
        PROVE  StaysInMap'
    BY <2>2, <2>4 DEF ME!LoadOrStore, ME!Begin, ME!Hand, ME!MapExceededAssumption, TimedTypes,
                      StaysInMap
  <2>5. ASSUME NEW c \in Callers, ME!Read(c) \/ ME!NoStore(c) \/ ME!StoreData(c)
        PROVE  StaysInMap'
    BY <2>2, <2>5 DEF ME!Read, ME!NoStore, ME!StoreData, TimedTypes, StaysInMap
  <2>6. ASSUME NEW c \in Callers, ME!StoreExp(c)
        PROVE  StaysInMap'
    BY <2>2, <2>6 DEF ME!StoreExp, ME!MapExceededAssumption, TimedTypes, StaysInMap
  <2>7. CASE UNCHANGED ME!vars
    BY <2>1, <2>2, <2>7 DEF ME!vars, StaysInMap
  <2>8. ASSUME NEW c \in Callers
        PROVE  /\ ~(ME!LoadExp(c) \/ ME!LoadData(c) \/ ME!LoadDelete(c))
               /\ ~(ME!GC(c) \/ ME!GCDelete(c) \/ ME!GCEnd(c))
               /\ \A k \in TimedKeys :
                    /\ ~(ME!Delete(c, k) \/ ME!LoadItem(c, k) \/ ME!GCVisit(c, k))
                    /\ \A o \in Objs : ~ME!Store(c, k, o)
    BY <2>2 DEF ME!LoadExp, ME!LoadData, ME!LoadDelete, ME!GC, ME!GCDelete, ME!GCEnd,
                ME!Delete, ME!LoadItem, ME!GCVisit, ME!Store, ME!Begin, StaysInMap
  <2> QED
    BY <1>2, <2>1, <2>3, <2>4, <2>5, <2>6, <2>7, <2>8 DEF ME!Next
<1>3. Inv => ME!StoredFound
  BY DEF TimedIInv, LiveHasData, StaysInMap, ME!StoredFound
<1> QED
  BY <1>1, <1>2, <1>3, PTL DEF ME!Spec
----------------------------------------------------------------------------
\* The types of CacheWriter.
CacheTypes ==
  /\ bufs \in [CW!Slots -> Nat] /\ taken \in [CW!Slots -> BOOLEAN]
  /\ cc \in Seq(CW!Slots)
  /\ wpc \in [Writers -> [pc : {"idle", "swap", "fill", "send"}, i : CW!Slots]]
  /\ workers \in [waiting : Nat, pc : {"free", "write", "written"}, i : CW!Slots]
  /\ cnum \in Nat /\ writes \in Nat
  /\ accepted \in Seq(Nat) /\ below \in Seq(Nat)

Filling(u) == wpc[u].pc \in {"fill", "send"}
Writing == workers.pc \in {"write", "written"}

\* A slot that is taken has one holder: a Write that fills it, a place in the
\* channel, or the goroutine that writes it.
OneHolder ==
  /\ \A u \in Writers : Filling(u) => taken[wpc[u].i]
  /\ \A k \in 1..Len(cc) : taken[cc[k]]
  /\ Writing => taken[workers.i]
  /\ \A u, v \in Writers : Filling(u) /\ Filling(v) /\ u # v => wpc[u].i # wpc[v].i
  /\ \A u \in Writers, k \in 1..Len(cc) : Filling(u) => cc[k] # wpc[u].i
  /\ \A u \in Writers : Filling(u) /\ Writing => workers.i # wpc[u].i
  /\ \A j, k \in 1..Len(cc) : j # k => cc[j] # cc[k]
  /\ \A k \in 1..Len(cc) : Writing => cc[k] # workers.i

\* CachedWhole, place by place.
HandLen == IF workers.pc = "write" THEN 1 ELSE 0
AllInOrder ==
  /\ workers.waiting = Len(cc)
  /\ Len(accepted) = Len(below) + HandLen + Len(cc)
  /\ \A n \in 1..Len(below) : accepted[n] = below[n]
  /\ workers.pc = "write" => accepted[Len(below) + 1] = bufs[workers.i]
  /\ \A k \in 1..Len(cc) : accepted[Len(below) + HandLen + k] = bufs[cc[k]]

CacheIInv == CacheTypes /\ OneHolder /\ AllInOrder

\* Nothing was written.
LEMMA CacheInitIInv ==
  ASSUME CW!CacheWriterAssumption, CW!Init
  PROVE  CacheIInv
<1>1. CacheTypes
  BY DEF CW!CacheWriterAssumption, CW!Init, CW!Place, CW!Slots, CacheTypes
<1>2. OneHolder /\ AllInOrder
  BY DEF CW!Init, CW!Place, Filling, Writing, HandLen, OneHolder, AllInOrder
<1> QED
  BY <1>1, <1>2 DEF CacheIInv

\* Number: a Write that has a number but no slot yet.
LEMMA NumberIInv ==
  ASSUME CW!CacheWriterAssumption, CacheIInv, NEW u \in Writers, CW!Number(u)
  PROVE  CacheIInv'
<1>1. cnum' \in Nat /\ cnum' % slotN \in CW!Slots
  BY DEF CW!Number, CW!CacheWriterAssumption, CW!Slots, CacheIInv, CacheTypes
<1>2. CacheTypes'
  BY <1>1 DEF CW!Number, CW!Place, CacheIInv, CacheTypes
<1>3. /\ UNCHANGED <<bufs, taken, cc, workers, accepted, below>>
      /\ wpc'[u].pc = "swap" /\ \A v \in Writers \ {u} : wpc'[v] = wpc[v]
  BY DEF CW!Number, CW!Place, CacheIInv, CacheTypes
<1>4. \A v \in Writers : Filling(v)' => Filling(v) /\ wpc'[v] = wpc[v]
  BY <1>3 DEF Filling
<1>5. OneHolder'
  BY <1>3, <1>4 DEF Writing, OneHolder, CacheIInv
<1>6. AllInOrder'
  BY <1>3 DEF HandLen, AllInOrder, CacheIInv
<1> QED
  BY <1>2, <1>5, <1>6 DEF CacheIInv

\* Swap: the slot is free, so nobody holds it, or the Write ends.
LEMMA SwapIInv ==
  ASSUME CW!CacheWriterAssumption, CacheIInv, NEW u \in Writers, CW!Swap(u)
  PROVE  CacheIInv'
<1> DEFINE s == wpc[u].i
<1>1. /\ s \in CW!Slots /\ 0 \in CW!Slots
      /\ taken' = [taken EXCEPT ![s] = TRUE]
      /\ UNCHANGED <<bufs, cc, workers, cnum, writes, accepted, below>>
      /\ wpc' = [wpc EXCEPT ![u] = IF taken[s] THEN [pc |-> "idle", i |-> 0]
                                   ELSE [pc |-> "fill", i |-> s]]
  BY DEF CW!CacheWriterAssumption, CW!Swap, CW!Place, CW!Slots, CacheIInv, CacheTypes
<1>2. CacheTypes'
  BY <1>1 DEF CacheIInv, CacheTypes
<1>3. /\ \A v \in Writers \ {u} : wpc'[v] = wpc[v]
      /\ taken[s] => ~Filling(u)'
      /\ ~taken[s] => wpc'[u].i = s
      /\ taken'[s] /\ \A j \in CW!Slots : taken[j] => taken'[j]
  BY <1>1 DEF Filling, CacheIInv, CacheTypes
<1>4. OneHolder'
  <2>1. /\ \A v \in Writers \ {u} : Filling(v)' <=> Filling(v)
        /\ Writing' <=> Writing
        /\ \A v \in Writers : wpc[v].i \in CW!Slots
        /\ \A k \in 1..Len(cc) : cc[k] \in CW!Slots
        /\ workers.i \in CW!Slots
    BY <1>1, <1>3, ElementOfSeq DEF Filling, Writing, CacheIInv, CacheTypes
  <2> QED
    BY <1>1, <1>3, <2>1 DEF OneHolder, CacheIInv
<1>5. AllInOrder'
  BY <1>1 DEF HandLen, AllInOrder, CacheIInv
<1> QED
  BY <1>2, <1>4, <1>5 DEF CacheIInv

\* Fill: the slot is in nobody else's hands.
LEMMA FillIInv ==
  ASSUME CacheIInv, NEW u \in Writers, CW!Fill(u)
  PROVE  CacheIInv'
<1> DEFINE i == wpc[u].i
<1>1. /\ i \in CW!Slots /\ wpc[u].pc = "fill"
      /\ bufs' = [bufs EXCEPT ![i] = writes] /\ writes' = writes + 1
      /\ UNCHANGED <<taken, cc, workers, cnum, accepted, below>>
      /\ wpc' = [wpc EXCEPT ![u] = [pc |-> "send", i |-> i]]
  BY DEF CW!Fill, CW!Place, CacheIInv, CacheTypes
<1>2. CacheTypes'
  BY <1>1 DEF CacheIInv, CacheTypes
<1>3. /\ \A v \in Writers : (Filling(v)' <=> Filling(v)) /\ wpc'[v].i = wpc[v].i
      /\ \A j \in CW!Slots : j # i => bufs'[j] = bufs[j]
      /\ Filling(u)
  BY <1>1 DEF Filling, CacheIInv, CacheTypes
<1>4. OneHolder'
  BY <1>1, <1>3 DEF Writing, OneHolder, CacheIInv
<1>5. /\ \A k \in 1..Len(cc) : bufs'[cc[k]] = bufs[cc[k]]
      /\ workers.pc = "write" => bufs'[workers.i] = bufs[workers.i]
  <2>1. /\ \A k \in 1..Len(cc) : cc[k] \in CW!Slots /\ cc[k] # i
        /\ workers.i \in CW!Slots
    BY <1>3, ElementOfSeq DEF OneHolder, CacheIInv, CacheTypes
  <2> QED
    BY <1>3, <2>1 DEF OneHolder, Writing, CacheIInv
<1>6. AllInOrder'
  BY <1>1, <1>5 DEF HandLen, AllInOrder, CacheIInv
<1> QED
  BY <1>2, <1>4, <1>6 DEF CacheIInv

\* Send: the slot goes from the Write to the end of the channel.
LEMMA SendCacheIInv ==
  ASSUME CW!CacheWriterAssumption, CacheIInv, NEW u \in Writers, CW!Send(u)
  PROVE  CacheIInv'
<1> DEFINE i == wpc[u].i
           N == Len(cc)
<1>1. /\ i \in CW!Slots /\ wpc[u].pc = "send" /\ 0 \in CW!Slots
      /\ cc' = Append(cc, i) /\ accepted' = Append(accepted, bufs[i])
      /\ workers' = [workers EXCEPT !.waiting = workers.waiting + 1]
      /\ UNCHANGED <<bufs, taken, cnum, writes, below>>
      /\ wpc' = [wpc EXCEPT ![u] = [pc |-> "idle", i |-> 0]]
  BY DEF CW!CacheWriterAssumption, CW!Send, CW!Place, CW!Slots, CacheIInv, CacheTypes
<1>2. /\ workers'.pc = workers.pc /\ workers'.i = workers.i
      /\ workers'.waiting = workers.waiting + 1
  BY <1>1 DEF CacheIInv, CacheTypes
<1>3. CacheTypes'
  <2>1. /\ cc' \in Seq(CW!Slots) /\ accepted' \in Seq(Nat)
        /\ wpc' \in [Writers -> [pc : {"idle", "swap", "fill", "send"}, i : CW!Slots]]
    BY <1>1 DEF CacheIInv, CacheTypes
  <2>2. workers' \in [waiting : Nat, pc : {"free", "write", "written"}, i : CW!Slots]
    <3>1. workers \in [waiting : Nat, pc : {"free", "write", "written"}, i : CW!Slots]
      BY DEF CacheIInv, CacheTypes
    <3>2. workers' = [workers EXCEPT !.waiting = workers.waiting + 1]
      BY <1>1
    <3> QED
      BY <3>1, <3>2
  <2>3. UNCHANGED <<bufs, taken, cnum, writes, below>>
    BY <1>1
  <2> QED
    BY <2>1, <2>2, <2>3 DEF CacheIInv, CacheTypes
<1>4. /\ N \in Nat /\ Len(cc') = N + 1 /\ cc'[N + 1] = i
      /\ \A k \in 1..N : cc'[k] = cc[k]
      /\ \A k \in 1..(N + 1) : k \in 1..N \/ k = N + 1
  BY <1>1 DEF CacheIInv, CacheTypes
<1>5. /\ \A v \in Writers \ {u} : (Filling(v)' <=> Filling(v)) /\ wpc'[v].i = wpc[v].i
      /\ ~Filling(u)' /\ Filling(u)
      /\ Writing' <=> Writing
  BY <1>1, <1>2 DEF Filling, Writing, CacheIInv, CacheTypes
<1>6. OneHolder'
  BY <1>1, <1>2, <1>4, <1>5 DEF OneHolder, CacheIInv
<1>7. AllInOrder'
  <2> DEFINE A == Len(accepted)
             B == Len(below)
             H == HandLen
  <2>3. A \in Nat /\ B \in Nat /\ H \in {0, 1} /\ HandLen' = H
    BY <1>2 DEF HandLen, CacheIInv, CacheTypes
  <2>4. A = B + H + N
    BY DEF AllInOrder, CacheIInv
  <2>5. /\ Len(accepted') = A + 1 /\ accepted'[A + 1] = bufs[i]
        /\ \A n \in 1..A : accepted'[n] = accepted[n]
    BY <1>1 DEF CacheIInv, CacheTypes
  <2>1. /\ A \in Nat /\ B \in Nat /\ H \in {0, 1} /\ A = B + H + N
        /\ Len(accepted') = A + 1 /\ accepted'[A + 1] = bufs[i]
        /\ \A n \in 1..A : accepted'[n] = accepted[n]
        /\ HandLen' = H
    BY <2>3, <2>4, <2>5
  <2>11. workers.pc = "write" <=> H = 1
    BY DEF HandLen
  <2>2. /\ H = 1 => B + 1 \in 1..A
        /\ \A n \in 1..B : n \in 1..A
        /\ \A k \in 1..N : B + H + k \in 1..A
        /\ B + H + (N + 1) = A + 1
    <3> HIDE DEF A, B, N, H
    <3> QED
      BY <1>4, <2>1
  <2>6. /\ \A n \in 1..B : accepted[n] = below[n]
        /\ workers.pc = "write" => accepted[B + 1] = bufs[workers.i]
        /\ \A k \in 1..N : accepted[B + H + k] = bufs[cc[k]]
        /\ workers.waiting = N
    BY DEF AllInOrder, CacheIInv
  <2>7. /\ bufs' = bufs /\ below' = below /\ workers'.pc = workers.pc
        /\ workers'.i = workers.i /\ workers'.waiting = workers.waiting + 1
    BY <1>1, <1>2
  <2>8. /\ \A n \in 1..B : accepted'[n] = below'[n]
        /\ workers'.pc = "write" => accepted'[B + 1] = bufs'[workers'.i]
    BY <2>1, <2>2, <2>6, <2>7, <2>11
  <2>9. \A k \in 1..(N + 1) : accepted'[B + H + k] = bufs'[cc'[k]]
    BY <1>4, <2>1, <2>2, <2>6, <2>7
  <2>10. Len(accepted') = B + H + Len(cc') /\ workers'.waiting = Len(cc')
    BY <1>4, <2>1, <2>2, <2>6, <2>7
  <2> QED
    BY <1>4, <2>1, <2>7, <2>8, <2>9, <2>10 DEF AllInOrder
<1> QED
  BY <1>3, <1>6, <1>7 DEF CacheIInv

\* Receive: the front of the channel is what the goroutine has in hand.
LEMMA ReceiveIInv ==
  ASSUME CacheIInv, CW!Receive
  PROVE  CacheIInv'
<1> DEFINE N == Len(cc)
<1>1. /\ workers.pc = "free" /\ cc # <<>> /\ cc' = Tail(cc)
      /\ workers.waiting > 0
      /\ workers' = [waiting |-> workers.waiting - 1, pc |-> "write", i |-> Head(cc)]
      /\ UNCHANGED <<bufs, taken, wpc, cnum, writes, accepted, below>>
  BY DEF CW!Receive
<1>2. /\ N \in Nat /\ N > 0 /\ cc' \in Seq(CW!Slots) /\ Len(cc') = N - 1
      /\ \A k \in 1..(N - 1) : cc'[k] = cc[k + 1] /\ k + 1 \in 1..N
      /\ Head(cc) = cc[1] /\ cc[1] \in CW!Slots /\ 1 \in 1..N
  BY <1>1, HeadTailProperties DEF CacheIInv, CacheTypes
<1>3. /\ workers'.waiting = workers.waiting - 1 /\ workers'.pc = "write"
      /\ workers'.i = cc[1]
  BY <1>1, <1>2
<1>4. CacheTypes'
  BY <1>1, <1>2 DEF CacheIInv, CacheTypes
<1>5. OneHolder'
  <2>1. ~Writing /\ Writing' /\ \A u \in Writers : Filling(u)' <=> Filling(u)
    BY <1>1, <1>3 DEF Writing, Filling
  <2>2. \A k \in 1..(N - 1) : k + 1 # 1
    BY <1>2
  <2>3. \A j, k \in 1..(N - 1) : j # k => j + 1 # k + 1
    BY <1>2
  <2> QED
    BY <1>1, <1>2, <1>3, <2>1, <2>2, <2>3 DEF OneHolder, CacheIInv
<1>6. AllInOrder'
  <2> DEFINE B == Len(below)
  <2>1. /\ B \in Nat /\ HandLen = 0 /\ HandLen' = 1
        /\ Len(accepted) = B + N
    BY <1>1, <1>2, <1>3 DEF HandLen, AllInOrder, CacheIInv, CacheTypes
  <2>2. /\ \A k \in 1..(N - 1) : B + 1 + k = B + 0 + (k + 1)
        /\ B + 0 + 1 = B + 1 /\ B + 1 + (N - 1) = B + N
    BY <1>2, <2>1
  <2>3. /\ accepted[B + 1] = bufs[cc[1]]
        /\ \A k \in 1..(N - 1) : accepted[B + 1 + k] = bufs[cc[k + 1]]
    BY <1>2, <2>1, <2>2 DEF AllInOrder, CacheIInv
  <2>4. /\ Len(cc') = N - 1 /\ HandLen' = 1 /\ below' = below /\ accepted' = accepted
        /\ bufs' = bufs
        /\ \A k \in 1..(N - 1) : bufs'[cc'[k]] = bufs[cc[k + 1]]
        /\ bufs'[workers'.i] = bufs[cc[1]]
    BY <1>1, <1>2, <1>3, <2>1
  <2>5. /\ workers'.waiting = Len(cc')
        /\ \A n \in 1..B : accepted[n] = below[n]
    BY <1>2, <1>3 DEF AllInOrder, CacheIInv
  <2> QED
    BY <2>1, <2>2, <2>3, <2>4, <2>5 DEF AllInOrder
<1> QED
  BY <1>4, <1>5, <1>6 DEF CacheIInv

\* WriteBelow: what was in hand is written.
LEMMA WriteBelowIInv ==
  ASSUME CacheIInv, CW!WriteBelow
  PROVE  CacheIInv'
<1> DEFINE B == Len(below)
<1>1. /\ workers.pc = "write"
      /\ below' = Append(below, bufs[workers.i])
      /\ workers' = [workers EXCEPT !.pc = "written"]
      /\ UNCHANGED <<bufs, taken, cc, wpc, cnum, writes, accepted>>
  BY DEF CW!WriteBelow
<1>2. /\ workers'.pc = "written" /\ workers'.i = workers.i
      /\ workers'.waiting = workers.waiting
      /\ B \in Nat /\ Len(below') = B + 1 /\ below'[B + 1] = bufs[workers.i]
      /\ \A n \in 1..B : below'[n] = below[n]
      /\ \A n \in 1..(B + 1) : n \in 1..B \/ n = B + 1
  BY <1>1 DEF CacheIInv, CacheTypes
<1>3. CacheTypes'
  <2>1. below' \in Seq(Nat)
    BY <1>1 DEF CacheIInv, CacheTypes
  <2>2. workers' \in [waiting : Nat, pc : {"free", "write", "written"}, i : CW!Slots]
    BY <1>1 DEF CacheIInv, CacheTypes
  <2> QED
    BY <1>1, <2>1, <2>2 DEF CacheIInv, CacheTypes
<1>4. OneHolder'
  <2>1. (Writing' <=> Writing) /\ \A u \in Writers : Filling(u)' <=> Filling(u)
    BY <1>1, <1>2 DEF Writing, Filling
  <2> QED
    BY <1>1, <1>2, <2>1 DEF OneHolder, CacheIInv
<1>5. AllInOrder'
  <2>1. HandLen = 1 /\ HandLen' = 0 /\ Len(cc) \in Nat
    BY <1>1, <1>2 DEF HandLen, CacheIInv, CacheTypes
  <2>2. /\ (B + 1) + 0 + Len(cc) = B + 1 + Len(cc)
        /\ \A k \in 1..Len(cc) : (B + 1) + 0 + k = B + 1 + k
    BY <1>2, <2>1
  <2> QED
    BY <1>1, <1>2, <2>1, <2>2 DEF AllInOrder, CacheIInv
<1> QED
  BY <1>3, <1>4, <1>5 DEF CacheIInv

\* Release: the slot is nobody's.
LEMMA ReleaseIInv ==
  ASSUME CacheIInv, CW!Release
  PROVE  CacheIInv'
<1> DEFINE i == workers.i
<1>1. /\ workers.pc = "written" /\ i \in CW!Slots
      /\ taken' = [taken EXCEPT ![i] = FALSE]
      /\ workers' = [workers EXCEPT !.pc = "free"]
      /\ UNCHANGED <<bufs, cc, wpc, cnum, writes, accepted, below>>
  BY DEF CW!Release, CacheIInv, CacheTypes
<1>2. /\ workers'.pc = "free" /\ workers'.i = i /\ workers'.waiting = workers.waiting
      /\ \A j \in CW!Slots : j # i => taken'[j] = taken[j]
  BY <1>1 DEF CacheIInv, CacheTypes
<1>3. CacheTypes'
  BY <1>1, <1>2 DEF CacheIInv, CacheTypes
<1>4. OneHolder'
  <2>1. Writing /\ ~Writing' /\ \A u \in Writers : Filling(u)' <=> Filling(u)
    BY <1>1, <1>2 DEF Writing, Filling
  <2>2. /\ \A u \in Writers : wpc[u].i \in CW!Slots
        /\ \A k \in 1..Len(cc) : cc[k] \in CW!Slots
    BY ElementOfSeq DEF CacheIInv, CacheTypes
  <2> QED
    BY <1>1, <1>2, <2>1, <2>2 DEF OneHolder, CacheIInv
<1>5. AllInOrder'
  BY <1>1, <1>2 DEF HandLen, AllInOrder, CacheIInv
<1> QED
  BY <1>3, <1>4, <1>5 DEF CacheIInv

\* A Write that has a slot finds room in the channel: the numbers in the channel are
\* different, and none of them is its own.
LEMMA RoomForAll ==
  ASSUME CW!CacheWriterAssumption, CacheIInv, NEW u \in Writers, Filling(u)
  PROVE  Len(cc) < slotN
<1> DEFINE T == CW!Slots \ {wpc[u].i}
           N == Len(cc)
<1>1. IsFiniteSet(CW!Slots) /\ Cardinality(CW!Slots) = slotN /\ slotN \in Nat
  <2>1. CW!Slots = 0..(slotN - 1)
    BY DEF CW!Slots
  <2>2. slotN \in Nat \ {0}
    BY DEF CW!CacheWriterAssumption
  <2>3. IsFiniteSet(0..(slotN - 1)) /\ Cardinality(0..(slotN - 1)) = slotN
    BY <2>2, FS_Interval
  <2> QED
    BY <2>1, <2>2, <2>3
<1>2. wpc[u].i \in CW!Slots
  BY DEF CacheIInv, CacheTypes
<1>3. IsFiniteSet(T) /\ Cardinality(T) = slotN - 1
  BY <1>1, <1>2, FS_RemoveElement
<1>4. N \in Nat /\ IsFiniteSet(1..N) /\ Cardinality(1..N) = N
  <2>1. N \in Nat
    BY DEF CacheIInv, CacheTypes
  <2> QED
    BY <2>1, FS_Interval
<1>5. cc \in [1..N -> T]
  BY LenProperties DEF OneHolder, CacheIInv, CacheTypes
<1>6. ASSUME N >= slotN
      PROVE  FALSE
  <2>1. Cardinality(T) < Cardinality(1..N)
    BY <1>1, <1>3, <1>4, <1>6
  <2>2. PICK j, k \in 1..N : j # k /\ cc[j] = cc[k]
    <3> HIDE DEF T, N
    <3> QED
      BY <1>3, <1>4, <1>5, <2>1, FS_PigeonHole
  <2> QED
    BY <2>2 DEF OneHolder, CacheIInv
<1> QED
  BY <1>1, <1>4, <1>6

\* AllInOrder in terms of sequences.
LEMMA InOrderWhole ==
  ASSUME CacheIInv
  PROVE  accepted = below \o CW!InHand \o CW!Pending
<1> DEFINE B == Len(below)
           H == HandLen
           N == Len(cc)
           hand == CW!InHand
           rest == CW!Pending
<1>1. /\ B \in Nat /\ N \in Nat /\ accepted \in Seq(Nat) /\ below \in Seq(Nat)
      /\ H \in Nat
  BY DEF HandLen, CacheIInv, CacheTypes
<1>2. hand \in Seq(Nat) /\ Len(hand) = H /\ (H = 1 => hand[1] = bufs[workers.i])
  <2>1. bufs[workers.i] \in Nat
    BY DEF CacheIInv, CacheTypes
  <2>2. CASE workers.pc = "write"
    BY <2>1, <2>2 DEF CW!InHand, HandLen
  <2>3. CASE workers.pc # "write"
    BY <2>3 DEF CW!InHand, HandLen
  <2> QED
    BY <2>2, <2>3
<1>3. rest \in Seq(Nat) /\ Len(rest) = N /\ \A k \in 1..N : rest[k] = bufs[cc[k]]
  <2>1. \A k \in 1..N : bufs[cc[k]] \in Nat
    BY ElementOfSeq DEF CacheIInv, CacheTypes
  <2>2. rest = [k \in 1..N |-> bufs[cc[k]]]
    BY DEF CW!Pending
  <2>3. rest \in [1..N -> Nat]
    BY <2>1, <2>2
  <2> HIDE DEF rest
  <2>4. rest \in Seq(Nat) /\ Len(rest) = N
    BY <1>1, <2>3
  <2> QED
    BY <2>2, <2>4
<1>4. /\ Len(accepted) = B + H + N
      /\ \A n \in 1..B : accepted[n] = below[n]
      /\ H = 1 => accepted[B + 1] = bufs[workers.i]
      /\ \A k \in 1..N : accepted[B + H + k] = bufs[cc[k]]
      /\ H \in {0, 1}
  BY DEF HandLen, AllInOrder, CacheIInv
<1> HIDE DEF B, H, N, hand, rest
<1>5. /\ below \o hand \in Seq(Nat) /\ Len(below \o hand) = B + H
      /\ \A n \in 1..(B + H) : (below \o hand)[n] = IF n <= B THEN below[n] ELSE hand[n - B]
  BY <1>1, <1>2, ConcatProperties DEF B
<1>6. /\ (below \o hand) \o rest \in Seq(Nat) /\ Len((below \o hand) \o rest) = B + H + N
      /\ \A n \in 1..(B + H + N) : ((below \o hand) \o rest)[n] =
           IF n <= B + H THEN (below \o hand)[n] ELSE rest[n - (B + H)]
  <2> DEFINE both == below \o hand
  <2>1. both \in Seq(Nat) /\ Len(both) = B + H
    BY <1>5
  <2> HIDE DEF both
  <2>2. /\ both \o rest \in Seq(Nat) /\ Len(both \o rest) = Len(both) + Len(rest)
        /\ \A n \in 1..(Len(both) + Len(rest)) : (both \o rest)[n] =
             IF n <= Len(both) THEN both[n] ELSE rest[n - Len(both)]
    BY <1>3, <2>1, ConcatProperties
  <2>3. /\ both \o rest \in Seq(Nat) /\ Len(both \o rest) = B + H + N
        /\ \A n \in 1..(B + H + N) : (both \o rest)[n] =
             IF n <= B + H THEN both[n] ELSE rest[n - (B + H)]
    BY <1>3, <2>1, <2>2
  <2> QED
    BY <2>3 DEF both
<1>7. \A n \in 1..(B + H + N) : accepted[n] = ((below \o hand) \o rest)[n]
  <2> TAKE n \in 1..(B + H + N)
  <2>1. CASE n <= B
    BY <1>1, <1>4, <1>5, <1>6, <2>1
  <2>2. CASE n > B /\ n <= B + H
    <3>1. n = B + 1 /\ H = 1
      BY <1>1, <1>4, <2>2
    <3>2. n \in 1..(B + H) /\ n - B = 1
      BY <1>1, <3>1
    <3> QED
      BY <1>1, <1>2, <1>4, <1>5, <1>6, <2>2, <3>1, <3>2
  <2>3. CASE n > B + H
    <3>1. n - (B + H) \in 1..N /\ n = B + H + (n - (B + H))
      BY <1>1, <2>3
    <3>2. accepted[n] = bufs[cc[n - (B + H)]] /\ rest[n - (B + H)] = bufs[cc[n - (B + H)]]
      BY <1>3, <1>4, <3>1
    <3> QED
      BY <1>1, <1>6, <2>3, <3>2
  <2>4. n <= B \/ (n > B /\ n <= B + H) \/ n > B + H
    BY <1>1
  <2> QED
    BY <2>1, <2>2, <2>3, <2>4
<1>8. accepted = (below \o hand) \o rest
  BY <1>1, <1>4, <1>6, <1>7, SeqEqual
<1> QED
  BY <1>8 DEF hand, rest

\* io/io.go CacheWriter: the writer below gets the accepted Writes, each once, whole and
\* in order, and a Write that has a slot never waits for the channel, for every number of
\* slots and writers and however the counter wraps round.
THEOREM CachedWholeCorrect ==
  ASSUME CW!CacheWriterAssumption
  PROVE  CW!Spec => []CW!CachedWhole
<1>1. CW!Init => CacheIInv
  BY CacheInitIInv
<1>2. ASSUME CacheIInv, [CW!Next]_(CW!vars)
      PROVE  CacheIInv'
  <2>1. CASE CW!Next
    BY <1>2, <2>1, NumberIInv, SwapIInv, FillIInv, SendCacheIInv, ReceiveIInv, WriteBelowIInv,
       ReleaseIInv DEF CW!Next
  <2>2. CASE UNCHANGED CW!vars
    BY <1>2, <2>2 DEF CW!vars, CacheIInv, CacheTypes, OneHolder, AllInOrder, Filling, Writing,
                      HandLen
  <2> QED
    BY <1>2, <2>1, <2>2
<1>3. CacheIInv => CW!CachedWhole
  BY InOrderWhole, RoomForAll DEF CW!CachedWhole, AllInOrder, CacheIInv, Filling
<1> QED
  BY <1>1, <1>2, <1>3, PTL DEF CW!Spec
=============================================================================
