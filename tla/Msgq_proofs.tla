----------------------------- MODULE Msgq_proofs ----------------------------
(***************************************************************************)
(* Msgq for any sets of subscribers, pushers and remover goroutines, any   *)
(* number of pushes and calls of ClearAll; the tagged adapters for any     *)
(* batch; the sessions of websocket and sse for any number of them.        *)
(***************************************************************************)
EXTENDS MCMsgq, SequenceTheorems, WellFoundedInduction, TLAPS

----------------------------------------------------------------------------
(* The places of the goroutines.                                           *)

\* A call that has taken the lock, or for which it does not matter any more.
InCall == {"loop", "call", "nest", "ret", "disable", "cas", "regcas", "swap", "scan", "store",
           "insert", "unlock"}

\* Which places at a goroutine t of each sort can be at, and where an inline
\* removal returns to; c are its local variables.
PlaceInv(t, at, c) ==
  /\ t \in Items =>
       /\ at \in {"idle", "want", "wait", "regcas", "swap", "scan", "store", "insert",
                  "unlock", "registered", "cas", "cancelled"}
       /\ at = "cas" <=> at \notin {"idle", "cancelled"} /\ ~c.isLock
       /\ at \in {"swap", "scan", "store"} => c.ret = "insert"
  /\ t \in Pushers =>
       /\ at \notin {"regcas", "insert", "registered", "cancelled"}
       /\ at = "want" => c.isLock
       /\ at = "nest" => ~c.isLock
       /\ at \in {"swap", "scan", "store"} => c.isLock /\ c.ret = "loop"
  /\ t \in Removers =>
       /\ at \in {"idle", "want", "wait", "scan", "store", "unlock"}
       /\ at # "idle" => c.isLock /\ c.ret = "unlock"

\* An item is inserted once, its cancel sets the flag before it returns, and the
\* cursor of a removal stays in the list.
ListInv(t, at, rel, dis, list) ==
  /\ t \in Items =>
       /\ at \in {"idle", "want", "wait", "regcas", "swap", "scan", "store", "insert"}
            => t \notin ToSet(list)
       /\ at \in {"cas", "cancelled"} => t \in dis
  /\ at = "scan" => rel \in ToSet(list) \cup {Nil}

----------------------------------------------------------------------------
(* The read/write lock.                                                    *)

\* The goroutine that has the write lock.
Writers == {t \in Threads : loc[t].isLock /\ pc[t] \in InCall}

\* The read locks a goroutine has or queues for: Push takes one, a handler that
\* pushes another.
Reads ==
  [t \in Threads |->
     IF t \notin Pushers \/ loc[t].isLock \/ pc[t] \in {"idle", "want"} THEN 0
     ELSE IF pc[t] = "nest" THEN 2
     ELSE 1]

LockInv ==
  /\ rw.queue \in SUBSET Pushers
  /\ \A t \in Threads : rw.readers[t] + (IF t \in rw.queue THEN 1 ELSE 0) = Reads[t]
  /\ \A t \in rw.queue : pc[t] \in {"wait", "nest"} /\ rw.writer # NoThread
  /\ \A t \in Threads :
       /\ t \in Writers => rw.writer = t /\ \A u \in Threads : rw.readers[u] = 0
       /\ pc[t] = "wait" /\ loc[t].isLock => rw.writer = t

----------------------------------------------------------------------------
(* What a push calls.                                                      *)

\* The elements of s at or after i, and those after it.
From(s, i) == {e \in ToSet(s) : \E k \in 1..Len(s) : s[k] = e /\ \E j \in 1..k : s[j] = i}
After(s, i) == {e \in From(s, i) : e # i}

\* For a push at the place at, with the cursor el and the history h: the flags
\* of the items cancelled before it are set while it runs, so that none of them
\* is the item whose handler it calls.
NotGone(at, el, h, dis) ==
  /\ at = "idle" => h = NoHist
  /\ h.gone \subseteq dis
  /\ at \in {"call", "nest", "ret"} => el \notin h.gone
  /\ ToSet(h.got) \cap h.gone = {}

\* The items it has called lie before its cursor, and those it still owes a call
\* lie at or after it.
InOrder(at, T, el, h, dis, list) ==
  /\ IsInjective(h.got)
  /\ \A i \in h.due : Kind[i] = T
  /\ at \in {"idle", "want", "wait"} => h.due = {} /\ h.got = <<>>
  /\ at \in {"loop", "call", "nest", "ret"} =>
       /\ el \in ToSet(list) \cup {Nil}
       /\ ToSet(h.got) \cap From(list, el) = {}
       /\ h.cut \/ h.due \ dis \subseteq ToSet(h.got) \cup From(list, el)
  /\ at \in {"disable", "cas"} =>
       h.cut \/ h.due \ dis \subseteq ToSet(h.got) \cup After(list, el)
  /\ at \in {"call", "nest", "ret", "disable", "cas"} => el # Nil
  /\ at \in {"disable", "cas", "swap", "scan", "store"} =>
       ToSet(h.got) \cap After(list, el) = {}
  /\ at \in {"swap", "scan", "store"} /\ el = Nil => h.got = <<>>
  /\ at \in {"scan", "store"} => h.cut
  /\ at = "unlock" => h.cut \/ h.due \ dis \subseteq ToSet(h.got)

IInv ==
  /\ TypeOK
  /\ LockInv
  /\ \A t \in Threads :
       /\ PlaceInv(t, pc[t], loc[t])
       /\ ListInv(t, pc[t], loc[t].rel, disable, funcs)
  /\ \A p \in Pushers :
       /\ NotGone(pc[p], loc[p].el, hist[p], disable)
       /\ InOrder(pc[p], loc[p].T, loc[p].el, hist[p], disable, funcs)

----------------------------------------------------------------------------
(* The list: what a cursor leaves before it, and what a removal keeps.     *)

\* A cursor at i is followed by the elements after i, none of which is i.
LEMMA FromSplit ==
  ASSUME NEW s, NEW i
  PROVE  /\ i \notin After(s, i)
         /\ After(s, i) \subseteq From(s, i) /\ From(s, i) \subseteq After(s, i) \cup {i}
         /\ i \notin ToSet(s) => From(s, i) = {}
BY DEF From, After, ToSet

\* Front and Len of the list.
LEMMA FrontFrom ==
  ASSUME TypeOK
  PROVE  /\ ListFront \in ToSet(funcs) \cup {Nil}
         /\ ListFront \in Items \cup {Nil}
         /\ ToSet(funcs) \subseteq From(funcs, ListFront)
         /\ ToSet(funcs) \subseteq Items
         /\ From(funcs, Nil) = {} /\ After(funcs, Nil) = {}
<1>1. ToSet(funcs) \subseteq Items
  BY DEF TypeOK, ToSet
<1>2. From(funcs, Nil) = {} /\ After(funcs, Nil) = {}
  BY <1>1, MsgqAssumption DEF From, After, ToSet
<1>3. CASE funcs = <<>>
  <2>1. ToSet(funcs) = {} /\ ListFront = Nil
    BY <1>3 DEF ToSet, ListFront
  <2> QED
    BY <1>1, <1>2, <2>1
<1>4. CASE funcs # <<>>
  <2>1. Len(funcs) \in Nat /\ Len(funcs) >= 1 /\ DOMAIN funcs = 1..Len(funcs)
    BY <1>4, EmptySeq DEF TypeOK
  <2>2. ListFront = funcs[1]
    BY <1>4 DEF ListFront, TypeOK
  <2>3. ToSet(funcs) \subseteq From(funcs, ListFront)
    BY <2>1, <2>2 DEF From, ToSet
  <2>4. ListFront \in ToSet(funcs)
    BY <2>1, <2>2 DEF ToSet
  <2> QED
    BY <1>1, <1>2, <2>3, <2>4
<1> QED
  BY <1>3, <1>4

\* The position of an item in the list.
LEMMA AtProperty ==
  ASSUME TypeOK, NEW i \in ToSet(funcs)
  PROVE  /\ Len(funcs) \in Nat
         /\ At(i) \in 1..Len(funcs) /\ funcs[At(i)] = i
         /\ \A k \in 1..Len(funcs) : funcs[k] = i => k = At(i)
<1>1. Len(funcs) \in Nat /\ DOMAIN funcs = 1..Len(funcs)
  BY DEF TypeOK
<1>2. \E k \in 1..Len(funcs) : funcs[k] = i
  BY <1>1 DEF ToSet
<1>3. At(i) \in 1..Len(funcs) /\ funcs[At(i)] = i
  BY <1>2 DEF At
<1> QED
  BY <1>1, <1>3 DEF TypeOK, IsInjective

\* Next: the cursor leaves exactly the element it was at.
LEMMA NextFrom ==
  ASSUME TypeOK, NEW i
  PROVE  /\ NextOf(i) \in ToSet(funcs) \cup {Nil}
         /\ NextOf(i) \in Items \cup {Nil}
         /\ From(funcs, NextOf(i)) = After(funcs, i)
<1>0. ToSet(funcs) \subseteq Items /\ From(funcs, Nil) = {}
  BY FrontFrom
<1>1. CASE i \notin ToSet(funcs)
  BY <1>0, <1>1, FromSplit DEF NextOf
<1>2. CASE i \in ToSet(funcs)
  <2> DEFINE a == At(i)
             n == Len(funcs)
  <2>1. n \in Nat /\ a \in 1..n /\ funcs[a] = i /\ DOMAIN funcs = 1..n
    BY <1>2, AtProperty DEF TypeOK
  <2>2. \A k, j \in 1..n : funcs[k] = funcs[j] => k = j
    BY <2>1 DEF TypeOK, IsInjective
  <2>3. After(funcs, i) = {funcs[k] : k \in (a + 1)..n}
    <3> HIDE DEF a, n
    <3>1. ASSUME NEW e \in After(funcs, i) PROVE \E k \in (a + 1)..n : funcs[k] = e
      <4>1. PICK k \in 1..n : funcs[k] = e /\ \E j \in 1..k : funcs[j] = i
        BY DEF After, From, n
      <4>2. PICK j \in 1..k : funcs[j] = i
        BY <4>1
      <4>3. j = a /\ e # i
        BY <2>1, <2>2, <4>2 DEF After
      <4> QED
        BY <2>1, <4>1, <4>2, <4>3
    <3>2. ASSUME NEW k \in (a + 1)..n PROVE funcs[k] \in After(funcs, i)
      <4>1. k \in 1..n /\ a \in 1..k /\ k # a
        BY <2>1
      <4>2. funcs[k] # i
        BY <2>1, <2>2, <4>1
      <4>3. funcs[k] \in ToSet(funcs)
        BY <2>1, <4>1 DEF ToSet
      <4> QED
        BY <2>1, <4>1, <4>2, <4>3 DEF After, From, n
    <3> QED
      BY <3>1, <3>2
  <2>4. CASE a < n
    <3>1. NextOf(i) = funcs[a + 1] /\ a + 1 \in 1..n
      BY <1>2, <2>1, <2>4 DEF NextOf
    <3>2. NextOf(i) \in ToSet(funcs)
      BY <2>1, <3>1 DEF ToSet
    <3> HIDE DEF a, n
    <3>3. ASSUME NEW e \in From(funcs, NextOf(i)) PROVE \E k \in (a + 1)..n : funcs[k] = e
      <4>1. PICK k \in 1..n : funcs[k] = e /\ \E j \in 1..k : funcs[j] = NextOf(i)
        BY DEF From, n
      <4>2. PICK j \in 1..k : funcs[j] = NextOf(i)
        BY <4>1
      <4>3. j = a + 1
        BY <2>1, <2>2, <3>1, <4>2
      <4> QED
        BY <2>1, <4>1, <4>2, <4>3
    <3>4. ASSUME NEW k \in (a + 1)..n PROVE funcs[k] \in From(funcs, NextOf(i))
      <4>1. k \in 1..n /\ a + 1 \in 1..k
        BY <2>1
      <4>2. funcs[k] \in ToSet(funcs)
        BY <2>1, <4>1 DEF ToSet
      <4> QED
        BY <3>1, <4>1, <4>2 DEF From, n
    <3> QED
      BY <1>0, <2>3, <3>2, <3>3, <3>4
  <2>5. CASE ~(a < n)
    <3>1. NextOf(i) = Nil
      BY <1>2, <2>5 DEF NextOf
    <3>2. (a + 1)..n = {}
      BY <2>1, <2>5
    <3> QED
      BY <1>0, <2>3, <3>1, <3>2
  <2> QED
    BY <2>4, <2>5
<1> QED
  BY <1>1, <1>2

\* A removal keeps the order of the others.
LEMMA RemoveKeeps ==
  ASSUME TypeOK, NEW x \in ToSet(funcs), NEW r, r = RemoveAt(funcs, At(x))
  PROVE  /\ r \in Seq(Items) /\ IsInjective(r)
         /\ ToSet(r) \subseteq ToSet(funcs)
         /\ \A i : After(r, i) \subseteq After(funcs, i)
<1> DEFINE a == At(x)
           n == Len(funcs)
           left == SubSeq(funcs, 1, a - 1)
           right == SubSeq(funcs, a + 1, n)
           old == [k \in 1..(n - 1) |-> IF k < a THEN k ELSE k + 1]
<1>1. n \in Nat /\ a \in 1..n /\ DOMAIN funcs = 1..n /\ \A k \in 1..n : funcs[k] \in Items
  BY AtProperty DEF TypeOK
<1> HIDE DEF a, n
<1>2. /\ left \in Seq(Items) /\ Len(left) = a - 1
      /\ \A k \in 1..(a - 1) : left[k] = funcs[k]
  <2>1. \A k \in 1..(a - 1) : funcs[k] \in Items
    BY <1>1
  <2>2. 1 \in Int /\ a - 1 \in Int
    BY <1>1
  <2> QED
    BY <1>1, <2>1, <2>2, SubSeqProperties
<1>3. /\ right \in Seq(Items) /\ Len(right) = n - a
      /\ \A k \in 1..(n - a) : right[k] = funcs[a + k]
  <2>1. \A k \in (a + 1)..n : funcs[k] \in Items
    BY <1>1
  <2>2. a + 1 \in Int /\ n \in Int
    BY <1>1
  <2>3. /\ right \in Seq(Items)
        /\ Len(right) = IF a + 1 <= n THEN n - (a + 1) + 1 ELSE 0
        /\ \A k \in 1..(n - (a + 1) + 1) : right[k] = funcs[a + 1 + k - 1]
    BY <2>1, <2>2, SubSeqProperties
  <2> QED
    BY <1>1, <2>3
<1>4. r = left \o right
  BY DEF RemoveAt, a, n
<1> HIDE DEF left, right
<1>5. /\ r \in Seq(Items) /\ Len(r) = n - 1
      /\ \A k \in 1..(n - 1) : r[k] = IF k < a THEN funcs[k] ELSE funcs[k + 1]
  <2>1. /\ r \in Seq(Items) /\ Len(r) = (a - 1) + (n - a)
        /\ \A k \in 1..((a - 1) + (n - a)) : r[k] = IF k <= a - 1 THEN left[k] ELSE right[k - (a - 1)]
    BY <1>2, <1>3, <1>4, ConcatProperties
  <2>2. ASSUME NEW k \in 1..(n - 1)
        PROVE  r[k] = IF k < a THEN funcs[k] ELSE funcs[k + 1]
    <3>1. CASE k < a
      BY <1>1, <1>2, <2>1, <3>1
    <3>2. CASE ~(k < a)
      <4>1. k - (a - 1) \in 1..(n - a) /\ a + (k - (a - 1)) = k + 1
        BY <1>1, <3>2
      <4> QED
        BY <1>1, <1>3, <2>1, <3>2, <4>1
    <3> QED
      BY <3>1, <3>2
  <2> QED
    BY <1>1, <2>1, <2>2
<1>6. /\ \A k \in 1..(n - 1) : old[k] \in 1..n /\ r[k] = funcs[old[k]]
      /\ \A k, j \in 1..(n - 1) : (old[k] = old[j] => k = j) /\ (j <= k => old[j] <= old[k])
  BY <1>1, <1>5
<1> HIDE DEF old
<1>7. DOMAIN r = 1..(n - 1)
  BY <1>5
<1>8. IsInjective(r)
  BY <1>1, <1>6, <1>7 DEF TypeOK, IsInjective
<1>9. ToSet(r) \subseteq ToSet(funcs)
  BY <1>1, <1>6, <1>7 DEF ToSet
<1>10. ASSUME NEW i, NEW e \in From(r, i)
       PROVE  e \in From(funcs, i)
  <2>1. PICK k \in 1..(n - 1) : r[k] = e /\ \E j \in 1..k : r[j] = i
    BY <1>5 DEF From
  <2>2. PICK j \in 1..k : r[j] = i
    BY <2>1
  <2>3. j \in 1..(n - 1) /\ old[j] <= old[k]
    BY <1>1, <1>6, <2>1, <2>2
  <2>4. old[k] \in 1..n /\ old[j] \in 1..old[k] /\ funcs[old[k]] = e /\ funcs[old[j]] = i
    BY <1>6, <2>1, <2>2, <2>3
  <2>5. e \in ToSet(funcs)
    BY <1>1, <2>4 DEF ToSet
  <2> QED
    BY <2>4, <2>5 DEF From, n
<1> QED
  BY <1>5, <1>8, <1>9, <1>10 DEF After

----------------------------------------------------------------------------
(* Goroutines and the lock.                                                *)

\* A goroutine is of one sort, and is no Nil.
LEMMA Sorts ==
  /\ Items \subseteq Threads /\ Pushers \subseteq Threads /\ Removers \subseteq Threads
  /\ \A t \in Threads : t # NoThread /\ (t \in Items \/ t \in Pushers \/ t \in Removers)
  /\ \A t \in Items : t \notin Pushers /\ t \notin Removers /\ t # Nil
  /\ \A t \in Pushers : t \notin Items /\ t \notin Removers
  /\ \A t \in Removers : t \notin Items /\ t \notin Pushers
BY MsgqAssumption DEF Threads

\* The fields of the lock after a request or a return of a read lock.
LEMMA ReadersField ==
  ASSUME NEW l \in RWType, NEW t \in Threads, NEW n \in Nat
  PROVE  [l EXCEPT !.readers[t] = n]
           = [writer |-> l.writer, readers |-> [l.readers EXCEPT ![t] = n], queue |-> l.queue]
<1>1. l = [writer |-> l.writer, readers |-> l.readers, queue |-> l.queue]
  BY DEF RWType
<1>2. [l EXCEPT !.readers[t] = n] = [l EXCEPT !.readers = [l.readers EXCEPT ![t] = n]]
  OBVIOUS
<1> QED
  BY <1>1, <1>2

\* While one goroutine has the write lock, nobody else has it and no push is past
\* its request for the lock.
LEMMA Alone ==
  ASSUME IInv, NEW t \in Writers
  PROVE  \A u \in Threads : u # t =>
           /\ u \notin Writers
           /\ u \in Pushers => pc[u] \in {"idle", "want", "wait"}
<1> SUFFICES ASSUME NEW u \in Threads, u # t
             PROVE  /\ u \notin Writers
                    /\ u \in Pushers => pc[u] \in {"idle", "want", "wait"}
  OBVIOUS
<1>1. rw.writer = t /\ rw.readers[u] = 0 /\ t \in Threads
  BY DEF IInv, LockInv, Writers
<1>2. u \notin Writers
  BY <1>1 DEF IInv, LockInv
<1>3. CASE u \in Pushers /\ pc[u] \notin {"idle", "want", "wait"}
  <2>1. pc[u] \in InCall
    BY <1>3, Sorts DEF IInv, TypeOK, PlaceInv, Pcs, InCall
  <2>2. ~loc[u].isLock
    BY <1>2, <2>1 DEF Writers
  <2>3. Reads[u] >= 1 /\ (pc[u] = "nest" => Reads[u] = 2)
    BY <1>3, <2>2 DEF Reads
  <2>4. u \in rw.queue => pc[u] = "nest"
    BY <1>3 DEF IInv, LockInv
  <2>5. rw.readers[u] + (IF u \in rw.queue THEN 1 ELSE 0) = Reads[u]
    BY DEF IInv, LockInv
  <2> QED
    BY <1>1, <2>3, <2>4, <2>5
<1> QED
  BY <1>2, <1>3

\* The locals of a goroutine after the assignment of one of them.
LEMMA LocalField ==
  ASSUME TypeOK, NEW t \in Threads, NEW x
  PROVE  /\ [loc EXCEPT ![t].el = x] =
              [loc EXCEPT ![t] =
                [isLock |-> loc[t].isLock, T |-> loc[t].T, el |-> x, rel |-> loc[t].rel,
                 all |-> loc[t].all, ret |-> loc[t].ret]]
         /\ [loc EXCEPT ![t].rel = x] =
              [loc EXCEPT ![t] =
                [isLock |-> loc[t].isLock, T |-> loc[t].T, el |-> loc[t].el, rel |-> x,
                 all |-> loc[t].all, ret |-> loc[t].ret]]
         /\ [loc EXCEPT ![t].ret = x] =
              [loc EXCEPT ![t] =
                [isLock |-> loc[t].isLock, T |-> loc[t].T, el |-> loc[t].el,
                 rel |-> loc[t].rel, all |-> loc[t].all, ret |-> x]]
         /\ [loc EXCEPT ![t].isLock = x] =
              [loc EXCEPT ![t] =
                [isLock |-> x, T |-> loc[t].T, el |-> loc[t].el, rel |-> loc[t].rel,
                 all |-> loc[t].all, ret |-> loc[t].ret]]
<1> DEFINE c == loc[t]
<1>1. c =
  [isLock |-> c.isLock, T |-> c.T, el |-> c.el, rel |-> c.rel, all |-> c.all,
   ret |-> c.ret]
  BY DEF TypeOK
<1>0. c = loc[t]
  OBVIOUS
<1> HIDE DEF c
<1>2. [c EXCEPT !.el = x] =
  [isLock |-> c.isLock, T |-> c.T, el |-> x, rel |-> c.rel, all |-> c.all,
   ret |-> c.ret]
  BY <1>1
<1>3. [loc EXCEPT ![t].el = x] = [loc EXCEPT ![t] = [c EXCEPT !.el = x]]
  BY <1>0
<1>4. [c EXCEPT !.rel = x] =
  [isLock |-> c.isLock, T |-> c.T, el |-> c.el, rel |-> x, all |-> c.all,
   ret |-> c.ret]
  BY <1>1
<1>5. [loc EXCEPT ![t].rel = x] = [loc EXCEPT ![t] = [c EXCEPT !.rel = x]]
  BY <1>0
<1>6. [c EXCEPT !.ret = x] =
  [isLock |-> c.isLock, T |-> c.T, el |-> c.el, rel |-> c.rel, all |-> c.all,
   ret |-> x]
  BY <1>1
<1>7. [loc EXCEPT ![t].ret = x] = [loc EXCEPT ![t] = [c EXCEPT !.ret = x]]
  BY <1>0
<1>8. [c EXCEPT !.isLock = x] =
  [isLock |-> x, T |-> c.T, el |-> c.el, rel |-> c.rel, all |-> c.all, ret |-> c.ret]
  BY <1>1
<1>9. [loc EXCEPT ![t].isLock = x] = [loc EXCEPT ![t] = [c EXCEPT !.isLock = x]]
  BY <1>0
<1> QED
  BY <1>0, <1>2, <1>3, <1>4, <1>5, <1>6, <1>7, <1>8, <1>9

\* What a push is judged by after the assignment of one field.
LEMMA HistField ==
  ASSUME TypeOK, NEW p \in Pushers, NEW x
  PROVE  /\ [hist EXCEPT ![p].cut = x] =
              [hist EXCEPT ![p] =
                [due |-> hist[p].due, got |-> hist[p].got, gone |-> hist[p].gone,
                 cut |-> x, wiped |-> hist[p].wiped]]
         /\ [hist EXCEPT ![p].due = x] =
              [hist EXCEPT ![p] =
                [due |-> x, got |-> hist[p].got, gone |-> hist[p].gone,
                 cut |-> hist[p].cut, wiped |-> hist[p].wiped]]
         /\ [hist EXCEPT ![p].got = x] =
              [hist EXCEPT ![p] =
                [due |-> hist[p].due, got |-> x, gone |-> hist[p].gone,
                 cut |-> hist[p].cut, wiped |-> hist[p].wiped]]
<1> DEFINE h == hist[p]
<1>1. h =
  [due |-> h.due, got |-> h.got, gone |-> h.gone, cut |-> h.cut, wiped |-> h.wiped]
  BY DEF TypeOK
<1>0. h = hist[p]
  OBVIOUS
<1> HIDE DEF h
<1>2. [h EXCEPT !.cut = x] =
  [due |-> h.due, got |-> h.got, gone |-> h.gone, cut |-> x, wiped |-> h.wiped]
  BY <1>1
<1>3. [hist EXCEPT ![p].cut = x] = [hist EXCEPT ![p] = [h EXCEPT !.cut = x]]
  BY <1>0
<1>4. [h EXCEPT !.due = x] =
  [due |-> x, got |-> h.got, gone |-> h.gone, cut |-> h.cut, wiped |-> h.wiped]
  BY <1>1
<1>5. [hist EXCEPT ![p].due = x] = [hist EXCEPT ![p] = [h EXCEPT !.due = x]]
  BY <1>0
<1>6. [h EXCEPT !.got = x] =
  [due |-> h.due, got |-> x, gone |-> h.gone, cut |-> h.cut, wiped |-> h.wiped]
  BY <1>1
<1>7. [hist EXCEPT ![p].got = x] = [hist EXCEPT ![p] = [h EXCEPT !.got = x]]
  BY <1>0
<1> QED
  BY <1>0, <1>2, <1>3, <1>4, <1>5, <1>6, <1>7

\* A push that has not begun has called nobody.
LEMMA IdleFits ==
  ASSUME NEW T, NEW el, NEW dis, NEW list
  PROVE  NotGone("idle", el, NoHist, dis) /\ InOrder("idle", T, el, NoHist, dis, list)
<1>1. IsInjective(<<>>) /\ ToSet(<<>>) = {}
  BY DEF IsInjective, ToSet
<1> QED
  BY <1>1 DEF NotGone, InOrder, NoHist

\* What the others do to a push: items are disabled, and the list changes only
\* before the push has the lock.
LEMMA OthersKeep ==
  ASSUME NEW at, NEW T, NEW el, NEW h, NEW dis, NEW list, NEW dis2, NEW list2,
         NotGone(at, el, h, dis), InOrder(at, T, el, h, dis, list),
         dis \subseteq dis2, list2 = list \/ at \in {"idle", "want", "wait", "unlock"}
  PROVE  NotGone(at, el, h, dis2) /\ InOrder(at, T, el, h, dis2, list2)
BY DEF NotGone, InOrder

\* Init: nothing is registered and nobody runs.
LEMMA InitIInv == Init => IInv
<1> SUFFICES ASSUME Init
             PROVE  IInv
  OBVIOUS
<1> USE DEF Init
<1>1. TypeOK
  <2>1. (CHOOSE k \in Kinds : TRUE) \in Kinds
    BY MsgqAssumption
  <2>2. loc \in [Threads -> [isLock : BOOLEAN, T : Kinds, el : Items \cup {Nil},
                             rel : Items \cup {Nil}, all : BOOLEAN, ret : Pcs]]
    BY <2>1 DEF Local, Pcs
  <2>3. rw \in RWType
    BY DEF RWFree, RWType
  <2>4. funcs \in Seq(Items) /\ IsInjective(funcs)
    BY DEF IsInjective
  <2>5. hist \in [Pushers -> [due : SUBSET Items, got : Seq(Items), gone : SUBSET Items,
                              cut : BOOLEAN, wiped : SUBSET Items]]
    BY DEF NoHist
  <2> QED
    BY <2>2, <2>3, <2>4, <2>5 DEF TypeOK, Pcs
<1>2. LockInv
  BY Sorts DEF LockInv, Local, Writers, Reads, InCall, RWFree
<1>3. \A t \in Threads : PlaceInv(t, pc[t], loc[t]) /\ ListInv(t, pc[t], loc[t].rel, disable, funcs)
  BY Sorts DEF PlaceInv, ListInv, Local, ToSet
<1>4. \A p \in Pushers : pc[p] = "idle" /\ hist[p] = NoHist
  BY Sorts
<1> QED
  BY <1>1, <1>2, <1>3, <1>4, IdleFits DEF IInv

----------------------------------------------------------------------------
(* A step of one goroutine: the others keep what holds of them.            *)

\* u is left alone, or it is the goroutine that go f() starts.
Stays(u) ==
  \/ pc'[u] = pc[u] /\ loc'[u] = loc[u]
  \/ /\ u \in Removers
     /\ pc[u] = "idle" /\ pc'[u] = "want"
     /\ loc'[u].isLock /\ loc'[u].ret = "unlock"

\* The lock is left alone, and t has the lock it needs.
LEMMA LockKept ==
  ASSUME IInv, NEW t \in Threads, rw' = rw, \A u \in Threads : u # t => Stays(u),
         Reads'[t] = Reads[t],
         t \in Writers' => rw.writer = t /\ \A u \in Threads : rw.readers[u] = 0,
         t \in rw.queue => pc'[t] \in {"wait", "nest"},
         pc'[t] = "wait" /\ loc'[t].isLock => pc[t] = "wait" /\ loc[t].isLock
  PROVE  LockInv'
<1>1. ASSUME NEW u \in Threads, u # t PROVE Reads'[u] = Reads[u]
  BY <1>1, Sorts DEF Stays, Reads
<1>2. ASSUME NEW u \in Writers', u # t PROVE u \in Writers
  BY <1>2, Sorts DEF Stays, Writers, InCall
<1>3. ASSUME NEW u \in Threads, u # t, pc'[u] = "wait" /\ loc'[u].isLock
      PROVE  pc[u] = "wait" /\ loc[u].isLock
  BY <1>3 DEF Stays
<1>4. ASSUME NEW u \in rw.queue PROVE pc'[u] \in {"wait", "nest"} /\ rw.writer # NoThread
  BY <1>4, Sorts DEF IInv, LockInv, Stays
<1>5. Writers' \subseteq Threads
  BY DEF Writers
<1> QED
  BY <1>1, <1>2, <1>3, <1>4, <1>5 DEF IInv, LockInv

\* The list changes only under the write lock, and the flags only to set.
LEMMA StepKeeps ==
  ASSUME IInv, NEW t \in Threads, TypeOK', LockInv',
         \A u \in Threads : u # t => Stays(u),
         \A p \in Pushers : p # t => hist'[p] = hist[p],
         disable \subseteq disable',
         funcs' = funcs \/ (t \in Writers /\ ToSet(funcs') \subseteq ToSet(funcs) \cup {t}),
         PlaceInv(t, pc[t], loc[t])',
         ListInv(t, pc[t], loc[t].rel, disable, funcs)',
         t \in Pushers => /\ NotGone(pc[t], loc[t].el, hist[t], disable)'
                          /\ InOrder(pc[t], loc[t].T, loc[t].el, hist[t], disable, funcs)'
  PROVE  IInv'
<1>1. ASSUME NEW u \in Threads, u # t
      PROVE  PlaceInv(u, pc[u], loc[u])' /\ ListInv(u, pc[u], loc[u].rel, disable, funcs)'
  <2>1. PlaceInv(u, pc[u], loc[u])'
    BY <1>1, Sorts DEF IInv, Stays, PlaceInv
  <2>2. pc[u] = "scan" => u \in Writers
    BY Sorts DEF IInv, PlaceInv, Writers, InCall
  <2>3. pc'[u] = "scan" => funcs' = funcs /\ pc[u] = "scan" /\ loc'[u].rel = loc[u].rel
    BY <1>1, <2>2, Alone DEF Stays
  <2>4. ListInv(u, pc[u], loc[u].rel, disable, funcs)'
    BY <1>1, <2>3, Sorts DEF IInv, Stays, ListInv
  <2> QED
    BY <2>1, <2>4
<1>2. ASSUME NEW p \in Pushers, p # t
      PROVE  /\ NotGone(pc[p], loc[p].el, hist[p], disable)'
             /\ InOrder(pc[p], loc[p].T, loc[p].el, hist[p], disable, funcs)'
  <2>1. pc'[p] = pc[p] /\ loc'[p] = loc[p] /\ hist'[p] = hist[p] /\ p \in Threads
    BY <1>2, Sorts DEF Stays
  <2>2. funcs' = funcs \/ pc[p] \in {"idle", "want", "wait", "unlock"}
    BY <1>2, <2>1, Alone
  <2>3. NotGone(pc[p], loc[p].el, hist[p], disable) /\ InOrder(pc[p], loc[p].T, loc[p].el, hist[p], disable, funcs)
    BY DEF IInv
  <2> QED
    BY <2>1, <2>2, <2>3, OthersKeep
<1> QED
  BY <1>1, <1>2 DEF IInv

\* go f() in the terms of StepKeeps: t goes on at l with its cursor at el.
LEMMA SpawnAlone ==
  ASSUME IInv, NEW t \in Threads, t \notin Removers, NEW l \in Pcs,
         NEW el \in Items \cup {Nil}, Spawn(t, l, el)
  PROVE  /\ pc'[t] = l /\ loc'[t].isLock = loc[t].isLock /\ loc'[t].T = loc[t].T
         /\ loc'[t].el = el /\ loc'[t].ret = loc[t].ret
         /\ \A u \in Threads : u # t => Stays(u)
         /\ pc' \in [Threads -> Pcs]
         /\ loc' \in [Threads -> [isLock : BOOLEAN, T : Kinds, el : Items \cup {Nil},
                                  rel : Items \cup {Nil}, all : BOOLEAN, ret : Pcs]]
<1>0. TypeOK /\ (\A r \in Removers : r # t)
  BY Sorts DEF IInv
<1>1. PICK r \in Removers :
        /\ pc[r] = "idle" /\ pc' = [pc EXCEPT ![r] = "want", ![t] = l]
        /\ loc' = [loc EXCEPT ![r] = Local(TRUE, loc[t].T), ![t].el = el]
  BY DEF Spawn
<1>2. loc[t] \in [isLock : BOOLEAN, T : Kinds, el : Items \cup {Nil},
                  rel : Items \cup {Nil}, all : BOOLEAN, ret : Pcs]
  BY DEF IInv, TypeOK
<1> DEFINE c == [loc[t] EXCEPT !.el = el]
<1>3. /\ c \in [isLock : BOOLEAN, T : Kinds, el : Items \cup {Nil},
                rel : Items \cup {Nil}, all : BOOLEAN, ret : Pcs]
      /\ c.isLock = loc[t].isLock /\ c.T = loc[t].T /\ c.el = el /\ c.ret = loc[t].ret
  BY <1>2
<1>4. Local(TRUE, loc[t].T) \in [isLock : BOOLEAN, T : Kinds, el : Items \cup {Nil},
                                 rel : Items \cup {Nil}, all : BOOLEAN, ret : Pcs]
      /\ Local(TRUE, loc[t].T).isLock /\ Local(TRUE, loc[t].T).ret = "unlock"
  BY <1>2 DEF Local, Pcs
<1> HIDE DEF c
<1>5. r \in Threads /\ r # t
  BY <1>0, Sorts
<1> DEFINE d == [loc EXCEPT ![r] = Local(TRUE, loc[t].T)]
<1>6. loc' = [d EXCEPT ![t] = c]
  <2>1. loc' = [d EXCEPT ![t].el = el]
    BY <1>1
  <2>2. d[t] = loc[t] /\ d \in [Threads -> [isLock : BOOLEAN, T : Kinds, el : Items \cup {Nil},
                                            rel : Items \cup {Nil}, all : BOOLEAN, ret : Pcs]]
    BY <1>0, <1>4, <1>5 DEF TypeOK
  <2> HIDE DEF d
  <2>3. [d EXCEPT ![t].el = el] = [d EXCEPT ![t] = [d[t] EXCEPT !.el = el]]
    OBVIOUS
  <2> QED
    BY <2>1, <2>2, <2>3 DEF c
<1>7. /\ pc'[t] = l /\ loc'[t] = c /\ pc'[r] = "want" /\ loc'[r] = Local(TRUE, loc[t].T)
      /\ \A u \in Threads : u # t /\ u # r => pc'[u] = pc[u] /\ loc'[u] = loc[u]
      /\ pc' \in [Threads -> Pcs]
  BY <1>0, <1>1, <1>5, <1>6 DEF TypeOK, Pcs
<1>8. loc' \in [Threads -> [isLock : BOOLEAN, T : Kinds, el : Items \cup {Nil},
                            rel : Items \cup {Nil}, all : BOOLEAN, ret : Pcs]]
  BY <1>0, <1>3, <1>4, <1>5, <1>6 DEF TypeOK
<1> QED
  BY <1>1, <1>3, <1>4, <1>7, <1>8 DEF Stays

----------------------------------------------------------------------------
(* The steps on the lock.                                                  *)

\* Lock: a goroutine that wants to write announces itself.
LEMMA AnnounceIInv ==
  ASSUME IInv, NEW t \in Threads, Announce(t)
  PROVE  IInv'
<1> USE DEF Announce, Goto
<1>1. /\ pc[t] = "want" /\ rw.writer = NoThread
      /\ pc' = [pc EXCEPT ![t] = "wait"]
      /\ rw' = [rw EXCEPT !.writer = t]
      /\ UNCHANGED <<funcs, disable, flags, loc, bounds, hist>>
  BY DEF RWCanAnnounce, RWAnnounce
<1>2. TypeOK'
  BY <1>1 DEF IInv, TypeOK, Pcs, RWType, flags, bounds
<1>3. LockInv'
  BY <1>1, Sorts DEF IInv, TypeOK, LockInv, PlaceInv, Writers, Reads, InCall, RWType
<1>4. PlaceInv(t, pc[t], loc[t])' /\ ListInv(t, pc[t], loc[t].rel, disable, funcs)'
  BY <1>1, Sorts DEF IInv, TypeOK, PlaceInv, ListInv
<1>5. t \in Pushers => /\ NotGone(pc[t], loc[t].el, hist[t], disable)'
                       /\ InOrder(pc[t], loc[t].T, loc[t].el, hist[t], disable, funcs)'
  BY <1>1, Sorts DEF IInv, TypeOK, NotGone, InOrder
<1>6. \A u \in Threads : u # t => Stays(u)
  BY <1>1 DEF IInv, TypeOK, Stays
<1> QED
  BY <1>1, <1>2, <1>3, <1>4, <1>5, <1>6, StepKeeps

\* The deferred unlock: a writer lets the readers in that queued behind it.
LEMMA UnlockIInv ==
  ASSUME IInv, NEW t \in Threads, Unlock(t)
  PROVE  IInv'
<1> DEFINE l == IF t \in Items THEN "registered" ELSE "idle"
<1>1. /\ pc[t] = "unlock" /\ pc' = [pc EXCEPT ![t] = l]
      /\ hist' = IF t \in Pushers THEN [hist EXCEPT ![t] = NoHist] ELSE hist
      /\ UNCHANGED <<funcs, disable, flags, loc, bounds>>
  BY DEF Unlock, Goto
<1>2. ASSUME ~loc[t].isLock
      PROVE  /\ t \in Pushers /\ t \notin rw.queue /\ rw.readers[t] = 1
             /\ rw' = [writer |-> rw.writer, readers |-> [rw.readers EXCEPT ![t] = 0],
                       queue |-> rw.queue]
  <2>1. t \in Pushers
    BY <1>1, <1>2, Sorts DEF IInv, PlaceInv
  <2>2. t \notin rw.queue
    BY <1>1 DEF IInv, LockInv
  <2>3. Reads[t] = 1
    BY <1>1, <1>2, <2>1 DEF Reads
  <2>4. rw.readers[t] + 0 = 1 /\ rw.readers[t] \in Nat
    BY <2>2, <2>3 DEF IInv, LockInv, TypeOK, RWType
  <2>5. rw' = [rw EXCEPT !.readers[t] = rw.readers[t] - 1]
    BY <1>2 DEF Unlock, RWRUnlock
  <2>6. rw' = [rw EXCEPT !.readers[t] = 0]
    BY <2>4, <2>5
  <2>7. rw \in RWType /\ 0 \in Nat
    BY DEF IInv, TypeOK
  <2>8. rw' = [writer |-> rw.writer, readers |-> [rw.readers EXCEPT ![t] = 0],
               queue |-> rw.queue]
    BY <2>6, <2>7, ReadersField
  <2> QED
    BY <2>1, <2>2, <2>4, <2>8
<1>3. ASSUME loc[t].isLock
      PROVE  /\ \A u \in Threads : rw.readers[u] = 0
             /\ rw.writer = t
             /\ rw' = [writer  |-> NoThread,
                       readers |-> [u \in Threads |-> IF u \in rw.queue THEN 1 ELSE 0],
                       queue   |-> {}]
  <2>1. rw.writer = t /\ \A u \in Threads : rw.readers[u] = 0
    BY <1>1, <1>3 DEF IInv, LockInv, Writers, InCall
  <2>2. rw' = RWUnlock(rw)
    BY <1>3 DEF Unlock
  <2> QED
    BY <2>1, <2>2 DEF RWUnlock
<1>4. rw' \in RWType
  <2>1. rw.writer \in Threads \cup {NoThread} /\ rw.readers \in [Threads -> Nat]
        /\ rw.queue \in SUBSET Threads
    BY DEF IInv, TypeOK, RWType
  <2>2. CASE loc[t].isLock
    <3>1. [u \in Threads |-> IF u \in rw.queue THEN 1 ELSE 0] \in [Threads -> Nat]
      OBVIOUS
    <3> QED
      BY <1>3, <2>2, <3>1 DEF RWType
  <2>3. CASE ~loc[t].isLock
    <3>1. [rw.readers EXCEPT ![t] = 0] \in [Threads -> Nat]
      BY <2>1
    <3> QED
      BY <1>2, <2>1, <2>3, <3>1 DEF RWType
  <2> QED
    BY <2>2, <2>3
<1>5. TypeOK'
  BY <1>1, <1>4 DEF IInv, TypeOK, Pcs, NoHist, flags, bounds
<1>7. LockInv'
  <2>1. CASE loc[t].isLock
    <3>1. ASSUME NEW u \in Threads, u # t PROVE Reads'[u] = Reads[u]
      BY <1>1, <3>1 DEF IInv, TypeOK, Reads
    <3>2. Reads'[t] = 0 /\ Reads[t] = 0 /\ t \notin rw.queue
      BY <1>1, <2>1, Sorts DEF IInv, LockInv, TypeOK, Reads
    <3>3. Writers' = {}
      BY <1>1, <1>3, <2>1, Sorts DEF IInv, TypeOK, Writers, InCall, LockInv
    <3>4. ASSUME NEW u \in Threads, pc'[u] = "wait" PROVE ~loc'[u].isLock
      BY <1>1, <1>3, <2>1, <3>4, Sorts DEF IInv, TypeOK, LockInv
    <3> QED
      BY <1>1, <1>3, <2>1, <3>1, <3>2, <3>3, <3>4 DEF IInv, LockInv
  <2>2. CASE ~loc[t].isLock
    <3>1. ASSUME NEW u \in Threads, u # t PROVE Reads'[u] = Reads[u]
      BY <1>1, <3>1 DEF IInv, TypeOK, Reads
    <3>2. Reads'[t] = 0
      BY <1>1, <1>2, <2>2, Sorts DEF IInv, TypeOK, Reads
    <3>3. Writers' \subseteq Writers
      BY <1>1, <2>2 DEF IInv, TypeOK, Writers, InCall
    <3>4. /\ rw'.queue = rw.queue /\ rw'.writer = rw.writer
          /\ \A u \in Threads : rw'.readers[u] = IF u = t THEN 0 ELSE rw.readers[u]
      BY <1>2, <2>2 DEF IInv, TypeOK, RWType
    <3>5. \A u \in Threads : rw'.readers[u] + (IF u \in rw'.queue THEN 1 ELSE 0) = Reads'[u]
      BY <1>2, <2>2, <3>1, <3>2, <3>4 DEF IInv, LockInv
    <3>6. \A u \in rw'.queue : pc'[u] \in {"wait", "nest"} /\ rw'.writer # NoThread
      BY <1>1, <1>2, <2>2, <3>4, Sorts DEF IInv, TypeOK, LockInv
    <3>7. \A u \in Threads :
            /\ u \in Writers' => rw'.writer = u /\ \A v \in Threads : rw'.readers[v] = 0
            /\ pc'[u] = "wait" /\ loc'[u].isLock => rw'.writer = u
      BY <1>1, <2>2, <3>3, <3>4 DEF IInv, TypeOK, LockInv
    <3> QED
      BY <3>4, <3>5, <3>6, <3>7 DEF IInv, LockInv
  <2> QED
    BY <2>1, <2>2
<1>8. PlaceInv(t, pc[t], loc[t])' /\ ListInv(t, pc[t], loc[t].rel, disable, funcs)'
  BY <1>1, Sorts DEF IInv, TypeOK, PlaceInv, ListInv
<1>9. t \in Pushers => /\ NotGone(pc[t], loc[t].el, hist[t], disable)'
                       /\ InOrder(pc[t], loc[t].T, loc[t].el, hist[t], disable, funcs)'
  BY <1>1, Sorts, IdleFits DEF IInv, TypeOK
<1>10. /\ \A u \in Threads : u # t => Stays(u)
       /\ \A p \in Pushers : p # t => hist'[p] = hist[p]
  BY <1>1 DEF IInv, TypeOK, Stays
<1> QED
  BY <1>1, <1>5, <1>7, <1>8, <1>9, <1>10, StepKeeps

----------------------------------------------------------------------------
(* The steps of removeDisable, inline or in a goroutine of its own.        *)

\* The removal begins: the cursor is at the front, and a push has cut.
LEMMA RemoveSwapIInv ==
  ASSUME IInv, NEW t \in Threads, RemoveSwap(t)
  PROVE  IInv'
<1>1. /\ pc' = [pc EXCEPT ![t] = "scan"]
      /\ loc' = [loc EXCEPT ![t] = [isLock |-> loc[t].isLock, T |-> loc[t].T, el |-> loc[t].el,
                                    rel |-> ListFront, all |-> allNeedRemove,
                                    ret |-> loc[t].ret]]
      /\ allNeedRemove' = FALSE
      /\ hist' = IF t \in Pushers
                   THEN [hist EXCEPT ![t] = [due |-> hist[t].due, got |-> hist[t].got,
                                             gone |-> hist[t].gone, cut |-> TRUE,
                                             wiped |-> hist[t].wiped]] ELSE hist
      /\ UNCHANGED <<funcs, disable, someNeedRemove, rw, pushes, clears>>
  <2>1. TypeOK
    BY DEF IInv
  <2>2. loc' = [loc EXCEPT ![t] = [isLock |-> loc[t].isLock, T |-> loc[t].T, el |-> loc[t].el,
                                    rel |-> ListFront, all |-> allNeedRemove,
                                    ret |-> loc[t].ret]]
    <3> DEFINE c == loc[t]
               d == [c EXCEPT !.all = allNeedRemove]
    <3>1. c = [isLock |-> c.isLock, T |-> c.T, el |-> c.el, rel |-> c.rel, all |-> c.all,
               ret |-> c.ret]
      BY <2>1 DEF TypeOK
    <3>2. loc' = [loc EXCEPT ![t] = [d EXCEPT !.rel = ListFront]]
      BY <2>1 DEF RemoveSwap, TypeOK
    <3> HIDE DEF c
    <3>3. d = [isLock |-> c.isLock, T |-> c.T, el |-> c.el, rel |-> c.rel,
               all |-> allNeedRemove, ret |-> c.ret]
      BY <3>1
    <3> HIDE DEF d
    <3>4. [d EXCEPT !.rel = ListFront] =
            [isLock |-> c.isLock, T |-> c.T, el |-> c.el, rel |-> ListFront,
             all |-> allNeedRemove, ret |-> c.ret]
      BY <3>3
    <3> QED
      BY <3>2, <3>4 DEF c
  <2>3. t \in Pushers =>
          hist' = [hist EXCEPT ![t] = [due |-> hist[t].due, got |-> hist[t].got,
                                       gone |-> hist[t].gone, cut |-> TRUE,
                                       wiped |-> hist[t].wiped]]
    BY <2>1, HistField DEF RemoveSwap
  <2> QED
    BY <2>2, <2>3 DEF RemoveSwap, Goto, bounds
<1>2. /\ loc[t].isLock /\ t \notin rw.queue
      /\ rw.writer = t /\ \A u \in Threads : rw.readers[u] = 0
  <2>1. CASE pc[t] = "swap"
    BY <2>1, Sorts DEF IInv, PlaceInv, LockInv, Writers, InCall
  <2>2. CASE t \in Removers /\ pc[t] = "wait" /\ HasLock(t)
    BY <2>2, Sorts DEF IInv, PlaceInv, LockInv, HasLock, RWHasLock
  <2> QED
    BY <2>1, <2>2 DEF RemoveSwap
<1>3. TypeOK'
  BY <1>1, FrontFrom DEF IInv, TypeOK, Pcs
<1>4. Reads'[t] = Reads[t]
  BY <1>1, <1>2 DEF IInv, TypeOK, Reads
<1>5. PlaceInv(t, pc[t], loc[t])' /\ ListInv(t, pc[t], loc[t].rel, disable, funcs)'
  BY <1>1, FrontFrom, Sorts DEF RemoveSwap, IInv, TypeOK, PlaceInv, ListInv
<1>6. ASSUME t \in Pushers
      PROVE  /\ NotGone(pc[t], loc[t].el, hist[t], disable)'
             /\ InOrder(pc[t], loc[t].T, loc[t].el, hist[t], disable, funcs)'
  <2>1. pc[t] = "swap"
    BY <1>6, Sorts DEF RemoveSwap
  <2>2. /\ pc'[t] = "scan" /\ loc'[t].T = loc[t].T /\ loc'[t].el = loc[t].el
        /\ hist'[t].due = hist[t].due /\ hist'[t].got = hist[t].got
        /\ hist'[t].gone = hist[t].gone /\ hist'[t].cut = TRUE
    BY <1>1, <1>6 DEF IInv, TypeOK
  <2>3. NotGone(pc[t], loc[t].el, hist[t], disable)'
    BY <1>1, <1>6, <2>1, <2>2 DEF IInv, NotGone
  <2>4. InOrder(pc[t], loc[t].T, loc[t].el, hist[t], disable, funcs)
    BY <1>6 DEF IInv
  <2>5. InOrder(pc[t], loc[t].T, loc[t].el, hist[t], disable, funcs)'
    BY <1>1, <1>6, <2>1, <2>2, <2>4 DEF InOrder
  <2> QED
    BY <2>3, <2>5
<1>7. /\ \A u \in Threads : u # t => Stays(u)
      /\ \A p \in Pushers : p # t => hist'[p] = hist[p]
  BY <1>1 DEF IInv, TypeOK, Stays
<1>8. LockInv'
  BY <1>1, <1>2, <1>4, <1>7, LockKept DEF IInv, TypeOK
<1> QED
  BY <1>1, <1>3, <1>5, <1>6, <1>7, <1>8, StepKeeps

\* One element of the loop.
LEMMA RemoveScanIInv ==
  ASSUME IInv, NEW t \in Threads, RemoveScan(t)
  PROVE  IInv'
<1> DEFINE i == loc[t].rel
           hit == loc[t].all \/ (Kind[i] = loc[t].T /\ i \in disable)
           next == IF hit THEN Nil ELSE NextOf(i)
<1>1. /\ pc[t] = "scan" /\ i # Nil
      /\ loc' = [loc EXCEPT ![t] = [isLock |-> loc[t].isLock, T |-> loc[t].T, el |-> loc[t].el,
                                    rel |-> next, all |-> loc[t].all, ret |-> loc[t].ret]]
      /\ funcs' = IF hit THEN RemoveAt(funcs, At(i)) ELSE funcs
      /\ UNCHANGED <<disable, flags, rw, pc, bounds, hist>>
  <2>1. TypeOK
    BY DEF IInv
  <2> QED
    BY <2>1, LocalField DEF RemoveScan
<1>2. t \in Writers /\ i \in ToSet(funcs) /\ next \in Items \cup {Nil}
      /\ next \in ToSet(funcs) \cup {Nil} /\ (hit => next = Nil)
  BY <1>1, NextFrom, Sorts DEF IInv, PlaceInv, ListInv, Writers, InCall
<1>3. /\ funcs' \in Seq(Items) /\ IsInjective(funcs')
      /\ ToSet(funcs') \subseteq ToSet(funcs)
      /\ \A e : After(funcs', e) \subseteq After(funcs, e)
      /\ ~hit => funcs' = funcs
  BY <1>1, <1>2, RemoveKeeps DEF IInv, TypeOK
<1> HIDE DEF hit, next
<1>4. TypeOK'
  BY <1>1, <1>2, <1>3 DEF IInv, TypeOK, flags, bounds
<1>5. Reads'[t] = Reads[t] /\ Writers' = Writers
  BY <1>1 DEF IInv, TypeOK, Reads, Writers
<1>6. PlaceInv(t, pc[t], loc[t])' /\ ListInv(t, pc[t], loc[t].rel, disable, funcs)'
  BY <1>1, <1>2, <1>3 DEF IInv, TypeOK, PlaceInv, ListInv
<1>7. ASSUME t \in Pushers
      PROVE  /\ NotGone(pc[t], loc[t].el, hist[t], disable)'
             /\ InOrder(pc[t], loc[t].T, loc[t].el, hist[t], disable, funcs)'
  <2>1. loc'[t].T = loc[t].T /\ loc'[t].el = loc[t].el
    BY <1>1 DEF IInv, TypeOK
  <2> QED
    BY <1>1, <1>3, <1>7, <2>1 DEF IInv, NotGone, InOrder
<1>8. \A u \in Threads : u # t => Stays(u)
  BY <1>1 DEF IInv, TypeOK, Stays
<1>9. LockInv'
  <2>1. rw.writer = t /\ \A u \in Threads : rw.readers[u] = 0
    BY <1>2 DEF IInv, LockInv
  <2>2. t \notin rw.queue
    BY <1>1 DEF IInv, LockInv
  <2> QED
    BY <1>1, <1>5, <1>8, <2>1, <2>2, LockKept
<1> QED
  BY <1>1, <1>2, <1>3, <1>4, <1>6, <1>7, <1>8, <1>9, StepKeeps

\* The loop ends.
LEMMA RemoveScanEndIInv ==
  ASSUME IInv, NEW t \in Threads, RemoveScanEnd(t)
  PROVE  IInv'
<1>1. /\ pc[t] = "scan" /\ pc' = [pc EXCEPT ![t] = "store"]
      /\ UNCHANGED <<funcs, disable, flags, rw, loc, bounds, hist>>
  BY DEF RemoveScanEnd, Goto
<1>2. TypeOK'
  BY <1>1 DEF IInv, TypeOK, Pcs, flags, bounds
<1>3. t \in Writers /\ t \notin rw.queue /\ Reads'[t] = Reads[t]
  BY <1>1, Sorts DEF IInv, TypeOK, PlaceInv, LockInv, Reads, Writers, InCall
<1>4. PlaceInv(t, pc[t], loc[t])' /\ ListInv(t, pc[t], loc[t].rel, disable, funcs)'
  BY <1>1 DEF IInv, TypeOK, PlaceInv, ListInv
<1>5. ASSUME t \in Pushers
      PROVE  /\ NotGone(pc[t], loc[t].el, hist[t], disable)'
             /\ InOrder(pc[t], loc[t].T, loc[t].el, hist[t], disable, funcs)'
  <2>1. pc'[t] = "store"
    BY <1>1 DEF IInv, TypeOK
  <2> QED
    BY <1>1, <1>5, <2>1 DEF IInv, NotGone, InOrder
<1>6. \A u \in Threads : u # t => Stays(u)
  BY <1>1 DEF IInv, TypeOK, Stays
<1>7. LockInv'
  BY <1>1, <1>3, <1>6, LockKept DEF IInv, TypeOK, LockInv
<1> QED
  BY <1>1, <1>2, <1>4, <1>5, <1>6, <1>7, StepKeeps

\* The removal ends: a push goes on behind its cursor, or at the front.
LEMMA RemoveStoreIInv ==
  ASSUME IInv, NEW t \in Threads, RemoveStore(t)
  PROVE  IInv'
<1> DEFINE next == IF loc[t].ret # "loop" THEN loc[t].el
                   ELSE IF loc[t].el = Nil THEN ListFront ELSE NextOf(loc[t].el)
<1>1. /\ pc[t] = "store" /\ pc' = [pc EXCEPT ![t] = loc[t].ret]
      /\ loc' = [loc EXCEPT ![t] = [isLock |-> loc[t].isLock, T |-> loc[t].T, el |-> next,
                                    rel |-> loc[t].rel, all |-> loc[t].all, ret |-> loc[t].ret]]
      /\ someNeedRemove' = FALSE
      /\ UNCHANGED <<funcs, disable, allNeedRemove, rw, bounds, hist>>
  <2>1. TypeOK
    BY DEF IInv
  <2> HIDE DEF next
  <2>2. loc' = [loc EXCEPT ![t].el = next]
    BY DEF RemoveStore, next
  <2> QED
    BY <2>1, <2>2, LocalField DEF RemoveStore, Goto
<1>2. t \in Writers /\ t \notin rw.queue /\ loc[t].ret \in {"loop", "insert", "unlock"}
      /\ (t \in Pushers <=> loc[t].ret = "loop")
  BY <1>1, Sorts DEF IInv, PlaceInv, LockInv, Writers, InCall
<1>3. next \in Items \cup {Nil} /\ next = next
  BY FrontFrom, NextFrom DEF IInv, TypeOK
<1>4. t \in Pushers => /\ next \in ToSet(funcs) \cup {Nil}
                       /\ ToSet(hist[t].got) \cap From(funcs, next) = {}
  <2> SUFFICES ASSUME t \in Pushers
               PROVE  /\ next \in ToSet(funcs) \cup {Nil}
                      /\ ToSet(hist[t].got) \cap From(funcs, next) = {}
    OBVIOUS
  <2>1. InOrder(pc[t], loc[t].T, loc[t].el, hist[t], disable, funcs) /\ TypeOK
    BY DEF IInv
  <2>2. CASE loc[t].el = Nil
    <3>1. ToSet(hist[t].got) = {}
      BY <1>1, <2>1, <2>2 DEF InOrder, ToSet
    <3> QED
      BY <1>2, <2>1, <2>2, <3>1, FrontFrom
  <2>3. CASE loc[t].el # Nil
    BY <1>1, <1>2, <2>1, <2>3, NextFrom DEF InOrder
  <2> QED
    BY <2>2, <2>3
<1> HIDE DEF next
<1>5. TypeOK'
  BY <1>1, <1>2, <1>3 DEF IInv, TypeOK, Pcs, bounds
<1>6. Reads'[t] = Reads[t]
  BY <1>1, <1>2 DEF IInv, TypeOK, Reads, Writers
<1>7. PlaceInv(t, pc[t], loc[t])' /\ ListInv(t, pc[t], loc[t].rel, disable, funcs)'
  BY <1>1, <1>2, Sorts DEF IInv, TypeOK, PlaceInv, ListInv, Writers
<1>8. ASSUME t \in Pushers
      PROVE  /\ NotGone(pc[t], loc[t].el, hist[t], disable)'
             /\ InOrder(pc[t], loc[t].T, loc[t].el, hist[t], disable, funcs)'
  <2>1. pc'[t] = "loop" /\ loc'[t].T = loc[t].T /\ loc'[t].el = next
    BY <1>1, <1>2, <1>8 DEF IInv, TypeOK
  <2> QED
    BY <1>1, <1>4, <1>8, <2>1 DEF IInv, NotGone, InOrder
<1>9. \A u \in Threads : u # t => Stays(u)
  BY <1>1 DEF IInv, TypeOK, Stays
<1>10. LockInv'
  BY <1>1, <1>2, <1>6, <1>9, LockKept DEF IInv, TypeOK, LockInv
<1> QED
  BY <1>1, <1>5, <1>7, <1>8, <1>9, <1>10, StepKeeps

----------------------------------------------------------------------------
(* The steps of register, of the cancel function and of ClearAll.          *)

\* Register asks for the write lock.
LEMMA RegisterIInv ==
  ASSUME IInv, NEW i \in Items, Register(i)
  PROVE  IInv'
<1>0. i \in Threads /\ i \notin Pushers /\ i \notin Removers
  BY Sorts
<1>1. /\ pc[i] = "idle" /\ pc' = [pc EXCEPT ![i] = "want"]
      /\ loc' = [loc EXCEPT ![i] = [isLock |-> TRUE, T |-> Kind[i], el |-> Nil, rel |-> Nil,
                                    all |-> FALSE, ret |-> "unlock"]]
      /\ UNCHANGED <<funcs, disable, flags, rw, bounds, hist>>
  BY DEF Register, Goto, Local
<1>2. TypeOK'
  BY <1>0, <1>1, MsgqAssumption DEF IInv, TypeOK, Pcs, flags, bounds
<1>3. Reads'[i] = Reads[i] /\ i \notin Writers' /\ i \notin rw.queue
  BY <1>0, <1>1 DEF IInv, TypeOK, LockInv, Reads, Writers, InCall
<1>4. PlaceInv(i, pc[i], loc[i])' /\ ListInv(i, pc[i], loc[i].rel, disable, funcs)'
  BY <1>0, <1>1 DEF IInv, TypeOK, PlaceInv, ListInv
<1>5. \A u \in Threads : u # i => Stays(u)
  BY <1>1 DEF IInv, TypeOK, Stays
<1>6. LockInv'
  BY <1>0, <1>1, <1>3, <1>5, LockKept DEF IInv, TypeOK
<1> QED
  BY <1>0, <1>1, <1>2, <1>4, <1>5, <1>6, StepKeeps

\* It has the lock, and removes disabled entries first if ClearAll was called.
LEMMA RegisterEnterIInv ==
  ASSUME IInv, NEW i \in Items, RegisterEnter(i)
  PROVE  IInv'
<1> DEFINE l == IF allNeedRemove THEN "regcas" ELSE "insert"
<1>0. i \in Threads /\ i \notin Pushers /\ i \notin Removers
  BY Sorts
<1>1. /\ pc[i] = "wait" /\ HasLock(i) /\ pc' = [pc EXCEPT ![i] = l]
      /\ UNCHANGED <<funcs, disable, flags, rw, loc, bounds, hist>>
  BY DEF RegisterEnter, Goto
<1>2. l \in {"regcas", "insert"}
  OBVIOUS
<1> HIDE DEF l
<1>3. TypeOK'
  BY <1>0, <1>1, <1>2 DEF IInv, TypeOK, Pcs, flags, bounds
<1>4. loc[i].isLock /\ rw.writer = i /\ \A u \in Threads : rw.readers[u] = 0
  BY <1>0, <1>1 DEF IInv, PlaceInv, HasLock, RWHasLock
<1>5. Reads'[i] = Reads[i] /\ i \notin rw.queue
  BY <1>0, <1>1 DEF IInv, LockInv, Reads
<1>6. PlaceInv(i, pc[i], loc[i])' /\ ListInv(i, pc[i], loc[i].rel, disable, funcs)'
  BY <1>0, <1>1, <1>2, <1>4 DEF IInv, TypeOK, PlaceInv, ListInv
<1>7. \A u \in Threads : u # i => Stays(u)
  BY <1>1 DEF IInv, TypeOK, Stays
<1>8. LockInv'
  BY <1>0, <1>1, <1>2, <1>4, <1>5, <1>7, LockKept DEF IInv, TypeOK
<1> QED
  BY <1>0, <1>1, <1>3, <1>6, <1>7, <1>8, StepKeeps

\* One more element, at the end.
LEMMA OneMore ==
  ASSUME NEW f, NEW n \in Nat, DOMAIN f = 1..n, IsInjective(f),
         NEW s, DOMAIN s = 1..(n + 1), \A k \in 1..n : s[k] = f[k] /\ f[k] # s[n + 1]
  PROVE  IsInjective(s) /\ ToSet(s) = ToSet(f) \cup {s[n + 1]}
<1>1. \A k : k \in 1..(n + 1) <=> k \in 1..n \/ k = n + 1
  OBVIOUS
<1>2. IsInjective(s)
  BY <1>1 DEF IsInjective
<1>3. ToSet(s) = ToSet(f) \cup {s[n + 1]}
  BY <1>1 DEF ToSet
<1> QED
  BY <1>2, <1>3

\* One more element, at the front.
LEMMA OneMoreFirst ==
  ASSUME NEW f, NEW n \in Nat, DOMAIN f = 1..n, IsInjective(f),
         NEW s, DOMAIN s = 1..(n + 1), \A k \in 1..n : s[k + 1] = f[k] /\ f[k] # s[1]
  PROVE  IsInjective(s) /\ ToSet(s) = ToSet(f) \cup {s[1]}
<1>1. \A k \in 1..(n + 1) : k = 1 \/ (k - 1 \in 1..n /\ (k - 1) + 1 = k)
  OBVIOUS
<1>2. \A k \in 1..n : k + 1 \in 1..(n + 1)
  OBVIOUS
<1>3. 1 \in 1..(n + 1)
  OBVIOUS
<1>4. ASSUME NEW a \in 1..(n + 1), NEW b \in 1..(n + 1), s[a] = s[b]
      PROVE  a = b
  <2>1. CASE a = 1 /\ b # 1
    BY <1>1, <1>4, <2>1
  <2>2. CASE a # 1 /\ b = 1
    BY <1>1, <1>4, <2>2
  <2>3. CASE a # 1 /\ b # 1
    <3>1. s[a] = f[a - 1] /\ s[b] = f[b - 1] /\ a - 1 \in 1..n /\ b - 1 \in 1..n
      BY <1>1, <2>3
    <3>2. a - 1 = b - 1
      BY <1>4, <3>1 DEF IsInjective
    <3> QED
      BY <3>2
  <2> QED
    BY <2>1, <2>2, <2>3
<1>5. IsInjective(s)
  BY <1>4 DEF IsInjective
<1>6. ToSet(s) = ToSet(f) \cup {s[1]}
  <2>1. ASSUME NEW k \in 1..(n + 1) PROVE s[k] \in ToSet(f) \cup {s[1]}
    <3>1. k = 1 \/ (k - 1 \in 1..n /\ s[k] = f[k - 1])
      BY <1>1
    <3> QED
      BY <3>1 DEF ToSet
  <2>2. ASSUME NEW k \in 1..n PROVE f[k] \in ToSet(s)
    BY <1>2 DEF ToSet
  <2>3. s[1] \in ToSet(s)
    BY <1>3 DEF ToSet
  <2> QED
    BY <2>1, <2>2, <2>3 DEF ToSet
<1> QED
  BY <1>5, <1>6

\* PushBack or PushFront of an item that is not in the list.
LEMMA InsertKeeps ==
  ASSUME TypeOK, NEW i \in Items, i \notin ToSet(funcs), NEW s,
         s = IF i \in AtFront THEN <<i>> \o funcs ELSE Append(funcs, i)
  PROVE  s \in Seq(Items) /\ IsInjective(s) /\ ToSet(s) = ToSet(funcs) \cup {i}
<1> DEFINE n == Len(funcs)
<1>1. n \in Nat /\ DOMAIN funcs = 1..n /\ \A k \in 1..n : funcs[k] \in Items /\ funcs[k] # i
  BY DEF TypeOK, ToSet
<1>2. CASE i \in AtFront
  <2>1. <<i>> \in Seq(Items) /\ Len(<<i>>) = 1 /\ <<i>>[1] = i
    OBVIOUS
  <2>2. /\ s \in Seq(Items) /\ Len(s) = 1 + n
        /\ \A k \in 1..(1 + n) : s[k] = IF k <= 1 THEN <<i>>[k] ELSE funcs[k - 1]
    BY <1>2, <2>1, ConcatProperties DEF TypeOK
  <2>3. DOMAIN s = 1..(n + 1) /\ s[1] = i /\ \A k \in 2..(n + 1) : s[k] = funcs[k - 1]
    BY <1>1, <2>1, <2>2
  <2>4. \A k \in 1..n : s[k + 1] = funcs[k] /\ funcs[k] # s[1]
    BY <1>1, <2>3
  <2> HIDE DEF n
  <2>5. IsInjective(funcs)
    BY DEF TypeOK
  <2>6. IsInjective(s) /\ ToSet(s) = ToSet(funcs) \cup {s[1]}
    BY ONLY <1>1, <2>3, <2>4, <2>5, OneMoreFirst
  <2> QED
    BY <2>2, <2>3, <2>6
<1>3. CASE i \notin AtFront
  <2>1. /\ s \in Seq(Items) /\ DOMAIN s = 1..(n + 1) /\ s[n + 1] = i
        /\ \A k \in 1..n : s[k] = funcs[k]
    BY <1>1, <1>3 DEF TypeOK
  <2> HIDE DEF n
  <2>2. IsInjective(funcs)
    BY DEF TypeOK
  <2>3. \A k \in 1..n : s[k] = funcs[k] /\ funcs[k] # s[n + 1]
    BY <1>1, <2>1
  <2>4. IsInjective(s) /\ ToSet(s) = ToSet(funcs) \cup {s[n + 1]}
    BY ONLY <1>1, <2>1, <2>2, <2>3, OneMore
  <2> QED
    BY <2>1, <2>4
<1> QED
  BY <1>2, <1>3

\* The item is inserted under the write lock.
LEMMA InsertIInv ==
  ASSUME IInv, NEW i \in Items, Insert(i)
  PROVE  IInv'
<1>0. i \in Threads /\ i \notin Pushers /\ i \notin Removers
  BY Sorts
<1>1. /\ pc[i] = "insert" /\ pc' = [pc EXCEPT ![i] = "unlock"]
      /\ funcs' = IF i \in AtFront THEN <<i>> \o funcs ELSE Append(funcs, i)
      /\ UNCHANGED <<disable, flags, rw, loc, bounds, hist>>
  BY DEF Insert, Goto
<1>2. i \in Writers /\ loc[i].isLock /\ i \notin ToSet(funcs) /\ i \notin rw.queue
  BY <1>0, <1>1 DEF IInv, PlaceInv, ListInv, LockInv, Writers, InCall
<1>3. funcs' \in Seq(Items) /\ IsInjective(funcs') /\ ToSet(funcs') = ToSet(funcs) \cup {i}
  BY <1>1, <1>2, InsertKeeps DEF IInv
<1>4. TypeOK'
  BY <1>0, <1>1, <1>3 DEF IInv, TypeOK, Pcs, flags, bounds
<1>5. Reads'[i] = Reads[i]
  BY <1>0, <1>1 DEF IInv, Reads
<1>6. PlaceInv(i, pc[i], loc[i])' /\ ListInv(i, pc[i], loc[i].rel, disable, funcs)'
  BY <1>0, <1>1, <1>2 DEF IInv, TypeOK, PlaceInv, ListInv
<1>7. \A u \in Threads : u # i => Stays(u)
  BY <1>1 DEF IInv, TypeOK, Stays
<1>8. LockInv'
  BY <1>0, <1>1, <1>2, <1>5, <1>7, LockKept DEF IInv, TypeOK, LockInv
<1> QED
  BY <1>0, <1>1, <1>2, <1>3, <1>4, <1>6, <1>7, <1>8, StepKeeps

\* cancel() sets the flag, without the lock.
LEMMA CancelIInv ==
  ASSUME IInv, NEW i \in Items, Cancel(i)
  PROVE  IInv'
<1>0. i \in Threads /\ i \notin Pushers /\ i \notin Removers
  BY Sorts
<1>1. /\ pc[i] = "registered" /\ pc' = [pc EXCEPT ![i] = "cas"]
      /\ disable' = disable \cup {i}
      /\ UNCHANGED <<funcs, flags, rw, bounds, hist>>
  BY DEF Cancel, Goto
<1>2. loc' = [loc EXCEPT ![i] = [isLock |-> FALSE, T |-> loc[i].T, el |-> loc[i].el,
                                 rel |-> loc[i].rel, all |-> loc[i].all, ret |-> loc[i].ret]]
  <2>1. TypeOK
    BY DEF IInv
  <2>2. loc' = [loc EXCEPT ![i].isLock = FALSE]
    BY DEF Cancel
  <2> QED
    BY <1>0, <2>1, <2>2, LocalField
<1>3. TypeOK'
  BY <1>0, <1>1, <1>2 DEF IInv, TypeOK, Pcs, flags, bounds
<1>4. Reads'[i] = Reads[i] /\ i \notin Writers' /\ i \notin rw.queue
  BY <1>0, <1>1, <1>2 DEF IInv, TypeOK, LockInv, Reads, Writers, InCall
<1>5. PlaceInv(i, pc[i], loc[i])' /\ ListInv(i, pc[i], loc[i].rel, disable, funcs)'
  BY <1>0, <1>1, <1>2 DEF IInv, TypeOK, PlaceInv, ListInv
<1>6. \A u \in Threads : u # i => Stays(u)
  BY <1>1, <1>2 DEF IInv, TypeOK, Stays
<1>7. LockInv'
  BY <1>0, <1>1, <1>4, <1>6, LockKept DEF IInv, TypeOK
<1> QED
  BY <1>0, <1>1, <1>3, <1>5, <1>6, <1>7, StepKeeps

\* ClearAll only sets its flag.
LEMMA ClearAllIInv ==
  ASSUME IInv, ClearAll
  PROVE  IInv'
<1>1. /\ allNeedRemove' = TRUE
      /\ clears' = [count |-> clears.count + 1, before |-> clears.before \cup ToSet(funcs)]
      /\ UNCHANGED <<funcs, disable, someNeedRemove, rw, pc, loc, pushes, hist>>
  BY DEF ClearAll
<1>2. TypeOK'
  BY <1>1, FrontFrom DEF IInv, TypeOK
<1>3. LockInv'
  BY <1>1 DEF IInv, LockInv, Writers, Reads
<1> QED
  BY <1>1, <1>2, <1>3 DEF IInv

----------------------------------------------------------------------------
(* removeDisable after a CompareAndSwap: nothing, inline, or go f().       *)

\* A push that goes on in its loop has its cursor behind the item it called.
LEMMA NextInOrder ==
  ASSUME IInv, NEW p \in Pushers, pc[p] \in {"disable", "cas"}, NEW el, el = NextOf(loc[p].el)
  PROVE  /\ NotGone("loop", el, hist[p], disable)
         /\ InOrder("loop", loc[p].T, el, hist[p], disable, funcs)
<1>1. /\ NotGone(pc[p], loc[p].el, hist[p], disable)
      /\ InOrder(pc[p], loc[p].T, loc[p].el, hist[p], disable, funcs)
      /\ TypeOK
  BY DEF IInv
<1>2. /\ el \in ToSet(funcs) \cup {Nil} /\ From(funcs, el) = After(funcs, loc[p].el)
  BY <1>1, NextFrom
<1> QED
  BY <1>1, <1>2 DEF NotGone, InOrder

\* CompareAndSwap(false, true) and what it decides.
LEMMA CompareAndSwapIInv ==
  ASSUME IInv, NEW t \in Threads, CompareAndSwap(t)
  PROVE  IInv'
<1> DEFINE after == IF t \in Pushers THEN "loop" ELSE IF pc[t] = "regcas" THEN "insert"
                    ELSE "cancelled"
           el    == IF t \in Pushers THEN NextOf(loc[t].el) ELSE Nil
<1>1. /\ pc[t] \in {"cas", "regcas"} /\ someNeedRemove' = TRUE
      /\ UNCHANGED <<funcs, disable, allNeedRemove, rw, bounds, hist>>
      /\ TypeOK
  BY DEF CompareAndSwap, IInv
<1>2. /\ after \in {"loop", "insert", "cancelled"}
      /\ t \in Pushers => after = "loop" /\ el = NextOf(loc[t].el) /\ pc[t] = "cas"
      /\ t \notin Pushers => t \in Items /\ el = Nil
      /\ t \in Items => after = IF pc[t] = "regcas" THEN "insert" ELSE "cancelled"
      /\ t \notin Removers
      /\ el \in Items \cup {Nil}
      /\ t \in Items => (loc[t].isLock <=> pc[t] = "regcas")
  BY <1>1, NextFrom, Sorts DEF IInv, PlaceInv
<1>3. t \in Pushers => /\ NotGone("loop", el, hist[t], disable)
                       /\ InOrder("loop", loc[t].T, el, hist[t], disable, funcs)
  BY <1>1, <1>2, NextInOrder
<1>4. t \notin rw.queue /\ (loc[t].isLock => t \in Writers)
      /\ (t \in Writers => rw.writer = t /\ \A u \in Threads : rw.readers[u] = 0)
  BY <1>1 DEF IInv, LockInv, Writers, InCall
<1>5. \/ someNeedRemove /\ Goto(t, after) /\ loc' = [loc EXCEPT ![t].el = el]
      \/ ~someNeedRemove /\ loc[t].isLock /\ Goto(t, "swap") /\ loc' = [loc EXCEPT ![t].ret = after]
      \/ ~someNeedRemove /\ ~loc[t].isLock /\ Spawn(t, after, el)
  BY DEF CompareAndSwap
<1> HIDE DEF after, el
<1>6. CASE loc[t].isLock /\ Goto(t, "swap") /\ loc' = [loc EXCEPT ![t].ret = after]
  <2>1. /\ pc' = [pc EXCEPT ![t] = "swap"]
        /\ loc' = [loc EXCEPT ![t] = [isLock |-> loc[t].isLock, T |-> loc[t].T, el |-> loc[t].el,
                                      rel |-> loc[t].rel, all |-> loc[t].all, ret |-> after]]
    BY <1>1, <1>6, LocalField DEF Goto
  <2>2. TypeOK'
    BY <1>1, <1>2, <2>1 DEF TypeOK, Pcs, bounds
  <2>3. Reads'[t] = Reads[t]
    BY <1>1, <1>6, <2>1 DEF TypeOK, Reads
  <2>4. PlaceInv(t, pc[t], loc[t])' /\ ListInv(t, pc[t], loc[t].rel, disable, funcs)'
    BY <1>1, <1>2, <1>6, <2>1, Sorts DEF IInv, TypeOK, PlaceInv, ListInv
  <2>5. ASSUME t \in Pushers
        PROVE  /\ NotGone(pc[t], loc[t].el, hist[t], disable)'
               /\ InOrder(pc[t], loc[t].T, loc[t].el, hist[t], disable, funcs)'
    <3>1. pc'[t] = "swap" /\ loc'[t].T = loc[t].T /\ loc'[t].el = loc[t].el /\ pc[t] = "cas"
      BY <1>1, <1>2, <2>1, <2>5 DEF TypeOK
    <3> QED
      BY <1>1, <2>5, <3>1 DEF IInv, NotGone, InOrder
  <2>6. \A u \in Threads : u # t => Stays(u)
    BY <1>1, <2>1 DEF TypeOK, Stays
  <2>7. LockInv'
    BY <1>1, <1>4, <1>6, <2>1, <2>3, <2>6, LockKept DEF TypeOK
  <2> QED
    BY <1>1, <2>2, <2>4, <2>5, <2>6, <2>7, StepKeeps
<1>7. CASE \/ Goto(t, after) /\ loc' = [loc EXCEPT ![t].el = el]
           \/ Spawn(t, after, el)
  <2>1. /\ pc'[t] = after /\ loc'[t].isLock = loc[t].isLock /\ loc'[t].T = loc[t].T
        /\ loc'[t].el = el /\ loc'[t].ret = loc[t].ret
        /\ \A u \in Threads : u # t => Stays(u)
        /\ pc' \in [Threads -> Pcs]
        /\ loc' \in [Threads -> [isLock : BOOLEAN, T : Kinds, el : Items \cup {Nil},
                                 rel : Items \cup {Nil}, all : BOOLEAN, ret : Pcs]]
    <3>1. CASE Goto(t, after) /\ loc' = [loc EXCEPT ![t].el = el]
      <4>1. loc' = [loc EXCEPT ![t] = [isLock |-> loc[t].isLock, T |-> loc[t].T, el |-> el,
                                       rel |-> loc[t].rel, all |-> loc[t].all,
                                       ret |-> loc[t].ret]]
        BY <1>1, <3>1, LocalField
      <4>2. pc'[t] = after /\ pc' \in [Threads -> Pcs]
        BY <1>1, <1>2, <3>1 DEF Goto, TypeOK, Pcs
      <4>3. /\ loc'[t].isLock = loc[t].isLock /\ loc'[t].T = loc[t].T
            /\ loc'[t].el = el /\ loc'[t].ret = loc[t].ret
        BY <1>1, <4>1 DEF TypeOK
      <4>4. \A u \in Threads : u # t => Stays(u)
        BY <1>1, <3>1, <4>1 DEF Goto, TypeOK, Stays
      <4>5. loc' \in [Threads -> [isLock : BOOLEAN, T : Kinds, el : Items \cup {Nil},
                                 rel : Items \cup {Nil}, all : BOOLEAN, ret : Pcs]]
        BY <1>1, <1>2, <4>1 DEF TypeOK
      <4> QED
        BY <4>2, <4>3, <4>4, <4>5
    <3>2. CASE Spawn(t, after, el)
      BY <1>1, <1>2, <3>2, SpawnAlone DEF Pcs
    <3> QED
      BY <1>7, <3>1, <3>2
  <2>2. TypeOK'
    BY <1>1, <2>1 DEF TypeOK, bounds
  <2>3. Reads'[t] = Reads[t]
    BY <1>1, <1>2, <2>1 DEF Reads
  <2>4. PlaceInv(t, pc[t], loc[t])' /\ ListInv(t, pc[t], loc[t].rel, disable, funcs)'
    BY <1>1, <1>2, <2>1, Sorts DEF IInv, PlaceInv, ListInv
  <2>5. ASSUME t \in Pushers
        PROVE  /\ NotGone(pc[t], loc[t].el, hist[t], disable)'
               /\ InOrder(pc[t], loc[t].T, loc[t].el, hist[t], disable, funcs)'
    BY <1>1, <1>2, <1>3, <2>1, <2>5
  <2>6. t \in Writers' => t \in Writers
    BY <1>4, <2>1 DEF Writers
  <2>7. pc'[t] # "wait"
    BY <1>2, <2>1
  <2>8. LockInv'
    BY <1>1, <1>4, <2>1, <2>3, <2>6, <2>7, LockKept
  <2> QED
    BY <1>1, <2>1, <2>2, <2>4, <2>5, <2>8, StepKeeps
<1> QED
  BY <1>5, <1>6, <1>7

----------------------------------------------------------------------------
(* The read lock: its request and its return.                              *)

\* A push, or a push of a handler, asks for a read lock.
LEMMA AskReadLock ==
  ASSUME IInv, NEW p \in Pushers, p \notin rw.queue, rw' = RWAskRead(rw, p),
         Reads'[p] = Reads[p] + 1, pc'[p] \in {"wait", "nest"}, ~loc'[p].isLock,
         \A u \in Threads : u # p => pc'[u] = pc[u] /\ loc'[u] = loc[u]
  PROVE  LockInv' /\ rw' \in RWType
<1>0. p \in Threads /\ rw \in RWType
  BY Sorts DEF IInv, TypeOK
<1>1. ASSUME NEW u \in Threads, u # p PROVE Reads'[u] = Reads[u] /\ (u \in Writers' <=> u \in Writers)
  BY <1>1 DEF Reads, Writers
<1>2. p \notin Writers' /\ Writers' \subseteq Threads
  BY DEF Writers
<1>3. rw.readers[p] + 0 = Reads[p] /\ rw.readers[p] \in Nat
  BY <1>0 DEF IInv, LockInv, RWType
<1>4. CASE rw.writer = NoThread
  <2>1. rw' = [rw EXCEPT !.readers[p] = rw.readers[p] + 1]
    BY <1>4 DEF RWAskRead
  <2> DEFINE n == rw.readers[p] + 1
  <2>0. n \in Nat /\ rw' = [rw EXCEPT !.readers[p] = n]
    BY <1>3, <2>1
  <2> HIDE DEF n
  <2>2. rw' = [writer |-> rw.writer, readers |-> [rw.readers EXCEPT ![p] = n],
               queue |-> rw.queue]
    BY <1>0, <2>0, ReadersField
  <2>3. rw.readers \in [Threads -> Nat] /\ rw.queue \subseteq Threads
        /\ rw.writer \in Threads \cup {NoThread}
    BY <1>0 DEF RWType
  <2>4. [rw.readers EXCEPT ![p] = n] \in [Threads -> Nat]
    BY <2>0, <2>3
  <2>5. rw' \in RWType
    BY <2>2, <2>3, <2>4 DEF RWType
  <2>6. /\ rw'.writer = NoThread /\ rw'.queue = rw.queue
        /\ \A u \in Threads : rw'.readers[u] = IF u = p THEN rw.readers[u] + 1 ELSE rw.readers[u]
    BY <1>4, <2>2, <2>3 DEF n
  <2>7. rw.queue = {} /\ Writers = {}
    BY <1>4, Sorts DEF IInv, LockInv, Writers
  <2>8. \A u \in Threads : ~(pc[u] = "wait" /\ loc[u].isLock)
    BY <1>4, Sorts DEF IInv, LockInv
  <2>9. \A u \in Threads : rw'.readers[u] + (IF u \in rw'.queue THEN 1 ELSE 0) = Reads'[u]
    BY <1>1, <1>3, <2>6, <2>7 DEF IInv, LockInv
  <2>10. Writers' = {}
    BY <1>1, <1>2, <2>7
  <2>11. \A u \in Threads : ~(pc'[u] = "wait" /\ loc'[u].isLock)
    BY <2>8
  <2> QED
    BY <2>5, <2>6, <2>7, <2>9, <2>10, <2>11 DEF LockInv
<1>5. CASE rw.writer # NoThread
  <2>1. rw' = [rw EXCEPT !.queue = rw.queue \cup {p}]
    BY <1>5 DEF RWAskRead
  <2>2. rw'.writer = rw.writer /\ rw'.readers = rw.readers /\ rw'.queue = rw.queue \cup {p}
        /\ rw' \in RWType
    BY <1>0, <2>1 DEF RWType
  <2>3. \A u \in Threads : rw'.readers[u] + (IF u \in rw'.queue THEN 1 ELSE 0) = Reads'[u]
    BY <1>1, <1>3, <2>2 DEF IInv, LockInv
  <2>4. \A u \in rw'.queue : pc'[u] \in {"wait", "nest"} /\ rw'.writer # NoThread
    BY <1>5, <2>2, Sorts DEF IInv, LockInv
  <2>5. \A u \in Threads :
          /\ u \in Writers' => rw'.writer = u /\ \A v \in Threads : rw'.readers[v] = 0
          /\ pc'[u] = "wait" /\ loc'[u].isLock => rw'.writer = u
    BY <1>1, <1>2, <2>2 DEF IInv, LockInv
  <2>6. rw'.queue \subseteq Pushers
    BY <2>2 DEF IInv, LockInv
  <2> QED
    BY <2>2, <2>3, <2>4, <2>5, <2>6 DEF LockInv
<1> QED
  BY <1>4, <1>5

\* A push of a handler returns its read lock.
LEMMA ReturnReadLock ==
  ASSUME IInv, NEW p \in Pushers, p \notin rw.queue, rw' = RWRUnlock(rw, p),
         Reads[p] = 2, Reads'[p] = 1, pc'[p] = "ret", ~loc'[p].isLock,
         \A u \in Threads : u # p => Stays(u)
  PROVE  LockInv' /\ rw' \in RWType
<1>0. p \in Threads /\ rw \in RWType
  BY Sorts DEF IInv, TypeOK
<1>1. rw.readers[p] + 0 = 2 /\ rw.readers[p] \in Nat
  BY <1>0 DEF IInv, LockInv, RWType
<1>2. rw' = [rw EXCEPT !.readers[p] = 1]
  BY <1>1 DEF RWRUnlock
<1>3. rw' = [writer |-> rw.writer, readers |-> [rw.readers EXCEPT ![p] = 1], queue |-> rw.queue]
  BY <1>0, <1>2, ReadersField
<1>4. rw.readers \in [Threads -> Nat] /\ rw.queue \subseteq Threads
      /\ rw.writer \in Threads \cup {NoThread}
  BY <1>0 DEF RWType
<1>5. [rw.readers EXCEPT ![p] = 1] \in [Threads -> Nat]
  BY <1>4
<1>6. rw' \in RWType
  BY <1>3, <1>4, <1>5 DEF RWType
<1>7. /\ rw'.writer = rw.writer /\ rw'.queue = rw.queue
      /\ \A u \in Threads : rw'.readers[u] = IF u = p THEN 1 ELSE rw.readers[u]
  BY <1>3, <1>4
<1>8. ASSUME NEW u \in Threads, u # p
      PROVE  Reads'[u] = Reads[u] /\ (u \in Writers' => u \in Writers)
  BY <1>8, Sorts DEF Stays, Reads, Writers, InCall
<1>9. Writers = {} /\ p \notin Writers'
  <2>1. rw.readers[p] # 0
    BY <1>1
  <2> QED
    BY <1>0, <2>1 DEF IInv, LockInv, Writers
<1>10. \A u \in Threads : rw'.readers[u] + (IF u \in rw'.queue THEN 1 ELSE 0) = Reads'[u]
  BY <1>7, <1>8 DEF IInv, LockInv
<1>11. \A u \in rw'.queue : pc'[u] \in {"wait", "nest"} /\ rw'.writer # NoThread
  BY <1>7, Sorts DEF IInv, LockInv, Stays
<1>12. \A u \in Threads : pc'[u] = "wait" /\ loc'[u].isLock => rw'.writer = u
  BY <1>7 DEF IInv, LockInv, Stays
<1>13. Writers' = {}
  BY <1>8, <1>9 DEF Writers
<1> QED
  BY <1>6, <1>7, <1>10, <1>11, <1>12, <1>13 DEF IInv, LockInv

----------------------------------------------------------------------------
(* The steps of a push.                                                    *)

\* A push begins: nobody it must not call is without his flag.
LEMMA PushIInv ==
  ASSUME IInv, NEW p \in Pushers, NEW T \in Kinds, NEW isLock \in BOOLEAN, Push(p, T, isLock)
  PROVE  IInv'
<1> DEFINE gone == {i \in Items : pc[i] = "cancelled"}
           l == IF isLock THEN "want" ELSE "wait"
<1>0. p \in Threads /\ p \notin Items /\ p \notin Removers /\ TypeOK
  BY Sorts DEF IInv
<1>1. /\ pc[p] = "idle" /\ pc' = [pc EXCEPT ![p] = l]
      /\ loc' = [loc EXCEPT ![p] = [isLock |-> isLock, T |-> T, el |-> Nil, rel |-> Nil,
                                    all |-> FALSE, ret |-> "unlock"]]
      /\ rw' = IF isLock THEN rw ELSE RWAskRead(rw, p)
      /\ pushes' = [pushes EXCEPT ![p] = pushes[p] + 1]
      /\ UNCHANGED <<funcs, disable, flags, clears>>
  BY DEF Push, Goto, Local
<1>2. hist[p] = NoHist
  BY <1>1 DEF IInv, NotGone
<1>4. gone \subseteq disable /\ gone \subseteq Items
  BY Sorts DEF IInv, ListInv
<1> HIDE DEF gone
<1>3. hist' = [hist EXCEPT ![p] = [due |-> hist[p].due, got |-> hist[p].got, gone |-> gone,
                                   cut |-> hist[p].cut, wiped |-> clears.before]]
  <2> DEFINE h == hist[p]
             d == [h EXCEPT !.gone = gone]
  <2>1. h = [due |-> h.due, got |-> h.got, gone |-> h.gone, cut |-> h.cut, wiped |-> h.wiped]
    BY <1>0 DEF TypeOK
  <2>2. hist' = [hist EXCEPT ![p] = [d EXCEPT !.wiped = clears.before]]
    BY <1>0 DEF Push, TypeOK, gone
  <2> HIDE DEF h
  <2>3. d = [due |-> h.due, got |-> h.got, gone |-> gone, cut |-> h.cut, wiped |-> h.wiped]
    BY <2>1
  <2> HIDE DEF d
  <2>4. [d EXCEPT !.wiped = clears.before] =
          [due |-> h.due, got |-> h.got, gone |-> gone, cut |-> h.cut, wiped |-> clears.before]
    BY <2>3
  <2> QED
    BY <2>2, <2>4 DEF h
<1>5. Reads[p] = 0 /\ Reads'[p] = IF isLock THEN 0 ELSE 1
  BY <1>0, <1>1 DEF TypeOK, Reads
<1>6. p \notin rw.queue /\ p \notin Writers'
  BY <1>0, <1>1 DEF IInv, TypeOK, LockInv, Writers, InCall
<1>7. \A u \in Threads : u # p => pc'[u] = pc[u] /\ loc'[u] = loc[u]
  BY <1>1
<1>8. LockInv' /\ rw' \in RWType
  <2>1. CASE isLock
    <3>1. LockInv'
      BY <1>0, <1>1, <1>5, <1>6, <1>7, <2>1, LockKept DEF Stays, TypeOK
    <3> QED
      BY <1>0, <1>1, <2>1, <3>1 DEF TypeOK
  <2>2. CASE ~isLock
    <3>1. pc'[p] = "wait" /\ ~loc'[p].isLock /\ Reads'[p] = Reads[p] + 1
      BY <1>0, <1>1, <1>5, <2>2 DEF TypeOK
    <3> QED
      BY <1>1, <1>6, <1>7, <2>2, <3>1, AskReadLock
  <2> QED
    BY <2>1, <2>2
<1>9. TypeOK'
  <2>1. hist' \in [Pushers -> [due : SUBSET Items, got : Seq(Items), gone : SUBSET Items,
                               cut : BOOLEAN, wiped : SUBSET Items]]
    <3>1. clears.before \subseteq Items /\ <<>> \in Seq(Items)
      BY <1>0 DEF TypeOK
    <3> QED
      BY <1>0, <1>3, <1>4, <3>1 DEF TypeOK
  <2>2. pc' \in [Threads -> Pcs] /\ pushes' \in [Pushers -> Nat]
    BY <1>0, <1>1 DEF TypeOK, Pcs
  <2>3. loc' \in [Threads -> [isLock : BOOLEAN, T : Kinds, el : Items \cup {Nil},
                              rel : Items \cup {Nil}, all : BOOLEAN, ret : Pcs]]
    BY <1>0, <1>1 DEF TypeOK, Pcs
  <2> QED
    BY <1>0, <1>1, <1>8, <2>1, <2>2, <2>3 DEF TypeOK, flags
<1>10. PlaceInv(p, pc[p], loc[p])' /\ ListInv(p, pc[p], loc[p].rel, disable, funcs)'
  BY <1>0, <1>1 DEF TypeOK, PlaceInv, ListInv
<1>11. /\ NotGone(pc[p], loc[p].el, hist[p], disable)'
       /\ InOrder(pc[p], loc[p].T, loc[p].el, hist[p], disable, funcs)'
  <2>1. pc'[p] \in {"want", "wait"}
    BY <1>0, <1>1 DEF TypeOK
  <2>2. /\ hist'[p].due = {} /\ hist'[p].got = <<>> /\ hist'[p].gone = gone
    BY <1>0, <1>2, <1>3 DEF TypeOK, NoHist
  <2>3. ToSet(<<>>) = {} /\ IsInjective(<<>>)
    BY DEF ToSet, IsInjective
  <2> QED
    BY <1>1, <1>4, <2>1, <2>2, <2>3 DEF NotGone, InOrder
<1>12. /\ \A u \in Threads : u # p => Stays(u)
       /\ \A q \in Pushers : q # p => hist'[q] = hist[q]
  BY <1>0, <1>3, <1>7 DEF TypeOK, Stays
<1> QED
  BY <1>0, <1>1, <1>8, <1>9, <1>10, <1>11, <1>12, StepKeeps

\* The lock is held: the cursor is at the front, and everyone due lies after it.
LEMMA PushEnterIInv ==
  ASSUME IInv, NEW p \in Pushers, PushEnter(p)
  PROVE  IInv'
<1> DEFINE due == {i \in ToSet(funcs) : Kind[i] = loc[p].T}
<1>0. p \in Threads /\ p \notin Items /\ p \notin Removers /\ TypeOK
  BY Sorts DEF IInv
<1>1. /\ pc[p] = "wait" /\ HasLock(p)
      /\ UNCHANGED <<funcs, disable, flags, rw, bounds>>
      /\ \/ /\ ~allNeedRemove /\ Goto(p, "loop") /\ loc' = [loc EXCEPT ![p].el = ListFront]
            /\ hist' = [hist EXCEPT ![p].due = due]
         \/ /\ allNeedRemove /\ loc[p].isLock /\ Goto(p, "swap")
            /\ loc' = [loc EXCEPT ![p].ret = "loop"] /\ hist' = hist
         \/ allNeedRemove /\ ~loc[p].isLock /\ Spawn(p, "unlock", Nil) /\ hist' = hist
  BY DEF PushEnter
<1>2. /\ loc[p].isLock => rw.writer = p /\ \A u \in Threads : rw.readers[u] = 0
      /\ p \notin rw.queue
  <2>1. CASE loc[p].isLock
    <3>1. Reads[p] = 0
      BY <1>0, <2>1 DEF Reads
    <3>2. p \notin rw.queue
      BY <1>0, <3>1 DEF IInv, TypeOK, LockInv, RWType
    <3> QED
      BY <1>1, <2>1, <3>2 DEF HasLock, RWHasLock
  <2>2. CASE ~loc[p].isLock
    BY <1>1, <2>2 DEF HasLock, RWReadGranted
  <2> QED
    BY <2>1, <2>2
<1>3. /\ NotGone("wait", loc[p].el, hist[p], disable)
      /\ InOrder("wait", loc[p].T, loc[p].el, hist[p], disable, funcs)
      /\ hist[p].got = <<>> /\ hist[p].due = {} /\ ToSet(hist[p].got) = {}
  <2>1. hist[p].got = <<>> /\ hist[p].due = {}
    BY <1>1 DEF IInv, InOrder
  <2>2. ToSet(<<>>) = {}
    BY DEF ToSet
  <2> QED
    BY <1>1, <2>1, <2>2 DEF IInv
<1>4. due \subseteq Items /\ due \subseteq ToSet(funcs) /\ \A i \in due : Kind[i] = loc[p].T
  BY <1>0, FrontFrom
<1> HIDE DEF due
<1>5. ASSUME pc'[p] \in {"loop", "swap", "unlock"}, loc'[p].isLock = loc[p].isLock
      PROVE  /\ Reads'[p] = Reads[p] /\ pc'[p] # "wait"
             /\ p \in Writers' => rw.writer = p /\ \A u \in Threads : rw.readers[u] = 0
  BY <1>0, <1>1, <1>2, <1>5 DEF Reads, Writers
<1>6. CASE /\ Goto(p, "loop") /\ loc' = [loc EXCEPT ![p].el = ListFront]
           /\ hist' = [hist EXCEPT ![p].due = due]
  <2>1. /\ pc' = [pc EXCEPT ![p] = "loop"]
        /\ loc' = [loc EXCEPT ![p] = [isLock |-> loc[p].isLock, T |-> loc[p].T, el |-> ListFront,
                                      rel |-> loc[p].rel, all |-> loc[p].all,
                                      ret |-> loc[p].ret]]
        /\ hist' = [hist EXCEPT ![p] = [due |-> due, got |-> hist[p].got, gone |-> hist[p].gone,
                                        cut |-> hist[p].cut, wiped |-> hist[p].wiped]]
    BY <1>0, <1>6, LocalField, HistField DEF Goto
  <2>2. /\ pc'[p] = "loop" /\ loc'[p].isLock = loc[p].isLock /\ loc'[p].T = loc[p].T
        /\ loc'[p].el = ListFront
        /\ hist'[p].due = due /\ hist'[p].got = hist[p].got /\ hist'[p].gone = hist[p].gone
    BY <1>0, <2>1 DEF TypeOK
  <2>3. TypeOK'
    <3>1. ListFront \in Items \cup {Nil}
      BY <1>0, FrontFrom
    <3>2. pc' \in [Threads -> Pcs] /\ loc' \in [Threads -> [isLock : BOOLEAN, T : Kinds,
            el : Items \cup {Nil}, rel : Items \cup {Nil}, all : BOOLEAN, ret : Pcs]]
      BY <1>0, <2>1, <3>1 DEF TypeOK, Pcs
    <3>3. hist' \in [Pushers -> [due : SUBSET Items, got : Seq(Items), gone : SUBSET Items,
                                 cut : BOOLEAN, wiped : SUBSET Items]]
      BY <1>0, <1>4, <2>1 DEF TypeOK
    <3> QED
      BY <1>0, <1>1, <3>2, <3>3 DEF TypeOK, flags, bounds
  <2>4. PlaceInv(p, pc[p], loc[p])' /\ ListInv(p, pc[p], loc[p].rel, disable, funcs)'
    BY <1>0, <2>2 DEF PlaceInv, ListInv
  <2>5. NotGone(pc[p], loc[p].el, hist[p], disable)'
    BY <1>1, <1>3, <2>2 DEF NotGone
  <2>6. InOrder(pc[p], loc[p].T, loc[p].el, hist[p], disable, funcs)'
    BY <1>0, <1>1, <1>3, <1>4, <2>2, FrontFrom DEF InOrder
  <2>7. /\ \A u \in Threads : u # p => Stays(u)
        /\ \A q \in Pushers : q # p => hist'[q] = hist[q]
    BY <1>0, <2>1 DEF TypeOK, Stays
  <2>8. LockInv'
    BY <1>0, <1>1, <1>2, <1>5, <2>2, <2>7, LockKept
  <2> QED
    BY <1>0, <1>1, <2>3, <2>4, <2>5, <2>6, <2>7, <2>8, StepKeeps
<1>7. CASE /\ loc[p].isLock /\ Goto(p, "swap")
           /\ loc' = [loc EXCEPT ![p].ret = "loop"] /\ hist' = hist
  <2>1. /\ pc' = [pc EXCEPT ![p] = "swap"]
        /\ loc' = [loc EXCEPT ![p] = [isLock |-> loc[p].isLock, T |-> loc[p].T, el |-> loc[p].el,
                                      rel |-> loc[p].rel, all |-> loc[p].all, ret |-> "loop"]]
    BY <1>0, <1>7, LocalField DEF Goto
  <2>2. /\ pc'[p] = "swap" /\ loc'[p].isLock = loc[p].isLock /\ loc'[p].T = loc[p].T
        /\ loc'[p].el = loc[p].el /\ loc'[p].ret = "loop"
    BY <1>0, <2>1 DEF TypeOK
  <2>3. TypeOK'
    <3>1. pc' \in [Threads -> Pcs] /\ loc' \in [Threads -> [isLock : BOOLEAN, T : Kinds,
            el : Items \cup {Nil}, rel : Items \cup {Nil}, all : BOOLEAN, ret : Pcs]]
      BY <1>0, <2>1 DEF TypeOK, Pcs
    <3> QED
      BY <1>0, <1>1, <1>7, <3>1 DEF TypeOK, flags, bounds
  <2>4. PlaceInv(p, pc[p], loc[p])' /\ ListInv(p, pc[p], loc[p].rel, disable, funcs)'
    BY <1>0, <1>7, <2>2 DEF PlaceInv, ListInv
  <2>5. NotGone(pc[p], loc[p].el, hist[p], disable)'
    BY <1>1, <1>3, <1>7, <2>2 DEF NotGone
  <2>6. InOrder(pc[p], loc[p].T, loc[p].el, hist[p], disable, funcs)'
    BY <1>1, <1>3, <1>7, <2>2 DEF InOrder
  <2>7. \A u \in Threads : u # p => Stays(u)
    BY <1>0, <2>1 DEF TypeOK, Stays
  <2>8. LockInv'
    BY <1>0, <1>1, <1>2, <1>5, <2>2, <2>7, LockKept
  <2> QED
    BY <1>0, <1>1, <1>7, <2>3, <2>4, <2>5, <2>6, <2>7, <2>8, StepKeeps
<1>8. CASE Spawn(p, "unlock", Nil) /\ hist' = hist
  <2>1. /\ pc'[p] = "unlock" /\ loc'[p].isLock = loc[p].isLock /\ loc'[p].T = loc[p].T
        /\ loc'[p].el = Nil /\ loc'[p].ret = loc[p].ret
        /\ \A u \in Threads : u # p => Stays(u)
        /\ pc' \in [Threads -> Pcs]
        /\ loc' \in [Threads -> [isLock : BOOLEAN, T : Kinds, el : Items \cup {Nil},
                                 rel : Items \cup {Nil}, all : BOOLEAN, ret : Pcs]]
    BY <1>0, <1>8, SpawnAlone DEF Pcs
  <2>2. TypeOK'
    BY <1>0, <1>1, <1>8, <2>1 DEF TypeOK, flags, bounds
  <2>3. PlaceInv(p, pc[p], loc[p])' /\ ListInv(p, pc[p], loc[p].rel, disable, funcs)'
    BY <1>0, <2>1 DEF PlaceInv, ListInv
  <2>4. NotGone(pc[p], loc[p].el, hist[p], disable)'
    BY <1>1, <1>3, <1>8, <2>1 DEF NotGone
  <2>5. InOrder(pc[p], loc[p].T, loc[p].el, hist[p], disable, funcs)'
    BY <1>1, <1>3, <1>8, <2>1 DEF InOrder
  <2>6. LockInv'
    BY <1>0, <1>1, <1>2, <1>5, <2>1, LockKept
  <2> QED
    BY <1>0, <1>1, <1>8, <2>1, <2>2, <2>3, <2>4, <2>5, <2>6, StepKeeps
<1> QED
  BY <1>1, <1>6, <1>7, <1>8

\* One turn of the loop: an item is passed over only if it is not due or disabled.
LEMMA VisitIInv ==
  ASSUME IInv, NEW p \in Pushers, Visit(p)
  PROVE  IInv'
<1> DEFINE i == loc[p].el
<1>0. p \in Threads /\ p \notin Items /\ p \notin Removers /\ TypeOK
  BY Sorts DEF IInv
<1>1. /\ pc[p] = "loop"
      /\ UNCHANGED <<funcs, disable, flags, rw, bounds, hist>>
      /\ \/ i = Nil /\ Goto(p, "unlock") /\ loc' = loc
         \/ i # Nil /\ Kind[i] = loc[p].T /\ i \notin disable /\ Goto(p, "call") /\ loc' = loc
         \/ i # Nil /\ ~(Kind[i] = loc[p].T /\ i \notin disable) /\ pc' = pc
            /\ loc' = [loc EXCEPT ![p].el = NextOf(i)]
  BY DEF Visit
<1>2. /\ NotGone("loop", i, hist[p], disable)
      /\ InOrder("loop", loc[p].T, i, hist[p], disable, funcs)
  BY <1>1 DEF IInv
<1>3. /\ p \notin rw.queue
      /\ p \in Writers => rw.writer = p /\ \A u \in Threads : rw.readers[u] = 0
      /\ loc[p].isLock => p \in Writers
  BY <1>0, <1>1 DEF IInv, LockInv, Writers, InCall
<1>4. ASSUME pc'[p] \in {"loop", "call", "unlock"}, loc'[p].isLock = loc[p].isLock
      PROVE  /\ Reads'[p] = Reads[p] /\ pc'[p] # "wait"
             /\ p \in Writers' => rw.writer = p /\ \A u \in Threads : rw.readers[u] = 0
  BY <1>0, <1>1, <1>3, <1>4 DEF Reads, Writers, InCall
<1>5. CASE loc' = loc /\ \/ i = Nil /\ Goto(p, "unlock")
                         \/ i # Nil /\ i \notin disable /\ Goto(p, "call")
  <2>1. /\ \A u \in Threads : u # p => Stays(u)
        /\ pc'[p] \in {"unlock", "call"}
        /\ i = Nil => pc'[p] = "unlock"
        /\ i # Nil => pc'[p] = "call" /\ i \notin disable
        /\ pc' \in [Threads -> Pcs]
    BY <1>0, <1>5 DEF TypeOK, Goto, Stays, Pcs
  <2>2. TypeOK'
    BY <1>0, <1>1, <1>5, <2>1 DEF TypeOK, flags, bounds
  <2>3. PlaceInv(p, pc[p], loc[p])' /\ ListInv(p, pc[p], loc[p].rel, disable, funcs)'
    BY <1>0, <1>5, <2>1 DEF PlaceInv, ListInv
  <2>4. NotGone(pc[p], loc[p].el, hist[p], disable)'
    BY <1>1, <1>2, <1>5, <2>1 DEF NotGone
  <2>5. InOrder(pc[p], loc[p].T, loc[p].el, hist[p], disable, funcs)'
    <3>1. From(funcs, Nil) = {}
      BY <1>0, FrontFrom
    <3> QED
      BY <1>1, <1>2, <1>5, <2>1, <3>1 DEF InOrder
  <2>6. LockInv'
    BY <1>0, <1>1, <1>3, <1>4, <1>5, <2>1, LockKept
  <2> QED
    BY <1>0, <1>1, <2>1, <2>2, <2>3, <2>4, <2>5, <2>6, StepKeeps
<1>6. CASE /\ ~(Kind[i] = loc[p].T /\ i \notin disable) /\ pc' = pc
           /\ loc' = [loc EXCEPT ![p].el = NextOf(i)]
  <2>1. loc' = [loc EXCEPT ![p] = [isLock |-> loc[p].isLock, T |-> loc[p].T, el |-> NextOf(i),
                                   rel |-> loc[p].rel, all |-> loc[p].all, ret |-> loc[p].ret]]
    BY <1>0, <1>6, LocalField
  <2>2. /\ loc'[p].isLock = loc[p].isLock /\ loc'[p].T = loc[p].T /\ loc'[p].el = NextOf(i)
        /\ \A u \in Threads : u # p => Stays(u)
    BY <1>0, <1>6, <2>1 DEF TypeOK, Stays
  <2>3. TypeOK'
    <3>1. NextOf(i) \in Items \cup {Nil}
      BY <1>0, NextFrom
    <3>2. loc' \in [Threads -> [isLock : BOOLEAN, T : Kinds, el : Items \cup {Nil},
                                rel : Items \cup {Nil}, all : BOOLEAN, ret : Pcs]]
      BY <1>0, <2>1, <3>1 DEF TypeOK
    <3> QED
      BY <1>0, <1>1, <1>6, <3>2 DEF TypeOK, flags, bounds
  <2>4. PlaceInv(p, pc[p], loc[p])' /\ ListInv(p, pc[p], loc[p].rel, disable, funcs)'
    BY <1>0, <1>1, <1>6, <2>2 DEF PlaceInv, ListInv
  <2>5. NotGone(pc[p], loc[p].el, hist[p], disable)'
    BY <1>1, <1>2, <1>6, <2>2 DEF NotGone
  <2>6. InOrder(pc[p], loc[p].T, loc[p].el, hist[p], disable, funcs)'
    <3>1. /\ NextOf(i) \in ToSet(funcs) \cup {Nil}
          /\ From(funcs, NextOf(i)) = After(funcs, i)
          /\ After(funcs, i) \subseteq From(funcs, i) /\ From(funcs, i) \subseteq After(funcs, i) \cup {i}
      BY <1>0, NextFrom, FromSplit
    <3>2. i \notin hist[p].due \ disable
      BY <1>2, <1>6 DEF InOrder
    <3> QED
      BY <1>1, <1>2, <1>6, <2>2, <3>1, <3>2 DEF InOrder
  <2>7. LockInv'
    BY <1>0, <1>1, <1>3, <1>4, <1>6, <2>2, LockKept
  <2> QED
    BY <1>0, <1>1, <2>2, <2>3, <2>4, <2>5, <2>6, <2>7, StepKeeps
<1> QED
  BY <1>1, <1>5, <1>6

\* A handler is called: it was at the cursor, so that nobody called it before.
LEMMA HandlerIInv ==
  ASSUME IInv, NEW p \in Pushers, NEW dis \in BOOLEAN, Handler(p, dis)
  PROVE  IInv'
<1> DEFINE i == loc[p].el
           got == Append(hist[p].got, i)
<1>0. p \in Threads /\ p \notin Items /\ p \notin Removers /\ TypeOK
  BY Sorts DEF IInv
<1>1. /\ pc[p] \in {"call", "ret"}
      /\ UNCHANGED <<funcs, disable, flags, rw, bounds>>
      /\ pc' = [pc EXCEPT ![p] = IF dis THEN "disable" ELSE "loop"]
      /\ loc' = IF dis THEN loc ELSE [loc EXCEPT ![p].el = NextOf(i)]
  BY DEF Handler, Goto
<1>2. hist' = [hist EXCEPT ![p] = [due |-> hist[p].due, got |-> got, gone |-> hist[p].gone,
                                   cut |-> hist[p].cut, wiped |-> hist[p].wiped]]
  <2> HIDE DEF got
  <2>1. hist' = [hist EXCEPT ![p].got = got]
    BY DEF Handler, got
  <2> QED
    BY <1>0, <2>1, HistField
<1>3. /\ NotGone(pc[p], i, hist[p], disable)
      /\ InOrder(pc[p], loc[p].T, i, hist[p], disable, funcs)
      /\ hist[p].got \in Seq(Items)
  BY DEF IInv, TypeOK
<1>4. /\ After(funcs, i) \subseteq From(funcs, i) /\ From(funcs, i) \subseteq After(funcs, i) \cup {i}
      /\ i \notin After(funcs, i)
  BY FromSplit
<1>5. i \in ToSet(funcs) /\ i \in Items /\ i \in From(funcs, i)
  <2>1. i \in ToSet(funcs) /\ i \in Items
    BY <1>0, <1>1, <1>3, FrontFrom DEF InOrder
  <2>2. PICK k \in 1..Len(funcs) : funcs[k] = i
    BY <1>0, <2>1, AtProperty
  <2> QED
    BY <1>0, <2>1, <2>2 DEF From, TypeOK
<1>6. i \notin ToSet(hist[p].got)
  BY <1>1, <1>3, <1>5 DEF InOrder
<1>7. got \in Seq(Items) /\ IsInjective(got) /\ ToSet(got) = ToSet(hist[p].got) \cup {i}
  <2> DEFINE g == hist[p].got
             n == Len(g)
  <2> HIDE DEF i
  <2>1. n \in Nat /\ DOMAIN g = 1..n /\ IsInjective(g)
    BY <1>1, <1>3 DEF InOrder
  <2>2. \A k \in 1..n : g[k] # i
    BY <1>6, <2>1 DEF ToSet
  <2>3. /\ got \in Seq(Items) /\ DOMAIN got = 1..(n + 1) /\ got[n + 1] = i
        /\ \A k \in 1..n : got[k] = g[k]
    BY <1>3, <1>5, <2>1
  <2>4. \A k \in 1..n : got[k] = g[k] /\ g[k] # got[n + 1]
    BY <2>2, <2>3
  <2> HIDE DEF got, g, n
  <2>5. IsInjective(got) /\ ToSet(got) = ToSet(g) \cup {got[n + 1]}
    BY ONLY <2>1, <2>3, <2>4, OneMore
  <2> QED
    BY <2>3, <2>5 DEF g
<1>8. /\ NextOf(i) \in ToSet(funcs) \cup {Nil} /\ NextOf(i) \in Items \cup {Nil}
      /\ From(funcs, NextOf(i)) = After(funcs, i)
  BY <1>0, NextFrom
<1> HIDE DEF got
<1>9. ToSet(got) \cap After(funcs, i) = {}
      /\ (hist[p].cut \/ hist[p].due \ disable \subseteq ToSet(got) \cup After(funcs, i))
      /\ ToSet(got) \cap hist[p].gone = {} /\ i # Nil
  BY <1>1, <1>3, <1>4, <1>7 DEF NotGone, InOrder
<1>10. /\ pc'[p] = IF dis THEN "disable" ELSE "loop"
       /\ loc'[p].isLock = loc[p].isLock /\ loc'[p].T = loc[p].T
       /\ loc'[p].el = IF dis THEN i ELSE NextOf(i)
       /\ \A u \in Threads : u # p => Stays(u)
       /\ pc' \in [Threads -> Pcs]
       /\ loc' \in [Threads -> [isLock : BOOLEAN, T : Kinds, el : Items \cup {Nil},
                                rel : Items \cup {Nil}, all : BOOLEAN, ret : Pcs]]
  <2>1. pc'[p] = (IF dis THEN "disable" ELSE "loop") /\ pc' \in [Threads -> Pcs]
    BY <1>0, <1>1 DEF TypeOK, Pcs
  <2>2. CASE dis
    BY <1>0, <1>1, <2>1, <2>2 DEF TypeOK, Stays
  <2>3. CASE ~dis
    <3>1. loc' = [loc EXCEPT ![p] = [isLock |-> loc[p].isLock, T |-> loc[p].T,
                                     el |-> NextOf(i), rel |-> loc[p].rel,
                                     all |-> loc[p].all, ret |-> loc[p].ret]]
      BY <1>0, <1>1, <2>3, LocalField
    <3>2. NextOf(i) \in Items \cup {Nil}
      BY <1>8
    <3> HIDE DEF i
    <3>3. /\ loc'[p].isLock = loc[p].isLock /\ loc'[p].T = loc[p].T /\ loc'[p].el = NextOf(i)
          /\ \A u \in Threads : u # p => loc'[u] = loc[u]
      BY <1>0, <3>1 DEF TypeOK
    <3>4. loc' \in [Threads -> [isLock : BOOLEAN, T : Kinds, el : Items \cup {Nil},
                                rel : Items \cup {Nil}, all : BOOLEAN, ret : Pcs]]
      BY <1>0, <3>1, <3>2 DEF TypeOK
    <3>5. \A u \in Threads : u # p => pc'[u] = pc[u]
      BY <1>0, <1>1 DEF TypeOK
    <3> QED
      BY <1>0, <2>1, <2>3, <3>3, <3>4, <3>5 DEF Stays
  <2> QED
    BY <2>2, <2>3
<1>11. /\ hist'[p].due = hist[p].due /\ hist'[p].got = got /\ hist'[p].gone = hist[p].gone
       /\ hist'[p].cut = hist[p].cut
       /\ \A q \in Pushers : q # p => hist'[q] = hist[q]
  BY <1>0, <1>2 DEF TypeOK
<1>12. TypeOK'
  <2>1. hist' \in [Pushers -> [due : SUBSET Items, got : Seq(Items), gone : SUBSET Items,
                               cut : BOOLEAN, wiped : SUBSET Items]]
    BY <1>0, <1>2, <1>7 DEF TypeOK
  <2> QED
    BY <1>0, <1>1, <1>10, <2>1 DEF TypeOK, flags, bounds
<1>13. PlaceInv(p, pc[p], loc[p])' /\ ListInv(p, pc[p], loc[p].rel, disable, funcs)'
  BY <1>0, <1>10 DEF PlaceInv, ListInv
<1>14. NotGone(pc[p], loc[p].el, hist[p], disable)'
  BY <1>1, <1>3, <1>9, <1>10, <1>11 DEF NotGone
<1>15. InOrder(pc[p], loc[p].T, loc[p].el, hist[p], disable, funcs)'
  <2>1. IsInjective(got) /\ \A e \in hist[p].due : Kind[e] = loc[p].T
    BY <1>3, <1>7 DEF InOrder
  <2> QED
    BY <1>1, <1>8, <1>9, <1>10, <1>11, <2>1 DEF InOrder
<1>16. /\ Reads'[p] = Reads[p] /\ p \notin rw.queue
       /\ p \in Writers' => rw.writer = p /\ \A u \in Threads : rw.readers[u] = 0
  <2>1. \A t \in rw.queue : pc[t] \in {"wait", "nest"}
    BY DEF IInv, LockInv
  <2>2. p \notin rw.queue
    BY <1>1, <2>1
  <2>3. pc'[p] \in {"loop", "disable"}
    BY <1>10
  <2>4. Reads[p] = (IF loc[p].isLock THEN 0 ELSE 1)
    BY <1>0, <1>1 DEF Reads
  <2>5. Reads'[p] = (IF loc'[p].isLock THEN 0 ELSE 1)
    BY <1>0, <2>3 DEF Reads
  <2>6. p \in Writers' => p \in Writers
    BY <1>0, <1>1, <1>10 DEF Writers, InCall
  <2>7. Reads'[p] = Reads[p]
    BY <1>10, <2>4, <2>5
  <2>8. p \in Writers => rw.writer = p /\ \A u \in Threads : rw.readers[u] = 0
    BY <1>0 DEF IInv, LockInv
  <2> QED
    BY <2>2, <2>6, <2>7, <2>8
<1>17. LockInv'
  BY <1>0, <1>1, <1>10, <1>16, LockKept
<1> QED
  BY <1>0, <1>1, <1>10, <1>11, <1>12, <1>13, <1>14, <1>15, <1>17, StepKeeps

\* The handler asked to be disabled.
LEMMA DisableIInv ==
  ASSUME IInv, NEW p \in Pushers, Disable(p)
  PROVE  IInv'
<1>0. p \in Threads /\ p \notin Items /\ p \notin Removers /\ TypeOK
  BY Sorts DEF IInv
<1>1. /\ pc[p] = "disable" /\ pc' = [pc EXCEPT ![p] = "cas"]
      /\ disable' = disable \cup {loc[p].el}
      /\ UNCHANGED <<funcs, flags, rw, loc, bounds, hist>>
  BY DEF Disable, Goto
<1>2. /\ NotGone(pc[p], loc[p].el, hist[p], disable)
      /\ InOrder(pc[p], loc[p].T, loc[p].el, hist[p], disable, funcs)
      /\ loc[p].el \in Items
  BY <1>0, <1>1 DEF IInv, TypeOK, InOrder
<1>3. pc'[p] = "cas" /\ (\A u \in Threads : u # p => Stays(u)) /\ pc' \in [Threads -> Pcs]
  BY <1>0, <1>1 DEF TypeOK, Stays, Pcs
<1>4. TypeOK'
  BY <1>0, <1>1, <1>2, <1>3 DEF TypeOK, flags, bounds
<1>5. PlaceInv(p, pc[p], loc[p])' /\ ListInv(p, pc[p], loc[p].rel, disable, funcs)'
  BY <1>0, <1>1, <1>3 DEF PlaceInv, ListInv
<1>6. NotGone(pc[p], loc[p].el, hist[p], disable)'
  BY <1>1, <1>2, <1>3 DEF NotGone
<1>7. InOrder(pc[p], loc[p].T, loc[p].el, hist[p], disable, funcs)'
  BY <1>1, <1>2, <1>3 DEF InOrder
<1>8. /\ Reads'[p] = Reads[p] /\ p \notin rw.queue
      /\ p \in Writers' => rw.writer = p /\ \A u \in Threads : rw.readers[u] = 0
  BY <1>0, <1>1, <1>3 DEF IInv, LockInv, Reads, Writers, InCall
<1>9. LockInv'
  BY <1>0, <1>1, <1>3, <1>8, LockKept
<1> QED
  BY <1>0, <1>1, <1>3, <1>4, <1>5, <1>6, <1>7, <1>9, StepKeeps

\* A handler pushes itself: a second read lock is asked for.
LEMMA NestBeginIInv ==
  ASSUME IInv, NEW p \in Pushers, NestBegin(p)
  PROVE  IInv'
<1>0. p \in Threads /\ p \notin Items /\ p \notin Removers /\ TypeOK
  BY Sorts DEF IInv
<1>1. /\ pc[p] = "call" /\ pc' = [pc EXCEPT ![p] = "nest"] /\ ~loc[p].isLock
      /\ rw' = RWAskRead(rw, p)
      /\ UNCHANGED <<funcs, disable, flags, loc, bounds, hist>>
  BY DEF NestBegin, Goto
<1>2. /\ pc'[p] = "nest" /\ pc' \in [Threads -> Pcs]
      /\ \A u \in Threads : u # p => pc'[u] = pc[u] /\ loc'[u] = loc[u]
  BY <1>0, <1>1 DEF TypeOK, Pcs
<1>3. p \notin rw.queue /\ Reads'[p] = Reads[p] + 1
  <2>1. Reads[p] = 1 /\ Reads'[p] = 2
    BY <1>0, <1>1, <1>2 DEF Reads
  <2> QED
    BY <1>1, <2>1 DEF IInv, LockInv
<1>4. LockInv' /\ rw' \in RWType
  BY <1>1, <1>2, <1>3, AskReadLock
<1>5. TypeOK'
  BY <1>0, <1>1, <1>2, <1>4 DEF TypeOK, flags, bounds
<1>6. PlaceInv(p, pc[p], loc[p])' /\ ListInv(p, pc[p], loc[p].rel, disable, funcs)'
  BY <1>0, <1>1, <1>2 DEF PlaceInv, ListInv
<1>7. /\ NotGone(pc[p], loc[p].el, hist[p], disable)
      /\ InOrder(pc[p], loc[p].T, loc[p].el, hist[p], disable, funcs)
  BY DEF IInv
<1>8. NotGone(pc[p], loc[p].el, hist[p], disable)'
  BY <1>1, <1>2, <1>7 DEF NotGone
<1>9. InOrder(pc[p], loc[p].T, loc[p].el, hist[p], disable, funcs)'
  BY <1>1, <1>2, <1>7 DEF InOrder
<1> QED
  BY <1>0, <1>1, <1>2, <1>4, <1>5, <1>6, <1>8, <1>9, StepKeeps DEF Stays

\* That push returns.
LEMMA NestEndIInv ==
  ASSUME IInv, NEW p \in Pushers, NestEnd(p)
  PROVE  IInv'
<1>0. p \in Threads /\ p \notin Items /\ p \notin Removers /\ TypeOK
      /\ loc[p].el \in Items \cup {Nil}
  BY Sorts DEF IInv, TypeOK
<1>1. /\ pc[p] = "nest" /\ p \notin rw.queue /\ rw' = RWRUnlock(rw, p)
      /\ Spawn(p, "ret", loc[p].el) \/ (Goto(p, "ret") /\ loc' = loc)
      /\ UNCHANGED <<funcs, disable, flags, bounds, hist>>
  BY DEF NestEnd, RWReadGranted
<1>2. /\ pc'[p] = "ret" /\ loc'[p].isLock = loc[p].isLock /\ loc'[p].T = loc[p].T
      /\ loc'[p].el = loc[p].el /\ loc'[p].ret = loc[p].ret
      /\ \A u \in Threads : u # p => Stays(u)
      /\ pc' \in [Threads -> Pcs]
      /\ loc' \in [Threads -> [isLock : BOOLEAN, T : Kinds, el : Items \cup {Nil},
                               rel : Items \cup {Nil}, all : BOOLEAN, ret : Pcs]]
  <2>1. CASE Spawn(p, "ret", loc[p].el)
    BY <1>0, <2>1, SpawnAlone DEF Pcs
  <2>2. CASE Goto(p, "ret") /\ loc' = loc
    BY <1>0, <2>2 DEF Goto, TypeOK, Pcs, Stays
  <2> QED
    BY <1>1, <2>1, <2>2
<1>3. ~loc[p].isLock /\ Reads[p] = 2 /\ Reads'[p] = 1
  <2>1. ~loc[p].isLock
    BY <1>0, <1>1 DEF IInv, PlaceInv
  <2> QED
    BY <1>0, <1>1, <1>2, <2>1 DEF Reads
<1>4. LockInv' /\ rw' \in RWType
  BY <1>1, <1>2, <1>3, ReturnReadLock
<1>5. TypeOK'
  BY <1>0, <1>1, <1>2, <1>4 DEF TypeOK, flags, bounds
<1>6. PlaceInv(p, pc[p], loc[p])' /\ ListInv(p, pc[p], loc[p].rel, disable, funcs)'
  BY <1>0, <1>2 DEF PlaceInv, ListInv
<1>7. /\ NotGone(pc[p], loc[p].el, hist[p], disable)
      /\ InOrder(pc[p], loc[p].T, loc[p].el, hist[p], disable, funcs)
  BY DEF IInv
<1>8. NotGone(pc[p], loc[p].el, hist[p], disable)'
  BY <1>1, <1>2, <1>7 DEF NotGone
<1>9. InOrder(pc[p], loc[p].T, loc[p].el, hist[p], disable, funcs)'
  BY <1>1, <1>2, <1>7 DEF InOrder
<1> QED
  BY <1>0, <1>1, <1>2, <1>4, <1>5, <1>6, <1>8, <1>9, StepKeeps

\* Every step keeps the invariant.
LEMMA NextIInv ==
  ASSUME IInv, [Next]_vars
  PROVE  IInv'
<1>1. ASSUME NEW t \in Threads, Step(t) PROVE IInv'
  <2>1. CASE Announce(t)
    BY <2>1, AnnounceIInv
  <2>2. CASE Unlock(t)
    BY <2>2, UnlockIInv
  <2>3. CASE RemoverStep(t)
    BY <2>3, RemoveSwapIInv, RemoveScanIInv, RemoveScanEndIInv, RemoveStoreIInv DEF RemoverStep
  <2>4. CASE CompareAndSwap(t)
    BY <2>4, CompareAndSwapIInv
  <2>5. CASE t \in Items /\ OwnerStep(t)
    BY <2>5, RegisterEnterIInv, InsertIInv DEF OwnerStep
  <2>6. CASE t \in Pushers /\ PushStep(t)
    BY <2>6, PushEnterIInv, VisitIInv, HandlerIInv, DisableIInv, NestBeginIInv, NestEndIInv
       DEF PushStep
  <2> QED
    BY <1>1, <2>1, <2>2, <2>3, <2>4, <2>5, <2>6 DEF Step
<1>2. ASSUME NEW i \in Items, Register(i) \/ Cancel(i) PROVE IInv'
  BY <1>2, RegisterIInv, CancelIInv
<1>3. ASSUME NEW p \in Pushers, NEW T \in Kinds, NEW isLock \in BOOLEAN, Push(p, T, isLock)
      PROVE  IInv'
  BY <1>3, PushIInv
<1>4. CASE ClearAll
  BY <1>4, ClearAllIInv
<1>5. CASE UNCHANGED vars
  <2>1. UNCHANGED <<funcs, disable, someNeedRemove, allNeedRemove, rw, pc, loc, pushes, clears, hist>>
    BY <1>5 DEF vars
  <2>2. TypeOK'
    BY <2>1 DEF IInv, TypeOK
  <2>3. LockInv'
    BY <2>1 DEF IInv, LockInv, Writers, Reads
  <2> QED
    BY <2>1, <2>2, <2>3 DEF IInv
<1> QED
  BY <1>1, <1>2, <1>3, <1>4, <1>5 DEF Next

----------------------------------------------------------------------------
(* The theorems of Msgq.                                                   *)

\* The state is well typed, the lock is held as its protocol says, and every
\* push stands to the list as InOrder and NotGone say.
THEOREM RunCorrect == Spec => []IInv
<1>1. Init => IInv
  BY InitIInv
<1>2. IInv /\ [Next]_vars => IInv'
  BY NextIInv
<1> QED
  BY <1>1, <1>2, PTL DEF Spec

\* The types of the state, in Msgq's own words.
THEOREM TypeCorrect == Spec => []TypeOK
<1>1. IInv => TypeOK
  BY DEF IInv
<1> QED
  BY <1>1, RunCorrect, PTL

\* A push never calls a handler whose cancel had returned when it began: cancel
\* sets the flag before it returns and the loop tests it before each call.
THEOREM NoCallAfterCancelCorrect == Spec => []NoCallAfterCancel
<1>1. IInv => NoCallAfterCancel
  BY DEF IInv, NotGone, NoCallAfterCancel
<1> QED
  BY <1>1, RunCorrect, PTL

\* A push that reaches its end called every item of its type that was listed
\* when it began and was not disabled meanwhile, and none of them twice, unless
\* it removed elements itself.
THEOREM EveryoneCalledOnceCorrect == Spec => []EveryoneCalledOnce
<1>1. ASSUME IInv PROVE EveryoneCalledOnce
  <2>1. \A p \in Pushers : InOrder(pc[p], loc[p].T, loc[p].el, hist[p], disable, funcs)
    BY <1>1 DEF IInv
  <2> QED
    BY <2>1 DEF InOrder, EveryoneCalledOnce
<1> QED
  BY <1>1, RunCorrect, PTL

\* The list stands still under a push that iterates with the read lock: only a
\* goroutine that has the write lock inserts or removes.
THEOREM ListStableCorrect == Spec => ListStable
<1> DEFINE Reader(p) == Iterating(p) /\ ~loc[p].isLock
           Stable == (\E p \in Pushers : Reader(p)) => funcs' = funcs
<1>1. ASSUME IInv, Next, NEW p \in Pushers, Reader(p) PROVE funcs' = funcs
  <2>1. ASSUME NEW t \in Threads, t \in Writers PROVE FALSE
    <3>1. t # p
      BY <1>1, <2>1 DEF Writers
    <3> QED
      BY <1>1, <2>1, <3>1, Alone, Sorts DEF Iterating
  <2>2. ASSUME NEW t \in Threads, Step(t) PROVE funcs' = funcs
    <3>1. CASE RemoveScan(t)
      <4>1. t \in Writers
        BY <1>1, <3>1, Sorts DEF IInv, PlaceInv, RemoveScan, Writers, InCall
      <4> QED
        BY <2>1, <4>1
    <3>2. CASE t \in Items /\ Insert(t)
      <4>1. t \in Writers
        BY <1>1, <3>2, Sorts DEF IInv, PlaceInv, Insert, Writers, InCall
      <4> QED
        BY <2>1, <4>1
    <3> QED
      BY <2>2, <3>1, <3>2
         DEF Step, Announce, Unlock, RemoverStep, RemoveSwap, RemoveScanEnd, RemoveStore,
             CompareAndSwap, OwnerStep, RegisterEnter, PushStep, PushEnter, Visit, Handler,
             Disable, NestBegin, NestEnd
  <2> QED
    BY <1>1, <2>2 DEF Next, Register, Cancel, Push, ClearAll
<1>2. IInv /\ [Next]_vars => [Stable]_vars
  BY <1>1
<1> QED
  BY <1>2, RunCorrect, PTL DEF Spec, ListStable

----------------------------------------------------------------------------
(* Sets of natural numbers.                                                *)

\* A set of natural numbers has a smallest one.
LEMMA SmallestNat ==
  ASSUME NEW S \in SUBSET Nat, S # {}
  PROVE  \E n \in S : \A k \in S : n <= k
<1> DEFINE R == OpToRel(<, Nat)
<1>1. IsWellFoundedOn(R, Nat)
  BY NatLessThanWellFounded
<1>2. \E x \in S : \A y \in S : ~ (<<y, x>> \in R)
  <2> HIDE DEF R
  <2> QED
    BY <1>1, WFMin
<1>3. \A x, y \in Nat : <<y, x>> \in R <=> y < x
  BY DEF OpToRel
<1>4. PICK n \in S : \A k \in S : ~ (<<k, n>> \in R)
  BY <1>2
<1> HIDE DEF R
<1>5. \A k \in S : k \in Nat /\ n \in Nat /\ ~(k < n)
  BY <1>3, <1>4
<1> QED
  BY <1>5

----------------------------------------------------------------------------
(* The tagged adapters.                                                    *)

TagWalk == [pc : {"idle", "visit", "tag", "chain", "async", "tagAsync", "asyncEnd", "syncmap"},
            todo : Seq(Tags!TagItems), fn : Nat, cancels : Seq(Tags!Members)]
TagPast == [pushes : Nat, said : SUBSET Tags!TagItems, wished : SUBSET Nat, early : BOOLEAN,
            mixed : SUBSET Tags!TagItems, panic : BOOLEAN]
TagRuns == [disabled : BOOLEAN, run : Nat]

\* The types; a pusher in a handler has one of its kind at the head of what it visits.
TagTypes ==
  /\ items \in [list : Seq(Tags!TagItems), off : SUBSET Tags!TagItems]
  /\ group \in [cancel : Nat, pre : [Tags!Members -> Nat], at : Nat,
                pc : {"register", "swap", "assign", "done", "cancelled"}]
  /\ asyncs \in [Tags!Async -> TagRuns]
  /\ smap \in [cur : Nat, n : Nat]
  /\ walk \in [TagPushers -> TagWalk]
  /\ past \in TagPast
  /\ \A p \in TagPushers :
       /\ walk[p].pc \notin {"idle", "visit"} => walk[p].todo # <<>>
       /\ walk[p].pc = "tag" => Tags!KindOf(Head(walk[p].todo)) = "tag"
       /\ walk[p].pc \in {"async", "tagAsync", "asyncEnd"} => Head(walk[p].todo) \in Tags!Async

\* How far the batch is; a member has its pre when the next one is registered.
TagBatch ==
  /\ group.pc \in {"register", "swap"} => group.cancel = group.at - 1
  /\ group.pc = "assign" => group.cancel = group.at
  /\ group.pc \in {"register", "swap", "assign"} => group.at \in Tags!Members
  /\ group.pc \in {"done", "cancelled"} =>
       group.at = Len(Batch) + 1 /\ group.cancel = Len(Batch)
  /\ \A i \in Tags!Members : group.pre[i] = IF i < group.at THEN i - 1 ELSE 0

\* Only a function that asks before the batch is complete finds no chain, and one that
\* asks later has disabled the batch, or somebody is about to.
TagTogether ==
  ~past.early =>
    /\ ~past.panic
    /\ past.said \cap Tags!Tagged # {} =>
         \/ Tags!Members \subseteq items.off
         \/ \E p \in TagPushers :
              /\ walk[p].pc = "chain"
              /\ Tags!Members \subseteq items.off \cup Tags!ToSet(walk[p].cancels)

\* An asynchronous function that asked is disabled; the one of Pull_tag_async_only has
\* no other goroutine then.
TagDisabled ==
  \A i \in past.said \cap (Tags!Async \ past.mixed) :
    /\ Tags!KindOf(i) = "async" => asyncs[i].disabled /\ asyncs[i].run = 0
    /\ Tags!KindOf(i) = "tagAsync" => asyncs[i].disabled \/ i \in items.off

\* A function of the map that is not there any more asked for it.
TagMap == smap.cur = smap.n \/ (smap.cur = 0 /\ smap.n \in past.wished)

TagInv == TagTypes /\ TagBatch /\ TagTogether /\ TagDisabled /\ TagMap

\* The kinds of the items.
LEMMA TagKinds ==
  /\ Len(Batch) \in Nat /\ Len(Batch) # 0
  /\ Tags!Members = 1..Len(Batch) /\ Tags!Members \subseteq Tags!TagItems
  /\ \A i \in Tags!TagItems : Tags!KindOf(i) \in {"async", "syncmap", "tag", "tagAsync"}
  /\ \A i \in Tags!Members : Tags!KindOf(i) \in {"tag", "tagAsync"}
  /\ \A i \in Tags!TagItems :
       /\ Tags!KindOf(i) \in {"tag", "tagAsync"} => i \in Tags!Members
       /\ i \in Tags!Async <=> Tags!KindOf(i) \in {"async", "tagAsync"}
       /\ i \in Tags!Tagged <=> Tags!KindOf(i) = "tag"
  /\ Tags!Tagged \subseteq Tags!Members /\ Tags!Async \subseteq Tags!TagItems
<1>1. Batch \in Seq({"tag", "tagAsync"}) /\ Batch # <<>>
  BY MsgqAssumptions DEF Tags!TagGroupAssumption
<1>2. Len(Batch) \in Nat /\ Len(Batch) # 0
  BY <1>1
<1>3. Tags!Members = 1..Len(Batch) /\ Tags!Members \subseteq Tags!TagItems
  BY DEF Tags!Members, Tags!TagItems
<1>4. \A i \in Tags!Members : Tags!KindOf(i) = Batch[i] /\ Batch[i] \in {"tag", "tagAsync"}
  BY <1>1, <1>2, <1>3 DEF Tags!KindOf
<1>5. Tags!KindOf(0) = "async" /\ Tags!KindOf(-1) = "syncmap"
  BY DEF Tags!KindOf
<1>6. Tags!TagItems = {0, -1} \cup Tags!Members
  BY DEF Tags!TagItems
<1> QED
  BY <1>2, <1>3, <1>4, <1>5, <1>6 DEF Tags!Async, Tags!Tagged

\* The chain calls the cancels of the members registered so far, the oldest first.
LEMMA TagChain ==
  ASSUME TagTypes, TagBatch
  PROVE  \A i \in 0..Len(Batch) :
           Tags!Chain[i] = IF i < group.at THEN [j \in 1..i |-> j] ELSE <<i>>
<1> DEFINE f == [i \in 0..Len(Batch) |-> IF i < group.at THEN [j \in 1..i |-> j] ELSE <<i>>]
<1>1. /\ group.at \in Nat /\ group.at # 0 /\ Len(Batch) \in Nat
      /\ Tags!Members = 1..Len(Batch)
      /\ \A i \in 1..Len(Batch) : group.pre[i] = IF i < group.at THEN i - 1 ELSE 0
  BY TagKinds DEF TagTypes, TagBatch
<1>2. f[0] = <<>> /\ \A i \in 0..Len(Batch) :
        f[i] = IF i < group.at THEN [j \in 1..i |-> j] ELSE <<i>>
  BY <1>1
<1>3. DOMAIN f = 0..Len(Batch) /\ f = [i \in 0..Len(Batch) |-> f[i]]
  OBVIOUS
<1> HIDE DEF f
<1>4. ASSUME NEW i \in 1..Len(Batch)
      PROVE  f[i] = Append(f[group.pre[i]], i)
  <2>1. i \in 0..Len(Batch)
    BY <1>1
  <2>2. CASE i < group.at
    <3>1. group.pre[i] = i - 1 /\ i - 1 \in 0..Len(Batch) /\ i - 1 < group.at
      BY <1>1, <2>2
    <3>2. f[i] = [j \in 1..i |-> j] /\ f[i - 1] = [j \in 1..(i-1) |-> j]
      BY <1>2, <2>1, <2>2, <3>1
    <3>3. [j \in 1..i |-> j] = Append([j \in 1..(i-1) |-> j], i)
      OBVIOUS
    <3> QED
      BY <3>1, <3>2, <3>3
  <2>3. CASE ~(i < group.at)
    <3>1. group.pre[i] = 0 /\ f[i] = <<i>>
      BY <1>1, <1>2, <2>1, <2>3
    <3>2. Append(<<>>, i) = <<i>>
      OBVIOUS
    <3> QED
      BY <1>2, <3>1, <3>2
  <2> QED
    BY <2>2, <2>3
<1>5. f = [i \in 0..Len(Batch) |-> IF i = 0 THEN <<>> ELSE Append(f[group.pre[i]], i)]
  <2>1. ASSUME NEW i \in 0..Len(Batch)
        PROVE  f[i] = IF i = 0 THEN <<>> ELSE Append(f[group.pre[i]], i)
    <3>1. CASE i = 0
      BY <1>2, <3>1
    <3>2. CASE i # 0
      <4>1. i \in 1..Len(Batch)
        BY <1>1, <3>2
      <4>2. f[i] = Append(f[group.pre[i]], i)
        BY <1>4, <4>1
      <4> QED
        BY <3>2, <4>2
    <3> QED
      BY <3>1, <3>2
  <2> QED
    BY <1>3, <2>1
<1>6. Tags!Chain = [i \in 0..Len(Batch) |->
                      IF i = 0 THEN <<>> ELSE Append(Tags!Chain[group.pre[i]], i)]
  <2>1. \E c : c = [i \in 0..Len(Batch) |-> IF i = 0 THEN <<>> ELSE Append(c[group.pre[i]], i)]
    BY <1>5
  <2> QED
    BY <2>1 DEF Tags!Chain
<1>7. \A i \in 0..Len(Batch) :
        Tags!Chain[i] = IF i = 0 THEN <<>> ELSE Append(Tags!Chain[group.pre[i]], i)
  BY <1>6
<1> DEFINE Bad == {i \in 0..Len(Batch) : Tags!Chain[i] # f[i]}
<1>8. Bad = {}
  <2> SUFFICES ASSUME Bad # {}
               PROVE  FALSE
    OBVIOUS
  <2>1. Bad \in SUBSET Nat
    BY <1>1
  <2>2. PICK m \in Bad : \A k \in Bad : m <= k
    BY <2>1, SmallestNat
  <2>3. m \in 0..Len(Batch) /\ Tags!Chain[m] # f[m]
    OBVIOUS
  <2>4. m # 0
    BY <1>1, <1>2, <1>7, <2>3
  <2>5. m \in 1..Len(Batch) /\ group.pre[m] \in 0..Len(Batch) /\ group.pre[m] < m
    BY <1>1, <2>3, <2>4
  <2>6. Tags!Chain[group.pre[m]] = f[group.pre[m]]
    BY <2>1, <2>2, <2>5
  <2> QED
    BY <1>4, <1>7, <2>3, <2>4, <2>5, <2>6
<1> QED
  BY <1>2, <1>8

\* A chain calls members; that of the complete batch calls all of them.
LEMMA TagChainMembers ==
  ASSUME TagTypes, TagBatch
  PROVE  /\ Tags!Chain[group.cancel] \in Seq(Tags!Members)
         /\ group.pc \in {"done", "cancelled"} =>
              group.cancel # 0 /\ Tags!Members \subseteq Tags!ToSet(Tags!Chain[group.cancel])
<1>1. /\ Len(Batch) \in Nat /\ Len(Batch) # 0 /\ Tags!Members = 1..Len(Batch)
      /\ group.at \in Nat /\ group.cancel \in 0..Len(Batch)
  BY TagKinds DEF TagTypes, TagBatch
<1> DEFINE c == group.cancel
           chain == Tags!Chain[c]
<1>2. chain = IF c < group.at THEN [j \in 1..c |-> j] ELSE <<c>>
  BY <1>1, TagChain
<1>3. c = 0 => c < group.at
  BY <1>1 DEF TagTypes, TagBatch
<1>4. chain \in Seq(Tags!Members)
  <2>1. [j \in 1..c |-> j] \in Seq(1..Len(Batch))
    BY <1>1
  <2>2. c # 0 => <<c>> \in Seq(1..Len(Batch))
    BY <1>1
  <2> QED
    BY <1>1, <1>2, <1>3, <2>1, <2>2
<1>5. ASSUME group.pc \in {"done", "cancelled"}
      PROVE  c # 0 /\ Tags!Members \subseteq Tags!ToSet(chain)
  <2>1. c = Len(Batch) /\ group.at = Len(Batch) + 1
    BY <1>5 DEF TagBatch
  <2>2. chain = [j \in 1..Len(Batch) |-> j]
    BY <1>1, <1>2, <2>1
  <2>3. DOMAIN chain = 1..Len(Batch) /\ \A j \in 1..Len(Batch) : chain[j] = j
    BY <2>2
  <2> HIDE DEF chain
  <2>4. \A j \in 1..Len(Batch) : j \in {chain[k] : k \in DOMAIN chain}
    BY <2>3
  <2> QED
    BY <1>1, <2>1, <2>4 DEF Tags!ToSet
<1> QED
  BY <1>4, <1>5

\* At the start nothing has happened.
LEMMA TagInit == Tags!Init => TagInv
<1> SUFFICES ASSUME Tags!Init
             PROVE  TagInv
  OBVIOUS
<1>1. 0 \in Tags!TagItems /\ -1 \in Tags!TagItems
  BY DEF Tags!TagItems
<1>2. TagTypes
  <2>1. items \in [list : Seq(Tags!TagItems), off : SUBSET Tags!TagItems]
    BY <1>1 DEF Tags!Init
  <2>2. group \in [cancel : Nat, pre : [Tags!Members -> Nat], at : Nat,
                   pc : {"register", "swap", "assign", "done", "cancelled"}]
    BY DEF Tags!Init
  <2>3. asyncs \in [Tags!Async -> TagRuns]
    BY DEF Tags!Init, TagRuns
  <2>4. smap \in [cur : Nat, n : Nat] /\ past \in TagPast
    BY DEF Tags!Init, TagPast
  <2>5. walk \in [TagPushers -> TagWalk] /\ \A p \in TagPushers : walk[p].pc = "idle"
    BY DEF Tags!Init, Tags!NoWalk, Tags!At, TagWalk
  <2> QED
    BY <2>1, <2>2, <2>3, <2>4, <2>5 DEF TagTypes
<1>3. TagBatch
  BY TagKinds DEF Tags!Init, TagBatch
<1>4. TagTogether /\ TagDisabled /\ TagMap
  BY DEF Tags!Init, TagTogether, TagDisabled, TagMap
<1> QED
  BY <1>2, <1>3, <1>4 DEF TagInv

\* What a pusher does next, with the handlers that are left.
LEMMA TagAt ==
  ASSUME NEW at \in {"idle", "visit"}, NEW todo \in Seq(Tags!TagItems)
  PROVE  /\ Tags!At(at, todo) \in TagWalk
         /\ Tags!At(at, todo).pc = at /\ Tags!At(at, todo).todo = todo
BY DEF Tags!At, TagWalk

\* A step of a pusher leaves those of the others as they are.
LEMMA TagWalked ==
  ASSUME TagTypes, NEW p \in TagPushers,
         \E new \in TagWalk :
           /\ new.pc \notin {"idle", "visit"} => new.todo # <<>>
           /\ new.pc = "tag" => Tags!KindOf(Head(new.todo)) = "tag"
           /\ new.pc \in {"async", "tagAsync", "asyncEnd"} => Head(new.todo) \in Tags!Async
           /\ walk' = [walk EXCEPT ![p] = new],
         items' \in [list : Seq(Tags!TagItems), off : SUBSET Tags!TagItems],
         asyncs' \in [Tags!Async -> TagRuns],
         smap' \in [cur : Nat, n : Nat],
         past' \in TagPast,
         UNCHANGED group
  PROVE  /\ TagTypes'
         /\ \A q \in TagPushers : q # p => walk'[q] = walk[q]
<1> PICK new \in TagWalk :
           /\ new.pc \notin {"idle", "visit"} => new.todo # <<>>
           /\ new.pc = "tag" => Tags!KindOf(Head(new.todo)) = "tag"
           /\ new.pc \in {"async", "tagAsync", "asyncEnd"} => Head(new.todo) \in Tags!Async
           /\ walk' = [walk EXCEPT ![p] = new]
  OBVIOUS
<1>1. /\ walk' \in [TagPushers -> TagWalk]
      /\ \A q \in TagPushers : walk'[q] = IF q = p THEN new ELSE walk[q]
  BY DEF TagTypes
<1>2. \A q \in TagPushers :
       /\ walk'[q].pc \notin {"idle", "visit"} => walk'[q].todo # <<>>
       /\ walk'[q].pc = "tag" => Tags!KindOf(Head(walk'[q].todo)) = "tag"
       /\ walk'[q].pc \in {"async", "tagAsync", "asyncEnd"} => Head(walk'[q].todo) \in Tags!Async
  BY <1>1 DEF TagTypes
<1> QED
  BY <1>1, <1>2 DEF TagTypes

\* A pusher leaves the handler it has in hand for the next one.
LEMMA TagGoOn ==
  ASSUME TagTypes, NEW p \in TagPushers, walk[p].todo # <<>>, Tags!GoOn(p)
  PROVE  \E new \in TagWalk :
           /\ new.pc = "visit"
           /\ walk' = [walk EXCEPT ![p] = new]
<1>1. walk[p] \in TagWalk
  BY DEF TagTypes
<1>2. walk[p].todo \in Seq(Tags!TagItems)
  BY <1>1 DEF TagWalk
<1>3. Tail(walk[p].todo) \in Seq(Tags!TagItems)
  BY <1>2
<1>4. Tags!At("visit", Tail(walk[p].todo)) \in TagWalk /\ Tags!At("visit", Tail(walk[p].todo)).pc = "visit"
  BY <1>3, TagAt
<1> QED
  BY <1>4 DEF Tags!GoOn

\* The handler a pusher has in hand is that of an item.
LEMMA TagInHand ==
  ASSUME TagTypes, NEW p \in TagPushers, walk[p].todo # <<>>
  PROVE  Head(walk[p].todo) \in Tags!TagItems
<1>1. walk[p].todo \in Seq(Tags!TagItems)
  BY DEF TagTypes, TagWalk
<1> QED
  BY <1>1

\* A batch is disabled together as long as its chains go on.
LEMMA TagTogetherKept ==
  ASSUME TagTogether, past'.early = past.early, past'.panic = past.panic,
         past'.said \cap Tags!Tagged \subseteq past.said, items.off \subseteq items'.off,
         \A q \in TagPushers : walk[q].pc = "chain" => walk'[q] = walk[q]
  PROVE  TagTogether'
<1> SUFFICES ASSUME ~past.early
             PROVE  /\ ~past.panic
                    /\ past'.said \cap Tags!Tagged # {} =>
                         \/ Tags!Members \subseteq items'.off
                         \/ \E p \in TagPushers :
                              /\ walk'[p].pc = "chain"
                              /\ Tags!Members \subseteq items'.off \cup Tags!ToSet(walk'[p].cancels)
  BY DEF TagTogether
<1>1. ~past.panic
  BY DEF TagTogether
<1>2. ASSUME past'.said \cap Tags!Tagged # {}
      PROVE  \/ Tags!Members \subseteq items'.off
             \/ \E p \in TagPushers :
                  /\ walk'[p].pc = "chain"
                  /\ Tags!Members \subseteq items'.off \cup Tags!ToSet(walk'[p].cancels)
  <2>1. past.said \cap Tags!Tagged # {}
    BY <1>2
  <2>2. CASE Tags!Members \subseteq items.off
    BY <2>2
  <2>3. CASE \E p \in TagPushers :
               /\ walk[p].pc = "chain"
               /\ Tags!Members \subseteq items.off \cup Tags!ToSet(walk[p].cancels)
    <3>1. PICK p \in TagPushers :
            /\ walk[p].pc = "chain"
            /\ Tags!Members \subseteq items.off \cup Tags!ToSet(walk[p].cancels)
      BY <2>3
    <3>2. walk'[p] = walk[p]
      BY <3>1
    <3> QED
      BY <3>1, <3>2
  <2> QED
    BY <2>1, <2>2, <2>3 DEF TagTogether
<1> QED
  BY <1>1, <1>2

\* What is disabled stays so.
LEMMA TagDisabledKept ==
  ASSUME TagDisabled, UNCHANGED asyncs, past'.said \cap Tags!Async \subseteq past.said,
         past.mixed \subseteq past'.mixed, items.off \subseteq items'.off
  PROVE  TagDisabled'
BY DEF TagDisabled

\* The batch registers the next function, or counts it in.
LEMMA TagRegister ==
  ASSUME TagInv, Tags!Register
  PROVE  TagInv'
<1>1. /\ group.pc = "register" /\ UNCHANGED <<asyncs, smap, walk, past>>
      /\ group' = [group EXCEPT !.pc = "swap"]
  BY DEF Tags!Register
<1>2. /\ group.at \in Tags!Members
      /\ group.at \in Tags!TagItems
  BY <1>1, TagKinds DEF TagInv, TagBatch
<1>3. /\ items' \in [list : Seq(Tags!TagItems), off : SUBSET Tags!TagItems]
      /\ items'.off = items.off
  <2>1. items \in [list : Seq(Tags!TagItems), off : SUBSET Tags!TagItems]
    BY DEF TagInv, TagTypes
  <2>2. PICK list \in Seq(Tags!TagItems) : items' = [items EXCEPT !.list = list]
    <3>1. /\ Append(items.list, group.at) \in Seq(Tags!TagItems)
          /\ <<group.at>> \o items.list \in Seq(Tags!TagItems)
      BY <1>2, <2>1
    <3> QED
      BY <3>1 DEF Tags!Register
  <2> QED
    BY <2>1, <2>2
<1>4. /\ group' \in [cancel : Nat, pre : [Tags!Members -> Nat], at : Nat,
                     pc : {"register", "swap", "assign", "done", "cancelled"}]
      /\ group'.pc = "swap" /\ group'.cancel = group.cancel
      /\ group'.at = group.at /\ group'.pre = group.pre
  BY <1>1 DEF TagInv, TagTypes
<1>5. TagTypes'
  BY <1>1, <1>3, <1>4 DEF TagInv, TagTypes
<1>6. TagBatch'
  BY <1>1, <1>4 DEF TagInv, TagBatch
<1>7. TagTogether' /\ TagDisabled'
  BY <1>1, <1>3, TagTogetherKept, TagDisabledKept DEF TagInv
<1>8. TagMap'
  BY <1>1 DEF TagInv, TagMap
<1> QED
  BY <1>5, <1>6, <1>7, <1>8 DEF TagInv

\* The swap and the assignment that follows it.
LEMMA TagSwap ==
  ASSUME TagInv, Tags!SwapCancel \/ Tags!AssignPre
  PROVE  TagInv'
<1>1. UNCHANGED <<items, asyncs, smap, walk, past>>
  BY DEF Tags!SwapCancel, Tags!AssignPre
<1>2. group.at \in Tags!Members /\ group.at \in 1..Len(Batch) /\ Len(Batch) \in Nat
  BY TagKinds DEF TagInv, TagBatch, Tags!SwapCancel, Tags!AssignPre
<1>3. group \in [cancel : Nat, pre : [Tags!Members -> Nat], at : Nat,
                 pc : {"register", "swap", "assign", "done", "cancelled"}]
  BY DEF TagInv, TagTypes
<1>4. CASE Tags!SwapCancel
  <2>1. /\ group' \in [cancel : Nat, pre : [Tags!Members -> Nat], at : Nat,
                       pc : {"register", "swap", "assign", "done", "cancelled"}]
        /\ group'.pc = "assign" /\ group'.cancel = group.at
        /\ group'.at = group.at /\ group'.pre = group.pre
    BY <1>2, <1>3, <1>4 DEF Tags!SwapCancel
  <2>2. TagTypes' /\ TagBatch'
    BY <1>1, <1>2, <2>1 DEF TagInv, TagTypes, TagBatch
  <2>3. TagTogether' /\ TagDisabled' /\ TagMap'
    BY <1>1, TagTogetherKept, TagDisabledKept DEF TagInv, TagMap
  <2> QED
    BY <2>2, <2>3 DEF TagInv
<1>5. CASE Tags!AssignPre
  <2> DEFINE pre == [group.pre EXCEPT ![group.at] = group.at - 1]
             next == IF group.at = Len(Batch) THEN "done" ELSE "register"
  <2>1. /\ group.pc = "assign"
        /\ group' = [[[group EXCEPT !.pre = pre] EXCEPT !.at = group.at + 1] EXCEPT !.pc = next]
    BY <1>3, <1>5 DEF Tags!AssignPre
  <2>2. /\ pre \in [Tags!Members -> Nat]
        /\ pre[group.at] = group.at - 1
        /\ \A i \in Tags!Members : i # group.at => pre[i] = group.pre[i]
    <3>1. group.at - 1 \in Nat /\ group.pre \in [Tags!Members -> Nat]
      BY <1>2, <1>3
    <3> QED
      BY <1>2, <3>1
  <2>3. next \in {"done", "register"}
    OBVIOUS
  <2>4. group.at + 1 \in Nat
    BY <1>2
  <2>5. /\ group' \in [cancel : Nat, pre : [Tags!Members -> Nat], at : Nat,
                       pc : {"register", "swap", "assign", "done", "cancelled"}]
        /\ group'.pc = next /\ group'.cancel = group.cancel
        /\ group'.at = group.at + 1 /\ group'.pre = pre
    <3> HIDE DEF pre, next
    <3> QED
      BY <1>3, <2>1, <2>2, <2>3, <2>4
  <2>6. TagTypes'
    BY <1>1, <2>5 DEF TagInv, TagTypes
  <2>7. group.cancel = group.at /\ Tags!Members = 1..Len(Batch)
    BY <2>1, TagKinds DEF TagInv, TagBatch
  <2>8. \A i \in Tags!Members : pre[i] = IF i < group.at + 1 THEN i - 1 ELSE 0
    <3> HIDE DEF pre
    <3> TAKE i \in Tags!Members
    <3>1. group.pre[i] = IF i < group.at THEN i - 1 ELSE 0
      BY DEF TagInv, TagBatch
    <3> QED
      BY <1>2, <2>2, <2>7, <3>1
  <2>9. TagBatch'
    <3> HIDE DEF pre
    <3> QED
      BY <1>2, <2>5, <2>7, <2>8 DEF TagBatch
  <2>10. TagTogether' /\ TagDisabled' /\ TagMap'
    BY <1>1, TagTogetherKept, TagDisabledKept DEF TagInv, TagMap
  <2> QED
    BY <2>6, <2>9, <2>10 DEF TagInv
<1> QED
  BY <1>4, <1>5

\* A mark more of what a function said.
LEMMA TagPastSaid ==
  ASSUME past \in TagPast, NEW S \in SUBSET Tags!TagItems, NEW e \in BOOLEAN, NEW b \in BOOLEAN,
         past' = [[[past EXCEPT !.said = S] EXCEPT !.early = e] EXCEPT !.panic = b]
  PROVE  /\ past' \in TagPast
         /\ past'.said = S /\ past'.early = e /\ past'.panic = b
         /\ past'.mixed = past.mixed /\ past'.wished = past.wished
<1> DEFINE s == [past EXCEPT !.said = S]
           t == [s EXCEPT !.early = e]
<1>1. /\ s \in TagPast /\ s.said = S
      /\ s.mixed = past.mixed /\ s.wished = past.wished
  BY Zenon DEF TagPast
<1>2. past' = [t EXCEPT !.panic = b]
  OBVIOUS
<1> HIDE DEF s
<1>3. t \in TagPast /\ t.said = s.said /\ t.early = e /\ t.mixed = s.mixed /\ t.wished = s.wished
  BY <1>1, Zenon DEF TagPast
<1> HIDE DEF t
<1>4. past' \in TagPast
  BY <1>2, <1>3, Zenon DEF TagPast
<1>5. past'.said = t.said /\ past'.early = t.early
  BY <1>2, <1>3, Zenon DEF TagPast
<1>6. past'.mixed = t.mixed /\ past'.wished = t.wished
  BY <1>2, <1>3, Zenon DEF TagPast
<1>7. past'.panic = b
  BY <1>2, <1>3, Zenon DEF TagPast
<1> QED
  BY <1>1, <1>3, <1>4, <1>5, <1>6, <1>7

\* What a user cancels is all of a complete batch.
LEMMA TagCancel ==
  ASSUME TagInv, Tags!Cancel
  PROVE  TagInv'
<1> DEFINE chain == Tags!Chain[group.cancel]
           off == items.off \cup Tags!ToSet(chain)
           said == past.said \cup Tags!Members
<1>1. /\ group.pc = "done" /\ UNCHANGED <<asyncs, smap, walk>>
      /\ items' = [items EXCEPT !.off = off]
      /\ group' = [group EXCEPT !.pc = "cancelled"]
      /\ past' = [past EXCEPT !.said = said]
  BY DEF Tags!Cancel
<1>2. chain \in Seq(Tags!Members) /\ Tags!Members \subseteq Tags!ToSet(chain)
  BY <1>1, TagChainMembers DEF TagInv
<1>3. Tags!ToSet(chain) \subseteq Tags!TagItems
  <2> HIDE DEF chain
  <2> QED
    BY <1>2, TagKinds DEF Tags!ToSet
<1>4. off \in SUBSET Tags!TagItems /\ said \in SUBSET Tags!TagItems
  BY <1>3, TagKinds DEF TagInv, TagTypes, TagPast
<1>5. Tags!Members \subseteq off /\ items.off \subseteq off
  BY <1>2
<1> HIDE DEF off, chain
<1>6. items' \in [list : Seq(Tags!TagItems), off : SUBSET Tags!TagItems] /\ items'.off = off
  BY <1>1, <1>4 DEF TagInv, TagTypes
<1>7. /\ past' \in TagPast /\ past'.said = said /\ past'.early = past.early
      /\ past'.panic = past.panic /\ past'.mixed = past.mixed /\ past'.wished = past.wished
  <2> HIDE DEF said
  <2>1. past \in TagPast
    BY DEF TagInv, TagTypes
  <2> QED
    BY <1>1, <1>4, <2>1, Zenon DEF TagPast
<1>8. /\ group' \in [cancel : Nat, pre : [Tags!Members -> Nat], at : Nat,
                     pc : {"register", "swap", "assign", "done", "cancelled"}]
      /\ group'.pc = "cancelled" /\ group'.cancel = group.cancel
      /\ group'.at = group.at /\ group'.pre = group.pre
  BY <1>1 DEF TagInv, TagTypes
<1>9. TagTypes'
  BY <1>1, <1>6, <1>7, <1>8 DEF TagInv, TagTypes
<1>10. TagBatch'
  BY <1>1, <1>8 DEF TagInv, TagBatch
<1>11. TagTogether'
  BY <1>5, <1>6, <1>7 DEF TagInv, TagTogether
<1>12. TagDisabled'
  <2> SUFFICES ASSUME NEW i \in past'.said \cap (Tags!Async \ past'.mixed)
               PROVE  /\ Tags!KindOf(i) = "async" => asyncs[i].disabled /\ asyncs[i].run = 0
                      /\ Tags!KindOf(i) = "tagAsync" => asyncs[i].disabled \/ i \in off
    BY <1>1, <1>6, Zenon DEF TagDisabled
  <2>1. CASE i \in Tags!Members
    BY <1>5, <2>1, TagKinds
  <2>2. CASE i \notin Tags!Members
    <3>1. i \in past.said \cap (Tags!Async \ past.mixed)
      BY <1>7, <2>2
    <3> QED
      BY <1>5, <3>1 DEF TagInv, TagDisabled
  <2> QED
    BY <2>1, <2>2
<1>13. TagMap'
  BY <1>1, <1>7 DEF TagInv, TagMap
<1> QED
  BY <1>9, <1>10, <1>11, <1>12, <1>13 DEF TagInv

\* A push begins with the whole list.
LEMMA TagPush ==
  ASSUME TagInv, NEW p \in TagPushers, Tags!Push(p)
  PROVE  TagInv'
<1> DEFINE new == Tags!At("visit", items.list)
           n == past.pushes + 1
<1>1. /\ walk[p].pc = "idle" /\ UNCHANGED <<items, group, asyncs, smap>>
      /\ walk' = [walk EXCEPT ![p] = new]
      /\ past' = [past EXCEPT !.pushes = n]
  BY DEF Tags!Push
<1>2. items.list \in Seq(Tags!TagItems) /\ n \in Nat
  BY DEF TagInv, TagTypes, TagPast
<1>3. new \in TagWalk /\ new.pc = "visit"
  BY <1>2, TagAt
<1> HIDE DEF new, n
<1>4. /\ past' \in TagPast /\ past'.said = past.said /\ past'.early = past.early
      /\ past'.panic = past.panic /\ past'.mixed = past.mixed /\ past'.wished = past.wished
  <2>1. past \in TagPast
    BY DEF TagInv, TagTypes
  <2> QED
    BY <1>1, <1>2, <2>1, Zenon DEF TagPast
<1>5. TagTypes' /\ \A q \in TagPushers : q # p => walk'[q] = walk[q]
  <2>1. TagTypes /\ items \in [list : Seq(Tags!TagItems), off : SUBSET Tags!TagItems]
        /\ asyncs \in [Tags!Async -> TagRuns] /\ smap \in [cur : Nat, n : Nat]
    BY DEF TagInv, TagTypes
  <2> QED
    BY <1>1, <1>3, <1>4, <2>1, TagWalked
<1>6. \A q \in TagPushers : walk[q].pc = "chain" => walk'[q] = walk[q]
  BY <1>1, <1>5
<1>7. TagTogether' /\ TagDisabled'
  BY <1>1, <1>4, <1>6, TagTogetherKept, TagDisabledKept DEF TagInv
<1>8. TagBatch' /\ TagMap'
  BY <1>1, <1>4 DEF TagInv, TagBatch, TagMap
<1> QED
  BY <1>5, <1>7, <1>8 DEF TagInv

\* A visit goes on, or enters a handler of the kind of the item.
LEMMA TagVisit ==
  ASSUME TagInv, NEW p \in TagPushers, Tags!Visit(p)
  PROVE  TagInv'
<1>1. walk[p].pc = "visit" /\ UNCHANGED <<items, group, asyncs, smap, past>>
  BY DEF Tags!Visit
<1>2. \E new \in TagWalk :
        /\ new.pc \notin {"idle", "visit"} => new.todo # <<>>
        /\ new.pc = "tag" => Tags!KindOf(Head(new.todo)) = "tag"
        /\ new.pc \in {"async", "tagAsync", "asyncEnd"} => Head(new.todo) \in Tags!Async
        /\ walk' = [walk EXCEPT ![p] = new]
  <2>1. CASE walk[p].todo = <<>> /\ walk' = [walk EXCEPT ![p] = Tags!NoWalk]
    <3>1. <<>> \in Seq(Tags!TagItems)
      OBVIOUS
    <3>2. Tags!NoWalk \in TagWalk /\ Tags!NoWalk.pc = "idle"
      BY <3>1, TagAt DEF Tags!NoWalk
    <3> QED
      BY <2>1, <3>2
  <2>2. CASE walk[p].todo # <<>> /\ Tags!GoOn(p)
    <3>1. PICK new \in TagWalk : new.pc = "visit" /\ walk' = [walk EXCEPT ![p] = new]
      BY <2>2, TagGoOn DEF TagInv
    <3> QED
      BY <3>1
  <2>3. CASE /\ walk[p].todo # <<>>
             /\ walk' = [walk EXCEPT ![p].pc = Tags!KindOf(Tags!Here(p)),
                                     ![p].fn = IF Tags!Here(p) = -1 THEN smap.cur ELSE 0]
    <3> DEFINE kind == Tags!KindOf(Tags!Here(p))
               n == IF Tags!Here(p) = -1 THEN smap.cur ELSE 0
               w == walk[p]
               v == [w EXCEPT !.pc = kind]
               new == [v EXCEPT !.fn = n]
    <3>1. Tags!Here(p) \in Tags!TagItems /\ Tags!Here(p) = Head(w.todo)
      BY <2>3, TagInHand DEF TagInv, Tags!Here
    <3>2. kind \in {"async", "syncmap", "tag", "tagAsync"} /\ n \in Nat
      BY <3>1, TagKinds DEF TagInv, TagTypes
    <3>3. walk \in [TagPushers -> TagWalk]
      BY DEF TagInv, TagTypes
    <3>4. kind \in {"async", "tagAsync", "asyncEnd"} => Head(w.todo) \in Tags!Async
      BY <3>1, <3>2, TagKinds
    <3>5. kind = Tags!KindOf(Head(w.todo)) /\ w.todo # <<>>
      BY <2>3, <3>1
    <3>6. walk' = [walk EXCEPT ![p] = new]
      <4> HIDE DEF kind, n
      <4> QED
        BY <2>3, <3>3 DEF kind, n
    <3>7. w \in TagWalk
      BY <3>3
    <3> HIDE DEF kind, n, w
    <3>8. new \in TagWalk /\ new.pc = kind /\ new.todo = w.todo
      <4>1. v \in TagWalk /\ v.pc = kind /\ v.todo = w.todo
        BY <3>2, <3>7 DEF TagWalk
      <4> HIDE DEF v
      <4> QED
        BY <3>2, <4>1 DEF TagWalk
    <3> HIDE DEF new
    <3> QED
      BY <3>4, <3>5, <3>6, <3>8
  <2> QED
    BY <2>1, <2>2, <2>3 DEF Tags!Visit
<1>3. TagTypes' /\ \A q \in TagPushers : q # p => walk'[q] = walk[q]
  <2>1. /\ TagTypes /\ items \in [list : Seq(Tags!TagItems), off : SUBSET Tags!TagItems]
        /\ asyncs \in [Tags!Async -> TagRuns] /\ smap \in [cur : Nat, n : Nat] /\ past \in TagPast
    BY DEF TagInv, TagTypes
  <2> QED
    BY <1>1, <1>2, <2>1, TagWalked
<1>4. \A q \in TagPushers : walk[q].pc = "chain" => walk'[q] = walk[q]
  BY <1>1, <1>3
<1>5. TagTogether' /\ TagDisabled'
  BY <1>1, <1>4, TagTogetherKept, TagDisabledKept DEF TagInv
<1>6. TagBatch' /\ TagMap'
  BY <1>1 DEF TagInv, TagBatch, TagMap
<1> QED
  BY <1>3, <1>5, <1>6 DEF TagInv

\* The pusher that chains is the one that disables the batch.
LEMMA TagTag ==
  ASSUME TagInv, NEW p \in TagPushers, Tags!Tag(p)
  PROVE  TagInv'
<1>1. walk[p].pc = "tag" /\ UNCHANGED <<items, group, asyncs, smap>>
  BY DEF Tags!Tag
<1>2. /\ walk[p].todo # <<>> /\ walk \in [TagPushers -> TagWalk]
      /\ Tags!KindOf(Tags!Here(p)) = "tag"
  BY <1>1 DEF TagInv, TagTypes, Tags!Here
<1>3. Tags!Here(p) \in Tags!TagItems /\ Tags!Here(p) \notin Tags!Async
  <2>1. Tags!Here(p) \in Tags!TagItems
    BY <1>2, TagInHand DEF TagInv, Tags!Here
  <2> QED
    BY <1>2, <2>1, TagKinds
<1>4. /\ TagTypes /\ items \in [list : Seq(Tags!TagItems), off : SUBSET Tags!TagItems]
      /\ asyncs \in [Tags!Async -> TagRuns] /\ smap \in [cur : Nat, n : Nat] /\ past \in TagPast
  BY DEF TagInv, TagTypes
<1>5. CASE Tags!GoOn(p) /\ UNCHANGED past
  <2>1. PICK new \in TagWalk : new.pc = "visit" /\ walk' = [walk EXCEPT ![p] = new]
    BY <1>2, <1>4, <1>5, TagGoOn
  <2>2. TagTypes' /\ \A q \in TagPushers : q # p => walk'[q] = walk[q]
    BY <1>1, <1>4, <1>5, <2>1, TagWalked
  <2>3. \A q \in TagPushers : walk[q].pc = "chain" => walk'[q] = walk[q]
    BY <1>1, <2>2
  <2>4. TagTogether' /\ TagDisabled'
    BY <1>1, <1>5, <2>3, TagTogetherKept, TagDisabledKept DEF TagInv
  <2>5. TagBatch' /\ TagMap'
    BY <1>1, <1>5 DEF TagInv, TagBatch, TagMap
  <2> QED
    BY <2>2, <2>4, <2>5 DEF TagInv
<1>6. CASE /\ past' = [past EXCEPT !.said = @ \cup {Tags!Here(p)},
                                   !.early = @ \/ group.pc \notin {"done", "cancelled"},
                                   !.panic = @ \/ group.cancel = 0]
           /\ walk' = [walk EXCEPT ![p].pc = "chain", ![p].cancels = Tags!Chain[group.cancel]]
  <2> DEFINE S == past.said \cup {Tags!Here(p)}
             chain == Tags!Chain[group.cancel]
             w == walk[p]
             v == [w EXCEPT !.pc = "chain"]
             new == [v EXCEPT !.cancels = chain]
  <2>1. /\ chain \in Seq(Tags!Members)
        /\ group.pc \in {"done", "cancelled"} =>
             group.cancel # 0 /\ Tags!Members \subseteq Tags!ToSet(chain)
    BY TagChainMembers DEF TagInv
  <2>2. PICK e \in BOOLEAN, b \in BOOLEAN :
          /\ e <=> past.early \/ group.pc \notin {"done", "cancelled"}
          /\ b <=> past.panic \/ group.cancel = 0
          /\ past' \in TagPast /\ past'.said = S /\ past'.early = e /\ past'.panic = b
          /\ past'.mixed = past.mixed /\ past'.wished = past.wished
    <3>1. PICK e \in BOOLEAN : e <=> past.early \/ group.pc \notin {"done", "cancelled"}
      BY <1>4 DEF TagPast
    <3>2. PICK b \in BOOLEAN : b <=> past.panic \/ group.cancel = 0
      BY <1>4 DEF TagPast
    <3>3. /\ e = (past.early \/ group.pc \notin {"done", "cancelled"})
          /\ b = (past.panic \/ group.cancel = 0)
      BY <3>1, <3>2
    <3>4. past' = [[[past EXCEPT !.said = S] EXCEPT !.early = e] EXCEPT !.panic = b]
      BY <1>4, <1>6, <3>3 DEF TagPast
    <3>5. S \in SUBSET Tags!TagItems
      BY <1>3, <1>4 DEF TagPast
    <3> HIDE DEF S
    <3>6. /\ past' \in TagPast /\ past'.said = S /\ past'.early = e /\ past'.panic = b
          /\ past'.mixed = past.mixed /\ past'.wished = past.wished
      BY <1>4, <3>4, <3>5, TagPastSaid
    <3> QED
      BY <3>1, <3>2, <3>6
  <2>3. walk' = [walk EXCEPT ![p] = new]
    <3> HIDE DEF chain
    <3> QED
      BY <1>2, <1>6 DEF chain
  <2>4. w \in TagWalk /\ w.todo # <<>>
    BY <1>2
  <2> HIDE DEF w, chain, S
  <2>5. new \in TagWalk /\ new.pc = "chain" /\ new.todo = w.todo /\ new.cancels = chain
    <3>1. v \in TagWalk /\ v.pc = "chain" /\ v.todo = w.todo
      BY <2>4 DEF TagWalk
    <3> HIDE DEF v
    <3> QED
      BY <2>1, <3>1 DEF TagWalk
  <2> HIDE DEF new
  <2>6. TagTypes' /\ \A q \in TagPushers : q # p => walk'[q] = walk[q]
    BY <1>1, <1>4, <2>2, <2>3, <2>4, <2>5, TagWalked
  <2>7. walk'[p].pc = "chain" /\ walk'[p].cancels = chain
    BY <1>2, <2>3, <2>5
  <2>8. TagTogether'
    <3> SUFFICES ASSUME ~past'.early
                 PROVE  /\ ~past'.panic
                        /\ \E q \in TagPushers :
                             /\ walk'[q].pc = "chain"
                             /\ Tags!Members \subseteq items'.off \cup Tags!ToSet(walk'[q].cancels)
      BY DEF TagTogether
    <3>1. ~past.early /\ group.pc \in {"done", "cancelled"}
      BY <2>2
    <3>2. ~past'.panic
      BY <2>1, <2>2, <3>1 DEF TagInv, TagTogether
    <3> QED
      BY <2>1, <2>7, <3>1, <3>2
  <2>9. TagDisabled'
    <3>1. past'.said \cap Tags!Async \subseteq past.said
      BY <1>3, <2>2 DEF S
    <3> QED
      BY <1>1, <2>2, <3>1, TagDisabledKept DEF TagInv
  <2>10. TagBatch' /\ TagMap'
    BY <1>1, <2>2 DEF TagInv, TagBatch, TagMap
  <2> QED
    BY <2>6, <2>8, <2>9, <2>10 DEF TagInv
<1> QED
  BY <1>5, <1>6 DEF Tags!Tag

\* The elements of a sequence are its head and those of its tail.
LEMMA TagHeadTail ==
  ASSUME NEW S, NEW s \in Seq(S), s # <<>>
  PROVE  /\ Head(s) \in S /\ Tail(s) \in Seq(S)
         /\ Tags!ToSet(s) = {Head(s)} \cup Tags!ToSet(Tail(s))
<1>1. /\ Head(s) = s[1] /\ Head(s) \in S /\ Tail(s) \in Seq(S)
      /\ Len(s) \in Nat /\ Len(s) # 0 /\ Len(Tail(s)) = Len(s) - 1
      /\ DOMAIN s = 1..Len(s) /\ DOMAIN Tail(s) = 1..(Len(s) - 1)
      /\ \A i \in 1..(Len(s) - 1) : Tail(s)[i] = s[i + 1]
  OBVIOUS
<1>2. ASSUME NEW x \in Tags!ToSet(s)
      PROVE  x \in {Head(s)} \cup Tags!ToSet(Tail(s))
  <2>1. PICK i \in 1..Len(s) : x = s[i]
    BY <1>1 DEF Tags!ToSet
  <2>2. CASE i = 1
    BY <1>1, <2>1, <2>2
  <2>3. CASE i # 1
    <3>1. i - 1 \in 1..(Len(s) - 1) /\ (i - 1) + 1 = i
      BY <1>1, <2>1, <2>3
    <3>2. Tail(s)[i - 1] = x
      BY <1>1, <2>1, <3>1
    <3> QED
      BY <1>1, <3>1, <3>2 DEF Tags!ToSet
  <2> QED
    BY <2>2, <2>3
<1>3. ASSUME NEW x \in {Head(s)} \cup Tags!ToSet(Tail(s))
      PROVE  x \in Tags!ToSet(s)
  <2>1. CASE x = Head(s)
    <3>1. 1 \in DOMAIN s
      BY <1>1
    <3> QED
      BY <1>1, <2>1, <3>1 DEF Tags!ToSet
  <2>2. CASE x \in Tags!ToSet(Tail(s))
    <3>1. PICK i \in 1..(Len(s) - 1) : x = Tail(s)[i]
      BY <1>1, <2>2 DEF Tags!ToSet
    <3>2. i + 1 \in DOMAIN s /\ x = s[i + 1]
      BY <1>1, <3>1
    <3> QED
      BY <3>2 DEF Tags!ToSet
  <2> QED
    BY <1>3, <2>1, <2>2
<1> QED
  BY <1>1, <1>2, <1>3

\* Every cancel of a chain is called before it is left.
LEMMA TagCallChain ==
  ASSUME TagInv, NEW p \in TagPushers, Tags!CallChain(p)
  PROVE  TagInv'
<1>1. walk[p].pc = "chain" /\ UNCHANGED <<group, asyncs, smap, past>>
  BY DEF Tags!CallChain
<1>2. /\ TagTypes /\ items \in [list : Seq(Tags!TagItems), off : SUBSET Tags!TagItems]
      /\ asyncs \in [Tags!Async -> TagRuns] /\ smap \in [cur : Nat, n : Nat] /\ past \in TagPast
      /\ walk \in [TagPushers -> TagWalk]
  BY DEF TagInv, TagTypes
<1>3. walk[p].todo # <<>>
  BY <1>1, <1>2 DEF TagTypes
<1>4. \E x \in Tags!TagItems, new \in TagWalk :
        /\ items' = [items EXCEPT !.off = @ \cup {x}]
        /\ walk' = [walk EXCEPT ![p] = new]
        /\ \/ new.pc = "visit" /\ walk[p].cancels = <<>>
           \/ /\ new.pc = "chain" /\ new.todo = walk[p].todo
              /\ Tags!ToSet(walk[p].cancels) = {x} \cup Tags!ToSet(new.cancels)
  <2>1. CASE walk[p].cancels # <<>>
    <3> DEFINE w == walk[p]
               rest == Tail(w.cancels)
               new == [w EXCEPT !.cancels = rest]
    <3>1. w \in TagWalk /\ w.cancels \in Seq(Tags!Members) /\ w.cancels # <<>>
      BY <1>2, <2>1 DEF TagWalk
    <3>2. /\ Head(w.cancels) \in Tags!Members /\ rest \in Seq(Tags!Members)
          /\ Tags!ToSet(w.cancels) = {Head(w.cancels)} \cup Tags!ToSet(rest)
      BY <3>1, TagHeadTail
    <3>3. Head(w.cancels) \in Tags!TagItems
      BY <3>2, TagKinds
    <3>4. /\ items' = [items EXCEPT !.off = @ \cup {Head(w.cancels)}]
          /\ walk' = [walk EXCEPT ![p] = new]
      BY <1>2, <2>1 DEF Tags!CallChain
    <3> HIDE DEF rest
    <3>5. /\ new \in TagWalk /\ new.pc = w.pc
          /\ new.todo = w.todo /\ new.cancels = rest
      <4> HIDE DEF w
      <4> QED
        BY <3>1, <3>2 DEF TagWalk
    <3> HIDE DEF new
    <3> QED
      BY <1>1, <3>2, <3>3, <3>4, <3>5
  <2>2. CASE walk[p].cancels = <<>>
    <3>1. PICK new \in TagWalk : new.pc = "visit" /\ walk' = [walk EXCEPT ![p] = new]
      BY <1>2, <1>3, <2>2, TagGoOn DEF Tags!CallChain
    <3>2. Tags!Here(p) \in Tags!TagItems
      BY <1>2, <1>3, TagInHand DEF Tags!Here
    <3>3. items' = [items EXCEPT !.off = @ \cup {Tags!Here(p)}]
      BY <2>2 DEF Tags!CallChain
    <3> QED
      BY <2>2, <3>1, <3>2, <3>3
  <2> QED
    BY <2>1, <2>2
<1>5. PICK x \in Tags!TagItems, new \in TagWalk :
        /\ items' = [items EXCEPT !.off = @ \cup {x}]
        /\ walk' = [walk EXCEPT ![p] = new]
        /\ \/ new.pc = "visit" /\ walk[p].cancels = <<>>
           \/ /\ new.pc = "chain" /\ new.todo = walk[p].todo
              /\ Tags!ToSet(walk[p].cancels) = {x} \cup Tags!ToSet(new.cancels)
  BY <1>4
<1>6. /\ items' \in [list : Seq(Tags!TagItems), off : SUBSET Tags!TagItems]
      /\ items'.off = items.off \cup {x}
  BY <1>2, <1>5
<1>7. TagTypes' /\ \A q \in TagPushers : q # p => walk'[q] = walk[q]
  <2>1. /\ new.pc \notin {"idle", "visit"} => new.todo # <<>>
        /\ new.pc = "tag" => Tags!KindOf(Head(new.todo)) = "tag"
        /\ new.pc \in {"async", "tagAsync", "asyncEnd"} => Head(new.todo) \in Tags!Async
    BY <1>3, <1>5
  <2>2. asyncs' \in [Tags!Async -> TagRuns] /\ smap' \in [cur : Nat, n : Nat] /\ past' \in TagPast
    BY <1>1, <1>2
  <2> QED
    BY <1>1, <1>2, <1>5, <1>6, <2>1, <2>2, TagWalked
<1>8. walk'[p] = new
  BY <1>2, <1>5
<1>9. TagTogether'
  <2> SUFFICES ASSUME ~past.early, past.said \cap Tags!Tagged # {}
               PROVE  \/ Tags!Members \subseteq items'.off
                      \/ \E q \in TagPushers :
                           /\ walk'[q].pc = "chain"
                           /\ Tags!Members \subseteq items'.off \cup Tags!ToSet(walk'[q].cancels)
    BY <1>1 DEF TagInv, TagTogether
  <2>1. CASE Tags!Members \subseteq items.off
    BY <1>6, <2>1
  <2>2. CASE \E q \in TagPushers :
               /\ walk[q].pc = "chain"
               /\ Tags!Members \subseteq items.off \cup Tags!ToSet(walk[q].cancels)
    <3>1. PICK q \in TagPushers :
            /\ walk[q].pc = "chain"
            /\ Tags!Members \subseteq items.off \cup Tags!ToSet(walk[q].cancels)
      BY <2>2
    <3>2. CASE q # p
      BY <1>6, <1>7, <3>1, <3>2
    <3>3. CASE q = p /\ walk[p].cancels = <<>>
      <4>1. Tags!ToSet(walk[p].cancels) = {}
        BY <3>3 DEF Tags!ToSet
      <4> QED
        BY <1>6, <3>1, <3>3, <4>1
    <3>4. CASE /\ q = p /\ new.pc = "chain"
               /\ Tags!ToSet(walk[p].cancels) = {x} \cup Tags!ToSet(new.cancels)
      BY <1>6, <1>8, <3>1, <3>4
    <3> QED
      BY <1>5, <3>2, <3>3, <3>4
  <2> QED
    BY <2>1, <2>2 DEF TagInv, TagTogether
<1>10. TagDisabled'
  BY <1>1, <1>6, TagDisabledKept DEF TagInv
<1>11. TagBatch' /\ TagMap'
  BY <1>1 DEF TagInv, TagBatch, TagMap
<1> QED
  BY <1>7, <1>9, <1>10, <1>11 DEF TagInv

\* A goroutine starts unless the function is disabled.
LEMMA TagStartAsync ==
  ASSUME TagInv, NEW p \in TagPushers, Tags!StartAsync(p)
  PROVE  TagInv'
<1> DEFINE w == walk[p]
           new == [w EXCEPT !.pc = "asyncEnd"]
           i == Tags!Here(p)
<1>1. /\ walk[p].pc \in {"async", "tagAsync"} /\ UNCHANGED <<items, group, smap, past>>
      /\ asyncs' = IF asyncs[i].disabled THEN asyncs ELSE [asyncs EXCEPT ![i].run = @ + 1]
      /\ walk' = [walk EXCEPT ![p].pc = "asyncEnd"]
  BY DEF Tags!StartAsync
<1>2. /\ TagTypes /\ items \in [list : Seq(Tags!TagItems), off : SUBSET Tags!TagItems]
      /\ asyncs \in [Tags!Async -> TagRuns] /\ smap \in [cur : Nat, n : Nat] /\ past \in TagPast
      /\ walk \in [TagPushers -> TagWalk]
  BY DEF TagInv, TagTypes
<1>3. i \in Tags!Async /\ w.todo # <<>> /\ i = Head(w.todo)
  BY <1>1, <1>2 DEF TagTypes, Tags!Here
<1>4. w \in TagWalk /\ walk' = [walk EXCEPT ![p] = new]
  BY <1>1, <1>2
<1>5. asyncs[i] \in TagRuns
  BY <1>2, <1>3
<1> HIDE DEF i
<1>6. /\ asyncs' \in [Tags!Async -> TagRuns]
      /\ \A j \in Tags!Async :
           asyncs'[j].disabled = asyncs[j].disabled /\ (asyncs[j].disabled => asyncs'[j] = asyncs[j])
  <2>1. CASE asyncs[i].disabled
    BY <1>1, <1>2, <2>1
  <2>2. CASE ~asyncs[i].disabled
    <3> DEFINE a == asyncs[i]
               n == a.run + 1
               r == [a EXCEPT !.run = n]
    <3>1. asyncs' = [asyncs EXCEPT ![i] = r]
      BY <1>1, <1>2, <1>3, <2>2
    <3>2. n \in Nat
      BY <1>5 DEF TagRuns
    <3> HIDE DEF n
    <3>3. r \in TagRuns /\ r.disabled = a.disabled
      <4>1. a \in TagRuns
        BY <1>5
      <4> HIDE DEF a
      <4> QED
        BY <3>2, <4>1, Zenon DEF TagRuns
    <3> HIDE DEF r
    <3> QED
      BY <1>2, <1>3, <2>2, <3>1, <3>3
  <2> QED
    BY <2>1, <2>2
<1> HIDE DEF w
<1>7. new \in TagWalk /\ new.pc = "asyncEnd" /\ new.todo = w.todo
  BY <1>4 DEF TagWalk
<1> HIDE DEF new
<1>8. TagTypes' /\ \A q \in TagPushers : q # p => walk'[q] = walk[q]
  <2>1. /\ new.pc \notin {"idle", "visit"} => new.todo # <<>>
        /\ new.pc = "tag" => Tags!KindOf(Head(new.todo)) = "tag"
        /\ new.pc \in {"async", "tagAsync", "asyncEnd"} => Head(new.todo) \in Tags!Async
    BY <1>3, <1>7
  <2> QED
    BY <1>1, <1>2, <1>4, <1>6, <1>7, <2>1, TagWalked
<1>9. \A q \in TagPushers : walk[q].pc = "chain" => walk'[q] = walk[q]
  BY <1>1, <1>8
<1>10. TagTogether'
  BY <1>1, <1>9, TagTogetherKept DEF TagInv
<1>11. TagDisabled'
  <2> SUFFICES ASSUME NEW j \in past.said \cap (Tags!Async \ past.mixed)
               PROVE  /\ Tags!KindOf(j) = "async" => asyncs'[j].disabled /\ asyncs'[j].run = 0
                      /\ Tags!KindOf(j) = "tagAsync" => asyncs'[j].disabled \/ j \in items.off
    BY <1>1, Zenon DEF TagDisabled
  <2>1. /\ Tags!KindOf(j) = "async" => asyncs[j].disabled /\ asyncs[j].run = 0
        /\ Tags!KindOf(j) = "tagAsync" => asyncs[j].disabled \/ j \in items.off
    BY DEF TagInv, TagDisabled
  <2> QED
    BY <1>6, <2>1
<1>12. TagBatch' /\ TagMap'
  BY <1>1 DEF TagInv, TagBatch, TagMap
<1> QED
  BY <1>8, <1>10, <1>11, <1>12 DEF TagInv

\* The handler of a disabled asynchronous function disables its item.
LEMMA TagReturnAsync ==
  ASSUME TagInv, NEW p \in TagPushers, Tags!ReturnAsync(p)
  PROVE  TagInv'
<1>1. walk[p].pc = "asyncEnd" /\ UNCHANGED <<group, asyncs, smap, past>> /\ Tags!GoOn(p)
  BY DEF Tags!ReturnAsync
<1>2. /\ TagTypes /\ items \in [list : Seq(Tags!TagItems), off : SUBSET Tags!TagItems]
      /\ asyncs \in [Tags!Async -> TagRuns] /\ smap \in [cur : Nat, n : Nat] /\ past \in TagPast
  BY DEF TagInv, TagTypes
<1>3. walk[p].todo # <<>>
  BY <1>1, <1>2 DEF TagTypes
<1>4. Tags!Here(p) \in Tags!TagItems
  BY <1>2, <1>3, TagInHand DEF Tags!Here
<1>5. /\ items' \in [list : Seq(Tags!TagItems), off : SUBSET Tags!TagItems]
      /\ items.off \subseteq items'.off
  <2>1. PICK off \in SUBSET Tags!TagItems :
          items.off \subseteq off /\ items' = [items EXCEPT !.off = off]
    <3>1. items.off \cup {Tags!Here(p)} \in SUBSET Tags!TagItems /\ items.off \in SUBSET Tags!TagItems
      BY <1>2, <1>4
    <3> QED
      BY <3>1 DEF Tags!ReturnAsync
  <2> QED
    BY <1>2, <2>1
<1>6. PICK new \in TagWalk : new.pc = "visit" /\ walk' = [walk EXCEPT ![p] = new]
  BY <1>1, <1>2, <1>3, TagGoOn
<1>7. TagTypes' /\ \A q \in TagPushers : q # p => walk'[q] = walk[q]
  BY <1>1, <1>2, <1>5, <1>6, TagWalked
<1>8. \A q \in TagPushers : walk[q].pc = "chain" => walk'[q] = walk[q]
  BY <1>1, <1>7
<1>9. TagTogether' /\ TagDisabled'
  BY <1>1, <1>5, <1>8, TagTogetherKept, TagDisabledKept DEF TagInv
<1>10. TagBatch' /\ TagMap'
  BY <1>1 DEF TagInv, TagBatch, TagMap
<1> QED
  BY <1>7, <1>9, <1>10 DEF TagInv

\* A goroutine ends: the true of one is not undone by the others.
LEMMA TagAsyncEnds ==
  ASSUME TagInv, NEW i \in Tags!Async, NEW r \in BOOLEAN, Tags!AsyncEnds(i, r)
  PROVE  TagInv'
<1> DEFINE S == IF r THEN past.said \cup {i} ELSE past.said
           M == IF Tags!KindOf(i) = "async" /\ asyncs[i].run > 1 THEN past.mixed \cup {i}
                ELSE past.mixed
           n == asyncs[i].run - 1
<1>1. asyncs[i].run > 0 /\ UNCHANGED <<items, group, smap, walk>>
  BY DEF Tags!AsyncEnds
<1>2. /\ TagTypes /\ asyncs \in [Tags!Async -> TagRuns] /\ past \in TagPast
  BY DEF TagInv, TagTypes
<1>3. i \in Tags!TagItems /\ Tags!KindOf(i) \in {"async", "tagAsync"} /\ i \notin Tags!Tagged
  BY TagKinds
<1>4. /\ past' \in TagPast /\ past'.said = S /\ past'.mixed = M
      /\ past'.early = past.early /\ past'.panic = past.panic /\ past'.wished = past.wished
  <2>1. past' = [[past EXCEPT !.said = S] EXCEPT !.mixed = M]
    BY <1>2 DEF Tags!AsyncEnds
  <2>2. S \in SUBSET Tags!TagItems /\ M \in SUBSET Tags!TagItems
    BY <1>2, <1>3 DEF TagPast
  <2> HIDE DEF S, M
  <2> DEFINE s == [past EXCEPT !.said = S]
  <2>3. /\ s \in TagPast /\ s.said = S /\ s.mixed = past.mixed
        /\ s.early = past.early /\ s.panic = past.panic /\ s.wished = past.wished
    BY <1>2, <2>2, Zenon DEF TagPast
  <2> HIDE DEF s
  <2>4. past' = [s EXCEPT !.mixed = M]
    BY <2>1 DEF s
  <2>5. /\ past' \in TagPast /\ past'.said = s.said /\ past'.mixed = M
        /\ past'.early = s.early /\ past'.panic = s.panic /\ past'.wished = s.wished
    BY <2>2, <2>3, <2>4, Zenon DEF TagPast
  <2> QED
    BY <2>3, <2>5
<1>5. PICK d \in BOOLEAN :
        /\ d <=> r \/ (Tags!KindOf(i) = "tagAsync" /\ asyncs[i].disabled)
        /\ asyncs' = [asyncs EXCEPT ![i] = [disabled |-> d, run |-> n]]
  <2>1. asyncs[i].disabled \in BOOLEAN
    BY <1>2, Zenon DEF TagRuns
  <2>2. PICK d \in BOOLEAN : d <=> r \/ (Tags!KindOf(i) = "tagAsync" /\ asyncs[i].disabled)
    OBVIOUS
  <2>3. d = (r \/ (Tags!KindOf(i) = "tagAsync" /\ asyncs[i].disabled))
    BY <2>1, <2>2
  <2>4. asyncs' = [asyncs EXCEPT ![i] = [disabled |-> d, run |-> n]]
    BY <1>2, <2>3 DEF Tags!AsyncEnds
  <2> QED
    BY <2>2, <2>4
<1>6. asyncs[i].run \in Nat /\ n \in Nat
  <2>1. asyncs[i].run \in Nat
    BY <1>2, Zenon DEF TagRuns
  <2> QED
    BY <1>1, <2>1
<1> HIDE DEF n
<1>7. /\ asyncs' \in [Tags!Async -> TagRuns]
      /\ (asyncs'[i].disabled <=> d) /\ asyncs'[i].run = n
      /\ \A j \in Tags!Async : j # i => asyncs'[j] = asyncs[j]
  <2> DEFINE a == [disabled |-> d, run |-> n]
  <2>1. a \in TagRuns /\ a.disabled = d /\ a.run = n
    BY <1>6, Zenon DEF TagRuns
  <2>2. asyncs' = [asyncs EXCEPT ![i] = a]
    BY <1>5
  <2> HIDE DEF a
  <2> QED
    BY <1>2, <2>1, <2>2, Zenon
<1>8. TagTypes'
  BY <1>1, <1>4, <1>7 DEF TagInv, TagTypes
<1>9. TagTogether'
  <2>1. past'.said \cap Tags!Tagged \subseteq past.said
    BY <1>3, <1>4
  <2> QED
    BY <1>1, <1>4, <2>1, TagTogetherKept DEF TagInv
<1>10. TagDisabled'
  <2> SUFFICES ASSUME NEW j \in past'.said \cap (Tags!Async \ past'.mixed)
               PROVE  /\ Tags!KindOf(j) = "async" => asyncs'[j].disabled /\ asyncs'[j].run = 0
                      /\ Tags!KindOf(j) = "tagAsync" => asyncs'[j].disabled \/ j \in items.off
    BY <1>1, Zenon DEF TagDisabled
  <2>1. CASE j # i
    <3>1. j \in past.said \cap (Tags!Async \ past.mixed) /\ asyncs'[j] = asyncs[j]
      BY <1>4, <1>7, <2>1
    <3>2. /\ Tags!KindOf(j) = "async" => asyncs[j].disabled /\ asyncs[j].run = 0
          /\ Tags!KindOf(j) = "tagAsync" => asyncs[j].disabled \/ j \in items.off
      BY <3>1 DEF TagInv, TagDisabled
    <3> QED
      BY <3>1, <3>2
  <2>2. CASE j = i
    <3>1. i \notin M /\ i \in S
      BY <1>4, <2>2
    <3>2. i \notin past.mixed /\ (Tags!KindOf(i) = "async" => ~(asyncs[i].run > 1))
      BY <3>1
    <3>3. Tags!KindOf(i) = "async" => asyncs[i].run = 1 /\ n = 0
      BY <1>1, <1>6, <3>2 DEF n
    <3>4. CASE r = TRUE
      BY <1>3, <1>5, <1>7, <2>2, <3>3, <3>4
    <3>5. CASE r = FALSE
      <4>1. i \in past.said \cap (Tags!Async \ past.mixed)
        BY <3>1, <3>2, <3>5
      <4>2. /\ Tags!KindOf(i) = "async" => asyncs[i].run = 0
            /\ Tags!KindOf(i) = "tagAsync" => asyncs[i].disabled \/ i \in items.off
        BY <4>1 DEF TagInv, TagDisabled
      <4> QED
        BY <1>3, <1>5, <1>7, <2>2, <3>3, <4>2
    <3> QED
      BY <3>4, <3>5
  <2> QED
    BY <2>1, <2>2
<1>11. TagBatch' /\ TagMap'
  BY <1>1, <1>4 DEF TagInv, TagBatch, TagMap
<1> QED
  BY <1>8, <1>9, <1>10, <1>11 DEF TagInv

\* A function of the map removes itself only.
LEMMA TagSyncmap ==
  ASSUME TagInv, NEW p \in TagPushers, Tags!Syncmap(p)
  PROVE  TagInv'
<1> DEFINE f == walk[p].fn
           c == IF smap.cur = f THEN 0 ELSE smap.cur
           W == past.wished \cup {f}
<1>1. walk[p].pc = "syncmap" /\ UNCHANGED <<items, group, asyncs>> /\ Tags!GoOn(p)
  BY DEF Tags!Syncmap
<1>2. /\ TagTypes /\ items \in [list : Seq(Tags!TagItems), off : SUBSET Tags!TagItems]
      /\ asyncs \in [Tags!Async -> TagRuns] /\ smap \in [cur : Nat, n : Nat] /\ past \in TagPast
  BY DEF TagInv, TagTypes
<1>3. walk[p].todo # <<>> /\ f \in Nat
  BY <1>1, <1>2 DEF TagTypes, TagWalk
<1>4. /\ smap' \in [cur : Nat, n : Nat] /\ past' \in TagPast /\ past'.said = past.said
      /\ past'.early = past.early /\ past'.panic = past.panic /\ past'.mixed = past.mixed
      /\ TagMap'
  <2>1. CASE UNCHANGED <<smap, past>>
    BY <1>2, <2>1 DEF TagInv, TagMap
  <2>2. CASE /\ f # 0 /\ Tags!CompareAndDelete(f)
             /\ past' = [past EXCEPT !.wished = @ \cup {f}]
    <3>1. smap' = [smap EXCEPT !.cur = c] /\ past' = [past EXCEPT !.wished = W]
      BY <1>2, <2>2 DEF Tags!CompareAndDelete, TagPast
    <3>2. c \in Nat /\ W \in SUBSET Nat
      BY <1>2, <1>3 DEF TagPast
    <3> HIDE DEF c, W
    <3>3. smap' \in [cur : Nat, n : Nat] /\ smap'.cur = c /\ smap'.n = smap.n
      BY <1>2, <3>1, <3>2
    <3>4. /\ past' \in TagPast /\ past'.said = past.said /\ past'.wished = W
          /\ past'.early = past.early /\ past'.panic = past.panic /\ past'.mixed = past.mixed
      BY <1>2, <3>1, <3>2, Zenon DEF TagPast
    <3>5. TagMap'
      BY <2>2, <3>3, <3>4 DEF TagInv, TagMap, c, W
    <3> QED
      BY <3>3, <3>4, <3>5
  <2> QED
    BY <2>1, <2>2 DEF Tags!Syncmap
<1>5. PICK new \in TagWalk : new.pc = "visit" /\ walk' = [walk EXCEPT ![p] = new]
  BY <1>1, <1>2, <1>3, TagGoOn
<1>6. TagTypes' /\ \A q \in TagPushers : q # p => walk'[q] = walk[q]
  BY <1>1, <1>2, <1>4, <1>5, TagWalked
<1>7. \A q \in TagPushers : walk[q].pc = "chain" => walk'[q] = walk[q]
  BY <1>1, <1>6
<1>8. TagTogether' /\ TagDisabled'
  BY <1>1, <1>4, <1>7, TagTogetherKept, TagDisabledKept DEF TagInv
<1>9. TagBatch'
  BY <1>1 DEF TagInv, TagBatch
<1> QED
  BY <1>4, <1>6, <1>8, <1>9 DEF TagInv

\* Every step of the tagged adapters keeps what is known of them.
LEMMA TagStep ==
  ASSUME TagInv, Tags!Next
  PROVE  TagInv'
<1>1. CASE Tags!StoreFunc
  <2>1. /\ smap' = [cur |-> smap.n + 1, n |-> smap.n + 1]
        /\ UNCHANGED <<items, group, asyncs, walk, past>> /\ smap.n \in Nat
    BY <1>1 DEF TagInv, TagTypes, Tags!StoreFunc
  <2>2. smap' \in [cur : Nat, n : Nat] /\ smap'.cur = smap'.n
    BY <2>1
  <2>3. TagTypes' /\ TagMap' /\ TagBatch'
    BY <2>1, <2>2 DEF TagInv, TagTypes, TagMap, TagBatch
  <2>4. TagTogether' /\ TagDisabled'
    BY <2>1, TagTogetherKept, TagDisabledKept DEF TagInv
  <2> QED
    BY <2>3, <2>4 DEF TagInv
<1>2. CASE Tags!Register \/ Tags!SwapCancel \/ Tags!AssignPre \/ Tags!Cancel
  BY <1>2, TagRegister, TagSwap, TagCancel
<1>3. CASE \E p \in TagPushers :
             \/ Tags!Push(p) \/ Tags!Visit(p) \/ Tags!Tag(p) \/ Tags!CallChain(p)
             \/ Tags!StartAsync(p) \/ Tags!ReturnAsync(p) \/ Tags!Syncmap(p)
  BY <1>3, TagPush, TagVisit, TagTag, TagCallChain, TagStartAsync, TagReturnAsync, TagSyncmap
<1>4. CASE \E i \in Tags!Async, r \in BOOLEAN : Tags!AsyncEnds(i, r)
  BY <1>4, TagAsyncEnds
<1> QED
  BY <1>1, <1>2, <1>3, <1>4 DEF Tags!Next

\* What asked to be disabled is.
LEMMA TagSafe == TagInv => Tags!DisabledForGood
<1> SUFFICES ASSUME TagInv
             PROVE  Tags!DisabledForGood
  OBVIOUS
<1>1. ~past.early => ~past.panic
  BY DEF TagInv, TagTogether
<1>2. ~past.early /\ Tags!NoChain /\ past.said \cap Tags!Tagged # {} => Tags!Members \subseteq items.off
  BY DEF TagInv, TagTogether, Tags!NoChain
<1>3. \A i \in past.said \cap (Tags!Async \ past.mixed) :
        asyncs[i].disabled \/ (i \in Tags!Members /\ i \in items.off)
  <2> TAKE i \in past.said \cap (Tags!Async \ past.mixed)
  <2>1. /\ i \in Tags!TagItems /\ Tags!KindOf(i) \in {"async", "tagAsync"}
        /\ Tags!KindOf(i) = "tagAsync" => i \in Tags!Members
    BY TagKinds
  <2>2. /\ Tags!KindOf(i) = "async" => asyncs[i].disabled
        /\ Tags!KindOf(i) = "tagAsync" => asyncs[i].disabled \/ i \in items.off
    BY DEF TagInv, TagDisabled
  <2> QED
    BY <2>1, <2>2
<1>4. smap.cur = smap.n \/ (smap.cur = 0 /\ smap.n \in past.wished)
  BY DEF TagInv, TagMap
<1> QED
  BY <1>1, <1>2, <1>3, <1>4 DEF Tags!DisabledForGood

----------------------------------------------------------------------------
(* The sessions of the websocket server, which end by their own close.     *)

WsPcs == {"out", "init", "upgrade", "register", "read", "close", "put", "fin", "over"}
WsHandler == [s : WsSess, kind : {"both"}]

\* The types.
WsTypes ==
  /\ pooled \in SUBSET WsSess /\ addr \in [WsSess -> Nat]
  /\ sess \in [WsSess -> [pc : WsPcs, item : WsSess]]
  /\ handlers \in [list : Seq(WsHandler), off : SUBSET WsHandler]
  /\ pushing \in [WsPushers -> [pc : {"idle", "visit", "handle"}, tag : {"none", "send", "close"},
                                to : Nat, todo : Seq(WsHandler)]]
  /\ \A p \in WsPushers : pushing[p].pc = "handle" => pushing[p].todo # <<>>
  /\ told.panic = FALSE

\* The sessions that have their User: from its Get to its Put.
WsOwners == {s \in WsSess : sess[s].pc \notin {"out", "fin", "over"}}

\* A User was made by a session that has begun, and has an id of its own.
WsMade ==
  /\ \A u \in pooled : sess[u].pc # "out" /\ addr[u] # 0
  /\ \A s \in WsSess : sess[s].pc # "out" =>
       sess[sess[s].item].pc # "out" /\ addr[sess[s].item] # 0
  /\ \A s, t \in WsSess : addr[s] = addr[t] /\ addr[s] # 0 => s = t

\* It is in the pool or has one owner.
WsIds ==
  /\ WsMade
  /\ \A s \in WsOwners : sess[s].item \notin pooled
  /\ \A s, t \in WsOwners : sess[s].item = sess[t].item => s = t

\* A handler that can be called is that of a session that is reading.
WsReading ==
  \A i \in 1..Len(handlers.list) :
    \/ handlers.list[i] \in handlers.off
    \/ sess[handlers.list[i].s].pc \in {"read", "close"}

\* The handlers in the list are those of sessions.
LEMMA WsListed ==
  ASSUME WsTypes
  PROVE  /\ handlers.list \in Seq(WsHandler) /\ handlers.off \in SUBSET WsHandler
         /\ \A i \in 1..Len(handlers.list) :
              handlers.list[i] \in WsHandler /\ handlers.list[i].s \in WsSess
<1>1. handlers \in [list : Seq(WsHandler), off : SUBSET WsHandler]
  BY DEF WsTypes
<1>2. handlers.list \in Seq(WsHandler) /\ handlers.off \in SUBSET WsHandler
  BY <1>1
<1>3. ASSUME NEW i \in 1..Len(handlers.list)
      PROVE  handlers.list[i] \in WsHandler /\ handlers.list[i].s \in WsSess
  <2>1. handlers.list[i] \in WsHandler
    BY <1>2
  <2> QED
    BY <2>1 DEF WsHandler
<1> QED
  BY <1>2, <1>3

\* A session that does not leave its reading leaves the handlers as they are.
LEMMA WsKeepsReading ==
  ASSUME WsTypes, WsReading, UNCHANGED handlers,
         \A t \in WsSess : sess[t].pc \in {"read", "close"} => sess'[t].pc \in {"read", "close"}
  PROVE  WsReading'
<1>1. handlers' = handlers /\ \A i \in 1..Len(handlers.list) : handlers.list[i].s \in WsSess
  BY WsListed
<1> QED
  BY <1>1 DEF WsReading

\* A step of one session changes its place only.
LEMMA WsGoto ==
  ASSUME WsTypes, NEW s \in WsSess, NEW p \in WsPcs, WsUsers!Goto(s, p)
  PROVE  /\ sess' \in [WsSess -> [pc : WsPcs, item : WsSess]]
         /\ sess'[s].pc = p
         /\ \A t \in WsSess : sess'[t].item = sess[t].item /\ (t # s => sess'[t].pc = sess[t].pc)
<1>1. sess' = [sess EXCEPT ![s] = [sess[s] EXCEPT !.pc = p]]
  BY DEF WsTypes, WsUsers!Goto
<1>2. /\ [sess[s] EXCEPT !.pc = p] \in [pc : WsPcs, item : WsSess]
      /\ [sess[s] EXCEPT !.pc = p].pc = p /\ [sess[s] EXCEPT !.pc = p].item = sess[s].item
  <2>1. sess[s] \in [pc : WsPcs, item : WsSess]
    BY DEF WsTypes
  <2> QED
    BY <2>1
<1>3. \A t \in WsSess : sess'[t] = IF t = s THEN [sess[s] EXCEPT !.pc = p] ELSE sess[t]
  BY <1>1 DEF WsTypes
<1>4. \A t \in WsSess : sess'[t].item = sess[t].item /\ (t # s => sess'[t].pc = sess[t].pc)
  BY <1>2, <1>3
<1>5. sess' \in [WsSess -> [pc : WsPcs, item : WsSess]]
  BY <1>1, <1>2 DEF WsTypes
<1> QED
  BY <1>2, <1>3, <1>4, <1>5

\* A session that moves on, and may give its User back, makes none.
LEMMA WsMadeKept ==
  ASSUME WsTypes, WsMade, UNCHANGED addr, NEW s \in WsSess,
         sess[s].pc # "out", sess'[s].pc # "out",
         \A t \in WsSess : sess'[t].item = sess[t].item /\ (t # s => sess'[t].pc = sess[t].pc),
         pooled' \subseteq pooled \cup {sess[s].item}
  PROVE  WsMade'
<1>1. /\ \A t \in WsSess : sess[t].item \in WsSess
      /\ pooled \in SUBSET WsSess
  BY DEF WsTypes
<1>2. \A t \in WsSess : sess'[t].pc # "out" <=> sess[t].pc # "out"
  OBVIOUS
<1> QED
  BY <1>1, <1>2 DEF WsMade

\* At the start nobody has a User.
LEMMA WsInit == WsUsers!Init => WsTypes /\ WsIds /\ WsReading
<1> SUFFICES ASSUME WsUsers!Init
             PROVE  WsTypes /\ WsIds /\ WsReading
  OBVIOUS
<1>1. WsUsers!Sess = WsSess
  BY DEF WsUsers!Sess
<1>2. WsTypes
  BY <1>1 DEF WsUsers!Init, WsUsers!NoPushing, WsTypes, WsPcs, WsHandler
<1>3. WsIds
  BY <1>1 DEF WsUsers!Init, WsIds, WsMade, WsOwners
<1>4. WsReading
  BY DEF WsUsers!Init, WsReading
<1> QED
  BY <1>2, <1>3, <1>4

\* A session begins with a User that nobody has.
LEMMA WsBegin ==
  ASSUME WsTypes, WsIds, WsReading, NEW s \in WsSess, WsUsers!Begin(s)
  PROVE  (WsTypes /\ WsIds /\ WsReading)'
<1>1. PICK u \in pooled \cup {s} :
        /\ sess' = [sess EXCEPT ![s] = [pc |-> "init", item |-> u]]
        /\ pooled' = pooled \ {u}
        /\ \/ u # s /\ UNCHANGED addr
           \/ u = s /\ \E a \in WsUsers!NewIds(s) : addr' = [addr EXCEPT ![s] = a]
  BY DEF WsUsers!Begin
<1>2. sess[s].pc = "out" /\ UNCHANGED <<handlers, pushing, told>>
  BY DEF WsUsers!Begin
<1>3. u \in WsSess /\ (\A t \in WsOwners : sess[t].item # u) /\ (u # s => addr[u] # 0)
  <2>1. ASSUME u \in pooled
        PROVE  u \in WsSess /\ \A t \in WsOwners : sess[t].item # u
    BY <2>1 DEF WsTypes, WsIds
  <2>2. ASSUME u = s
        PROVE  \A t \in WsOwners : sess[t].item # u
    BY <1>2, <2>2 DEF WsIds, WsMade, WsOwners
  <2>3. u # s => addr[u] # 0
    BY <1>1 DEF WsIds, WsMade
  <2> QED
    BY <1>1, <2>1, <2>2, <2>3
<1>4. /\ sess' \in [WsSess -> [pc : WsPcs, item : WsSess]]
      /\ sess'[s].pc = "init" /\ sess'[s].item = u
      /\ \A t \in WsSess \ {s} : sess'[t] = sess[t]
  BY <1>1, <1>3 DEF WsTypes, WsPcs
<1>5. /\ addr' \in [WsSess -> Nat]
      /\ \A t \in WsSess \ {s} : addr'[t] = addr[t]
      /\ addr'[u] # 0
      /\ addr'[s] # addr[s] => \A t \in WsSess \ {s} : addr'[s] # addr[t]
  <2>1. addr \in [WsSess -> Nat]
    BY DEF WsTypes
  <2>2. ASSUME NEW a \in WsUsers!NewIds(s), addr' = [addr EXCEPT ![s] = a]
        PROVE  /\ addr' \in [WsSess -> Nat] /\ addr'[s] # 0
               /\ \A t \in WsSess \ {s} : addr'[t] = addr[t] /\ addr'[s] # addr[t]
    <3>1. /\ a \in Nat \ {0}
          /\ \A t \in WsSess : a # addr[t]
      BY <2>1, <2>2, MsgqAssumptions
         DEF WsUsers!NewIds, WsUsers!Range, WsUsers!SessionsAssumption
    <3> QED
      BY <2>1, <2>2, <3>1
  <2> QED
    BY <1>1, <1>3, <2>1, <2>2
<1>6. WsTypes'
  BY <1>1, <1>2, <1>4, <1>5 DEF WsTypes
<1>7. /\ WsOwners' = WsOwners \cup {s} /\ s \notin WsOwners
      /\ \A t \in WsOwners : sess'[t] = sess[t]
  BY <1>2, <1>4 DEF WsOwners
<1>8. WsIds'
  <2>1. WsMade'
    <3>1. \A x \in pooled' : sess'[x].pc # "out" /\ addr'[x] # 0
      <4>1. \A x \in pooled' : /\ x \in WsSess \ {s}
                              /\ sess[x].pc # "out" /\ addr[x] # 0
        BY <1>1, <1>2 DEF WsIds, WsMade, WsTypes
      <4> QED
        BY <1>4, <1>5, <4>1
    <3>2. ASSUME NEW t \in WsSess, sess'[t].pc # "out"
          PROVE  sess'[sess'[t].item].pc # "out" /\ addr'[sess'[t].item] # 0
      <4>1. CASE t = s
        <5>1. u # s => sess[u].pc # "out"
          BY <1>1 DEF WsIds, WsMade
        <5> QED
          BY <1>3, <1>4, <1>5, <4>1, <5>1
      <4>2. CASE t # s
        <5>1. /\ sess'[t] = sess[t] /\ sess[t].item \in WsSess
              /\ sess[sess[t].item].pc # "out" /\ addr[sess[t].item] # 0
          BY <1>4, <3>2, <4>2 DEF WsTypes, WsIds, WsMade
        <5>2. sess[t].item # s
          BY <1>2, <5>1
        <5> QED
          BY <1>4, <1>5, <5>1, <5>2
      <4> QED
        BY <4>1, <4>2
    <3>3. \A t, v \in WsSess : addr'[t] = addr'[v] /\ addr'[t] # 0 => t = v
      BY <1>5 DEF WsIds, WsMade
    <3> QED
      BY <3>1, <3>2, <3>3 DEF WsMade
  <2>2. \A t \in WsOwners' : sess'[t].item \notin pooled'
    BY <1>1, <1>4, <1>7 DEF WsIds
  <2>3. \A t, v \in WsOwners' : sess'[t].item = sess'[v].item => t = v
    BY <1>3, <1>4, <1>7 DEF WsIds
  <2> QED
    BY <2>1, <2>2, <2>3 DEF WsIds
<1>9. WsReading'
  BY <1>2, <1>4, WsKeepsReading
<1> QED
  BY <1>6, <1>8, <1>9

\* A step of a session that has its id, or is at its end.
LEMMA WsMoves ==
  ASSUME WsTypes, WsIds, WsReading, NEW s \in WsSess, NEW p \in WsPcs \ {"out"},
         WsUsers!Goto(s, p), UNCHANGED <<pooled, handlers, pushing, told>>,
         sess[s].pc # "out",
         sess[s].pc \in {"fin", "over"} => p \in {"fin", "over"},
         sess[s].pc \in {"read", "close"} => p \in {"read", "close"}, UNCHANGED addr
  PROVE  (WsTypes /\ WsIds /\ WsReading)'
<1>1. /\ sess' \in [WsSess -> [pc : WsPcs, item : WsSess]]
      /\ sess'[s].pc = p
      /\ \A t \in WsSess : sess'[t].item = sess[t].item /\ (t # s => sess'[t].pc = sess[t].pc)
  BY WsGoto
<1>2. WsTypes'
  BY <1>1 DEF WsTypes
<1>3. WsIds'
  <2>1. WsOwners' \subseteq WsOwners
    BY <1>1 DEF WsOwners
  <2>2. \A t \in WsOwners : t \in WsSess /\ sess'[t].item = sess[t].item
    BY <1>1 DEF WsOwners
  <2>3. WsMade'
    BY <1>1, WsMadeKept DEF WsIds
  <2> QED
    BY <2>1, <2>2, <2>3 DEF WsIds
<1>4. WsReading'
  BY <1>1, WsKeepsReading
<1> QED
  BY <1>2, <1>3, <1>4

\* A registration puts the handler of the session in the list.
LEMMA WsRegister ==
  ASSUME WsTypes, WsIds, WsReading, NEW s \in WsSess, WsUsers!Register(s), UNCHANGED addr
  PROVE  (WsTypes /\ WsIds /\ WsReading)'
<1> DEFINE h == [s |-> s, kind |-> "both"]
<1>1. /\ sess[s].pc = "register"
      /\ handlers' = [handlers EXCEPT !.list = Append(@, h)]
      /\ WsUsers!Goto(s, "read")
      /\ UNCHANGED <<pooled, pushing, told>>
  BY DEF WsUsers!Register, WsTypes, WsPcs
<1>2. h \in WsHandler /\ h.s = s
  BY DEF WsHandler
<1> HIDE DEF h
<1>3. /\ sess' \in [WsSess -> [pc : WsPcs, item : WsSess]]
      /\ sess'[s].pc = "read"
      /\ \A t \in WsSess : sess'[t].item = sess[t].item /\ (t # s => sess'[t].pc = sess[t].pc)
  <2>1. "read" \in WsPcs
    BY DEF WsPcs
  <2> QED
    BY <1>1, <2>1, WsGoto
<1>4. /\ handlers'.list = Append(handlers.list, h) /\ handlers'.off = handlers.off
      /\ handlers' \in [list : Seq(WsHandler), off : SUBSET WsHandler]
  <2>1. handlers \in [list : Seq(WsHandler), off : SUBSET WsHandler]
    BY DEF WsTypes
  <2>2. Append(handlers.list, h) \in Seq(WsHandler)
    BY <1>2, <2>1
  <2> QED
    BY <1>1, <2>1, <2>2
<1>5. WsTypes'
  BY <1>1, <1>3, <1>4 DEF WsTypes
<1>6. WsIds'
  <2>1. WsOwners' = WsOwners
    BY <1>1, <1>3 DEF WsOwners
  <2>2. \A t \in WsOwners : t \in WsSess /\ sess'[t].item = sess[t].item
    BY <1>3 DEF WsOwners
  <2>3. WsMade'
    BY <1>1, <1>3, WsMadeKept DEF WsIds
  <2> QED
    BY <1>1, <2>1, <2>2, <2>3 DEF WsIds
<1>7. WsReading'
  <2> SUFFICES ASSUME NEW i \in 1..Len(handlers'.list)
               PROVE  \/ handlers'.list[i] \in handlers'.off
                      \/ sess'[handlers'.list[i].s].pc \in {"read", "close"}
    BY DEF WsReading
  <2>1. handlers.list \in Seq(WsHandler)
    BY WsListed
  <2>2. CASE i = Len(handlers.list) + 1
    <3>1. handlers'.list[i] = h
      BY <1>4, <2>1, <2>2
    <3> QED
      BY <1>2, <1>3, <3>1
  <2>3. CASE i # Len(handlers.list) + 1
    <3>1. i \in 1..Len(handlers.list) /\ handlers'.list[i] = handlers.list[i]
      BY <1>4, <2>1, <2>3
    <3>2. handlers.list[i].s \in WsSess
      BY <3>1, WsListed
    <3>3. handlers.list[i] \in handlers.off \/ sess[handlers.list[i].s].pc \in {"read", "close"}
      BY <3>1 DEF WsReading
    <3>4. handlers.list[i].s # s \/ handlers.list[i] \in handlers.off
      BY <1>1, <3>3
    <3> QED
      BY <1>3, <1>4, <3>1, <3>2, <3>3, <3>4
  <2> QED
    BY <2>2, <2>3
<1> QED
  BY <1>5, <1>6, <1>7

\* A close of its own disables every handler of the session.
LEMMA WsPushClose ==
  ASSUME WsTypes, WsIds, WsReading, NEW s \in WsSess, WsUsers!PushClose(s), UNCHANGED addr
  PROVE  (WsTypes /\ WsIds /\ WsReading)'
<1> DEFINE Own == {h \in WsUsers!ToSet(handlers.list) : WsUsers!Id(h.s) = WsUsers!Id(s)}
<1>1. /\ sess[s].pc = "close"
      /\ handlers' = [handlers EXCEPT !.off = handlers.off \cup Own]
      /\ WsUsers!Goto(s, "put")
      /\ UNCHANGED <<pooled, pushing, told>>
  BY DEF WsUsers!PushClose
<1>2. /\ Own \in SUBSET WsHandler
      /\ \A i \in 1..Len(handlers.list) : handlers.list[i].s = s => handlers.list[i] \in Own
  <2>1. WsUsers!ToSet(handlers.list) = {handlers.list[i] : i \in 1..Len(handlers.list)}
    BY WsListed DEF WsUsers!ToSet
  <2> QED
    BY <2>1, WsListed
<1> HIDE DEF Own
<1>3. /\ sess' \in [WsSess -> [pc : WsPcs, item : WsSess]]
      /\ sess'[s].pc = "put"
      /\ \A t \in WsSess : sess'[t].item = sess[t].item /\ (t # s => sess'[t].pc = sess[t].pc)
  <2>1. "put" \in WsPcs
    BY DEF WsPcs
  <2> QED
    BY <1>1, <2>1, WsGoto
<1>4. /\ handlers'.list = handlers.list /\ handlers'.off = handlers.off \cup Own
      /\ handlers' \in [list : Seq(WsHandler), off : SUBSET WsHandler]
  <2>1. handlers \in [list : Seq(WsHandler), off : SUBSET WsHandler]
    BY DEF WsTypes
  <2>2. handlers.off \cup Own \in SUBSET WsHandler
    BY <1>2, <2>1
  <2> QED
    BY <1>1, <2>1, <2>2
<1>5. WsTypes'
  BY <1>1, <1>3, <1>4 DEF WsTypes
<1>6. WsIds'
  <2>1. WsOwners' = WsOwners
    BY <1>1, <1>3 DEF WsOwners
  <2>2. \A t \in WsOwners : t \in WsSess /\ sess'[t].item = sess[t].item
    BY <1>3 DEF WsOwners
  <2>3. WsMade'
    BY <1>1, <1>3, WsMadeKept DEF WsIds
  <2> QED
    BY <1>1, <2>1, <2>2, <2>3 DEF WsIds
<1>7. WsReading'
  <2> SUFFICES ASSUME NEW i \in 1..Len(handlers.list)
               PROVE  \/ handlers.list[i] \in handlers'.off
                      \/ sess'[handlers.list[i].s].pc \in {"read", "close"}
    BY <1>4 DEF WsReading
  <2>1. handlers.list[i].s \in WsSess
    BY WsListed
  <2>2. handlers.list[i] \in handlers.off \/ sess[handlers.list[i].s].pc \in {"read", "close"}
    BY DEF WsReading
  <2>3. handlers.list[i].s = s => handlers.list[i] \in Own
    BY <1>2
  <2> QED
    BY <1>3, <1>4, <2>1, <2>2, <2>3
<1> QED
  BY <1>5, <1>6, <1>7

\* An id goes back to the pool when nothing listens to it any more.
LEMMA WsPut ==
  ASSUME WsTypes, WsIds, WsReading, NEW s \in WsSess, WsUsers!Put(s), UNCHANGED addr
  PROVE  (WsTypes /\ WsIds /\ WsReading)'
<1>1. /\ sess[s].pc = "put"
      /\ pooled' = pooled \cup {sess[s].item}
      /\ WsUsers!Goto(s, "fin")
      /\ UNCHANGED <<handlers, pushing, told>>
  BY DEF WsUsers!Put
<1>2. /\ sess' \in [WsSess -> [pc : WsPcs, item : WsSess]]
      /\ sess'[s].pc = "fin"
      /\ \A t \in WsSess : sess'[t].item = sess[t].item /\ (t # s => sess'[t].pc = sess[t].pc)
  <2>1. "fin" \in WsPcs
    BY DEF WsPcs
  <2> QED
    BY <1>1, <2>1, WsGoto
<1>3. sess[s].item \in WsSess
  BY DEF WsTypes
<1>4. WsTypes'
  BY <1>1, <1>2, <1>3 DEF WsTypes
<1>5. WsIds'
  <2>1. WsOwners' = WsOwners \ {s} /\ s \in WsOwners
    BY <1>1, <1>2 DEF WsOwners
  <2>2. \A t \in WsOwners : t \in WsSess /\ sess'[t].item = sess[t].item
    BY <1>2 DEF WsOwners
  <2>3. WsMade'
    BY <1>1, <1>2, WsMadeKept DEF WsIds
  <2>4. \A t \in WsOwners' : sess'[t].item \notin pooled'
    BY <1>1, <2>1, <2>2 DEF WsIds
  <2>5. \A t, u \in WsOwners' : sess'[t].item = sess'[u].item => t = u
    BY <2>1, <2>2 DEF WsIds
  <2> QED
    BY <2>3, <2>4, <2>5 DEF WsIds
<1>6. WsReading'
  BY <1>1, <1>2, WsKeepsReading
<1> QED
  BY <1>4, <1>5, <1>6

\* A push has the handlers of the list before it; it changes nothing but what is
\* disabled.
WsPusher == [pc : {"idle", "visit", "handle"}, tag : {"none", "send", "close"},
             to : Nat, todo : Seq(WsHandler)]

\* A step of a pusher disables handlers at most.
LEMMA WsPushes ==
  ASSUME WsTypes, WsIds, WsReading, NEW p \in WsPushers,
         \E new \in WsPusher : /\ new.pc = "handle" => new.todo # <<>>
                               /\ pushing' = [pushing EXCEPT ![p] = new],
         \E more \in SUBSET WsHandler :
           handlers' = [handlers EXCEPT !.off = handlers.off \cup more],
         UNCHANGED <<pooled, sess>>, told'.panic = told.panic, UNCHANGED addr
  PROVE  (WsTypes /\ WsIds /\ WsReading)'
<1> PICK new \in WsPusher : /\ new.pc = "handle" => new.todo # <<>>
                            /\ pushing' = [pushing EXCEPT ![p] = new]
  OBVIOUS
<1> PICK more \in SUBSET WsHandler :
      handlers' = [handlers EXCEPT !.off = handlers.off \cup more]
  OBVIOUS
<1>1. /\ handlers'.list = handlers.list /\ handlers'.off = handlers.off \cup more
      /\ handlers' \in [list : Seq(WsHandler), off : SUBSET WsHandler]
  <2>1. handlers \in [list : Seq(WsHandler), off : SUBSET WsHandler]
    BY DEF WsTypes
  <2>2. handlers.off \cup more \in SUBSET WsHandler
    BY <2>1
  <2> QED
    BY <2>1, <2>2
<1>2. WsTypes'
  <2>1. /\ pushing' \in [WsPushers -> WsPusher]
        /\ \A q \in WsPushers : pushing'[q] = IF q = p THEN new ELSE pushing[q]
    BY DEF WsTypes, WsPusher
  <2>2. \A q \in WsPushers : pushing'[q].pc = "handle" => pushing'[q].todo # <<>>
    BY <2>1 DEF WsTypes
  <2> QED
    BY <1>1, <2>1, <2>2 DEF WsTypes, WsPusher
<1>3. WsIds'
  BY DEF WsIds, WsMade, WsOwners
<1>4. WsReading'
  BY <1>1 DEF WsReading
<1> QED
  BY <1>2, <1>3, <1>4

\* A push begins.
LEMMA WsUserPush ==
  ASSUME WsTypes, WsIds, WsReading, NEW p \in WsPushers, NEW tag \in {"send", "close"},
         NEW to \in {0} \cup WsUsers!Range(addr), WsUsers!UserPush(p, tag, to), UNCHANGED addr
  PROVE  (WsTypes /\ WsIds /\ WsReading)'
<1> DEFINE new == [pc |-> "visit", tag |-> tag, to |-> to, todo |-> handlers.list]
<1>1. /\ pushing' = [pushing EXCEPT ![p] = new]
      /\ UNCHANGED <<pooled, sess, handlers>>
      /\ told'.panic = told.panic
  BY DEF WsUsers!UserPush
<1>2. to \in Nat
  BY DEF WsTypes, WsUsers!Range
<1>3. new \in WsPusher /\ new.pc = "visit"
  BY <1>2, WsListed DEF WsPusher
<1> HIDE DEF new
<1>4. handlers' = [handlers EXCEPT !.off = handlers.off \cup {}]
  BY <1>1 DEF WsTypes
<1> QED
  BY <1>1, <1>3, <1>4, WsPushes

\* The handler in hand is left for the next one.
LEMMA WsGoOn ==
  ASSUME WsTypes, NEW p \in WsPushers, pushing[p].todo # <<>>, WsUsers!GoOn(p)
  PROVE  \E new \in WsPusher :
           new.pc = "visit" /\ pushing' = [pushing EXCEPT ![p] = new]
<1> DEFINE new == [pushing[p] EXCEPT !.pc = "visit", !.todo = Tail(@)]
<1>1. pushing' = [pushing EXCEPT ![p] = new]
  BY DEF WsUsers!GoOn, WsTypes
<1>2. pushing[p] \in WsPusher
  BY DEF WsTypes, WsPusher
<1>3. Tail(pushing[p].todo) \in Seq(WsHandler)
  BY <1>2 DEF WsPusher
<1>4. new \in WsPusher /\ new.pc = "visit"
  BY <1>2, <1>3 DEF WsPusher
<1> HIDE DEF new
<1> QED
  BY <1>1, <1>4

\* A push looks at the next handler.
LEMMA WsVisit ==
  ASSUME WsTypes, WsIds, WsReading, NEW p \in WsPushers, WsUsers!Visit(p), UNCHANGED addr
  PROVE  (WsTypes /\ WsIds /\ WsReading)'
<1>1. /\ UNCHANGED <<pooled, sess>> /\ told'.panic = told.panic
      /\ handlers' = [handlers EXCEPT !.off = handlers.off \cup {}]
  BY DEF WsUsers!Visit, WsTypes
<1>2. \E new \in WsPusher : /\ new.pc = "handle" => new.todo # <<>>
                            /\ pushing' = [pushing EXCEPT ![p] = new]
  <2>1. CASE pushing' = [pushing EXCEPT ![p] = WsUsers!NoPushing]
    <3>1. WsUsers!NoPushing \in WsPusher /\ WsUsers!NoPushing.pc = "idle"
      BY DEF WsUsers!NoPushing, WsPusher
    <3> QED
      BY <2>1, <3>1
  <2>2. CASE pushing[p].todo # <<>> /\ WsUsers!GoOn(p)
    BY <2>2, WsGoOn
  <2>3. CASE pushing[p].todo # <<>> /\ pushing' = [pushing EXCEPT ![p].pc = "handle"]
    <3>1. [pushing[p] EXCEPT !.pc = "handle"] \in WsPusher
      BY DEF WsTypes, WsPusher
    <3>2. [pushing[p] EXCEPT !.pc = "handle"].todo # <<>>
      BY <2>3 DEF WsTypes
    <3>3. pushing' = [pushing EXCEPT ![p] = [pushing[p] EXCEPT !.pc = "handle"]]
      BY <2>3 DEF WsTypes
    <3> QED
      BY <3>1, <3>2, <3>3
  <2> QED
    BY <2>1, <2>2, <2>3 DEF WsUsers!Visit
<1> QED
  BY <1>1, <1>2, WsPushes

\* A handler runs.
LEMMA WsHandle ==
  ASSUME WsTypes, WsIds, WsReading, NEW p \in WsPushers, WsUsers!Handle(p), UNCHANGED addr
  PROVE  (WsTypes /\ WsIds /\ WsReading)'
<1>1. pushing[p].pc = "handle" /\ UNCHANGED <<pooled, sess, told>> /\ WsUsers!GoOn(p)
  BY DEF WsUsers!Handle
<1>2. pushing[p].todo # <<>>
  BY <1>1 DEF WsTypes
<1>3. PICK new \in WsPusher : new.pc = "visit" /\ pushing' = [pushing EXCEPT ![p] = new]
  BY <1>1, <1>2, WsGoOn
<1>4. Head(pushing[p].todo) \in WsHandler
  BY <1>2 DEF WsTypes
<1>5. \E more \in SUBSET WsHandler : handlers' = [handlers EXCEPT !.off = handlers.off \cup more]
  <2>1. CASE UNCHANGED handlers
    <3>1. handlers' = [handlers EXCEPT !.off = handlers.off \cup {}]
      BY <2>1 DEF WsTypes
    <3> QED
      BY <3>1
  <2>2. CASE handlers' = [handlers EXCEPT !.off = @ \cup {Head(pushing[p].todo)}]
    <3>1. {Head(pushing[p].todo)} \in SUBSET WsHandler
      BY <1>4
    <3> QED
      BY <2>2, <3>1
  <2> QED
    BY <2>1, <2>2 DEF WsUsers!Handle
<1> QED
  BY <1>1, <1>3, <1>5, WsPushes

\* Every step of a server keeps its sessions apart.
LEMMA WsStep ==
  ASSUME WsTypes, WsIds, WsReading, WsUsers!Next
  PROVE  (WsTypes /\ WsIds /\ WsReading)'
<1>8. ASSUME NEW s \in WsSess, WsUsers!Begin(s)
      PROVE  (WsTypes /\ WsIds /\ WsReading)'
  BY <1>8, WsBegin
<1>1. ASSUME NEW s \in WsSess, WsUsers!Register(s) \/ WsUsers!Put(s), UNCHANGED addr
      PROVE  (WsTypes /\ WsIds /\ WsReading)'
  BY <1>1, WsRegister, WsPut
<1>2. ASSUME NEW s \in WsSess, WsUsers!PushClose(s), UNCHANGED addr
      PROVE  (WsTypes /\ WsIds /\ WsReading)'
  BY <1>2, WsPushClose
<1>3. ASSUME NEW s \in WsSess,
             WsUsers!PushInit(s) \/ WsUsers!Upgrade(s) \/ WsUsers!ReadMessage(s) \/ WsUsers!PushFin(s),
             UNCHANGED addr
      PROVE  (WsTypes /\ WsIds /\ WsReading)'
  <2>1. {"upgrade", "register", "put", "close", "over"} \subseteq WsPcs \ {"out"}
    BY DEF WsPcs
  <2>2. UNCHANGED <<pooled, handlers, pushing, told>>
    BY <1>3 DEF WsUsers!PushInit, WsUsers!Upgrade, WsUsers!ReadMessage, WsUsers!PushFin, WsUsers!Quiet
  <2>3. CASE WsUsers!PushInit(s)
    <3>1. sess[s].pc = "init" /\ WsUsers!Goto(s, "upgrade")
      BY <2>3 DEF WsUsers!PushInit
    <3> QED
      BY <2>1, <2>2, <3>1, <1>3, WsMoves
  <2>4. CASE WsUsers!Upgrade(s)
    <3>1. sess[s].pc = "upgrade" /\ (WsUsers!Goto(s, "register") \/ WsUsers!Goto(s, "put"))
      BY <2>4 DEF WsUsers!Upgrade
    <3> QED
      BY <2>1, <2>2, <3>1, <1>3, WsMoves
  <2>5. CASE WsUsers!ReadMessage(s)
    <3>1. sess[s].pc = "read" /\ WsUsers!Goto(s, "close")
      BY <2>5 DEF WsUsers!ReadMessage
    <3> QED
      BY <2>1, <2>2, <3>1, <1>3, WsMoves
  <2>6. CASE WsUsers!PushFin(s)
    <3>1. sess[s].pc = "fin" /\ WsUsers!Goto(s, "over")
      BY <2>6 DEF WsUsers!PushFin
    <3> QED
      BY <2>1, <2>2, <3>1, <1>3, WsMoves
  <2> QED
    BY <1>3, <2>3, <2>4, <2>5, <2>6
<1>4. ASSUME NEW p \in WsPushers, NEW tag \in {"send", "close"},
             NEW to \in {0} \cup WsUsers!Range(addr), WsUsers!UserPush(p, tag, to), UNCHANGED addr
      PROVE  (WsTypes /\ WsIds /\ WsReading)'
  BY <1>4, WsUserPush
<1>5. ASSUME NEW p \in WsPushers, WsUsers!Visit(p) \/ WsUsers!Handle(p), UNCHANGED addr
      PROVE  (WsTypes /\ WsIds /\ WsReading)'
  BY <1>5, WsVisit, WsHandle
<1>6. ASSUME NEW p \in WsPushers, WsUsers!ChanTest(p) \/ WsUsers!ChanSend(p)
      PROVE  FALSE
  <2>1. pushing[p].pc = "handle"
    BY <1>6 DEF WsUsers!ChanTest, WsUsers!ChanSend, WsTypes
  <2>2. pushing[p].todo # <<>> /\ pushing[p].todo \in Seq(WsHandler)
    BY <2>1 DEF WsTypes
  <2>3. Head(pushing[p].todo).kind = "both"
    <3>1. Head(pushing[p].todo) \in WsHandler
      BY <2>2
    <3> QED
      BY <3>1 DEF WsHandler
  <2> QED
    BY <1>6, <2>1, <2>3 DEF WsUsers!ChanTest, WsUsers!ChanSend
<1>7. WsUsers!Sess = WsSess
  BY DEF WsUsers!Sess
<1> QED
  BY <1>1, <1>2, <1>3, <1>4, <1>5, <1>6, <1>7, <1>8 DEF WsUsers!Next, WsUsers!Step

\* What the invariant says of the sessions.
LEMMA WsSafe ==
  ASSUME WsTypes, WsIds, WsReading
  PROVE  WsUsers!SessionsApart
<1>1. WsUsers!Sess = WsSess
  BY DEF WsUsers!Sess
<1>2. \A h \in WsUsers!Live : h.s \in WsOwners
  <2> SUFFICES ASSUME NEW h \in WsUsers!Live
               PROVE  h.s \in WsOwners
    OBVIOUS
  <2>1. PICK i \in 1..Len(handlers.list) : handlers.list[i] = h /\ h \notin handlers.off
    BY WsListed DEF WsUsers!Live, WsUsers!ToSet
  <2> QED
    BY <2>1, WsListed DEF WsReading, WsOwners
<1>3. \A h \in WsUsers!Live : sess[h.s].item \notin pooled
  BY <1>2 DEF WsIds
<1>7. \A s, t \in WsOwners : s # t => WsUsers!Apart(s, t)
  <2> SUFFICES ASSUME NEW s \in WsOwners, NEW t \in WsOwners, s # t
               PROVE  WsUsers!Apart(s, t)
    OBVIOUS
  <2>1. /\ sess[s].item \in WsSess /\ sess[t].item \in WsSess
        /\ addr[sess[s].item] # 0 /\ sess[s].item # sess[t].item
    BY DEF WsIds, WsMade, WsOwners, WsTypes
  <2>2. addr[sess[s].item] # addr[sess[t].item]
    BY <2>1 DEF WsIds, WsMade
  <2> QED
    BY <2>1, <2>2 DEF WsUsers!Apart, WsUsers!Id
<1>4. \A h, k \in WsUsers!Live : h.s # k.s => WsUsers!Apart(h.s, k.s)
  BY <1>2, <1>7
<1>5. \A s, t \in WsSess : s # t /\ WsUsers!InUse(s) /\ WsUsers!InUse(t) =>
        WsUsers!Apart(s, t) \/ \E u \in {s, t} \cap WsSess : sess[u].pc = "fin"
  BY <1>7 DEF WsOwners, WsUsers!InUse
<1>6. told.panic = FALSE
  BY DEF WsTypes
<1> QED
  BY <1>1, <1>3, <1>4, <1>5, <1>6 DEF WsUsers!SessionsApart

----------------------------------------------------------------------------
(* The sessions of sse, whose close comes through a channel.               *)

SsePcs == {"out", "init", "register", "register2", "recv", "loop", "cancel", "unreg", "closeCh",
           "unregSend", "fin", "put", "over"}
SseHandler == [s : SseSess, kind : {"send", "chan"}]
ChanOf(s) == [s |-> s, kind |-> "chan"]

\* The places of a session whose channel is cancelled, and the last of them.
Cancelled == {"unreg", "closeCh", "unregSend", "fin", "put", "over"}
ChanClosed == {"unregSend", "fin", "put", "over"}

SsePusher == [pc : {"idle", "visit", "handle", "drain"}, tag : {"none", "send", "close"},
              to : Nat, todo : Seq(SseHandler)]

SseChannel == [buf : Seq(Nat), closed : BOOLEAN, done : BOOLEAN]
SseTold == [pushes : Nat, last : [SseSess -> Int], raced : BOOLEAN, panic : BOOLEAN]

\* The types; a pusher in a handler has it at the head of what it visits.
SseTypes ==
  /\ spooled \in SUBSET SseSess /\ saddr \in [SseSess -> Nat]
  /\ ssess \in [SseSess -> [pc : SsePcs, item : SseSess]]
  /\ shandlers \in [list : Seq(SseHandler), off : SUBSET SseHandler]
  /\ scloseCh \in [SseSess -> SseChannel]
  /\ spushing \in [SsePushers -> SsePusher]
  /\ stold \in SseTold
  /\ \A p \in SsePushers :
       /\ spushing[p].pc \in {"handle", "drain"} => spushing[p].todo # <<>>
       /\ spushing[p].pc = "drain" => Head(spushing[p].todo).kind = "chan"

\* The sessions that have their Umsg: from its Get to its Put.
SseOwners == {s \in SseSess : ssess[s].pc \notin {"out", "over"}}

\* A Umsg was made by a session that has begun.
SseMade ==
  /\ \A u \in spooled : ssess[u].pc # "out"
  /\ \A s \in SseSess : ssess[s].pc # "out" => ssess[ssess[s].item].pc # "out"

\* It is in the pool or has one owner; its id may be that of another one.
SseIds ==
  /\ SseMade
  /\ \A s \in SseOwners : ssess[s].item \notin spooled
  /\ \A s, t \in SseOwners : ssess[s].item = ssess[t].item => s = t

\* A handler that can be called is that of a session that has not cancelled it, and
\* nobody has the handler of a session that has not begun.
ListensAt == [send |-> {"register2", "recv", "loop", "cancel", "unreg", "closeCh", "unregSend"},
              chan |-> {"recv", "loop", "cancel", "unreg"}]
SseListening ==
  /\ \A i \in 1..Len(shandlers.list) :
       /\ \/ shandlers.list[i] \in shandlers.off
          \/ ssess[shandlers.list[i].s].pc \in ListensAt[shandlers.list[i].kind]
       /\ ssess[shandlers.list[i].s].pc # "out"
  /\ \A p \in SsePushers : \A i \in 1..Len(spushing[p].todo) :
       ssess[spushing[p].todo[i].s].pc # "out"

\* The channel is empty or has the close handed to it last; it is not empty while one
\* for the session waits to be received.
BeforeCancel == {"out", "init", "register", "register2", "recv", "loop"}
SseBuffer ==
  \A s \in SseSess :
    /\ ssess[s].pc = "out" => stold.last[s] = -1
    /\ scloseCh[s].buf \in {<<>>, <<stold.last[s]>>}
    /\ ssess[s].pc \in BeforeCancel /\ stold.last[s] \in {0, saddr[ssess[s].item]} =>
         scloseCh[s].buf # <<>>

\* What the cancel of a session has done so far.
SseCancels ==
  \A s \in SseSess :
    /\ scloseCh[s].done <=> ssess[s].pc \in Cancelled
    /\ ssess[s].pc \in Cancelled \ {"unreg"} => ChanOf(s) \in shandlers.off

\* While no cancel and push have overlapped, a channel is closed once, and no pusher
\* has the handler of one that is cancelled.
Unraced ==
  /\ stold.panic = FALSE
  /\ \A s \in SseSess : ssess[s].pc \in {"unreg", "closeCh"} => SseUsers!NoPush
  /\ \A s \in SseSess : scloseCh[s].closed => ssess[s].pc \in ChanClosed
  /\ \A p \in SsePushers :
       spushing[p].pc \in {"handle", "drain"} /\ Head(spushing[p].todo).kind = "chan" =>
         ssess[Head(spushing[p].todo).s].pc \notin Cancelled
SseUnraced == ~stold.raced => Unraced

SseInv ==
  SseTypes /\ SseIds /\ SseListening /\ SseBuffer /\ SseCancels /\ SseUnraced

\* A channel with one of its fields changed is a channel, and has the others.
LEMMA SseChannelSet ==
  \A c \in SseChannel, b \in Seq(Nat) :
    /\ [c EXCEPT !.buf = b] \in SseChannel
    /\ [c EXCEPT !.buf = b].buf = b
    /\ [c EXCEPT !.buf = b].closed = c.closed /\ [c EXCEPT !.buf = b].done = c.done
    /\ [c EXCEPT !.closed = TRUE] \in SseChannel
    /\ [c EXCEPT !.closed = TRUE].closed
    /\ [c EXCEPT !.closed = TRUE].buf = c.buf /\ [c EXCEPT !.closed = TRUE].done = c.done
    /\ [c EXCEPT !.done = TRUE] \in SseChannel
    /\ [c EXCEPT !.done = TRUE].done
    /\ [c EXCEPT !.done = TRUE].buf = c.buf /\ [c EXCEPT !.done = TRUE].closed = c.closed
<1> TAKE c \in SseChannel, b \in Seq(Nat)
<1>1. [c EXCEPT !.buf = b] \in SseChannel
  BY Zenon DEF SseChannel
<1>2. [c EXCEPT !.closed = TRUE] \in SseChannel
  BY Zenon DEF SseChannel
<1>3. [c EXCEPT !.done = TRUE] \in SseChannel
  BY Zenon DEF SseChannel
<1>4. /\ [c EXCEPT !.buf = b].buf = b
      /\ [c EXCEPT !.closed = TRUE].closed /\ [c EXCEPT !.done = TRUE].done
  BY DEF SseChannel
<1>5. /\ [c EXCEPT !.buf = b].closed = c.closed /\ [c EXCEPT !.buf = b].done = c.done
      /\ [c EXCEPT !.closed = TRUE].buf = c.buf /\ [c EXCEPT !.closed = TRUE].done = c.done
      /\ [c EXCEPT !.done = TRUE].buf = c.buf /\ [c EXCEPT !.done = TRUE].closed = c.closed
  BY DEF SseChannel
<1> QED
  BY <1>1, <1>2, <1>3, <1>4, <1>5

\* So is what was told with one of its flags changed.
LEMMA SseToldRaced ==
  ASSUME stold \in SseTold, NEW x \in BOOLEAN, stold' = [stold EXCEPT !.raced = x]
  PROVE  /\ stold' \in SseTold /\ stold'.raced = x
         /\ stold'.last = stold.last /\ stold'.panic = stold.panic
<1>1. stold' \in SseTold
  BY Zenon DEF SseTold
<1>2. stold'.last = stold.last /\ stold'.panic = stold.panic
  BY Zenon DEF SseTold
<1>3. stold'.raced = x
  BY Zenon DEF SseTold
<1> QED
  BY <1>1, <1>2, <1>3

\* The same for the other flag.
LEMMA SseToldPanic ==
  ASSUME stold \in SseTold, NEW x \in BOOLEAN, stold' = [stold EXCEPT !.panic = x]
  PROVE  /\ stold' \in SseTold /\ stold'.panic = x
         /\ stold'.last = stold.last /\ stold'.raced = stold.raced
<1>1. stold' \in SseTold
  BY Zenon DEF SseTold
<1>2. stold'.last = stold.last /\ stold'.raced = stold.raced
  BY Zenon DEF SseTold
<1>3. stold'.panic = x
  BY Zenon DEF SseTold
<1> QED
  BY <1>1, <1>2, <1>3

\* The same for the close that was handed last.
LEMMA SseToldLast ==
  ASSUME stold \in SseTold, NEW last \in [SseSess -> Int], stold' = [stold EXCEPT !.last = last]
  PROVE  /\ stold' \in SseTold /\ stold'.last = last
         /\ stold'.raced = stold.raced /\ stold'.panic = stold.panic
<1>1. stold' \in SseTold
  BY Zenon DEF SseTold
<1>2. stold'.raced = stold.raced /\ stold'.panic = stold.panic
  BY Zenon DEF SseTold
<1>3. stold'.last = last
  BY Zenon DEF SseTold
<1> QED
  BY <1>1, <1>2, <1>3

\* And what was told when a push begins.
LEMMA SseToldPushed ==
  ASSUME stold \in SseTold, NEW x \in BOOLEAN, stold.pushes + 1 \in Nat,
         stold' = [[stold EXCEPT !.pushes = @ + 1] EXCEPT !.raced = x]
  PROVE  /\ stold' \in SseTold /\ stold'.raced = x
         /\ stold'.last = stold.last /\ stold'.panic = stold.panic
<1> DEFINE n == stold.pushes + 1
           t == [stold EXCEPT !.pushes = n]
<1>1. n \in Nat /\ stold' = [t EXCEPT !.raced = x]
  OBVIOUS
<1> HIDE DEF n
<1>2. t \in SseTold /\ t.last = stold.last /\ t.panic = stold.panic
  BY <1>1, Zenon DEF SseTold
<1> HIDE DEF t
<1>3. stold' \in SseTold
  BY <1>1, <1>2, Zenon DEF SseTold
<1>4. stold'.last = t.last /\ stold'.panic = t.panic
  BY <1>1, <1>2, Zenon DEF SseTold
<1>5. stold'.raced = x
  BY <1>1, <1>2, Zenon DEF SseTold
<1> QED
  BY <1>2, <1>3, <1>4, <1>5

\* What a step that moves a session to p does to the sessions.
SseAt(s, p) ==
  /\ ssess' \in [SseSess -> [pc : SsePcs, item : SseSess]]
  /\ ssess'[s].pc = p
  /\ \A t \in SseSess : ssess'[t].item = ssess[t].item /\ (t # s => ssess'[t].pc = ssess[t].pc)

\* A step of one session changes its place only.
LEMMA SseGoto ==
  ASSUME SseTypes, NEW s \in SseSess, NEW p \in SsePcs, SseUsers!Goto(s, p)
  PROVE  SseAt(s, p)
<1>1. ssess' = [ssess EXCEPT ![s] = [ssess[s] EXCEPT !.pc = p]]
  BY DEF SseTypes, SseUsers!Goto
<1>2. /\ [ssess[s] EXCEPT !.pc = p] \in [pc : SsePcs, item : SseSess]
      /\ [ssess[s] EXCEPT !.pc = p].pc = p /\ [ssess[s] EXCEPT !.pc = p].item = ssess[s].item
  BY DEF SseTypes
<1>3. \A t \in SseSess : ssess'[t] = IF t = s THEN [ssess[s] EXCEPT !.pc = p] ELSE ssess[t]
  BY <1>1 DEF SseTypes
<1>4. \A t \in SseSess : ssess'[t].item = ssess[t].item /\ (t # s => ssess'[t].pc = ssess[t].pc)
  BY <1>2, <1>3
<1>5. ssess' \in [SseSess -> [pc : SsePcs, item : SseSess]]
  BY <1>1, <1>2 DEF SseTypes
<1> QED
  BY <1>2, <1>3, <1>4, <1>5 DEF SseAt

\* A session that moves on, and may give its Umsg back, makes none.
LEMMA SseMadeKept ==
  ASSUME SseTypes, SseMade, UNCHANGED saddr, NEW s \in SseSess,
         ssess[s].pc # "out", ssess'[s].pc # "out",
         \A t \in SseSess : ssess'[t].item = ssess[t].item /\ (t # s => ssess'[t].pc = ssess[t].pc),
         spooled' \subseteq spooled \cup {ssess[s].item}
  PROVE  SseMade'
<1>1. /\ \A t \in SseSess : ssess[t].item \in SseSess
      /\ spooled \in SUBSET SseSess
  BY DEF SseTypes
<1>2. \A t \in SseSess : ssess'[t].pc # "out" <=> ssess[t].pc # "out"
  OBVIOUS
<1> QED
  BY <1>1, <1>2 DEF SseMade

\* The handlers in the list and those that pushers visit are those of sessions.
LEMMA SseListed ==
  ASSUME SseTypes
  PROVE  /\ shandlers.list \in Seq(SseHandler) /\ shandlers.off \in SUBSET SseHandler
         /\ \A i \in 1..Len(shandlers.list) :
              /\ shandlers.list[i] \in SseHandler
              /\ shandlers.list[i].s \in SseSess /\ shandlers.list[i].kind \in {"send", "chan"}
         /\ \A p \in SsePushers : \A i \in 1..Len(spushing[p].todo) :
              spushing[p].todo[i] \in SseHandler /\ spushing[p].todo[i].s \in SseSess
<1>1. /\ shandlers \in [list : Seq(SseHandler), off : SUBSET SseHandler]
      /\ spushing \in [SsePushers -> SsePusher]
  BY DEF SseTypes
<1>2. shandlers.list \in Seq(SseHandler) /\ shandlers.off \in SUBSET SseHandler
  BY <1>1
<1>3. ASSUME NEW i \in 1..Len(shandlers.list)
      PROVE  /\ shandlers.list[i] \in SseHandler
             /\ shandlers.list[i].s \in SseSess /\ shandlers.list[i].kind \in {"send", "chan"}
  <2>1. shandlers.list[i] \in SseHandler
    BY <1>2
  <2> QED
    BY <2>1 DEF SseHandler
<1>4. ASSUME NEW p \in SsePushers, NEW i \in 1..Len(spushing[p].todo)
      PROVE  spushing[p].todo[i] \in SseHandler /\ spushing[p].todo[i].s \in SseSess
  <2>1. spushing[p].todo \in Seq(SseHandler)
    BY <1>1 DEF SsePusher
  <2>2. spushing[p].todo[i] \in SseHandler
    BY <2>1
  <2> QED
    BY <2>2 DEF SseHandler
<1> QED
  BY <1>2, <1>3, <1>4

\* The handler that a pusher has in hand.
LEMMA SseInHand ==
  ASSUME SseTypes, SseListening, NEW p \in SsePushers, spushing[p].todo # <<>>
  PROVE  /\ Head(spushing[p].todo) \in SseHandler
         /\ Head(spushing[p].todo).s \in SseSess
         /\ Head(spushing[p].todo).kind \in {"send", "chan"}
         /\ ssess[Head(spushing[p].todo).s].pc # "out"
<1>1. spushing[p].todo \in Seq(SseHandler)
  BY DEF SseTypes, SsePusher
<1>2. 1 \in 1..Len(spushing[p].todo) /\ Head(spushing[p].todo) = spushing[p].todo[1]
  BY <1>1
<1>3. Head(spushing[p].todo) \in SseHandler
  BY <1>2, SseListed
<1>4. ssess[Head(spushing[p].todo).s].pc # "out"
  BY <1>2 DEF SseListening
<1> QED
  BY <1>3, <1>4 DEF SseHandler

\* A session that keeps its id keeps it to itself.
LEMMA SseIdsKept ==
  ASSUME SseTypes, SseIds, UNCHANGED saddr, NEW s \in SseSess, NEW p \in SsePcs \ {"out"}, SseAt(s, p),
         UNCHANGED spooled, ssess[s].pc \notin {"out", "over"}
  PROVE  SseIds'
<1>1. SseOwners' \subseteq SseOwners
  BY DEF SseOwners, SseAt
<1>2. \A t \in SseOwners : t \in SseSess /\ ssess'[t].item = ssess[t].item
  BY DEF SseOwners, SseAt
<1>3. SseMade'
  BY SseMadeKept DEF SseIds, SseAt
<1> QED
  BY <1>1, <1>2, <1>3 DEF SseIds

\* A session that moves has disabled the handlers that do not listen any more.
LEMMA SseListeningKept ==
  ASSUME SseTypes, SseListening, NEW s \in SseSess, NEW p \in SsePcs \ {"out"}, SseAt(s, p),
         UNCHANGED spushing, shandlers'.list = shandlers.list,
         shandlers.off \subseteq shandlers'.off,
         \A k \in {"send", "chan"} : ssess[s].pc \in ListensAt[k] =>
           p \in ListensAt[k] \/ [s |-> s, kind |-> k] \in shandlers'.off
  PROVE  SseListening'
<1>1. \A t \in SseSess : ssess[t].pc # "out" => ssess'[t].pc # "out"
  BY DEF SseAt
<1>2. ASSUME NEW i \in 1..Len(shandlers.list)
      PROVE  /\ \/ shandlers.list[i] \in shandlers'.off
                \/ ssess'[shandlers.list[i].s].pc \in ListensAt[shandlers.list[i].kind]
             /\ ssess'[shandlers.list[i].s].pc # "out"
  <2>1. /\ shandlers.list[i] \in SseHandler
        /\ shandlers.list[i].s \in SseSess /\ shandlers.list[i].kind \in {"send", "chan"}
    BY SseListed
  <2>2. /\ \/ shandlers.list[i] \in shandlers.off
           \/ ssess[shandlers.list[i].s].pc \in ListensAt[shandlers.list[i].kind]
        /\ ssess[shandlers.list[i].s].pc # "out"
    BY DEF SseListening
  <2>3. shandlers.list[i] = [s |-> shandlers.list[i].s, kind |-> shandlers.list[i].kind]
    BY <2>1 DEF SseHandler
  <2>4. CASE shandlers.list[i].s = s
    BY <1>1, <2>1, <2>2, <2>3, <2>4 DEF SseAt
  <2>5. CASE shandlers.list[i].s # s
    BY <1>1, <2>1, <2>2, <2>5 DEF SseAt
  <2> QED
    BY <2>4, <2>5
<1>3. \A q \in SsePushers : \A i \in 1..Len(spushing'[q].todo) :
        ssess'[spushing'[q].todo[i].s].pc # "out"
  BY <1>1, SseListed DEF SseListening
<1> QED
  BY <1>2, <1>3 DEF SseListening

\* A session that is not at its cancel, before the step or after it.
LEMMA SseMoves ==
  ASSUME SseInv, NEW s \in SseSess, NEW p \in SsePcs \ {"out"}, SseUsers!Goto(s, p),
         UNCHANGED <<spooled, shandlers, scloseCh, spushing, stold>>,
         ssess[s].pc \notin {"out", "over"},
         \/ ssess[s].pc \notin Cancelled /\ p \notin Cancelled
         \/ ssess[s].pc \in ChanClosed /\ p \in ChanClosed,
         p \in BeforeCancel => ssess[s].pc \in BeforeCancel,
         \A k \in {"send", "chan"} : ssess[s].pc \in ListensAt[k] => p \in ListensAt[k], UNCHANGED saddr
  PROVE  SseInv'
<1>1. SseAt(s, p)
  BY SseGoto DEF SseInv
<1>2. SseTypes'
  BY <1>1 DEF SseInv, SseTypes, SseAt
<1>3. SseIds'
  BY <1>1, SseIdsKept DEF SseInv
<1>4. SseListening'
  BY <1>1, SseListeningKept DEF SseInv
<1>5. SseBuffer'
  BY <1>1 DEF SseInv, SseBuffer, SseAt
<1>6. SseCancels'
  <2>1. \A t \in SseSess : ssess'[t].pc \in Cancelled <=> ssess[t].pc \in Cancelled
    BY <1>1 DEF SseAt, Cancelled, ChanClosed
  <2>2. \A t \in SseSess :
          ssess'[t].pc \in Cancelled \ {"unreg"} => ssess[t].pc \in Cancelled \ {"unreg"}
    BY <1>1 DEF SseAt, Cancelled, ChanClosed
  <2> QED
    BY <2>1, <2>2 DEF SseInv, SseCancels
<1>7. SseUnraced'
  <2>1. \A t \in SseSess : /\ ssess'[t].pc \in Cancelled => ssess[t].pc \in Cancelled
                           /\ ssess'[t].pc \in {"unreg", "closeCh"} =>
                                ssess[t].pc \in {"unreg", "closeCh"}
                           /\ ssess[t].pc \in ChanClosed => ssess'[t].pc \in ChanClosed
    BY <1>1 DEF SseAt, Cancelled, ChanClosed
  <2>2. \A q \in SsePushers : spushing[q].pc \in {"handle", "drain"} =>
          Head(spushing[q].todo).s \in SseSess
    BY SseInHand DEF SseInv, SseTypes
  <2> QED
    BY <2>1, <2>2 DEF SseInv, SseUnraced, Unraced, SseUsers!NoPush
<1> QED
  BY <1>2, <1>3, <1>4, <1>5, <1>6, <1>7 DEF SseInv

\* At the start nobody has a Umsg, and nobody has registered.
LEMMA SseInit == SseUsers!Init => SseInv
<1> SUFFICES ASSUME SseUsers!Init
             PROVE  SseInv
  OBVIOUS
<1>1. SseUsers!Sess = SseSess
  BY DEF SseUsers!Sess
<1>2. SseTypes
  <2>1. stold \in SseTold
    BY DEF SseUsers!Init, SseTold
  <2>2. \A p \in SsePushers : spushing[p].pc = "idle"
    BY DEF SseUsers!Init, SseUsers!NoPushing
  <2>3. shandlers \in [list : Seq(SseHandler), off : SUBSET SseHandler]
    BY DEF SseUsers!Init
  <2>4. spushing \in [SsePushers -> SsePusher]
    BY DEF SseUsers!Init, SseUsers!NoPushing, SsePusher
  <2>5. /\ ssess \in [SseSess -> [pc : SsePcs, item : SseSess]]
    BY <1>1 DEF SseUsers!Init, SsePcs
  <2>6. scloseCh \in [SseSess -> SseChannel]
    BY <1>1 DEF SseUsers!Init, SseChannel
  <2> QED
    BY <2>1, <2>2, <2>3, <2>4, <2>5, <2>6 DEF SseUsers!Init, SseTypes
<1>3. SseIds
  BY <1>1 DEF SseUsers!Init, SseIds, SseMade, SseOwners
<1>4. SseListening
  BY DEF SseUsers!Init, SseUsers!NoPushing, SseListening
<1>5. SseBuffer
  BY <1>1 DEF SseUsers!Init, SseBuffer
<1>6. SseCancels
  BY <1>1 DEF SseUsers!Init, SseCancels, Cancelled
<1>7. SseUnraced
  BY <1>1 DEF SseUsers!Init, SseUsers!NoPushing, SseUnraced, Unraced
<1> QED
  BY <1>2, <1>3, <1>4, <1>5, <1>6, <1>7 DEF SseInv

\* A session begins with a Umsg that nobody has.
LEMMA SseBegin ==
  ASSUME SseInv, NEW s \in SseSess, SseUsers!Begin(s)
  PROVE  SseInv'
<1>1. PICK u \in spooled \cup {s} :
        /\ ssess' = [ssess EXCEPT ![s] = [pc |-> "init", item |-> u]]
        /\ spooled' = spooled \ {u}
        /\ \/ u # s /\ UNCHANGED saddr
           \/ u = s /\ \E a \in SseUsers!NewIds(s) : saddr' = [saddr EXCEPT ![s] = a]
  BY DEF SseUsers!Begin
<1>2. ssess[s].pc = "out" /\ UNCHANGED <<shandlers, scloseCh, spushing, stold>>
  BY DEF SseUsers!Begin
<1>3. u \in SseSess /\ \A t \in SseOwners : ssess[t].item # u
  <2>1. ASSUME u \in spooled
        PROVE  u \in SseSess /\ \A t \in SseOwners : ssess[t].item # u
    BY <2>1 DEF SseInv, SseTypes, SseIds
  <2>2. ASSUME u = s
        PROVE  \A t \in SseOwners : ssess[t].item # u
    BY <1>2, <2>2 DEF SseInv, SseIds, SseMade, SseOwners
  <2> QED
    BY <1>1, <2>1, <2>2
<1>4. /\ ssess' \in [SseSess -> [pc : SsePcs, item : SseSess]]
      /\ ssess'[s].pc = "init" /\ ssess'[s].item = u
      /\ \A t \in SseSess \ {s} : ssess'[t] = ssess[t]
  BY <1>1, <1>3 DEF SseInv, SseTypes, SsePcs
<1>5. /\ saddr' \in [SseSess -> Nat]
      /\ \A t \in SseSess \ {s} : saddr'[t] = saddr[t]
  <2>1. SseUsers!NewIds(s) \subseteq Nat
    BY MsgqAssumptions DEF SseUsers!NewIds, WsUsers!SessionsAssumption
  <2> QED
    BY <1>1, <2>1 DEF SseInv, SseTypes
<1>6. SseTypes'
  BY <1>1, <1>2, <1>4, <1>5 DEF SseInv, SseTypes
<1>7. /\ SseOwners' = SseOwners \cup {s} /\ s \notin SseOwners
      /\ \A t \in SseOwners : ssess'[t] = ssess[t]
  BY <1>2, <1>4 DEF SseOwners
<1>8. SseIds'
  <2>1. SseMade'
    <3>1. \A x \in spooled' : ssess'[x].pc # "out"
      BY <1>1, <1>4 DEF SseInv, SseIds, SseMade, SseTypes
    <3>2. ASSUME NEW t \in SseSess, ssess'[t].pc # "out"
          PROVE  ssess'[ssess'[t].item].pc # "out"
      <4>1. CASE t = s
        <5>1. u # s => ssess[u].pc # "out"
          BY <1>1 DEF SseInv, SseIds, SseMade
        <5> QED
          BY <1>3, <1>4, <4>1, <5>1
      <4>2. CASE t # s
        <5>1. /\ ssess'[t] = ssess[t] /\ ssess[t].item \in SseSess
              /\ ssess[ssess[t].item].pc # "out"
          BY <1>4, <3>2, <4>2 DEF SseInv, SseTypes, SseIds, SseMade
        <5> QED
          BY <1>4, <5>1
      <4> QED
        BY <4>1, <4>2
    <3> QED
      BY <3>1, <3>2 DEF SseMade
  <2>2. \A t \in SseOwners' : ssess'[t].item \notin spooled'
    BY <1>1, <1>4, <1>7 DEF SseInv, SseIds
  <2>3. \A t, v \in SseOwners' : ssess'[t].item = ssess'[v].item => t = v
    BY <1>3, <1>4, <1>7 DEF SseInv, SseIds
  <2> QED
    BY <2>1, <2>2, <2>3 DEF SseIds
<1>9. SseListening'
  <2>1. SseTypes /\ SseListening
    BY DEF SseInv
  <2>2. ASSUME NEW i \in 1..Len(shandlers.list)
        PROVE  /\ \/ shandlers.list[i] \in shandlers.off
                  \/ ssess'[shandlers.list[i].s].pc \in ListensAt[shandlers.list[i].kind]
               /\ ssess'[shandlers.list[i].s].pc # "out"
    <3>1. shandlers.list[i].s \in SseSess \ {s}
      BY <1>2, <2>1, SseListed DEF SseListening
    <3> QED
      BY <1>4, <2>1, <3>1 DEF SseListening
  <2>3. ASSUME NEW q \in SsePushers, NEW i \in 1..Len(spushing[q].todo)
        PROVE  ssess'[spushing[q].todo[i].s].pc # "out"
    <3>1. spushing[q].todo[i].s \in SseSess \ {s}
      BY <1>2, <2>1, SseListed DEF SseListening
    <3> QED
      BY <1>4, <2>1, <3>1 DEF SseListening
  <2> QED
    BY <1>2, <2>2, <2>3 DEF SseListening
<1>10. SseBuffer'
  <2> SUFFICES ASSUME NEW t \in SseSess
               PROVE  /\ ssess'[t].pc = "out" => stold.last[t] = -1
                      /\ scloseCh[t].buf \in {<<>>, <<stold.last[t]>>}
                      /\ ssess'[t].pc \in BeforeCancel /\ stold.last[t] \in {0, saddr'[ssess'[t].item]} =>
                           scloseCh[t].buf # <<>>
    BY <1>2 DEF SseBuffer
  <2>1. SseBuffer
    BY DEF SseInv
  <2>2. CASE t # s
    <3>1. ssess'[t] = ssess[t]
      BY <1>4, <2>2
    <3>2. ssess[t].pc # "out" => saddr'[ssess[t].item] = saddr[ssess[t].item]
      <4>1. ssess[t].pc # "out" => ssess[t].item \in SseSess \ {s}
        BY <1>2 DEF SseInv, SseTypes, SseIds, SseMade
      <4> QED
        BY <1>5, <4>1
    <3>3. ssess[t].pc = "out" => stold.last[t] = -1 /\ saddr'[ssess[t].item] \in Nat
      BY <1>5, <2>1 DEF SseBuffer, SseInv, SseTypes
    <3> QED
      BY <2>1, <3>1, <3>2, <3>3 DEF SseBuffer
  <2>3. CASE t = s
    <3>1. stold.last[t] = -1
      BY <1>2, <2>1, <2>3 DEF SseBuffer
    <3>2. stold.last[t] \notin {0, saddr'[ssess'[t].item]}
      BY <1>3, <1>4, <1>5, <2>3, <3>1
    <3> QED
      BY <1>4, <2>1, <2>3, <3>1, <3>2 DEF SseBuffer
  <2> QED
    BY <2>2, <2>3
<1>11. \A t \in SseSess : /\ ssess'[t].pc \in Cancelled <=> ssess[t].pc \in Cancelled
                          /\ ssess'[t].pc \in Cancelled => ssess'[t].pc = ssess[t].pc
                          /\ ssess[t].pc \in ChanClosed => ssess'[t].pc \in ChanClosed
  BY <1>2, <1>4 DEF Cancelled, ChanClosed
<1>12. SseCancels'
  BY <1>2, <1>11 DEF SseInv, SseCancels
<1>13. SseUnraced'
  <2>1. \A t \in SseSess : ssess'[t].pc \in {"unreg", "closeCh"} => ssess'[t].pc = ssess[t].pc
    BY <1>11 DEF Cancelled
  <2>2. \A q \in SsePushers : spushing[q].pc \in {"handle", "drain"} =>
          Head(spushing[q].todo).s \in SseSess
    BY SseInHand DEF SseInv, SseTypes
  <2> QED
    BY <1>2, <1>11, <2>1, <2>2 DEF SseInv, SseUnraced, Unraced, SseUsers!NoPush
<1> QED
  BY <1>6, <1>8, <1>9, <1>10, <1>12, <1>13 DEF SseInv

\* A session puts its handler of a kind in the list, which ends its waiting for the
\* pushes under way.
LEMMA SseRegister ==
  ASSUME SseInv, NEW s \in SseSess, SseUsers!Register(s), UNCHANGED saddr
  PROVE  SseInv'
<1>1. PICK kind \in {"send", "chan"}, p \in {"register2", "recv"} :
        /\ kind = "send" => ssess[s].pc = "register" /\ p = "register2"
        /\ kind = "chan" => ssess[s].pc = "register2" /\ p = "recv"
        /\ shandlers' = [shandlers EXCEPT !.list = Append(@, [s |-> s, kind |-> kind])]
        /\ SseUsers!Goto(s, p)
  BY DEF SseUsers!Register
<1>2. UNCHANGED <<spooled, scloseCh, spushing, stold>>
  BY DEF SseUsers!Register
<1>3. p \in SsePcs \ {"out"} /\ p \notin Cancelled /\ p \in BeforeCancel /\ p \in ListensAt[kind]
      /\ ssess[s].pc \notin {"out", "over"} /\ ssess[s].pc \notin Cancelled /\ ssess[s].pc \in BeforeCancel
  BY <1>1 DEF SsePcs, Cancelled, BeforeCancel, ListensAt
<1>4. SseAt(s, p)
  BY <1>1, <1>3, SseGoto DEF SseInv
<1> DEFINE h == [s |-> s, kind |-> kind]
<1>5. h \in SseHandler /\ h.s = s /\ h.kind = kind
  BY DEF SseHandler
<1>6. shandlers' = [shandlers EXCEPT !.list = Append(shandlers.list, h)]
  BY <1>1
<1> HIDE DEF h
<1>7. /\ shandlers'.list = Append(shandlers.list, h) /\ shandlers'.off = shandlers.off
      /\ shandlers' \in [list : Seq(SseHandler), off : SUBSET SseHandler]
  <2>1. shandlers \in [list : Seq(SseHandler), off : SUBSET SseHandler]
    BY DEF SseInv, SseTypes
  <2>2. Append(shandlers.list, h) \in Seq(SseHandler)
    BY <1>5, <2>1
  <2> QED
    BY <1>6, <2>1, <2>2
<1>8. SseTypes'
  BY <1>2, <1>4, <1>7 DEF SseInv, SseTypes, SseAt
<1>9. SseIds'
  BY <1>2, <1>3, <1>4, SseIdsKept DEF SseInv
<1>10. SseListening'
  <2>1. SseTypes /\ SseListening
    BY DEF SseInv
  <2>2. \A t \in SseSess : ssess[t].pc # "out" => ssess'[t].pc # "out"
    BY <1>3, <1>4 DEF SseAt
  <2>3. ASSUME NEW i \in 1..Len(shandlers'.list)
        PROVE  /\ \/ shandlers'.list[i] \in shandlers'.off
                  \/ ssess'[shandlers'.list[i].s].pc \in ListensAt[shandlers'.list[i].kind]
               /\ ssess'[shandlers'.list[i].s].pc # "out"
    <3>1. shandlers.list \in Seq(SseHandler)
      BY <2>1, SseListed
    <3>2. CASE i = Len(shandlers.list) + 1
      <4>1. shandlers'.list[i] = h
        BY <1>7, <3>1, <3>2
      <4> QED
        BY <1>3, <1>4, <1>5, <4>1 DEF SseAt
    <3>3. CASE i # Len(shandlers.list) + 1
      <4>1. i \in 1..Len(shandlers.list) /\ shandlers'.list[i] = shandlers.list[i]
        BY <1>7, <3>1, <3>3
      <4>2. /\ shandlers.list[i].s \in SseSess /\ shandlers.list[i].kind \in {"send", "chan"}
            /\ \/ shandlers.list[i] \in shandlers.off
               \/ ssess[shandlers.list[i].s].pc \in ListensAt[shandlers.list[i].kind]
            /\ ssess[shandlers.list[i].s].pc # "out"
        BY <2>1, <4>1, SseListed DEF SseListening
      <4>3. \A k \in {"send", "chan"} : ssess[s].pc \in ListensAt[k] => p \in ListensAt[k]
        BY <1>1 DEF ListensAt
      <4>4. \A t \in SseSess, k \in {"send", "chan"} :
              ssess[t].pc \in ListensAt[k] => ssess'[t].pc \in ListensAt[k]
        BY <1>4, <4>3 DEF SseAt
      <4> QED
        BY <1>7, <2>2, <4>1, <4>2, <4>4
    <3> QED
      BY <3>2, <3>3
  <2>4. \A q \in SsePushers : \A i \in 1..Len(spushing[q].todo) :
          ssess'[spushing[q].todo[i].s].pc # "out"
    BY <2>1, <2>2, SseListed DEF SseListening
  <2> QED
    BY <1>2, <2>3, <2>4 DEF SseListening
<1>11. SseBuffer'
  BY <1>2, <1>3, <1>4 DEF SseInv, SseBuffer, SseAt
<1>12. \A t \in SseSess : /\ ssess'[t].pc \in Cancelled <=> ssess[t].pc \in Cancelled
                          /\ ssess'[t].pc \in Cancelled => ssess'[t].pc = ssess[t].pc
                          /\ ssess[t].pc \in ChanClosed => ssess'[t].pc \in ChanClosed
  <2>1. ChanClosed \subseteq Cancelled
    BY DEF Cancelled, ChanClosed
  <2> QED
    BY <1>3, <1>4, <2>1 DEF SseAt
<1>13. SseCancels'
  BY <1>2, <1>7, <1>12 DEF SseInv, SseCancels
<1>14. SseUnraced'
  <2>1. \A t \in SseSess : ssess'[t].pc \in {"unreg", "closeCh"} => ssess'[t].pc = ssess[t].pc
    BY <1>12 DEF Cancelled
  <2>2. \A q \in SsePushers : spushing[q].pc \in {"handle", "drain"} =>
          Head(spushing[q].todo).s \in SseSess
    BY SseInHand DEF SseInv, SseTypes
  <2> QED
    BY <1>2, <1>12, <2>1, <2>2 DEF SseInv, SseUnraced, Unraced, SseUsers!NoPush
<1> QED
  BY <1>8, <1>9, <1>10, <1>11, <1>13, <1>14 DEF SseInv

\* The id goes back to the pool.
LEMMA SsePut ==
  ASSUME SseInv, NEW s \in SseSess, SseUsers!Put(s), UNCHANGED saddr
  PROVE  SseInv'
<1>1. /\ ssess[s].pc = "put"
      /\ spooled' = spooled \cup {ssess[s].item}
      /\ SseUsers!Goto(s, "over")
      /\ UNCHANGED <<shandlers, scloseCh, spushing, stold>>
  BY DEF SseUsers!Put
<1>2. SseAt(s, "over")
  <2>1. "over" \in SsePcs
    BY DEF SsePcs
  <2> QED
    BY <1>1, <2>1, SseGoto DEF SseInv
<1>3. ssess[s].item \in SseSess
  BY DEF SseInv, SseTypes
<1>4. SseTypes'
  BY <1>1, <1>2, <1>3 DEF SseInv, SseTypes, SseAt
<1>5. SseIds'
  <2>1. SseOwners' = SseOwners \ {s} /\ s \in SseOwners
    BY <1>1, <1>2 DEF SseOwners, SseAt
  <2>2. \A t \in SseOwners : t \in SseSess /\ ssess'[t].item = ssess[t].item
    BY <1>2 DEF SseOwners, SseAt
  <2>3. SseMade'
    BY <1>1, <1>2 DEF SseInv, SseIds, SseAt, SseMade, SseTypes
  <2>4. \A t \in SseOwners' : ssess'[t].item \notin spooled'
    BY <1>1, <2>1, <2>2 DEF SseInv, SseIds
  <2>5. \A t, u \in SseOwners' : ssess'[t].item = ssess'[u].item => t = u
    BY <2>1, <2>2 DEF SseInv, SseIds
  <2> QED
    BY <2>3, <2>4, <2>5 DEF SseIds
<1>6. SseListening'
  <2>1. "over" \in SsePcs \ {"out"} /\ \A k \in {"send", "chan"} : ssess[s].pc \notin ListensAt[k]
    BY <1>1 DEF SsePcs, ListensAt
  <2> QED
    BY <1>1, <1>2, <2>1, SseListeningKept DEF SseInv
<1>7. SseBuffer'
  <2>1. "over" \notin BeforeCancel
    BY DEF BeforeCancel
  <2> QED
    BY <1>1, <1>2, <2>1 DEF SseInv, SseBuffer, SseAt
<1>8. \A t \in SseSess : /\ ssess'[t].pc \in Cancelled <=> ssess[t].pc \in Cancelled
                         /\ ssess'[t].pc \in Cancelled \ {"unreg"} => ssess[t].pc \in Cancelled \ {"unreg"}
                         /\ ssess[t].pc \in ChanClosed => ssess'[t].pc \in ChanClosed
                         /\ ssess'[t].pc \in {"unreg", "closeCh"} => ssess'[t].pc = ssess[t].pc
  BY <1>1, <1>2 DEF SseAt, Cancelled, ChanClosed
<1>9. SseCancels'
  BY <1>1, <1>8 DEF SseInv, SseCancels
<1>10. SseUnraced'
  <2>1. \A q \in SsePushers : spushing[q].pc \in {"handle", "drain"} =>
          Head(spushing[q].todo).s \in SseSess
    BY SseInHand DEF SseInv, SseTypes
  <2> QED
    BY <1>1, <1>8, <2>1 DEF SseInv, SseUnraced, Unraced, SseUsers!NoPush
<1> QED
  BY <1>4, <1>5, <1>6, <1>7, <1>9, <1>10 DEF SseInv

\* The loop receives what the channel has, which is no close for the session unless
\* it goes to its cancel.
LEMMA SseLoop ==
  ASSUME SseInv, NEW s \in SseSess, SseUsers!Loop(s), UNCHANGED saddr
  PROVE  SseInv'
<1>1. ssess[s].pc = "loop" /\ UNCHANGED <<spooled, shandlers, spushing, stold>>
  BY DEF SseUsers!Loop
<1>2. CASE SseUsers!Goto(s, "cancel") /\ UNCHANGED scloseCh
  <2>1. /\ "cancel" \in SsePcs \ {"out"} /\ "cancel" \notin Cancelled
        /\ "cancel" \notin BeforeCancel /\ ssess[s].pc \notin Cancelled
        /\ \A k \in {"send", "chan"} : "cancel" \in ListensAt[k]
    BY <1>1 DEF SsePcs, Cancelled, BeforeCancel, ListensAt
  <2> QED
    BY <1>1, <1>2, <2>1, SseMoves
<1>3. CASE /\ scloseCh[s].buf # <<>>
           /\ scloseCh' = [scloseCh EXCEPT ![s].buf = Tail(@)]
           /\ ssess' = IF Head(scloseCh[s].buf) \in {0, saddr[ssess[s].item]}
                         THEN [ssess EXCEPT ![s].pc = "cancel"] ELSE ssess
  <2>1. scloseCh[s].buf = <<stold.last[s]>>
    BY <1>3 DEF SseInv, SseBuffer
  <2>2. Head(scloseCh[s].buf) = stold.last[s] /\ Tail(scloseCh[s].buf) = <<>>
    BY <2>1
  <2>3. /\ scloseCh' \in [SseSess -> SseChannel]
        /\ \A t \in SseSess : scloseCh'[t].closed = scloseCh[t].closed
                              /\ scloseCh'[t].done = scloseCh[t].done
                              /\ scloseCh'[t].buf = IF t = s THEN <<>> ELSE scloseCh[t].buf
    <3>1. scloseCh \in [SseSess -> SseChannel]
      BY DEF SseInv, SseTypes
    <3>2. scloseCh' = [scloseCh EXCEPT ![s] = [scloseCh[s] EXCEPT !.buf = <<>>]]
      BY <1>3, <2>2, <3>1
    <3>3. /\ [scloseCh[s] EXCEPT !.buf = <<>>] \in SseChannel
          /\ [scloseCh[s] EXCEPT !.buf = <<>>].closed = scloseCh[s].closed
          /\ [scloseCh[s] EXCEPT !.buf = <<>>].done = scloseCh[s].done
          /\ [scloseCh[s] EXCEPT !.buf = <<>>].buf = <<>>
      <4>1. scloseCh[s] \in SseChannel /\ <<>> \in Seq(Nat)
        BY <3>1
      <4> QED
        BY <4>1, SseChannelSet, Zenon
    <3>4. \A t \in SseSess : scloseCh'[t] = IF t = s THEN [scloseCh[s] EXCEPT !.buf = <<>>]
                                            ELSE scloseCh[t]
      BY <3>1, <3>2
    <3>5. scloseCh' \in [SseSess -> SseChannel]
      BY <3>1, <3>2, <3>3
    <3> QED
      BY <3>3, <3>4, <3>5
  <2>4. CASE stold.last[s] \notin {0, saddr[ssess[s].item]}
    <3>1. ssess' = ssess
      BY <1>3, <2>2, <2>4
    <3>2. SseTypes'
      BY <1>1, <2>3, <3>1 DEF SseInv, SseTypes
    <3>3. SseIds' /\ SseListening'
      BY <1>1, <3>1 DEF SseInv, SseIds, SseMade, SseOwners, SseListening
    <3>4. SseBuffer'
      BY <1>1, <2>3, <2>4, <3>1 DEF SseInv, SseBuffer
    <3>5. SseCancels' /\ SseUnraced'
      BY <1>1, <2>3, <3>1 DEF SseInv, SseCancels, SseUnraced, Unraced, SseUsers!NoPush
    <3> QED
      BY <3>2, <3>3, <3>4, <3>5 DEF SseInv
  <2>5. CASE stold.last[s] \in {0, saddr[ssess[s].item]}
    <3>1. SseUsers!Goto(s, "cancel")
      BY <1>3, <2>2, <2>5 DEF SseUsers!Goto
    <3>2. /\ "cancel" \in SsePcs \ {"out"} /\ "cancel" \notin Cancelled
          /\ "cancel" \notin BeforeCancel /\ ssess[s].pc \notin Cancelled
          /\ \A k \in {"send", "chan"} : "cancel" \in ListensAt[k]
      BY <1>1 DEF SsePcs, Cancelled, BeforeCancel, ListensAt
    <3>3. SseAt(s, "cancel")
      BY <3>1, <3>2, SseGoto DEF SseInv
    <3>4. SseTypes'
      BY <1>1, <2>3, <3>3 DEF SseInv, SseTypes, SseAt
    <3>5. SseIds'
      BY <1>1, <3>2, <3>3, SseIdsKept DEF SseInv
    <3>6. SseListening'
      BY <1>1, <3>2, <3>3, SseListeningKept DEF SseInv
    <3>7. SseBuffer'
      BY <1>1, <2>3, <3>2, <3>3 DEF SseInv, SseBuffer, SseAt
    <3>8. \A t \in SseSess :
            /\ ssess'[t].pc \in Cancelled <=> ssess[t].pc \in Cancelled
            /\ ssess'[t].pc \in Cancelled => ssess'[t].pc = ssess[t].pc
            /\ ssess[t].pc \in ChanClosed => ssess'[t].pc \in ChanClosed
            /\ ssess'[t].pc \in {"unreg", "closeCh"} => ssess'[t].pc = ssess[t].pc
      BY <1>1, <3>3 DEF SseAt, Cancelled, ChanClosed
    <3>9. SseCancels'
      BY <1>1, <2>3, <3>8 DEF SseInv, SseCancels
    <3>10. SseUnraced'
      <4>1. \A q \in SsePushers : spushing[q].pc \in {"handle", "drain"} =>
              Head(spushing[q].todo).s \in SseSess
        BY SseInHand DEF SseInv, SseTypes
      <4> QED
        BY <1>1, <2>3, <3>8, <4>1 DEF SseInv, SseUnraced, Unraced, SseUsers!NoPush
    <3> QED
      BY <3>4, <3>5, <3>6, <3>7, <3>9, <3>10 DEF SseInv
  <2> QED
    BY <2>4, <2>5
<1> QED
  BY <1>2, <1>3 DEF SseUsers!Loop, SseUsers!Id

\* A channel that changes leaves the others as they are.
LEMMA SseChannelChange ==
  ASSUME SseTypes, NEW s \in SseSess, NEW c \in SseChannel,
         scloseCh' = [scloseCh EXCEPT ![s] = c]
  PROVE  /\ scloseCh' \in [SseSess -> SseChannel]
         /\ scloseCh'[s] = c
         /\ \A t \in SseSess : t # s => scloseCh'[t] = scloseCh[t]
BY DEF SseTypes

\* The cancel of a session: first its context, which overlaps with the pushes under
\* way or lets none begin in silence.
LEMMA SseCancelBegins ==
  ASSUME SseInv, NEW s \in SseSess, ssess[s].pc = "cancel",
         scloseCh' = [scloseCh EXCEPT ![s].done = TRUE],
         stold' = [stold EXCEPT !.raced = @ \/ ~SseUsers!NoPush],
         SseUsers!Goto(s, "unreg"), UNCHANGED <<spooled, shandlers, spushing>>, UNCHANGED saddr
  PROVE  SseInv'
<1>1. PICK x \in BOOLEAN : /\ x <=> stold.raced \/ ~SseUsers!NoPush
                          /\ stold' \in SseTold /\ stold'.raced = x
                          /\ stold'.last = stold.last /\ stold'.panic = stold.panic
  <2>1. PICK x \in BOOLEAN : /\ x <=> stold.raced \/ ~SseUsers!NoPush
                            /\ stold' = [stold EXCEPT !.raced = x]
    OBVIOUS
  <2>2. stold \in SseTold
    BY DEF SseInv, SseTypes
  <2> QED
    BY <2>1, <2>2, SseToldRaced
<1>2. /\ scloseCh' \in [SseSess -> SseChannel]
      /\ scloseCh'[s].done /\ scloseCh'[s].buf = scloseCh[s].buf
      /\ scloseCh'[s].closed = scloseCh[s].closed
      /\ \A t \in SseSess : t # s => scloseCh'[t] = scloseCh[t]
  <2> DEFINE c == [scloseCh[s] EXCEPT !.done = TRUE]
  <2>1. scloseCh[s] \in SseChannel /\ scloseCh' = [scloseCh EXCEPT ![s] = c]
    BY DEF SseInv, SseTypes
  <2>2. c \in SseChannel /\ c.done /\ c.buf = scloseCh[s].buf /\ c.closed = scloseCh[s].closed
    <3>1. <<>> \in Seq(Nat)
      OBVIOUS
    <3> QED
      BY <2>1, <3>1, SseChannelSet, Zenon
  <2> HIDE DEF c
  <2> QED
    BY <2>1, <2>2, SseChannelChange DEF SseInv
<1>3. /\ "unreg" \in SsePcs \ {"out"} /\ "unreg" \in Cancelled /\ "unreg" \notin ChanClosed
      /\ "unreg" \notin BeforeCancel /\ ssess[s].pc \notin Cancelled
      /\ \A k \in {"send", "chan"} : "unreg" \in ListensAt[k]
  BY DEF SsePcs, Cancelled, ChanClosed, BeforeCancel, ListensAt
<1>4. SseAt(s, "unreg")
  BY <1>3, SseGoto DEF SseInv
<1>5. SseTypes'
  BY <1>1, <1>2, <1>4 DEF SseInv, SseTypes, SseAt
<1>6. SseIds'
  BY <1>3, <1>4, SseIdsKept DEF SseInv
<1>7. SseListening'
  BY <1>3, <1>4, SseListeningKept DEF SseInv
<1>8. SseBuffer'
  BY <1>1, <1>2, <1>3, <1>4 DEF SseInv, SseBuffer, SseAt
<1>9. SseCancels'
  <2> SUFFICES ASSUME NEW t \in SseSess
               PROVE  /\ scloseCh'[t].done <=> ssess'[t].pc \in Cancelled
                      /\ ssess'[t].pc \in Cancelled \ {"unreg"} => ChanOf(t) \in shandlers.off
    BY DEF SseCancels
  <2>1. CASE t = s
    BY <1>2, <1>3, <1>4, <2>1 DEF SseAt
  <2>2. CASE t # s
    BY <1>2, <1>4, <2>2 DEF SseInv, SseCancels, SseAt
  <2> QED
    BY <2>1, <2>2
<1>10. SseUnraced'
  <2> SUFFICES ASSUME ~stold'.raced
               PROVE  Unraced'
    BY DEF SseUnraced
  <2>1. SseUsers!NoPush /\ ~stold.raced
    BY <1>1
  <2>2. Unraced
    BY <2>1 DEF SseInv, SseUnraced
  <2>3. stold'.panic = FALSE
    BY <1>1, <2>2 DEF Unraced
  <2>4. SseUsers!NoPush' /\ \A q \in SsePushers : spushing'[q].pc = "idle"
    BY <2>1 DEF SseUsers!NoPush
  <2>5. \A t \in SseSess : scloseCh'[t].closed => ssess'[t].pc \in ChanClosed
    <3>1. \A t \in SseSess : scloseCh'[t].closed = scloseCh[t].closed
      BY <1>2
    <3>2. ssess[s].pc \notin ChanClosed
      BY DEF ChanClosed
    <3> QED
      BY <1>4, <2>2, <3>1, <3>2 DEF Unraced, SseAt
  <2> QED
    BY <2>3, <2>4, <2>5 DEF Unraced
<1> QED
  BY <1>5, <1>6, <1>7, <1>8, <1>9, <1>10 DEF SseInv

\* Then its handlers, the one of the channel before it is closed, that of send after.
LEMMA SseUnregisters ==
  ASSUME SseInv, NEW s \in SseSess, NEW k \in {"send", "chan"}, NEW p \in {"closeCh", "fin"},
         k = "chan" => ssess[s].pc = "unreg" /\ p = "closeCh",
         k = "send" => ssess[s].pc = "unregSend" /\ p = "fin",
         shandlers' = [shandlers EXCEPT !.off = @ \cup {[s |-> s, kind |-> k]}],
         SseUsers!Goto(s, p), UNCHANGED <<spooled, scloseCh, spushing, stold>>, UNCHANGED saddr
  PROVE  SseInv'
<1> DEFINE h == [s |-> s, kind |-> k]
<1>1. /\ shandlers'.list = shandlers.list /\ shandlers'.off = shandlers.off \cup {h}
      /\ shandlers' \in [list : Seq(SseHandler), off : SUBSET SseHandler]
  <2>1. shandlers \in [list : Seq(SseHandler), off : SUBSET SseHandler]
    BY DEF SseInv, SseTypes
  <2>2. h \in SseHandler /\ shandlers' = [shandlers EXCEPT !.off = shandlers.off \cup {h}]
    BY DEF SseHandler
  <2> HIDE DEF h
  <2>3. shandlers.off \cup {h} \in SUBSET SseHandler
    BY <2>1, <2>2
  <2> QED
    BY <2>1, <2>2, <2>3
<1>2. /\ p \in SsePcs \ {"out"} /\ p \notin BeforeCancel
      /\ p \in Cancelled \ {"unreg"} /\ ssess[s].pc \in Cancelled
      /\ ssess[s].pc \in ChanClosed => p \in ChanClosed
      /\ k = "send" => ssess[s].pc \in Cancelled \ {"unreg"}
  BY DEF SsePcs, BeforeCancel, Cancelled, ChanClosed
<1>3. SseAt(s, p)
  BY <1>2, SseGoto DEF SseInv
<1>4. SseTypes'
  BY <1>1, <1>3 DEF SseInv, SseTypes, SseAt
<1>5. SseIds'
  BY <1>2, <1>3, SseIdsKept DEF SseInv
<1>6. SseListening'
  <2>1. \A kind \in {"send", "chan"} : ssess[s].pc \in ListensAt[kind] =>
          p \in ListensAt[kind] \/ [s |-> s, kind |-> kind] \in shandlers'.off
    BY <1>1 DEF ListensAt
  <2> QED
    BY <1>1, <1>2, <1>3, <2>1, SseListeningKept DEF SseInv
<1>7. SseBuffer'
  BY <1>2, <1>3 DEF SseInv, SseBuffer, SseAt
<1>8. SseCancels'
  <2>1. ChanOf(s) \in shandlers'.off
    BY <1>1, <1>2 DEF SseInv, SseCancels, ChanOf
  <2> QED
    BY <1>1, <1>2, <1>3, <2>1 DEF SseInv, SseCancels, SseAt
<1>9. SseUnraced'
  <2>1. \A t \in SseSess : /\ ssess'[t].pc \in Cancelled <=> ssess[t].pc \in Cancelled
                           /\ ssess[t].pc \in ChanClosed => ssess'[t].pc \in ChanClosed
                           /\ ssess'[t].pc \in {"unreg", "closeCh"} => ssess[t].pc \in {"unreg", "closeCh"}
    BY <1>2, <1>3 DEF SseAt
  <2>2. \A q \in SsePushers : spushing[q].pc \in {"handle", "drain"} =>
          Head(spushing[q].todo).s \in SseSess
    BY SseInHand DEF SseInv, SseTypes
  <2> QED
    BY <2>1, <2>2 DEF SseInv, SseUnraced, Unraced, SseUsers!NoPush
<1> QED
  BY <1>4, <1>5, <1>6, <1>7, <1>8, <1>9 DEF SseInv

\* The channel is closed once, unless a push has closed it.
LEMMA SseClose ==
  ASSUME SseInv, NEW s \in SseSess, ssess[s].pc = "closeCh",
         scloseCh' = [scloseCh EXCEPT ![s].closed = TRUE],
         stold' = [stold EXCEPT !.panic = @ \/ scloseCh[s].closed],
         SseUsers!Goto(s, "unregSend"), UNCHANGED <<spooled, shandlers, spushing>>, UNCHANGED saddr
  PROVE  SseInv'
<1>1. PICK x \in BOOLEAN : /\ x <=> stold.panic \/ scloseCh[s].closed
                          /\ stold' \in SseTold /\ stold'.panic = x
                          /\ stold'.last = stold.last /\ stold'.raced = stold.raced
  <2>1. PICK x \in BOOLEAN : /\ x <=> stold.panic \/ scloseCh[s].closed
                            /\ stold' = [stold EXCEPT !.panic = x]
    OBVIOUS
  <2>2. stold \in SseTold
    BY DEF SseInv, SseTypes
  <2> QED
    BY <2>1, <2>2, SseToldPanic
<1>2. /\ scloseCh' \in [SseSess -> SseChannel]
      /\ scloseCh'[s].buf = scloseCh[s].buf
      /\ scloseCh'[s].done = scloseCh[s].done
      /\ \A t \in SseSess : t # s => scloseCh'[t] = scloseCh[t]
  <2> DEFINE c == [scloseCh[s] EXCEPT !.closed = TRUE]
  <2>1. scloseCh[s] \in SseChannel /\ scloseCh' = [scloseCh EXCEPT ![s] = c]
    BY DEF SseInv, SseTypes
  <2>2. c \in SseChannel /\ c.buf = scloseCh[s].buf /\ c.done = scloseCh[s].done
    <3>1. <<>> \in Seq(Nat)
      OBVIOUS
    <3> QED
      BY <2>1, <3>1, SseChannelSet, Zenon
  <2> HIDE DEF c
  <2> QED
    BY <2>1, <2>2, SseChannelChange DEF SseInv
<1>3. /\ "unregSend" \in SsePcs \ {"out"} /\ "unregSend" \in ChanClosed
      /\ "unregSend" \in Cancelled \ {"unreg"} /\ ssess[s].pc \in Cancelled \ {"unreg"}
      /\ "unregSend" \notin BeforeCancel /\ ssess[s].pc \notin ChanClosed
  BY DEF SsePcs, Cancelled, ChanClosed, BeforeCancel
<1>4. SseAt(s, "unregSend")
  BY <1>3, SseGoto DEF SseInv
<1>5. SseTypes'
  BY <1>1, <1>2, <1>4 DEF SseInv, SseTypes, SseAt
<1>6. SseIds'
  BY <1>3, <1>4, SseIdsKept DEF SseInv
<1>7. SseListening'
  <2>1. \A k \in {"send", "chan"} : ssess[s].pc \in ListensAt[k] => "unregSend" \in ListensAt[k]
    BY DEF ListensAt
  <2> QED
    BY <1>3, <1>4, <2>1, SseListeningKept DEF SseInv
<1>8. SseBuffer'
  BY <1>1, <1>2, <1>3, <1>4 DEF SseInv, SseBuffer, SseAt
<1>9. SseCancels'
  <2>1. \A t \in SseSess : scloseCh'[t].done = scloseCh[t].done
    BY <1>2
  <2> QED
    BY <1>3, <1>4, <2>1 DEF SseInv, SseCancels, SseAt
<1>10. SseUnraced'
  <2> SUFFICES ASSUME ~stold'.raced
               PROVE  Unraced'
    BY DEF SseUnraced
  <2>1. Unraced
    BY <1>1 DEF SseInv, SseUnraced
  <2>2. stold'.panic = FALSE
    <3>1. ~scloseCh[s].closed /\ ~stold.panic
      BY <1>3, <2>1 DEF Unraced
    <3> QED
      BY <1>1, <3>1
  <2>3. \A t \in SseSess : ssess'[t].pc \in {"unreg", "closeCh"} => SseUsers!NoPush'
    BY <1>4, <2>1 DEF Unraced, SseUsers!NoPush, SseAt
  <2>4. \A t \in SseSess : scloseCh'[t].closed => ssess'[t].pc \in ChanClosed
    <3> TAKE t \in SseSess
    <3>1. CASE t = s
      BY <1>3, <1>4, <3>1 DEF SseAt
    <3>2. CASE t # s
      BY <1>2, <1>4, <2>1, <3>2 DEF Unraced, SseAt
    <3> QED
      BY <3>1, <3>2
  <2>5. \A q \in SsePushers : spushing[q].pc = "idle"
    BY <2>1 DEF Unraced, SseUsers!NoPush
  <2> QED
    BY <2>2, <2>3, <2>4, <2>5 DEF Unraced
<1> QED
  BY <1>5, <1>6, <1>7, <1>8, <1>9, <1>10 DEF SseInv

\* The four steps of the end of a session.
LEMMA SseEnding ==
  ASSUME SseInv, NEW s \in SseSess, SseUsers!Ending(s), UNCHANGED saddr
  PROVE  SseInv'
<1>1. UNCHANGED <<spooled, spushing>> /\ SseUsers!CancelChan(s)
  BY DEF SseUsers!Ending
<1>2. CASE ssess[s].pc = "cancel"
  BY <1>1, <1>2, SseCancelBegins DEF SseUsers!CancelChan
<1>3. CASE ssess[s].pc = "unreg"
  <2>1. /\ shandlers' = [shandlers EXCEPT !.off = @ \cup {[s |-> s, kind |-> "chan"]}]
        /\ SseUsers!Goto(s, "closeCh") /\ UNCHANGED <<scloseCh, stold>>
    BY <1>1, <1>3 DEF SseUsers!CancelChan
  <2> QED
    BY <1>1, <1>3, <2>1, SseUnregisters
<1>4. CASE ssess[s].pc = "closeCh"
  BY <1>1, <1>4, SseClose DEF SseUsers!CancelChan
<1>5. CASE ssess[s].pc = "unregSend"
  <2>1. /\ shandlers' = [shandlers EXCEPT !.off = @ \cup {[s |-> s, kind |-> "send"]}]
        /\ SseUsers!Goto(s, "fin") /\ UNCHANGED <<scloseCh, stold>>
    BY <1>1, <1>5 DEF SseUsers!CancelChan
  <2> QED
    BY <1>1, <1>5, <2>1, SseUnregisters
<1> QED
  BY <1>1, <1>2, <1>3, <1>4, <1>5 DEF SseUsers!CancelChan

\* A step of a pusher disables handlers at most, and leaves the sessions as they are.
LEMMA SsePushes ==
  ASSUME SseInv, NEW p \in SsePushers,
         \E new \in SsePusher :
           /\ new.pc \in {"handle", "drain"} => new.todo # <<>>
           /\ new.pc = "drain" => Head(new.todo).kind = "chan"
           /\ \A i \in 1..Len(new.todo) : ssess[new.todo[i].s].pc # "out"
           /\ spushing' = [spushing EXCEPT ![p] = new],
         \E more \in SUBSET SseHandler :
           shandlers' = [shandlers EXCEPT !.off = shandlers.off \cup more],
         scloseCh' \in [SseSess -> SseChannel], stold' \in SseTold,
         \A t \in SseSess : scloseCh'[t].done = scloseCh[t].done,
         UNCHANGED <<spooled, ssess>>, UNCHANGED saddr
  PROVE  SseTypes' /\ SseIds' /\ SseListening' /\ SseCancels'
<1> PICK new \in SsePusher :
           /\ new.pc \in {"handle", "drain"} => new.todo # <<>>
           /\ new.pc = "drain" => Head(new.todo).kind = "chan"
           /\ \A i \in 1..Len(new.todo) : ssess[new.todo[i].s].pc # "out"
           /\ spushing' = [spushing EXCEPT ![p] = new]
  OBVIOUS
<1> PICK more \in SUBSET SseHandler :
      shandlers' = [shandlers EXCEPT !.off = shandlers.off \cup more]
  OBVIOUS
<1>1. /\ shandlers'.list = shandlers.list /\ shandlers'.off = shandlers.off \cup more
      /\ shandlers' \in [list : Seq(SseHandler), off : SUBSET SseHandler]
  <2>1. shandlers \in [list : Seq(SseHandler), off : SUBSET SseHandler]
    BY DEF SseInv, SseTypes
  <2>2. shandlers.off \cup more \in SUBSET SseHandler
    BY <2>1
  <2> QED
    BY <2>1, <2>2
<1>2. /\ spushing' \in [SsePushers -> SsePusher]
      /\ \A q \in SsePushers : spushing'[q] = IF q = p THEN new ELSE spushing[q]
  BY DEF SseInv, SseTypes
<1>3. SseTypes'
  <2>1. \A q \in SsePushers :
          /\ spushing'[q].pc \in {"handle", "drain"} => spushing'[q].todo # <<>>
          /\ spushing'[q].pc = "drain" => Head(spushing'[q].todo).kind = "chan"
    BY <1>2 DEF SseInv, SseTypes
  <2> QED
    BY <1>1, <1>2, <2>1 DEF SseInv, SseTypes
<1>4. SseIds'
  BY DEF SseInv, SseIds, SseMade, SseOwners
<1>5. SseListening'
  <2>1. \A q \in SsePushers : \A i \in 1..Len(spushing'[q].todo) :
          ssess'[spushing'[q].todo[i].s].pc # "out"
    BY <1>2 DEF SseInv, SseListening
  <2> QED
    BY <1>1, <2>1 DEF SseInv, SseListening
<1>6. SseCancels'
  BY <1>1 DEF SseInv, SseCancels
<1> QED
  BY <1>3, <1>4, <1>5, <1>6

\* What it leaves as it is while no cancel and push have overlapped.
LEMMA SseStaysUnraced ==
  ASSUME SseInv, NEW p \in SsePushers, ~stold'.raced, ~stold.raced, stold'.panic = FALSE,
         \/ spushing[p].pc # "idle"
         \/ \A s \in SseSess : ssess[s].pc \notin {"unreg", "closeCh"},
         \A q \in SsePushers : q # p => spushing'[q] = spushing[q],
         spushing'[p].pc \in {"handle", "drain"} /\ Head(spushing'[p].todo).kind = "chan" =>
           ssess[Head(spushing'[p].todo).s].pc \notin Cancelled,
         \A t \in SseSess : scloseCh'[t].closed => scloseCh[t].closed \/ ssess[t].pc \in ChanClosed,
         UNCHANGED ssess
  PROVE  SseUnraced'
<1>1. Unraced
  BY DEF SseInv, SseUnraced
<1>2. \A s \in SseSess : ssess[s].pc \notin {"unreg", "closeCh"}
  BY <1>1 DEF Unraced, SseUsers!NoPush
<1>3. \A t \in SseSess : scloseCh'[t].closed => ssess[t].pc \in ChanClosed
  BY <1>1 DEF Unraced
<1>4. \A q \in SsePushers :
        spushing'[q].pc \in {"handle", "drain"} /\ Head(spushing'[q].todo).kind = "chan" =>
          ssess[Head(spushing'[q].todo).s].pc \notin Cancelled
  BY <1>1 DEF Unraced
<1> QED
  BY <1>2, <1>3, <1>4 DEF SseUnraced, Unraced

\* A push begins with the handlers in the list.
LEMMA SseUserPush ==
  ASSUME SseInv, NEW p \in SsePushers, NEW tag \in {"send", "close"},
         NEW to \in {0} \cup SseUsers!Range(saddr), SseUsers!UserPush(p, tag, to), UNCHANGED saddr
  PROVE  SseInv'
<1> DEFINE new == [pc |-> "visit", tag |-> tag, to |-> to, todo |-> shandlers.list]
<1>1. /\ spushing[p].pc = "idle"
      /\ spushing' = [spushing EXCEPT ![p] = new]
      /\ UNCHANGED <<spooled, ssess, shandlers, scloseCh>>
      /\ stold' = [stold EXCEPT !.pushes = @ + 1,
                   !.raced = @ \/ \E s \in SseSess : ssess[s].pc \in {"unreg", "closeCh"}]
  BY DEF SseUsers!UserPush
<1>2. to \in Nat
  BY DEF SseInv, SseTypes, SseUsers!Range
<1>3. new \in SsePusher /\ new.pc = "visit" /\ new.todo = shandlers.list
  BY <1>2, SseListed DEF SseInv, SsePusher
<1> HIDE DEF new
<1>4. PICK x \in BOOLEAN :
        /\ x <=> stold.raced \/ \E s \in SseSess : ssess[s].pc \in {"unreg", "closeCh"}
        /\ stold' \in SseTold /\ stold'.raced = x
        /\ stold'.last = stold.last /\ stold'.panic = stold.panic
  <2>1. PICK x \in BOOLEAN :
          /\ x <=> stold.raced \/ \E s \in SseSess : ssess[s].pc \in {"unreg", "closeCh"}
          /\ stold' = [[stold EXCEPT !.pushes = @ + 1] EXCEPT !.raced = x]
    BY <1>1 DEF SseInv, SseTypes, SseTold
  <2>2. stold \in SseTold /\ stold.pushes + 1 \in Nat
    BY DEF SseInv, SseTypes, SseTold
  <2> QED
    BY <2>1, <2>2, SseToldPushed
<1>5. shandlers' = [shandlers EXCEPT !.off = shandlers.off \cup {}]
  BY <1>1 DEF SseInv, SseTypes
<1>6. \A i \in 1..Len(new.todo) : ssess[new.todo[i].s].pc # "out"
  BY <1>3 DEF SseInv, SseListening
<1>7. scloseCh' \in [SseSess -> SseChannel]
  BY <1>1 DEF SseInv, SseTypes
<1>8. SseTypes' /\ SseIds' /\ SseListening' /\ SseCancels'
  BY <1>1, <1>3, <1>4, <1>5, <1>6, <1>7, SsePushes
<1>9. SseBuffer'
  BY <1>1, <1>4 DEF SseInv, SseBuffer
<1>10. SseUnraced'
  <2> SUFFICES ASSUME ~stold'.raced
               PROVE  SseUnraced'
    BY DEF SseUnraced
  <2>1. ~stold.raced /\ \A s \in SseSess : ssess[s].pc \notin {"unreg", "closeCh"}
    BY <1>4
  <2>2. stold'.panic = FALSE
    BY <1>4, <2>1 DEF SseInv, SseUnraced, Unraced
  <2>3. spushing'[p].pc = "visit" /\ \A q \in SsePushers : q # p => spushing'[q] = spushing[q]
    BY <1>1, <1>3 DEF SseInv, SseTypes
  <2> QED
    BY <1>1, <2>1, <2>2, <2>3, SseStaysUnraced
<1> QED
  BY <1>8, <1>9, <1>10 DEF SseInv

\* The handler in hand is left for the next one.
LEMMA SseGoOn ==
  ASSUME SseInv, NEW p \in SsePushers, spushing[p].todo # <<>>, SseUsers!GoOn(p)
  PROVE  \E new \in SsePusher :
           /\ new.pc = "visit"
           /\ \A i \in 1..Len(new.todo) : ssess[new.todo[i].s].pc # "out"
           /\ spushing' = [spushing EXCEPT ![p] = new]
<1> DEFINE new == [spushing[p] EXCEPT !.pc = "visit", !.todo = Tail(spushing[p].todo)]
<1>1. spushing' = [spushing EXCEPT ![p] = new]
  BY DEF SseUsers!GoOn, SseInv, SseTypes
<1>2. spushing[p] \in SsePusher
  BY DEF SseInv, SseTypes
<1>3. spushing[p].todo \in Seq(SseHandler)
  BY <1>2 DEF SsePusher
<1>4. Tail(spushing[p].todo) \in Seq(SseHandler)
  BY <1>3
<1>5. new \in SsePusher /\ new.pc = "visit" /\ new.todo = Tail(spushing[p].todo)
  BY <1>2, <1>4 DEF SsePusher
<1> HIDE DEF new
<1>6. ASSUME NEW i \in 1..Len(new.todo)
      PROVE  ssess[new.todo[i].s].pc # "out"
  <2>1. i + 1 \in 1..Len(spushing[p].todo) /\ new.todo[i] = spushing[p].todo[i + 1]
    BY <1>3, <1>5
  <2> QED
    BY <2>1 DEF SseInv, SseListening
<1> QED
  BY <1>1, <1>5, <1>6

\* A push looks at the next handler, whose session is not at its cancel.
LEMMA SseVisit ==
  ASSUME SseInv, NEW p \in SsePushers, SseUsers!Visit(p), UNCHANGED saddr
  PROVE  SseInv'
<1>1. spushing[p].pc = "visit" /\ UNCHANGED <<spooled, ssess, shandlers, scloseCh, stold>>
  BY DEF SseUsers!Visit
<1>2. PICK new \in SsePusher :
        /\ new.pc \in {"idle", "visit", "handle"}
        /\ new.pc = "handle" => new.todo # <<>> /\ Head(new.todo) \notin shandlers.off
                                /\ new.todo = spushing[p].todo
        /\ \A i \in 1..Len(new.todo) : ssess[new.todo[i].s].pc # "out"
        /\ spushing' = [spushing EXCEPT ![p] = new]
  <2>1. CASE spushing' = [spushing EXCEPT ![p] = SseUsers!NoPushing]
    <3>1. SseUsers!NoPushing \in SsePusher /\ SseUsers!NoPushing.pc = "idle"
          /\ \A i \in 1..Len(SseUsers!NoPushing.todo) : FALSE
      BY DEF SseUsers!NoPushing, SsePusher
    <3> QED
      BY <2>1, <3>1
  <2>2. CASE spushing[p].todo # <<>> /\ SseUsers!GoOn(p)
    BY <2>2, SseGoOn
  <2>3. CASE /\ spushing[p].todo # <<>> /\ Head(spushing[p].todo) \notin shandlers.off
             /\ spushing' = [spushing EXCEPT ![p].pc = "handle"]
    <3> DEFINE new == [spushing[p] EXCEPT !.pc = "handle"]
    <3>1. new \in SsePusher /\ new.pc = "handle" /\ new.todo = spushing[p].todo
      BY DEF SseInv, SseTypes, SsePusher
    <3>2. spushing' = [spushing EXCEPT ![p] = new]
      BY <2>3 DEF SseInv, SseTypes
    <3>3. \A i \in 1..Len(spushing[p].todo) : ssess[spushing[p].todo[i].s].pc # "out"
      BY DEF SseInv, SseListening
    <3> HIDE DEF new
    <3> QED
      BY <2>3, <3>1, <3>2, <3>3
  <2> QED
    BY <2>1, <2>2, <2>3 DEF SseUsers!Visit
<1>3. shandlers' = [shandlers EXCEPT !.off = shandlers.off \cup {}]
  BY <1>1 DEF SseInv, SseTypes
<1>4. scloseCh' \in [SseSess -> SseChannel] /\ stold' \in SseTold
  BY <1>1 DEF SseInv, SseTypes
<1>5. SseTypes' /\ SseIds' /\ SseListening' /\ SseCancels'
  BY <1>1, <1>2, <1>3, <1>4, SsePushes
<1>6. SseBuffer'
  BY <1>1 DEF SseInv, SseBuffer
<1>7. SseUnraced'
  <2> SUFFICES ASSUME ~stold'.raced
               PROVE  SseUnraced'
    BY DEF SseUnraced
  <2>1. ~stold.raced /\ Unraced /\ stold'.panic = FALSE
    BY <1>1 DEF SseInv, SseUnraced, Unraced
  <2>2. spushing'[p] = new /\ \A q \in SsePushers : q # p => spushing'[q] = spushing[q]
    BY <1>2 DEF SseInv, SseTypes
  <2>3. ASSUME new.pc = "handle", Head(new.todo).kind = "chan"
        PROVE  ssess[Head(new.todo).s].pc \notin Cancelled
    <3> DEFINE h == Head(spushing[p].todo)
    <3>1. h \in SseHandler /\ h.s \in SseSess /\ h.kind = "chan" /\ h \notin shandlers.off
      BY <1>2, <2>3, SseInHand DEF SseInv
    <3>2. h = ChanOf(h.s)
      BY <3>1 DEF SseHandler, ChanOf
    <3>3. ssess[h.s].pc \notin Cancelled \ {"unreg"}
      BY <3>1, <3>2 DEF SseInv, SseCancels
    <3>4. ssess[h.s].pc # "unreg"
      BY <1>1, <2>1, <3>1 DEF Unraced, SseUsers!NoPush
    <3> QED
      BY <1>2, <2>3, <3>3, <3>4
  <2> QED
    BY <1>1, <1>2, <2>1, <2>2, <2>3, SseStaysUnraced
<1> QED
  BY <1>5, <1>6, <1>7 DEF SseInv

\* The handler of send, or of a message that nobody hears.
LEMMA SseHandle ==
  ASSUME SseInv, NEW p \in SsePushers, SseUsers!Handle(p), UNCHANGED saddr
  PROVE  SseInv'
<1>1. /\ spushing[p].pc = "handle"
      /\ UNCHANGED <<spooled, ssess, scloseCh, stold>> /\ SseUsers!GoOn(p)
  BY DEF SseUsers!Handle
<1>2. spushing[p].todo # <<>>
  BY <1>1 DEF SseInv, SseTypes
<1>3. PICK new \in SsePusher :
        /\ new.pc = "visit"
        /\ \A i \in 1..Len(new.todo) : ssess[new.todo[i].s].pc # "out"
        /\ spushing' = [spushing EXCEPT ![p] = new]
  BY <1>1, <1>2, SseGoOn
<1>4. Head(spushing[p].todo) \in SseHandler
  BY <1>2, SseInHand DEF SseInv
<1>5. \E more \in SUBSET SseHandler : shandlers' = [shandlers EXCEPT !.off = shandlers.off \cup more]
  <2>1. CASE UNCHANGED shandlers
    <3>1. shandlers' = [shandlers EXCEPT !.off = shandlers.off \cup {}]
      BY <2>1 DEF SseInv, SseTypes
    <3> QED
      BY <3>1
  <2>2. CASE shandlers' = [shandlers EXCEPT !.off = @ \cup {Head(spushing[p].todo)}]
    <3>1. {Head(spushing[p].todo)} \in SUBSET SseHandler
      BY <1>4
    <3> QED
      BY <2>2, <3>1
  <2> QED
    BY <2>1, <2>2 DEF SseUsers!Handle
<1>6. scloseCh' \in [SseSess -> SseChannel] /\ stold' \in SseTold
  BY <1>1 DEF SseInv, SseTypes
<1>7. SseTypes' /\ SseIds' /\ SseListening' /\ SseCancels'
  BY <1>1, <1>3, <1>5, <1>6, SsePushes
<1>8. SseBuffer'
  BY <1>1 DEF SseInv, SseBuffer
<1>9. SseUnraced'
  <2> SUFFICES ASSUME ~stold'.raced
               PROVE  SseUnraced'
    BY DEF SseUnraced
  <2>1. ~stold.raced /\ stold'.panic = FALSE
    BY <1>1 DEF SseInv, SseUnraced, Unraced
  <2>2. spushing'[p] = new /\ \A q \in SsePushers : q # p => spushing'[q] = spushing[q]
    BY <1>3 DEF SseInv, SseTypes
  <2> QED
    BY <1>1, <1>3, <2>1, <2>2, SseStaysUnraced
<1> QED
  BY <1>7, <1>8, <1>9 DEF SseInv

\* The handler of the channel: of no close, of a channel that is done, and of one
\* that is not.
LEMMA SseChanTest ==
  ASSUME SseInv, NEW p \in SsePushers, SseUsers!ChanTest(p), UNCHANGED saddr
  PROVE  SseInv'
<1> DEFINE h == Head(spushing[p].todo)
<1>1. spushing[p].pc = "handle" /\ h.kind = "chan" /\ UNCHANGED <<spooled, ssess>>
  BY DEF SseUsers!ChanTest
<1>2. spushing[p].todo # <<>> /\ h \in SseHandler /\ h.s \in SseSess
  BY <1>1, SseInHand DEF SseInv, SseTypes
<1>3. scloseCh[h.s] \in SseChannel /\ stold \in SseTold
  BY <1>2 DEF SseInv, SseTypes
<1>4. CASE SseUsers!GoOn(p) /\ UNCHANGED <<shandlers, scloseCh, stold>>
  <2>1. PICK new \in SsePusher :
          /\ new.pc = "visit"
          /\ \A i \in 1..Len(new.todo) : ssess[new.todo[i].s].pc # "out"
          /\ spushing' = [spushing EXCEPT ![p] = new]
    BY <1>2, <1>4, SseGoOn
  <2>2. shandlers' = [shandlers EXCEPT !.off = shandlers.off \cup {}]
    BY <1>4 DEF SseInv, SseTypes
  <2>3. scloseCh' \in [SseSess -> SseChannel] /\ stold' \in SseTold
    BY <1>4 DEF SseInv, SseTypes
  <2>4. SseTypes' /\ SseIds' /\ SseListening' /\ SseCancels'
    BY <1>1, <1>4, <2>1, <2>2, <2>3, SsePushes
  <2>5. SseBuffer'
    BY <1>1, <1>4 DEF SseInv, SseBuffer
  <2>6. SseUnraced'
    <3> SUFFICES ASSUME ~stold'.raced
                 PROVE  SseUnraced'
      BY DEF SseUnraced
    <3>1. ~stold.raced /\ stold'.panic = FALSE
      BY <1>4 DEF SseInv, SseUnraced, Unraced
    <3>2. spushing'[p] = new /\ \A q \in SsePushers : q # p => spushing'[q] = spushing[q]
      BY <2>1 DEF SseInv, SseTypes
    <3> QED
      BY <1>1, <1>4, <2>1, <3>1, <3>2, SseStaysUnraced
  <2> QED
    BY <2>4, <2>5, <2>6 DEF SseInv
<1>5. CASE /\ scloseCh[h.s].done
           /\ scloseCh' = [scloseCh EXCEPT ![h.s].closed = TRUE]
           /\ stold' = [stold EXCEPT !.panic = @ \/ scloseCh[h.s].closed]
           /\ shandlers' = [shandlers EXCEPT !.off = @ \cup {h}]
           /\ SseUsers!GoOn(p)
  <2>1. PICK new \in SsePusher :
          /\ new.pc = "visit"
          /\ \A i \in 1..Len(new.todo) : ssess[new.todo[i].s].pc # "out"
          /\ spushing' = [spushing EXCEPT ![p] = new]
    BY <1>2, <1>5, SseGoOn
  <2>2. {h} \in SUBSET SseHandler /\ shandlers' = [shandlers EXCEPT !.off = shandlers.off \cup {h}]
    BY <1>2, <1>5
  <2>3. stold' \in SseTold /\ stold'.last = stold.last /\ stold'.raced = stold.raced
    <3>1. PICK x \in BOOLEAN : stold' = [stold EXCEPT !.panic = x]
      BY <1>5
    <3> QED
      BY <1>3, <3>1, SseToldPanic
  <2>4. /\ scloseCh' \in [SseSess -> SseChannel]
        /\ \A t \in SseSess : scloseCh'[t].done = scloseCh[t].done /\ scloseCh'[t].buf = scloseCh[t].buf
    <3> DEFINE c == [scloseCh[h.s] EXCEPT !.closed = TRUE]
    <3>1. scloseCh' = [scloseCh EXCEPT ![h.s] = c]
      BY <1>5 DEF SseInv, SseTypes
    <3>2. c \in SseChannel /\ c.buf = scloseCh[h.s].buf /\ c.done = scloseCh[h.s].done
      <4>1. <<>> \in Seq(Nat)
        OBVIOUS
      <4> QED
        BY <1>3, <4>1, SseChannelSet, Zenon
    <3> HIDE DEF c
    <3> QED
      BY <1>2, <3>1, <3>2, SseChannelChange DEF SseInv
  <2>5. SseTypes' /\ SseIds' /\ SseListening' /\ SseCancels'
    <3> HIDE DEF h
    <3> QED
      BY <1>1, <2>1, <2>2, <2>3, <2>4, SsePushes
  <2>6. SseBuffer'
    BY <1>1, <2>3, <2>4 DEF SseInv, SseBuffer
  <2>7. SseUnraced'
    <3> SUFFICES ASSUME ~stold'.raced
                 PROVE  FALSE
      BY DEF SseUnraced
    <3>1. Unraced
      BY <2>3 DEF SseInv, SseUnraced
    <3>2. ssess[h.s].pc \in Cancelled
      BY <1>2, <1>5 DEF SseInv, SseCancels
    <3> QED
      BY <1>1, <3>1, <3>2 DEF Unraced
  <2> QED
    BY <2>5, <2>6, <2>7 DEF SseInv
<1>6. CASE /\ spushing' = [spushing EXCEPT ![p].pc = "drain"]
           /\ UNCHANGED <<shandlers, scloseCh, stold>>
  <2> DEFINE new == [spushing[p] EXCEPT !.pc = "drain"]
  <2>1. new \in SsePusher /\ new.pc = "drain" /\ new.todo = spushing[p].todo
    BY DEF SseInv, SseTypes, SsePusher
  <2>2. spushing' = [spushing EXCEPT ![p] = new]
    BY <1>6 DEF SseInv, SseTypes
  <2>3. \A i \in 1..Len(spushing[p].todo) : ssess[spushing[p].todo[i].s].pc # "out"
    BY DEF SseInv, SseListening
  <2> HIDE DEF new
  <2>4. shandlers' = [shandlers EXCEPT !.off = shandlers.off \cup {}]
    BY <1>6 DEF SseInv, SseTypes
  <2>5. scloseCh' \in [SseSess -> SseChannel] /\ stold' \in SseTold
    BY <1>6 DEF SseInv, SseTypes
  <2>6. SseTypes' /\ SseIds' /\ SseListening' /\ SseCancels'
    <3>1. \E any \in SsePusher :
            /\ any.pc \in {"handle", "drain"} => any.todo # <<>>
            /\ any.pc = "drain" => Head(any.todo).kind = "chan"
            /\ \A i \in 1..Len(any.todo) : ssess[any.todo[i].s].pc # "out"
            /\ spushing' = [spushing EXCEPT ![p] = any]
      BY <1>1, <1>2, <2>1, <2>2, <2>3
    <3>2. \A t \in SseSess : scloseCh'[t].done = scloseCh[t].done
      BY <1>6
    <3> QED
      BY <1>1, <2>4, <2>5, <3>1, <3>2, SsePushes
  <2>7. SseBuffer'
    BY <1>1, <1>6 DEF SseInv, SseBuffer
  <2>8. SseUnraced'
    <3> SUFFICES ASSUME ~stold'.raced
                 PROVE  SseUnraced'
      BY DEF SseUnraced
    <3>1. ~stold.raced /\ Unraced /\ stold'.panic = FALSE
      BY <1>6 DEF SseInv, SseUnraced, Unraced
    <3>2. spushing'[p] = new /\ \A q \in SsePushers : q # p => spushing'[q] = spushing[q]
      BY <2>2 DEF SseInv, SseTypes
    <3>3. ssess[h.s].pc \notin Cancelled
      BY <1>1, <3>1 DEF Unraced
    <3> QED
      BY <1>1, <1>6, <2>1, <3>1, <3>2, <3>3, SseStaysUnraced
  <2> QED
    BY <2>6, <2>7, <2>8 DEF SseInv
<1> QED
  BY <1>1, <1>4, <1>5, <1>6 DEF SseUsers!ChanTest

\* The close is put into the channel, in the place of one that nobody received.
LEMMA SseChanSend ==
  ASSUME SseInv, NEW p \in SsePushers, SseUsers!ChanSend(p), UNCHANGED saddr
  PROVE  SseInv'
<1> DEFINE s == Head(spushing[p].todo).s
           to == spushing[p].to
<1>1. /\ spushing[p].pc = "drain" /\ UNCHANGED <<spooled, ssess, shandlers>>
      /\ SseUsers!GoOn(p)
  BY DEF SseUsers!ChanSend
<1>2. /\ spushing[p].todo # <<>> /\ s \in SseSess /\ Head(spushing[p].todo).kind = "chan"
      /\ ssess[s].pc # "out" /\ to \in Nat
  BY <1>1, SseInHand DEF SseInv, SseTypes, SsePusher
<1>3. scloseCh[s] \in SseChannel /\ stold \in SseTold
  BY <1>2 DEF SseInv, SseTypes
<1>4. PICK new \in SsePusher :
        /\ new.pc = "visit"
        /\ \A i \in 1..Len(new.todo) : ssess[new.todo[i].s].pc # "out"
        /\ spushing' = [spushing EXCEPT ![p] = new]
  BY <1>1, <1>2, SseGoOn
<1>5. shandlers' = [shandlers EXCEPT !.off = shandlers.off \cup {}]
  BY <1>1 DEF SseInv, SseTypes
<1>6. spushing'[p] = new /\ \A q \in SsePushers : q # p => spushing'[q] = spushing[q]
  BY <1>4 DEF SseInv, SseTypes
<1>7. Unraced => ~scloseCh[s].closed
  <2>1. Unraced => ssess[s].pc \notin Cancelled
    BY <1>1, <1>2 DEF Unraced
  <2>2. ChanClosed \subseteq Cancelled
    BY DEF ChanClosed, Cancelled
  <2> QED
    BY <1>2, <2>1, <2>2 DEF Unraced
<1>8. CASE /\ scloseCh[s].closed
           /\ stold' = [stold EXCEPT !.panic = TRUE] /\ UNCHANGED scloseCh
  <2>1. stold' \in SseTold /\ stold'.last = stold.last /\ stold'.raced = stold.raced
    BY <1>3, <1>8, SseToldPanic
  <2>2. scloseCh' \in [SseSess -> SseChannel]
    BY <1>8 DEF SseInv, SseTypes
  <2>3. SseTypes' /\ SseIds' /\ SseListening' /\ SseCancels'
    BY <1>1, <1>4, <1>5, <1>8, <2>1, <2>2, SsePushes
  <2>4. SseBuffer'
    BY <1>1, <1>8, <2>1 DEF SseInv, SseBuffer
  <2>5. SseUnraced'
    BY <1>7, <1>8, <2>1 DEF SseInv, SseUnraced
  <2> QED
    BY <2>3, <2>4, <2>5 DEF SseInv
<1>9. CASE /\ ~scloseCh[s].closed
           /\ scloseCh' = [scloseCh EXCEPT ![s] = SseUsers!DrainAndSend(@, to)]
           /\ stold' = [stold EXCEPT !.last[s] = to]
  <2> DEFINE c == [scloseCh[s] EXCEPT !.buf = <<to>>]
             last == [stold.last EXCEPT ![s] = to]
  <2>1. /\ scloseCh' \in [SseSess -> SseChannel]
        /\ scloseCh'[s].buf = <<to>>
        /\ \A t \in SseSess : /\ scloseCh'[t].done = scloseCh[t].done
                              /\ scloseCh'[t].closed = scloseCh[t].closed
                              /\ t # s => scloseCh'[t].buf = scloseCh[t].buf
    <3>1. scloseCh' = [scloseCh EXCEPT ![s] = c]
      BY <1>9 DEF SseInv, SseTypes, SseUsers!DrainAndSend
    <3>2. /\ c \in SseChannel /\ c.buf = <<to>>
          /\ c.closed = scloseCh[s].closed /\ c.done = scloseCh[s].done
      <4>1. <<to>> \in Seq(Nat)
        BY <1>2
      <4> QED
        BY <1>3, <4>1, SseChannelSet, Zenon
    <3> HIDE DEF c, s, to
    <3> QED
      BY <1>2, <3>1, <3>2, SseChannelChange DEF SseInv
  <2>2. /\ last \in [SseSess -> Int] /\ last[s] = to
        /\ \A t \in SseSess : t # s => last[t] = stold.last[t]
    <3>1. stold.last \in [SseSess -> Int]
      BY <1>3 DEF SseTold
    <3> HIDE DEF s, to
    <3> QED
      BY <1>2, <3>1
  <2>3. stold' = [stold EXCEPT !.last = last]
    BY <1>3, <1>9 DEF SseTold
  <2> HIDE DEF last
  <2>4. /\ stold' \in SseTold /\ stold'.last = last
        /\ stold'.raced = stold.raced /\ stold'.panic = stold.panic
    BY <1>3, <2>2, <2>3, SseToldLast
  <2>5. SseTypes' /\ SseIds' /\ SseListening' /\ SseCancels'
    BY <1>1, <1>4, <1>5, <2>1, <2>4, SsePushes
  <2>6. SseBuffer'
    <3> SUFFICES ASSUME NEW t \in SseSess
                 PROVE  /\ ssess[t].pc = "out" => last[t] = -1
                        /\ scloseCh'[t].buf \in {<<>>, <<last[t]>>}
                        /\ ssess[t].pc \in BeforeCancel /\ last[t] \in {0, saddr[ssess[t].item]} =>
                             scloseCh'[t].buf # <<>>
      BY <1>1, <2>4 DEF SseBuffer
    <3>1. CASE t = s
      <4>1. last[t] = to /\ scloseCh'[t].buf = <<to>> /\ ssess[t].pc # "out"
        BY <1>2, <2>1, <2>2, <3>1
      <4> HIDE DEF s, to
      <4> QED
        BY <4>1
    <3>2. CASE t # s
      BY <2>1, <2>2, <3>2 DEF SseInv, SseBuffer
    <3> QED
      BY <3>1, <3>2
  <2>7. SseUnraced'
    <3> SUFFICES ASSUME ~stold'.raced
                 PROVE  SseUnraced'
      BY DEF SseUnraced
    <3>1. ~stold.raced /\ stold'.panic = FALSE
      BY <2>4 DEF SseInv, SseUnraced, Unraced
    <3> QED
      BY <1>1, <1>4, <1>6, <2>1, <3>1, SseStaysUnraced
  <2> QED
    BY <2>5, <2>6, <2>7 DEF SseInv
<1> QED
  BY <1>8, <1>9 DEF SseUsers!ChanSend

\* Every step of a server keeps its sessions apart.
LEMMA SseStep ==
  ASSUME SseInv, SseUsers!Next
  PROVE  SseInv'
<1>6. ASSUME NEW s \in SseSess, SseUsers!Begin(s)
      PROVE  SseInv'
  BY <1>6, SseBegin
<1>1. ASSUME NEW s \in SseSess, UNCHANGED saddr,
             SseUsers!Register(s) \/ SseUsers!Put(s) \/ SseUsers!Loop(s) \/ SseUsers!Ending(s)
      PROVE  SseInv'
  BY <1>1, SseRegister, SsePut, SseLoop, SseEnding
<1>2. ASSUME NEW s \in SseSess, SseUsers!PushInit(s) \/ SseUsers!PushRecv(s) \/ SseUsers!PushFin(s),
             UNCHANGED saddr
      PROVE  SseInv'
  <2>1. UNCHANGED <<spooled, shandlers, scloseCh, spushing, stold>>
    BY <1>2 DEF SseUsers!PushInit, SseUsers!PushRecv, SseUsers!PushFin, SseUsers!Quiet
  <2>2. PICK p \in {"register", "loop", "put"} :
          /\ SseUsers!Goto(s, p)
          /\ p = "register" => ssess[s].pc = "init"
          /\ p = "loop" => ssess[s].pc = "recv"
          /\ p = "put" => ssess[s].pc = "fin"
    BY <1>2 DEF SseUsers!PushInit, SseUsers!PushRecv, SseUsers!PushFin
  <2>3. /\ p \in SsePcs \ {"out"} /\ ssess[s].pc \notin {"out", "over"}
        /\ \/ ssess[s].pc \notin Cancelled /\ p \notin Cancelled
           \/ ssess[s].pc \in ChanClosed /\ p \in ChanClosed
        /\ p \in BeforeCancel => ssess[s].pc \in BeforeCancel
        /\ \A k \in {"send", "chan"} : ssess[s].pc \in ListensAt[k] => p \in ListensAt[k]
    BY <2>2 DEF SsePcs, Cancelled, ChanClosed, BeforeCancel, ListensAt
  <2> QED
    BY <1>2, <2>1, <2>2, <2>3, SseMoves
<1>3. ASSUME NEW p \in SsePushers, NEW tag \in {"send", "close"},
             NEW to \in {0} \cup SseUsers!Range(saddr), SseUsers!UserPush(p, tag, to),
             UNCHANGED saddr
      PROVE  SseInv'
  BY <1>3, SseUserPush
<1>4. ASSUME NEW p \in SsePushers, UNCHANGED saddr,
             SseUsers!Visit(p) \/ SseUsers!Handle(p) \/ SseUsers!ChanTest(p) \/ SseUsers!ChanSend(p)
      PROVE  SseInv'
  BY <1>4, SseVisit, SseHandle, SseChanTest, SseChanSend
<1>5. SseUsers!Sess = SseSess
  BY DEF SseUsers!Sess
<1> QED
  BY <1>1, <1>2, <1>3, <1>4, <1>5, <1>6 DEF SseUsers!Next, SseUsers!Step

\* What the invariant says of the sessions.
LEMMA SseSafe ==
  ASSUME SseInv
  PROVE  SseUsers!SessionsApart
<1>1. SseUsers!Sess = SseSess
  BY DEF SseUsers!Sess
<1>2. \A h \in SseUsers!Live : h.s \in SseOwners
  <2> SUFFICES ASSUME NEW h \in SseUsers!Live
               PROVE  h.s \in SseOwners
    OBVIOUS
  <2>1. PICK i \in 1..Len(shandlers.list) : shandlers.list[i] = h /\ h \notin shandlers.off
    BY SseListed DEF SseInv, SseUsers!Live, SseUsers!ToSet
  <2>2. h.s \in SseSess /\ h.kind \in {"send", "chan"} /\ ssess[h.s].pc \in ListensAt[h.kind]
    BY <2>1, SseListed DEF SseInv, SseListening
  <2> QED
    BY <2>2 DEF ListensAt, SseOwners
<1>3. \A h \in SseUsers!Live : ssess[h.s].item \notin spooled
  BY <1>2 DEF SseInv, SseIds
<1>8. \A s, t \in SseOwners : s # t => SseUsers!Apart(s, t)
  BY DEF SseInv, SseIds, SseUsers!Apart
<1>4. \A h, k \in SseUsers!Live : h.s # k.s => SseUsers!Apart(h.s, k.s)
  BY <1>2, <1>8
<1>5. \A s, t \in SseSess :
        s # t /\ SseUsers!InUse(s) /\ SseUsers!InUse(t) => SseUsers!Apart(s, t)
  BY <1>8 DEF SseOwners, SseUsers!InUse
<1>6. \A s \in SseSess : ssess[s].pc = "loop" /\ stold.last[s] \in {0, saddr[ssess[s].item]} =>
        stold.last[s] \in SseUsers!ToSet(scloseCh[s].buf)
  <2> SUFFICES ASSUME NEW s \in SseSess, ssess[s].pc = "loop", stold.last[s] \in {0, saddr[ssess[s].item]}
               PROVE  stold.last[s] \in SseUsers!ToSet(scloseCh[s].buf)
    OBVIOUS
  <2>1. "loop" \in BeforeCancel
    BY DEF BeforeCancel
  <2>2. scloseCh[s].buf = <<stold.last[s]>>
    BY <2>1 DEF SseInv, SseBuffer
  <2> QED
    BY <2>2 DEF SseUsers!ToSet
<1>7. stold.panic => stold.raced
  BY DEF SseInv, SseUnraced, Unraced
<1> QED
  BY <1>1, <1>3, <1>4, <1>5, <1>6, <1>7 DEF SseUsers!SessionsApart, SseUsers!Id

----------------------------------------------------------------------------
(* The composition that the run checks.                                    *)

\* The tagged adapters keep what has asked to be disabled so, for any batch.
THEOREM TagsCorrect == Tags!Spec => []Tags!DisabledForGood
<1>1. TagInv /\ UNCHANGED Tags!vars => TagInv'
  <2> SUFFICES ASSUME TagInv, UNCHANGED Tags!vars
               PROVE  TagInv'
    OBVIOUS
  <2>1. UNCHANGED <<items, group, asyncs, smap, walk, past>>
    BY DEF Tags!vars
  <2>2. TagTypes' /\ TagBatch' /\ TagMap'
    BY <2>1 DEF TagInv, TagTypes, TagBatch, TagMap
  <2>3. TagTogether' /\ TagDisabled'
    BY <2>1, TagTogetherKept, TagDisabledKept DEF TagInv
  <2> QED
    BY <2>2, <2>3 DEF TagInv
<1>2. TagInv /\ [Tags!Next]_(Tags!vars) => TagInv'
  BY <1>1, TagStep
<1> QED
  BY <1>2, TagInit, TagSafe, PTL DEF Tags!Spec

\* The sessions of the websocket server keep their ids and messages to themselves.
THEOREM WsUsersCorrect == WsUsers!Spec => []WsUsers!SessionsApart
<1> DEFINE WsInv == WsTypes /\ WsIds /\ WsReading
<1>1. WsInv /\ UNCHANGED WsUsers!vars => WsInv'
  BY DEF WsUsers!vars, WsTypes, WsIds, WsMade, WsOwners, WsReading
<1>2. WsInv /\ [WsUsers!Next]_(WsUsers!vars) => WsInv'
  BY <1>1, WsStep
<1>3. WsInv => WsUsers!SessionsApart
  BY WsSafe
<1>4. WsUsers!Init => WsInv
  BY WsInit
<1> HIDE DEF WsInv
<1> QED
  BY <1>2, <1>3, <1>4, PTL DEF WsUsers!Spec

\* So do those of sse, whose close waits in a channel between two goroutines.
THEOREM SseUsersCorrect == SseUsers!Spec => []SseUsers!SessionsApart
<1>1. SseInv /\ UNCHANGED SseUsers!vars => SseInv'
  <2> SUFFICES ASSUME SseInv, UNCHANGED SseUsers!vars
               PROVE  SseInv'
    OBVIOUS
  <2>1. UNCHANGED <<spooled, saddr, ssess, shandlers, scloseCh, spushing, stold>>
    BY DEF SseUsers!vars
  <2>2. SseTypes' /\ SseIds'
    BY <2>1 DEF SseInv, SseTypes, SseIds, SseMade, SseOwners
  <2>3. SseListening'
    BY <2>1 DEF SseInv, SseListening
  <2>4. SseBuffer' /\ SseCancels'
    BY <2>1 DEF SseInv, SseBuffer, SseCancels
  <2>5. SseUnraced'
    BY <2>1 DEF SseInv, SseUnraced, Unraced, SseUsers!NoPush
  <2> QED
    BY <2>2, <2>3, <2>4, <2>5 DEF SseInv
<1>2. SseInv /\ [SseUsers!Next]_(SseUsers!vars) => SseInv'
  BY <1>1, SseStep
<1>3. SseInv => SseUsers!SessionsApart
  BY SseSafe
<1> QED
  BY <1>2, <1>3, SseInit, PTL DEF SseUsers!Spec

\* A step of the composition is one of the unit it is about, and the others stand still.
LEMMA UnitSteps ==
  ASSUME [MsgqNext]_<<unit, vars, tagVars, wsVars, sseVars>>
  PROVE  /\ [Tags!Next]_(Tags!vars)
         /\ [WsUsers!Next]_(WsUsers!vars)
         /\ [SseUsers!Next]_(SseUsers!vars)
BY DEF MsgqNext, tagVars, wsVars, sseVars, Tags!vars, WsUsers!vars, SseUsers!vars

\* msgq/Msgq.go: what has asked to be disabled stays disabled, whatever runs beside it:
\* one function of a batch of Pull_tags takes the batch with it, a true of TagAsync is
\* not undone, and a function of Pull_tag_syncmap removes itself only.
THEOREM DisabledForGoodCorrect == MsgqSpec => []DisabledForGood
<1>1. MsgqInit => Tags!Init
  BY DEF MsgqInit
<1>2. MsgqSpec => Tags!Spec
  BY <1>1, UnitSteps, PTL DEF MsgqSpec, Tags!Spec
<1> QED
  BY <1>2, TagsCorrect, PTL DEF DisabledForGood

\* websocket/Server.go and sse/server.go: what is pushed to an id of the websocket server
\* never reaches a session that had the id before, no two sessions of either have one User
\* or Umsg, and a close waits for its sse session to receive it.
THEOREM SessionsApartCorrect == MsgqSpec => []SessionsApart
<1>1. MsgqInit => WsUsers!Init /\ SseUsers!Init
  BY DEF MsgqInit
<1>2. MsgqSpec => WsUsers!Spec /\ SseUsers!Spec
  BY <1>1, UnitSteps, PTL DEF MsgqSpec, WsUsers!Spec, SseUsers!Spec
<1> QED
  BY <1>2, WsUsersCorrect, SseUsersCorrect, PTL DEF SessionsApart
=============================================================================
