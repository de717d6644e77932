-------------------------------- MODULE Pools --------------------------------
(***************************************************************************)
(* pool/Pool.go: Buf, sync/LoadOrStoreFunc.go: LoadOrInitFunc.  Both hand  *)
(* out objects they made before.  Each call holds the lock from its first  *)
(* to its last line, so it is one step.  InUse of a Buf, if it is set,     *)
(* asks the object; here: whether somebody still works with it.            *)
(***************************************************************************)
EXTENDS Integers, FiniteSets

CONSTANTS
  PoolUsers,
  Items,     \* objects, in the order they are made
  maxsize,   \* of Buf: -1 is no limit
  HasInUse,  \* whether PoolFunc.InUse is set
  Keys       \* keys of the map of LoadOrInitFunc

PoolsAssumption == Items \in Nat /\ maxsize \in Int

VARIABLES
  mbuf,     \* object -> "out" or "pooled", for the objects the pool knows
  made,     \* objects made so far
  held,     \* user -> the objects it has from Get and has not given back
  working,  \* objects somebody works with, also after Put
  cache,    \* LoadOrInitFunc: its cache, 0 for nil
  store     \* and the map: key -> object

vars == <<mbuf, made, held, working, cache, store>>

Init ==
  /\ mbuf = <<>>
  /\ made = 0
  /\ held = [u \in PoolUsers |-> {}]
  /\ working = {}
  /\ cache = 0
  /\ store = <<>>

Busy(k) == HasInUse /\ k \in working
Idle(k) == mbuf[k] = "pooled" /\ ~Busy(k)
Reusable == {k \in DOMAIN mbuf : Idle(k)}

Hand(u, k) ==
  /\ held' = [held EXCEPT ![u] = @ \cup {k}]
  /\ working' = working \cup {k}

\* Mutant: the object stays marked as pooled.
GetAgain(u, k) ==
  /\ k \in Reusable
  /\ Hand(u, k)
  /\ UNCHANGED <<mbuf, made, cache, store>>

\* Get: an object that is pooled and not in use, whichever the walk meets first.
GetPooled(u, k) ==
  /\ k \in Reusable
  /\ mbuf' = [mbuf EXCEPT ![k] = "out"]
  /\ Hand(u, k)
  /\ UNCHANGED <<made, cache, store>>

\* Get, without one: New, which the pool does not know until Put.
GetNew(u) ==
  /\ Reusable = {} /\ made < Items
  /\ made' = made + 1
  /\ Hand(u, made + 1)
  /\ UNCHANGED <<mbuf, cache, store>>

\* Put: an object the pool knows is pooled again; a new one if there is room.
\* The user may go on with the object, which InUse then tells.
Put(u, k, goesOn) ==
  /\ k \in held[u]
  /\ goesOn => HasInUse
  /\ mbuf' = IF k \in DOMAIN mbuf THEN [mbuf EXCEPT ![k] = "pooled"]
             ELSE IF maxsize = -1 \/ maxsize > Cardinality(DOMAIN mbuf)
               THEN [x \in DOMAIN mbuf \cup {k} |-> IF x = k THEN "pooled" ELSE mbuf[x]]
             ELSE mbuf
  /\ held' = [held EXCEPT ![u] = @ \ {k}]
  /\ working' = IF goesOn THEN working ELSE working \ {k}
  /\ UNCHANGED <<made, cache, store>>

StopsWork(k) ==
  /\ k \in working /\ \A u \in PoolUsers : k \notin held[u]
  /\ working' = working \ {k}
  /\ UNCHANGED <<mbuf, made, held, cache, store>>

----------------------------------------------------------------------------
\* loadOrInitP: the cache is made once and kept until a LoadOrStore takes it.
LoadOrInit(k) ==
  LET c == IF cache = 0 THEN made + 1 ELSE cache IN
  /\ cache # 0 \/ made < Items
  /\ made' = IF cache = 0 THEN made + 1 ELSE made
  /\ IF k \in DOMAIN store
       THEN cache' = c /\ UNCHANGED store
       ELSE /\ store' = [x \in DOMAIN store \cup {k} |-> IF x = k THEN c ELSE store[x]]
            /\ cache' = 0
  /\ UNCHANGED <<mbuf, held, working>>

\* The map is the caller's, and others delete from it.
DeleteKey(k) ==
  /\ k \in DOMAIN store
  /\ store' = [x \in DOMAIN store \ {k} |-> store[x]]
  /\ UNCHANGED <<mbuf, made, held, working, cache>>

Next ==
  \/ \E u \in PoolUsers :
       \/ \E k \in 1..Items : GetPooled(u, k)
       \/ GetNew(u)
       \/ \E k \in held[u], goesOn \in BOOLEAN : Put(u, k, goesOn)
  \/ \E k \in working : StopsWork(k)
  \/ \E k \in Keys : LoadOrInit(k) \/ DeleteKey(k)

Spec == Init /\ [][Next]_vars

----------------------------------------------------------------------------
\* No object is in two hands: not with two users of a Buf, not with a user and
\* marked as pooled, not under two keys of the map, and not under a key and
\* still in the cache; and a Buf knows at most maxsize objects.
HandedOutOnce ==
  /\ \A u, v \in PoolUsers : u # v => held[u] \cap held[v] = {}
  /\ \A u \in PoolUsers : \A k \in held[u] : k \in DOMAIN mbuf => mbuf[k] = "out"
  /\ \A k, l \in DOMAIN store : store[k] = store[l] => k = l
  /\ \A k \in DOMAIN store : store[k] # cache
  /\ maxsize >= 0 => Cardinality(DOMAIN mbuf) <= maxsize
=============================================================================
