------------------------------ MODULE Exprier -------------------------------
(***************************************************************************)
(* web/Web.go: Exprier, keys that are valid for a time, at most max of     *)
(* them.  m holds the keys with their time, the channel mc the keys in the *)
(* order of their registration; the two are changed in separate steps.     *)
(* Registrars call Reg, Renewers call it with a key to renew, Droppers     *)
(* call Drop, and Checkers are the goroutines of LoopCheck and the other   *)
(* callers of Check.                                                       *)
(***************************************************************************)
EXTENDS Naturals, Sequences, SequencesExt, FiniteSets

CONSTANTS
  Keys,        \* the uuids that Reg can make, each once
  Registrars,
  Renewers,
  Droppers,
  Checkers,
  max,
  None,        \* no key
  MaxCalls     \* bound: operations of each of the others

ExprierAssumption ==
  /\ max \in Nat \ {0} /\ MaxCalls \in Nat
  /\ None \notin Keys

Threads == Registrars \cup Renewers \cup Droppers \cup Checkers

VARIABLES
  m,        \* [Keys -> {"none", "valid", "expired"}]
  mc,       \* the channel
  order,    \* the keys made so far, oldest first
  pc,       \* [Threads -> place]
  key,      \* [Threads -> the key at hand]
  calls,    \* [Threads -> operations begun]
  answered  \* the keys that Reg returned and nobody dropped or pushed out

vars == <<m, mc, order, pc, key, calls, answered>>

Init ==
  /\ m = [k \in Keys |-> "none"]
  /\ mc = <<>>
  /\ order = <<>>
  /\ pc = [t \in Threads |-> "idle"]
  /\ key = [t \in Threads |-> None]
  /\ calls = [t \in Threads |-> 0]
  /\ answered = {}

Goto(t, l) == pc' = [pc EXCEPT ![t] = l]
Begin(t, k) ==
  /\ pc[t] = "idle" /\ calls[t] < MaxCalls
  /\ calls' = [calls EXCEPT ![t] = @ + 1]
  /\ key' = [key EXCEPT ![t] = k]

\* Time passes.
Expire(k) ==
  /\ m[k] = "valid"
  /\ m' = [m EXCEPT ![k] = "expired"]
  /\ answered' = answered \ {k}
  /\ UNCHANGED <<mc, order, pc, key, calls>>

----------------------------------------------------------------------------
(* Reg without a key to renew.                                             *)

\* uuid.NewString(); the first select sends the key if there is room.
Reg(t, k) ==
  /\ t \in Registrars
  /\ pc[t] = "idle"
  /\ k \notin ToSet(order)
  /\ order' = Append(order, k)
  /\ key' = [key EXCEPT ![t] = k]
  /\ IF Len(mc) < max
       THEN mc' = Append(mc, k) /\ Goto(t, "put")
       ELSE Goto(t, "evict") /\ UNCHANGED mc
  /\ UNCHANGED <<m, calls, answered>>

\* t.m.Store(newkey, ...), and Reg returns.
RegPut(t) ==
  /\ pc[t] = "put"
  /\ m' = [m EXCEPT ![key[t]] = "valid"]
  /\ answered' = answered \cup {key[t]}
  /\ Goto(t, "idle")
  /\ UNCHANGED <<mc, order, key, calls>>

\* Mutant: the oldest key is not taken off the channel.
RegEvictPeek(t) ==
  /\ pc[t] = "evict" /\ mc # <<>>
  /\ LET k1 == Head(mc)
     IN  /\ m' = [m EXCEPT ![k1] = "none"]
         /\ answered' = answered \ {k1}
         /\ Goto(t, IF m[k1] # "none" THEN "send" ELSE "evict")
  /\ UNCHANGED <<mc, order, key, calls>>

\* Mutant: the newest key makes room.
RegEvictNewest(t) ==
  /\ pc[t] = "evict" /\ mc # <<>>
  /\ LET k1 == Last(mc)
     IN  /\ mc' = Front(mc)
         /\ m' = [m EXCEPT ![k1] = "none"]
         /\ answered' = answered \ {k1}
         /\ Goto(t, IF m[k1] # "none" THEN "send" ELSE "evict")
  /\ UNCHANGED <<order, key, calls>>

\* Mutant: the key that makes room stays valid.
RegEvictKeep(t) ==
  /\ pc[t] = "evict" /\ mc # <<>>
  /\ mc' = Tail(mc)
  /\ Goto(t, IF m[Head(mc)] # "none" THEN "send" ELSE "evict")
  /\ UNCHANGED <<m, order, key, calls, answered>>

\* key1 := <-t.mc and t.m.LoadAndDelete(key1); a key that is gone already
\* makes no room, and the loop goes on.
RegEvict(t) ==
  /\ pc[t] = "evict" /\ mc # <<>>
  /\ LET k1 == Head(mc)
     IN  /\ mc' = Tail(mc)
         /\ m' = [m EXCEPT ![k1] = "none"]
         /\ answered' = answered \ {k1}
         /\ Goto(t, IF m[k1] # "none" THEN "send" ELSE "evict")
  /\ UNCHANGED <<order, key, calls>>

\* default: the channel is empty; the key is sent next and Reg returns
\* without t.m.Store.
RegEmpty(t) ==
  /\ pc[t] = "evict" /\ mc = <<>>
  /\ Goto(t, "sendOnly")
  /\ UNCHANGED <<m, mc, order, key, calls, answered>>

\* t.mc <- newkey, which waits while the channel is full.
RegSend(t) ==
  /\ pc[t] \in {"send", "sendOnly"}
  /\ Len(mc) < max
  /\ mc' = Append(mc, key[t])
  /\ IF pc[t] = "send" THEN Goto(t, "put") /\ UNCHANGED answered
     ELSE Goto(t, "idle") /\ answered' = answered \cup {key[t]}
  /\ UNCHANGED <<m, order, key, calls>>

----------------------------------------------------------------------------
(* Reg with a key to renew, Check and Drop.                                *)

\* t.m.Load(reNewKey[0]); ErrNoFound if it is not there.
Renew(t, k) ==
  /\ t \in Renewers
  /\ Begin(t, k)
  /\ Goto(t, IF m[k] # "none" THEN "renew" ELSE "idle")
  /\ UNCHANGED <<m, mc, order, answered>>

\* t.m.Store(reNewKey[0], ...)
RenewPut(t) ==
  /\ pc[t] = "renew"
  /\ m' = [m EXCEPT ![key[t]] = "valid"]
  /\ Goto(t, "idle")
  /\ UNCHANGED <<mc, order, key, calls, answered>>

Drop(t, k) ==
  /\ t \in Droppers
  /\ Begin(t, k)
  /\ m' = [m EXCEPT ![k] = "none"]
  /\ answered' = answered \ {k}
  /\ UNCHANGED <<mc, order, pc>>

\* t.m.LoadV(key); a key that is over is deleted in a second step.
Check(t, k) ==
  /\ t \in Checkers
  /\ Begin(t, k)
  /\ Goto(t, IF m[k] = "expired" THEN "delete" ELSE "idle")
  /\ UNCHANGED <<m, mc, order, answered>>

CheckDelete(t) ==
  /\ pc[t] = "delete"
  /\ m' = [m EXCEPT ![key[t]] = "none"]
  /\ Goto(t, "idle")
  /\ UNCHANGED <<mc, order, key, calls, answered>>

Next ==
  \/ \E k \in Keys : Expire(k)
  \/ \E t \in Threads :
       \/ \E k \in Keys : Reg(t, k) \/ Renew(t, k) \/ Drop(t, k) \/ Check(t, k)
       \/ RegPut(t) \/ RegEvict(t) \/ RegEmpty(t) \/ RegSend(t)
       \/ RenewPut(t) \/ CheckDelete(t)

Spec == Init /\ [][Next]_vars

----------------------------------------------------------------------------
TypeOK ==
  /\ m \in [Keys -> {"none", "valid", "expired"}]
  /\ mc \in Seq(Keys) /\ Len(mc) <= max
  /\ IsInjective(mc)
  /\ key \in [Threads -> Keys \cup {None}]

Present == {k \in Keys : m[k] # "none"}

NobodyRenewed == \A t \in Renewers : calls[t] = 0

\* The map never has more than max keys (one registrar, and nobody has renewed a key).
Bounded == NobodyRenewed => Cardinality(Present) <= max

\* One registrar never waits for room in the channel it has just made room in.
RegNeverWaits == \A t \in Registrars : pc[t] \in {"send", "sendOnly"} => Len(mc) < max

\* j was made before k.
Older(j, k) == \E a, b \in DOMAIN order : order[a] = j /\ order[b] = k /\ a < b

\* The key that makes room for a new one is the oldest one in the map, if nobody has
\* renewed a key.
EvictsOldest ==
  [][NobodyRenewed' =>
       \A k \in Present :
         m'[k] = "none" /\ (\E t \in Registrars : pc[t] = "evict" /\ pc'[t] = "send") =>
           \A j \in Present : ~Older(j, k)]_vars

\* A key that Reg has returned passes Check until its time is over, it is
\* dropped or it makes room for another.
AnsweredFound == \A k \in answered : m[k] = "valid"
=============================================================================
