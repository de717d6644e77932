----------------------------- MODULE CacheWriter -----------------------------
(***************************************************************************)
(* io/io.go: CacheWriter.  Write takes a slot by a counter, fills it and   *)
(* hands its number to a channel; a goroutine per Write takes a number,    *)
(* under a mutex, and writes the slot to the writer below.                 *)
(***************************************************************************)
EXTENDS Integers, Sequences

CONSTANTS
  Writers,
  slotN,         \* max, the number of slots and the capacity of cc
  CounterMod,    \* bound: 2^32 for the counter
  MaxCacheWrites \* bound: calls of Write

\* With no slot, Write divides by zero.
CacheWriterAssumption == slotN \in Nat \ {0} /\ CounterMod \in Nat \ {0}

VARIABLES
  bufs,      \* is: the data of each slot
  taken,     \* is: l of each slot
  cc,        \* the channel of slot numbers
  wpc,       \* writer -> where its Write is, and its slot
  workers,   \* goroutines that wait for rc, and the slot of the one that has it
  cnum,      \* the counter c
  cancelled, \* ctx
  writes,    \* calls of Write; it grows with every slot filled too, and tells the
             \* data of different calls apart
  accepted,  \* the data of the Writes that have handed over their slot, in order
  below      \* what the writer below got

vars == <<bufs, taken, cc, wpc, workers, cnum, cancelled, writes, accepted, below>>

Slots == 0..(slotN - 1)
Place(pc, i) == [pc |-> pc, i |-> i]

Init ==
  /\ bufs = [i \in Slots |-> 0]
  /\ taken = [i \in Slots |-> FALSE]
  /\ cc = <<>>
  /\ wpc = [u \in Writers |-> Place("idle", 0)]
  /\ workers = [waiting |-> 0, pc |-> "free", i |-> 0]
  /\ cnum = 0 /\ cancelled = FALSE /\ writes = 0
  /\ accepted = <<>> /\ below = <<>>

\* Write: the test of ctx and the number of the slot.
Number(u) ==
  /\ wpc[u].pc = "idle" /\ writes < MaxCacheWrites /\ ~cancelled
  /\ writes' = writes + 1
  /\ cnum' = (cnum + 1) % CounterMod
  /\ wpc' = [wpc EXCEPT ![u] = Place("swap", cnum' % slotN)]
  /\ UNCHANGED <<bufs, taken, cc, workers, cancelled, accepted, below>>

\* Mutant: Store instead of CompareAndSwap, so that a taken slot is taken again.
SwapAnyway(u) ==
  /\ wpc[u].pc = "swap"
  /\ taken' = [taken EXCEPT ![wpc[u].i] = TRUE]
  /\ wpc' = [wpc EXCEPT ![u] = Place("fill", wpc[u].i)]
  /\ UNCHANGED <<bufs, cc, workers, cnum, cancelled, writes, accepted, below>>

\* CompareAndSwap: a slot that is taken gives ErrCacheWriterBusy.
Swap(u) ==
  /\ wpc[u].pc = "swap"
  /\ taken' = [taken EXCEPT ![wpc[u].i] = TRUE]
  /\ wpc' = [wpc EXCEPT ![u] = IF taken[wpc[u].i] THEN Place("idle", 0) ELSE Place("fill", wpc[u].i)]
  /\ UNCHANGED <<bufs, cc, workers, cnum, cancelled, writes, accepted, below>>

\* The slot is filled.
Fill(u) ==
  /\ wpc[u].pc = "fill"
  /\ bufs' = [bufs EXCEPT ![wpc[u].i] = writes]
  /\ writes' = writes + 1
  /\ wpc' = [wpc EXCEPT ![u] = Place("send", wpc[u].i)]
  /\ UNCHANGED <<taken, cc, workers, cnum, cancelled, accepted, below>>

\* cc <- i, and the goroutine starts.
Send(u) ==
  /\ wpc[u].pc = "send" /\ Len(cc) < slotN
  /\ cc' = Append(cc, wpc[u].i)
  /\ accepted' = Append(accepted, bufs[wpc[u].i])
  /\ workers' = [workers EXCEPT !.waiting = @ + 1]
  /\ wpc' = [wpc EXCEPT ![u] = Place("idle", 0)]
  /\ UNCHANGED <<bufs, taken, cnum, cancelled, writes, below>>

\* The goroutine: rc.Lock and the receive.
Receive ==
  /\ workers.pc = "free" /\ workers.waiting > 0 /\ cc # <<>>
  /\ workers' = [waiting |-> workers.waiting - 1, pc |-> "write", i |-> Head(cc)]
  /\ cc' = Tail(cc)
  /\ UNCHANGED <<bufs, taken, wpc, cnum, cancelled, writes, accepted, below>>

\* w.Write of the slot; an error cancels ctx.
WriteBelow ==
  /\ workers.pc = "write"
  /\ below' = Append(below, bufs[workers.i])
  /\ cancelled' \in {cancelled, TRUE}
  /\ workers' = [workers EXCEPT !.pc = "written"]
  /\ UNCHANGED <<bufs, taken, cc, wpc, cnum, writes, accepted>>

\* The deferred l.Store(false) and rc.Unlock.
Release ==
  /\ workers.pc = "written"
  /\ taken' = [taken EXCEPT ![workers.i] = FALSE]
  /\ workers' = [workers EXCEPT !.pc = "free"]
  /\ UNCHANGED <<bufs, cc, wpc, cnum, cancelled, writes, accepted, below>>

Next ==
  \/ \E u \in Writers : Number(u) \/ Swap(u) \/ Fill(u) \/ Send(u)
  \/ Receive
  \/ WriteBelow
  \/ Release

Spec == Init /\ [][Next]_vars

----------------------------------------------------------------------------
InHand == IF workers.pc = "write" THEN <<bufs[workers.i]>> ELSE <<>>
Pending == [k \in 1..Len(cc) |-> bufs[cc[k]]]

\* What the writer below got, what a goroutine is about to write and what waits
\* in the channel are together the writes that were accepted, once each, with
\* their own bytes and in their order: a slot is never filled again while it
\* waits.  There is a goroutine for every number in the channel, and room in
\* the channel for every Write that has a slot, so that Write never waits.
CachedWhole ==
  /\ accepted = below \o InHand \o Pending
  /\ workers.waiting = Len(cc)
  /\ \A u \in Writers : wpc[u].pc = "send" => Len(cc) < slotN
=============================================================================
