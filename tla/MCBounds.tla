------------------------------ MODULE MCBounds ------------------------------
(***************************************************************************)
(* What keeps within its limits and in order: the request limits and the   *)
(* expiring keys of package web, slice.Buf with its array, the copies of   *)
(* package io, and the searches of file.File.  They share no state, so a   *)
(* behaviour exercises one of them: unit says which, and the others stay   *)
(* as they began.                                                          *)
(***************************************************************************)
EXTENDS ReqLimits, Sequences, TLC

CONSTANTS
  r1, r2, r3, r4,
  Uuids, Registrars, Renewers, Droppers, Checkers, max, None, MaxKeyCalls,  \* Expiring
  Readers, MaxSize, MaxBufOps, MaxPiece,                                    \* Queue
  Sizes, Breaks, CopyConfigs, Chunk, BufLens,                               \* Copy
  Texts, Seps, Pers, Maxs, Bufs, MaxSearches                                \* Search

VARIABLES
  unit,
  m, mc, order, kpc, key, calls, answered,   \* Expiring
  sbuf, stamp, want, got, rd, fill, hist,    \* Queue
  rest, out, job,                            \* Copy
  text, pos, searches, call                  \* Search

keyVars   == <<m, mc, order, kpc, key, calls, answered>>
queueVars == <<sbuf, stamp, want, got, rd, fill, hist>>
copyVars  == <<rest, out, job>>
fileVars  == <<text, pos, searches, call>>

\* Items with two slots, with one and without any.
MCMax == <<2, 1, 0>>
MCMatches == (r1 :> {1}) @@ (r2 :> {1, 2}) @@ (r3 :> {1, 2}) @@ (r4 :> {2})

MCConfigs ==
  [bpl : {0, 2, 5}, maxLoop : {0, 2}, maxByte : {0, 1, 5}, skip : {0, 2}, seeker : BOOLEAN]

\* The CopyConfig of Test_CopyIO, one byte more than Chunk in one loop.
MCTestConfigs == {[bpl |-> 5, maxLoop |-> 1, maxByte |-> 0, skip |-> 0, seeker |-> TRUE]}

\* Every file of up to five bytes, and separators that overlap themselves.
MCTexts == UNION {[1..n -> {1, 2}] : n \in 0..5}
MCSeps == {<<1>>, <<1, 2>>, <<1, 1>>, <<1, 2, 1>>}
MCBufs == {<<0, 0>>, <<2, 2>>, <<0, 2>>}

\* One goroutine registers keys, and others renew, drop and check them.
Expiring == INSTANCE Exprier WITH Keys <- Uuids, MaxCalls <- MaxKeyCalls, pc <- kpc

Queue == INSTANCE SliceBuf

Copy == INSTANCE IoCopy

Search == INSTANCE FileSearch

ASSUME BoundsAssumptions ==
  /\ Expiring!ExprierAssumption
  /\ \E reg \in Registrars : Registrars = {reg}
  /\ Queue!SliceBufAssumption
  /\ Copy!IoCopyAssumption
  /\ Search!FileSearchAssumption

BoundsInit ==
  /\ unit \in {"limits", "keys", "queue", "copy", "search"}
  /\ Init /\ Expiring!Init /\ Queue!Init
  /\ Copy!Init /\ (unit # "copy" => rest = <<>>)
  /\ Search!Init /\ (unit # "search" => text = <<>>)

BoundsNext ==
  /\ UNCHANGED unit
  /\ \/ unit = "limits" /\ Next /\ UNCHANGED <<keyVars, queueVars, copyVars, fileVars>>
     \/ unit = "keys" /\ Expiring!Next /\ UNCHANGED <<vars, queueVars, copyVars, fileVars>>
     \/ unit = "queue" /\ Queue!Next /\ UNCHANGED <<vars, keyVars, copyVars, fileVars>>
     \/ unit = "copy" /\ Copy!Next /\ UNCHANGED <<vars, keyVars, queueVars, fileVars>>
     \/ unit = "search" /\ Search!Next /\ UNCHANGED <<vars, keyVars, queueVars, copyVars>>

BoundsSpec ==
  BoundsInit /\ [][BoundsNext]_<<unit, vars, keyVars, queueVars, copyVars, fileVars>>

Perms == Permutations(Uuids)

----------------------------------------------------------------------------

\* Exprier: the map never has more than max keys when one goroutine registers
\* and nobody has renewed a key; and Reg never waits for room in the channel it
\* has just made room in, also while keys are renewed.
Bounded == Expiring!Bounded /\ Expiring!RegNeverWaits

\* Exprier: the key that makes room for a new one is the oldest one in the map.
EvictsOldest == Expiring!EvictsOldest

\* slice.Buf: the content is the queue that the calls describe; and a copy of
\* package io loses, repeats and moves no byte, however the reads cut them.
DataExact == Queue!QueueExact /\ Copy!CopiedExact

\* Test_CopyIO: a Copy that wrote all that its loops hold returns nil.
LimitIsNoError == Copy!LimitIsNoError

\* file.File: a search leaves the cursor behind the first separator if the first
\* read holds it or the pieces are as long as the reserve, and gives the bytes
\* before it if the first read holds it or it is one byte.
UntilExact == Search!UntilExact

\* The doc of ReadUntilV2 on where it stops and what it gives, for every separator
\* and size of the pieces.
UntilStops == Search!UntilStops
=============================================================================
