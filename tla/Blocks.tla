------------------------------- MODULE Blocks -------------------------------
(***************************************************************************)
(* pool/Blocks.go: blocks and flexBlocks.  The channel free holds the      *)
(* offsets of the blocks that nobody has.  Get hands out a block and a     *)
(* function that returns it.  GetAuto attaches the return to a cleanup of  *)
(* &b, the slice header that the result is copied from: once GetAuto has   *)
(* returned nothing refers to that header, and the collector may run the   *)
(* cleanup whenever it likes.                                              *)
(***************************************************************************)
EXTENDS Naturals, Sequences, SequencesExt, FiniteSets

CONSTANTS
  blockNum,
  GetUsers,    \* callers of Get, each calls putBack once
  AutoUsers,   \* callers of GetAuto
  Flex,        \* flexBlocks, whose putBack takes the slice to keep
  None         \* no block, and the nil slice a flexible block begins with

Users == GetUsers \cup AutoUsers
Offsets == 1..blockNum

BlocksAssumption ==
  /\ blockNum \in Nat /\ Flex \in BOOLEAN
  /\ None \notin Users \cup Nat
  /\ GetUsers \cap AutoUsers = {}

VARIABLES
  free,       \* the channel
  buf,        \* [Offsets -> who filled the slice kept there]
  cleanups,   \* the offsets that a cleanup will return
  pc,         \* [Users -> place]
  offset,     \* [Users -> the block it uses]
  got,        \* [Users -> the slice that Get gave it]
  last        \* [Offsets -> the slice given to the last putBack]

vars == <<free, buf, cleanups, pc, offset, got, last>>

\* make(chan int, blockNum+1)
Cap == blockNum + 1

Init ==
  /\ free = [i \in Offsets |-> i]
  /\ buf = [o \in Offsets |-> None]
  /\ cleanups = {}
  /\ pc = [u \in Users |-> "idle"]
  /\ offset = [u \in Users |-> None]
  /\ got = [u \in Users |-> None]
  /\ last = [o \in Offsets |-> None]

\* <-t.free; with an empty channel Get and GetAuto change nothing and return
\* ErrOverflow.
Take(u) ==
  /\ pc[u] = "idle" /\ free # <<>>
  /\ free' = Tail(free)
  /\ offset' = [offset EXCEPT ![u] = Head(free)]
  /\ got' = [got EXCEPT ![u] = buf[Head(free)]]
  /\ pc' = [pc EXCEPT ![u] = "use"]
  /\ UNCHANGED <<buf, last>>

Get(u) == u \in GetUsers /\ Take(u) /\ UNCHANGED cleanups

\* runtime.AddCleanup(&b, ...)
GetAuto(u) ==
  /\ u \in AutoUsers
  /\ Take(u)
  /\ cleanups' = cleanups \cup {Head(free)}

\* Mutant: the slice is not kept.
PutBackForgotten(u) ==
  /\ u \in GetUsers /\ pc[u] = "use"
  /\ pc' = [pc EXCEPT ![u] = "send"]
  /\ last' = [last EXCEPT ![offset[u]] = u]
  /\ UNCHANGED <<free, buf, cleanups, offset, got>>

\* putBack: flexBlocks first keeps the slice it is given, t.buf[offset] = ts.
PutBack(u) ==
  /\ u \in GetUsers /\ pc[u] = "use"
  /\ pc' = [pc EXCEPT ![u] = "send"]
  /\ IF Flex
       THEN buf' = [buf EXCEPT ![offset[u]] = u] /\ last' = [last EXCEPT ![offset[u]] = u]
       ELSE UNCHANGED <<buf, last>>
  /\ UNCHANGED <<free, cleanups, offset, got>>

\* Mutant: the block is lost.
SendLost(u) ==
  /\ pc[u] = "send"
  /\ pc' = [pc EXCEPT ![u] = "idle"]
  /\ offset' = [offset EXCEPT ![u] = None]
  /\ UNCHANGED <<free, buf, cleanups, got, last>>

\* t.free <- offset
Send(u) ==
  /\ pc[u] = "send"
  /\ Len(free) < Cap
  /\ free' = Append(free, offset[u])
  /\ pc' = [pc EXCEPT ![u] = "idle"]
  /\ offset' = [offset EXCEPT ![u] = None]
  /\ UNCHANGED <<buf, cleanups, got, last>>

\* The caller of GetAuto has done something with the block.
AutoEnd(u) ==
  /\ u \in AutoUsers /\ pc[u] = "use"
  /\ pc' = [pc EXCEPT ![u] = "idle"]
  /\ offset' = [offset EXCEPT ![u] = None]
  /\ UNCHANGED <<free, buf, cleanups, got, last>>

\* The collector runs the cleanup.
Cleanup(o) ==
  /\ o \in cleanups
  /\ Len(free) < Cap
  /\ free' = Append(free, o)
  /\ cleanups' = cleanups \ {o}
  /\ UNCHANGED <<buf, pc, offset, got, last>>

Next ==
  \/ \E u \in Users : Get(u) \/ GetAuto(u) \/ PutBack(u) \/ Send(u) \/ AutoEnd(u)
  \/ \E o \in cleanups : Cleanup(o)

Spec == Init /\ [][Next]_vars

----------------------------------------------------------------------------
TypeOK ==
  /\ free \in Seq(Offsets) /\ Len(free) <= blockNum
  /\ buf \in [Offsets -> GetUsers \cup {None}]
  /\ cleanups \subseteq Offsets
  /\ pc \in [Users -> {"idle", "use", "send"}]
  /\ \A u \in Users : IF pc[u] = "idle" THEN offset[u] = None ELSE offset[u] \in Offsets

Has(u, o) == pc[u] # "idle" /\ offset[u] = o

\* No block is lost or doubled: each is once in the channel, or with a caller
\* of Get, or waiting for its cleanup.
Accounted ==
  \A o \in Offsets :
    Cardinality({i \in DOMAIN free : free[i] = o}) + Cardinality({u \in GetUsers : Has(u, o)})
      + Cardinality(cleanups \cap {o}) = 1

\* Get of flexBlocks gives what the last putBack of that block was given: a
\* block is not offered before its slice is kept.
LastPutSeen == \A u \in GetUsers : pc[u] = "use" => got[u] = last[offset[u]]
=============================================================================
