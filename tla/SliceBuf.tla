------------------------------ MODULE SliceBuf ------------------------------
(***************************************************************************)
(* slice/Slice.go: Buf.  arr is the array behind buf, its length is the    *)
(* capacity, len is the length of buf and size is bufsize: the content is  *)
(* the first size elements of the array.  want is the queue the calls are  *)
(* meant to keep.  Elements are numbered as they are written; 0 is the     *)
(* zero value.  Read is two steps, since it only takes the read lock, and  *)
(* ReadFrom, ReadMoreN and ReadN are one step for each turn of the loop.   *)
(***************************************************************************)
EXTENDS Integers, Sequences

CONSTANTS
  Readers,
  MaxSize,   \* maxsize, 0 for none
  MaxBufOps, \* bound: calls
  MaxPiece   \* bound: elements of one call

SliceBufAssumption == MaxSize \in Nat /\ MaxBufOps \in Nat /\ MaxPiece \in Nat

VARIABLES
  sbuf,   \* arr, len, size, isnil, and hit: an element was written over
  stamp,  \* modified.t
  want,
  got,    \* what readers and writers below were given, in order
  rd,     \* reader -> pc, and the elements it copied
  fill,   \* the loop of ReadFrom or ReadMoreN: kind, and what is left to read
  hist    \* ops, next (the next number), snap, torn, resized

vars == <<sbuf, stamp, want, got, rd, fill, hist>>

NilBuf == [arr |-> <<>>, len |-> 0, size |-> 0, isnil |-> TRUE, hit |-> FALSE]
NoFill == [kind |-> "none", left |-> 0]

Init ==
  /\ sbuf = NilBuf
  /\ stamp = 0
  /\ want = <<>>
  /\ got = <<>>
  /\ rd = [r \in Readers |-> [pc |-> "idle", data |-> <<>>]]
  /\ fill = NoFill
  /\ hist = [ops |-> 0, next |-> 1, snap |-> [t |-> 0, data |-> <<>>], torn |-> FALSE,
             resized |-> FALSE]

----------------------------------------------------------------------------
First(s, n) == SubSeq(s, 1, n)
From(s, n) == SubSeq(s, n + 1, Len(s))
Zeros(n) == [i \in 1..n |-> 0]
Fresh(n) == [i \in 1..n |-> hist.next + i - 1]
Content == First(sbuf.arr, sbuf.size)

\* append(b[:n], d...): in place while the capacity is enough, else a new array
\* of at least twice the capacity.
AppendTo(b, n, d) ==
  LET all == First(b.arr, n) \o d
      cap == IF Len(all) <= Len(b.arr) THEN Len(b.arr)
             ELSE IF Len(all) > 2 * Len(b.arr) THEN Len(all) ELSE 2 * Len(b.arr)
      old == IF cap = Len(b.arr) THEN From(b.arr, Len(all)) ELSE Zeros(cap - Len(all))
  IN  [b EXCEPT !.arr = all \o old, !.len = Len(all), !.isnil = FALSE]

\* resetSize: buf reaches up to size.
ResetSize(b) ==
  IF Len(b.arr) < b.size THEN AppendTo(b, Len(b.arr), Zeros(b.size - Len(b.arr)))
  ELSE IF b.len < b.size THEN [b EXCEPT !.len = b.size] ELSE b

\* No reader is between its two steps, and no buffer is being filled: the lock
\* of Write and of GetLock.
Locked == fill = NoFill /\ \A r \in Readers : rd[r].pc = "idle"
Call(n) ==
  /\ Locked /\ hist.ops < MaxBufOps
  /\ hist' = [hist EXCEPT !.ops = @ + 1, !.next = @ + n]
Touch == stamp' = stamp + 1

\* The first Append makes an array.
Made(n) == IF sbuf.isnil THEN [sbuf EXCEPT !.arr = Zeros(n), !.len = n] ELSE sbuf
OverMax(n) == ~sbuf.isnil /\ MaxSize # 0 /\ sbuf.size + n > MaxSize

Append_(n) ==
  /\ Call(n)
  /\ IF OverMax(n) THEN UNCHANGED <<sbuf, stamp, want>>
     ELSE /\ sbuf' = [AppendTo(Made(n), sbuf.size, Fresh(n)) EXCEPT !.size = sbuf.size + n]
          /\ want' = want \o Fresh(n)
          /\ Touch
  /\ UNCHANGED <<got, rd, fill>>

SetFrom(n) ==
  /\ Call(n)
  /\ IF OverMax(n) THEN UNCHANGED <<sbuf, stamp, want>>
     ELSE /\ sbuf' = [AppendTo(Made(n), 0, Fresh(n)) EXCEPT !.size = n]
          /\ want' = Fresh(n)
          /\ Touch
  /\ UNCHANGED <<got, rd, fill>>

\* copy(buf, buf[n:bufsize]): what is left moves to the start of the array.
Moved(b, n) ==
  LET moved == SubSeq(b.arr, n + 1, b.size)
  IN  [b EXCEPT !.arr = moved \o From(b.arr, Len(moved)), !.size = Len(moved)]

\* RemoveFront of n elements.
Shifted(b, n) ==
  IF b.size = n THEN [b EXCEPT !.size = 0] ELSE Moved(ResetSize(b), n)

RemoveFront(n) ==
  /\ Call(0)
  /\ IF sbuf.size < n THEN UNCHANGED <<sbuf, stamp, want>>
     ELSE sbuf' = Shifted(sbuf, n) /\ want' = From(want, n) /\ Touch
  /\ UNCHANGED <<got, rd, fill>>

RemoveBack(n) ==
  /\ Call(0)
  /\ IF sbuf.size < n THEN UNCHANGED <<sbuf, stamp, want>>
     ELSE sbuf' = [sbuf EXCEPT !.size = @ - n] /\ want' = First(want, Len(want) - n) /\ Touch
  /\ UNCHANGED <<got, rd, fill>>

Reset ==
  /\ Call(0)
  /\ sbuf' = [sbuf EXCEPT !.size = 0] /\ want' = <<>> /\ Touch
  /\ UNCHANGED <<got, rd, fill>>

Clear ==
  /\ Call(0)
  /\ sbuf' = [NilBuf EXCEPT !.hit = sbuf.hit] /\ want' = <<>> /\ Touch
  /\ UNCHANGED <<got, rd, fill>>

\* SetSize and AddSize: what the array holds there becomes content.
SetSize(n) ==
  /\ Locked /\ hist.ops < MaxBufOps
  /\ hist' = [hist EXCEPT !.ops = @ + 1, !.resized = TRUE]
  /\ sbuf' = ResetSize([sbuf EXCEPT !.size = n])
  /\ want' = First(sbuf'.arr, n)
  /\ Touch
  /\ UNCHANGED <<got, rd, fill>>

\* ExpandCapTo and ExpandCap.
ExpandCapTo(n) ==
  /\ Call(0)
  /\ sbuf' = IF Len(sbuf.arr) >= n THEN sbuf
             ELSE AppendTo(sbuf, Len(sbuf.arr), Zeros(n - Len(sbuf.arr)))
  /\ UNCHANGED <<stamp, want, got, rd, fill>>

----------------------------------------------------------------------------
\* Room for one more: append behind len, and buf up to the capacity.  When the
\* reads have gone beyond len, the zero is written over an element.
Grow(b) ==
  IF Len(b.arr) # b.size THEN b
  ELSE LET c == AppendTo(b, b.len, <<0>>)
       IN  [c EXCEPT !.len = Len(c.arr), !.hit = @ \/ b.len < b.size]

\* ReadFrom reads until the end, ReadMoreN and ReadN n elements.
FillBegin(kind, n) ==
  /\ Call(n)
  /\ fill' = [kind |-> kind, left |-> n]
  /\ UNCHANGED <<got, rd>>

ReadMoreN(n) == FillBegin("count", n) /\ UNCHANGED <<sbuf, stamp, want>>
Emptied == sbuf' = [sbuf EXCEPT !.size = 0] /\ want' = <<>> /\ Touch
ReadFrom(n) == FillBegin("toEnd", n) /\ Emptied
ReadN(n) == FillBegin("count", n) /\ Emptied

Piece(k) == [i \in 1..k |-> hist.next - fill.left + i - 1]
Filled(b, d) ==
  [b EXCEPT !.arr = First(@, b.size) \o d \o From(@, b.size + Len(d)), !.size = @ + Len(d)]

\* One turn of the loop, with a reader that gives k elements: as many as there is
\* room for, or fewer.  A read into no space gives none, and the next turn grows.
FillTurn(k) ==
  /\ fill.left > 0 /\ k <= fill.left
  /\ k <= Len(Grow(sbuf).arr) - sbuf.size
  /\ sbuf' = Filled(Grow(sbuf), Piece(k))
  /\ want' = want \o Piece(k)
  /\ fill' = [fill EXCEPT !.left = @ - k]
  /\ IF k = 0 THEN UNCHANGED stamp ELSE Touch
  /\ UNCHANGED <<got, rd, hist>>

\* ReadMoreN has what it was to read, or the reader is at its end or fails:
\* then the loop has made room once more.
FillEnd ==
  /\ fill # NoFill
  /\ sbuf' = IF fill.kind = "count" /\ fill.left = 0 THEN sbuf ELSE Grow(sbuf)
  /\ fill' = NoFill
  /\ UNCHANGED <<stamp, want, got, rd, hist>>

\* WriteTo a writer that takes all, none, or, with an error, some: then what was
\* written is dropped from the end, and the loop goes on with the rest.
WriteTo(n) ==
  /\ Locked /\ hist.ops < MaxBufOps /\ sbuf.size > 0 /\ n <= sbuf.size
  /\ hist' = [hist EXCEPT !.ops = @ + 1, !.torn = @ \/ (n > 0 /\ n < sbuf.size)]
  /\ IF n = 0 THEN UNCHANGED <<sbuf, stamp, want, got>>
     ELSE /\ got' = got \o First(Content, n)
          /\ sbuf' = [sbuf EXCEPT !.size = @ - n] /\ want' = From(want, n) /\ Touch
  /\ UNCHANGED <<rd, fill>>

----------------------------------------------------------------------------
\* Read and ReadCtx: under the read lock, the copy and then RemoveFront.
ReadCopy(r, n) ==
  /\ rd[r].pc = "idle" /\ fill = NoFill /\ hist.ops < MaxBufOps /\ sbuf.size > 0
  /\ rd' = [rd EXCEPT ![r] = [pc |-> "copied",
                              data |-> First(Content, IF n < sbuf.size THEN n ELSE sbuf.size)]]
  /\ hist' = [hist EXCEPT !.ops = @ + 1, !.torn = @ \/ ~Locked]
  /\ UNCHANGED <<sbuf, stamp, want, got, fill>>

\* Mutant: the content is given out and not removed.
ReadKeeps(r) ==
  /\ rd[r].pc = "copied"
  /\ got' = got \o rd[r].data
  /\ want' = From(want, Len(rd[r].data))
  /\ Touch
  /\ rd' = [rd EXCEPT ![r].pc = "idle"]
  /\ UNCHANGED <<sbuf, fill, hist>>

ReadRemove(r) ==
  LET n == Len(rd[r].data) IN
  /\ rd[r].pc = "copied"
  /\ got' = got \o rd[r].data
  /\ IF sbuf.size < n THEN UNCHANGED <<sbuf, stamp, want>>
     ELSE sbuf' = Shifted(sbuf, n) /\ want' = From(want, n) /\ Touch
  /\ rd' = [rd EXCEPT ![r].pc = "idle"]
  /\ UNCHANGED <<fill, hist>>

\* GetModified, with the content of that moment.
GetModified ==
  /\ Locked
  /\ hist' = [hist EXCEPT !.snap = [t |-> stamp, data |-> Content]]
  /\ UNCHANGED <<sbuf, stamp, want, got, rd, fill>>

Next ==
  \/ \E n \in 1..MaxPiece :
       \/ Append_(n) \/ SetFrom(n) \/ RemoveFront(n) \/ RemoveBack(n)
       \/ SetSize(n) \/ ExpandCapTo(n)
       \/ ReadFrom(n) \/ ReadMoreN(n) \/ ReadN(n)
       \/ \E r \in Readers : ReadCopy(r, n)
  \/ \E n \in 0..MaxPiece : WriteTo(n) \/ FillTurn(n)
  \/ FillEnd
  \/ Reset \/ Clear
  \/ \E r \in Readers : ReadRemove(r)
  \/ GetModified

Spec == Init /\ [][Next]_vars

----------------------------------------------------------------------------
\* The content is the queue the calls describe, through every reuse, growth and
\* shift of the array; and what was read or written out is in order and comes
\* once, while no SetSize brings old elements back.  This is so unless two Reads
\* overlap, a writer takes a part only, or a read fills an array that is longer
\* than the slice.  A Modified that HadModified calls unmodified stands for the
\* same content.
QueueExact ==
  ~hist.torn /\ ~sbuf.hit =>
    /\ Content = want
    /\ stamp = hist.snap.t => Content = hist.snap.data
    /\ ~hist.resized => \A i, j \in DOMAIN got : i < j => got[i] < got[j]
=============================================================================
