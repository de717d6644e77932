------------------------------- MODULE IoCopy -------------------------------
(***************************************************************************)
(* io/io.go and io/copyDealer.go: Copy, WriterWithConfig, ReadAll,         *)
(* ReadLine and CopyDealer.  The reader may return fewer bytes than asked, *)
(* in any pattern; the reader of Copy and CopyDealer may also return none, *)
(* or an error, and their writer may fail after a part.  The bytes of the  *)
(* reader are numbered, so that a byte lost, repeated or out of order      *)
(* shows; newline is at the places of Breaks, and a line is given by its   *)
(* first and last byte.  A step is one turn of the loop: a read, what is   *)
(* done with it, and the write.                                            *)
(***************************************************************************)
EXTENDS Integers, Sequences, SequencesExt

CONSTANTS
  Sizes,       \* how many bytes the reader has
  Breaks,      \* the bytes that are newlines
  CopyConfigs, \* records of bpl, maxLoop, maxByte, skip and seeker
  Chunk,       \* 1<<17, the largest buffer Copy makes
  BufLens      \* lengths of the buffers of ReadAll, ReadLine and CopyDealer

IoCopyAssumption ==
  /\ Sizes \subseteq Nat /\ BufLens \subseteq Nat
  /\ Chunk \in Nat \ {0}
  /\ CopyConfigs \subseteq [bpl : Nat, maxLoop : Nat, maxByte : Nat, skip : Nat,
                           seeker : BOOLEAN]

VARIABLES
  rest,   \* what the reader still has
  out,    \* what was written, returned, or yielded as lines
  job     \* the call: kind, the state of its loop, and its result

vars == <<rest, out, job>>

Bytes(n) == [i \in 1..n |-> i]
LowOf(a, b) == IF a < b THEN a ELSE b
Prefix(s, n) == SubSeq(s, 1, LowOf(n, Len(s)))
Tail1(s, n) == SubSeq(s, n + 1, Len(s))

\* leftN and MaxLoop of a limit of m bytes in loops of bpl.
Loops(m, bpl) == [left |-> m % bpl, loops |-> m \div bpl + IF m % bpl > 0 THEN 1 ELSE 0]

\* The normal form Copy gives its CopyConfig.
Normal(c) ==
  LET bpl == IF c.bpl = 0 THEN Chunk ELSE LowOf(c.bpl, Chunk)
      whole == c.maxLoop * IF c.bpl = 0 THEN Chunk ELSE c.bpl
      most == IF c.maxLoop = 0 THEN c.maxByte
             ELSE IF c.maxByte # 0 THEN LowOf(c.maxByte, whole)
             ELSE IF c.bpl = 0 THEN 0 ELSE whole
      l == Loops(most, bpl)
  IN  [bpl |-> bpl, left |-> IF most = 0 THEN 0 ELSE l.left,
       loops |-> IF most = 0 THEN c.maxLoop ELSE l.loops]

NoJob == [kind |-> "none"]
Init == \E n \in Sizes : rest = Bytes(n) /\ out = <<>> /\ job = NoJob

Finish(err) == job' = [job EXCEPT !.err = err]
Working(kind) == job.kind = kind /\ job.err = "none"
\* A read into a buffer of m bytes: some of them, or none at the end.
Reads(m) == IF rest = <<>> THEN {0} ELSE {n \in 1..Len(rest) : n <= m}
\* The writer fails after a part of s, or after all of it.
WriteFails(s, err) == \E k \in 0..Len(s) : out' = out \o Prefix(s, k) /\ Finish(err)

----------------------------------------------------------------------------
\* Copy: the configuration, and the seek of a reader that can.
CopyBegin(c) ==
  LET k == Normal(c) IN
  /\ job = NoJob
  /\ job' = [kind |-> "copy", c |-> c, size |-> Len(rest), loops |-> k.loops, left |-> k.left,
             buf |-> k.bpl, skip |-> IF c.seeker THEN 0 ELSE c.skip, err |-> "none"]
  /\ rest' = IF c.seeker THEN Tail1(rest, c.skip) ELSE rest
  /\ UNCHANGED out

\* Mutant: the buffer of the last loop is not cut to leftN.
NeverCut(j) == [j EXCEPT !.loops = @ - 1]

\* What is left of the loops after one.
LoopDone(j) ==
  [j EXCEPT !.loops = @ - 1, !.buf = IF j.loops = 2 /\ j.left # 0 THEN j.left ELSE @]

\* What a turn that did not return leaves: one loop less if they are counted.
AfterTurn(j) ==
  CASE j.loops = 0 -> j
    [] j.loops = 1 -> [j EXCEPT !.err = "ErrLoopMax"]
    [] OTHER -> LoopDone(j)

\* One turn of Copy: with bytes to skip, the whole buffer behind them is
\* written, whatever was read, and a read that is all skipped ends the copy.  A
\* read of nothing without an error is a turn as well.
CopyStep ==
  /\ Working("copy")
  /\ \E n \in Reads(job.buf) \cup {0} :
       LET data == IF job.skip = 0 THEN Prefix(rest, n)
                   ELSE Tail1(Prefix(rest, n) \o [i \in 1..(job.buf - n) |-> 0], job.skip)
       IN
       /\ rest' = Tail1(rest, n)
       /\ \/ n = 0 /\ rest = <<>> /\ Finish("nil") /\ UNCHANGED out
          \/ n = 0 /\ Finish("ErrCopyRead") /\ UNCHANGED out
          \/ n = 0 /\ job' = AfterTurn(job) /\ UNCHANGED out
          \/ n > 0 /\ job.skip > 0 /\ n <= job.skip /\ Finish("skipped") /\ UNCHANGED out
          \/ n > 0 /\ ~(job.skip > 0 /\ n <= job.skip)
             /\ \/ out' = out \o data /\ job' = AfterTurn([job EXCEPT !.skip = 0])
                \/ WriteFails(data, "ErrCopyWrite")

----------------------------------------------------------------------------
\* WriterWithConfig: the bytes come in several Writes, until one gives an error.
ConfigBegin(c) ==
  /\ job = NoJob
  /\ job' = [kind |-> "config", c |-> c, size |-> Len(rest), skip |-> c.skip, err |-> "none"]
  /\ UNCHANGED <<rest, out>>

\* One Write of n bytes.  With BytePerSec it goes in pieces, and MaxByte bounds
\* what one Write lets through; SkipByte is spent over all of them.
ConfigWrite ==
  /\ Working("config")
  /\ \E n \in 1..Len(rest) :
       LET kept == Tail1(Prefix(rest, n), job.skip)
           sent == IF job.c.maxByte = 0 THEN kept ELSE Prefix(kept, job.c.maxByte)
           e == IF job.c.maxByte > 0 /\ Len(sent) = job.c.maxByte THEN "ErrLoopMax" ELSE "none"
       IN
       /\ rest' = Tail1(rest, n)
       /\ \/ n <= job.skip /\ job' = [job EXCEPT !.skip = @ - n] /\ UNCHANGED out
          \/ n > job.skip /\ out' = out \o sent /\ job' = [job EXCEPT !.skip = 0, !.err = e]
          \/ n > job.skip /\ WriteFails(sent, "ErrWrite")

----------------------------------------------------------------------------
\* ReadAll: the buffer is filled from cuL, and grows once it is full.
ReadAllBegin(len) ==
  /\ job = NoJob
  /\ job' = [kind |-> "readall", size |-> Len(rest), cap |-> len, err |-> "none"]
  /\ UNCHANGED <<rest, out>>

ReadAllStep ==
  /\ Working("readall")
  /\ \E n \in Reads(job.cap - Len(out)) \cup IF job.cap = Len(out) THEN {0} ELSE {} :
       /\ rest' = Tail1(rest, n)
       /\ out' = out \o Prefix(rest, n)
       /\ \/ n = 0 /\ rest = <<>> /\ job.cap > Len(out) /\ Finish("nil")
          \/ /\ ~(n = 0 /\ rest = <<>> /\ job.cap > Len(out))
             /\ job' = [job EXCEPT !.cap = IF Len(out') = @ THEN 2 * @ + 1 ELSE @]

----------------------------------------------------------------------------
ReadLineBegin(len) ==
  /\ job = NoJob /\ len > 0
  /\ job' = [kind |-> "readline", size |-> Len(rest), cap |-> len, buf |-> <<>>, cu |-> 0,
             whole |-> TRUE, err |-> "none"]
  /\ UNCHANGED <<rest, out>>

\* Every read begins at the start of the buffer: what is left of the one before
\* is overwritten.  At the end the buffer, cut to the read, is empty.
ReadLineRead ==
  /\ Working("readline") /\ job.cu = 0
  /\ \E n \in Reads(job.cap) :
       /\ rest' = Tail1(rest, n)
       /\ IF n = 0 THEN Finish("nil") ELSE job' = [job EXCEPT !.buf = Prefix(rest, n), !.cu = 1]
  /\ UNCHANGED out

\* The line up to the next newline: what is behind it is moved to the start, and
\* of that the first byte is not looked at.
IsLine(i) ==
  /\ i \in job.cu..Len(job.buf) /\ job.buf[i] \in Breaks
  /\ \A k \in job.cu..(i - 1) : job.buf[k] \notin Breaks
ReadLineYield ==
  /\ Working("readline") /\ job.cu > 0
  /\ \/ \E i \in 1..Len(job.buf) :
          /\ IsLine(i)
          /\ out' = Append(out, [first |-> job.buf[1], last |-> job.buf[i] - 1])
          /\ job' = [job EXCEPT !.buf = Tail1(job.buf, i), !.cu = 2]
     \/ /\ \A i \in job.cu..Len(job.buf) : job.buf[i] \notin Breaks
        /\ job' = [job EXCEPT !.cu = 0, !.whole = @ /\ job.buf = <<>>]
        /\ UNCHANGED out
  /\ UNCHANGED rest

----------------------------------------------------------------------------
\* A buffer of less than three bytes has no room for a read.
CopyDealerBegin(len) ==
  /\ job = NoJob /\ len >= 3
  /\ job' = [kind |-> "dealer", size |-> Len(rest), len |-> len, si |-> len \div 3,
             left |-> <<>>, dealt |-> {}, err |-> "none"]
  /\ UNCHANGED <<rest, out>>

\* At the end of the reader what was left is written.  An io.EOF of the writer is
\* returned as nil.
DealerEnd ==
  \/ out' = out \o job.left /\ Finish("nil")
  \/ job.left # <<>> /\ (WriteFails(job.left, "ErrWrite") \/ WriteFails(job.left, "EOF"))

\* What was dealt is in the buffer: a third of the buffer is written, and what
\* the writer did not take is left, whether it gave an error or not.
DealerWrite(buf, dealt) ==
  \/ \E wn \in 1..LowOf(job.si, Len(buf)) :
       /\ out' = IF dealt = {} THEN out \o Prefix(buf, wn) ELSE out
       /\ job' = [job EXCEPT !.left = Tail1(buf, wn), !.dealt = dealt]
  \/ (Finish("ErrWrite") \/ Finish("EOF")) /\ UNCHANGED out

\* CopyDealer: the dealers see what was left and what was read, and what they
\* make of it replaces it in the buffer; or one of them stops.  job.dealt says
\* whether they ever changed the data, and whether they ever lengthened it: from
\* the first change on only the lengths are followed, and the bytes are zeros.
CopyDealerStep ==
  /\ Working("dealer")
  /\ \/ Len(job.left) > 2 * job.si /\ Finish("panic") /\ UNCHANGED <<rest, out>>
     \/ /\ Len(job.left) <= 2 * job.si
        /\ \E n \in Reads(2 * job.si - Len(job.left)) :
             LET buf == job.left \o Prefix(rest, n) IN
             /\ rest' = Tail1(rest, n)
             /\ \/ n = 0 /\ DealerEnd
                \/ n > 0 /\ Finish("ErrCopyDealerStop") /\ UNCHANGED out
                \/ n > 0 /\ Finish("ErrCopyDealerBufOF") /\ UNCHANGED out
                \/ n > 0 /\ job.dealt = {} /\ DealerWrite(buf, {})
                \* Nothing to write: what was left before is left again.
                \/ n > 0 /\ job' = [job EXCEPT !.dealt = @ \cup {"changed"}] /\ UNCHANGED out
                \/ /\ n > 0
                   /\ \E k \in 1..job.len :
                        DealerWrite([i \in 1..k |-> 0],
                          job.dealt \cup IF k > Len(buf) THEN {"changed", "longer"} ELSE {"changed"})
     \* A read of nothing: with an error, or without, when nothing changes unless
     \* the writer fails over nothing.
     \/ /\ Len(job.left) <= 2 * job.si
        /\ Finish("ErrRead") \/ Finish("ErrWrite") \/ Finish("EOF") \/ UNCHANGED job
        /\ UNCHANGED <<rest, out>>

Next ==
  \/ \E c \in CopyConfigs : CopyBegin(c) \/ ConfigBegin(c)
  \/ CopyStep
  \/ ConfigWrite
  \/ \E len \in BufLens : ReadAllBegin(len) \/ ReadLineBegin(len) \/ CopyDealerBegin(len)
  \/ ReadAllStep
  \/ ReadLineRead
  \/ ReadLineYield
  \/ CopyDealerStep

Spec == Init /\ [][Next]_vars

----------------------------------------------------------------------------
Skipped(c) == SubSeq(Bytes(job.size), c.skip + 1, job.size)

\* Whatever the pattern of the reads is, no byte is lost, repeated or moved: Copy
\* of a reader that can seek, or without bytes to skip, writes a prefix of what
\* follows them, all of it if it returns nil, and at most MaxByte bytes if one
\* loop holds no more than that; a writer with a configuration lets through what
\* follows the bytes to skip in what it was given, however that was cut, unless
\* it returns an error; ReadAll gives all the bytes, and the lines of ReadLine
\* follow each other while each read ends with a newline.  CopyDealer writes all
\* the bytes if it returns nil, its dealers change nothing and the writer never
\* fails with io.EOF; and as long as what they make of the data is not longer,
\* there is room for a read, so that it neither panics nor reads nothing for ever.
CopiedExact ==
  CASE job.kind = "copy" /\ (job.c.seeker \/ job.c.skip = 0) ->
         /\ IsPrefix(out, Skipped(job.c))
         /\ job.err = "nil" => out = Skipped(job.c)
         /\ job.c.maxByte >= Normal(job.c).bpl => Len(out) <= job.c.maxByte
    [] job.kind = "config" ->
         LET given == job.size - Len(rest) IN
         /\ IsPrefix(out, Skipped(job.c))
         /\ job.err = "none" =>
              Len(out) = IF given <= job.c.skip THEN 0 ELSE given - job.c.skip
    [] job.kind = "dealer" ->
         /\ job.dealt = {} => IsPrefix(out, Bytes(job.size))
         /\ job.dealt = {} /\ job.err = "nil" => out = Bytes(job.size)
         /\ "longer" \notin job.dealt => Len(job.left) < 2 * job.si /\ job.err # "panic"
    [] job.kind = "readall" -> out = Bytes(Len(out)) /\ (job.err = "nil" => Len(out) = job.size)
    [] job.kind = "readline" /\ job.whole ->
         /\ \A k \in DOMAIN out :
              /\ out[k].first = IF k = 1 THEN 1 ELSE out[k - 1].last + 2
              /\ out[k].last + 1 \in Breaks
         /\ job.size - Len(rest) - Len(job.buf)
              = IF out = <<>> THEN 0 ELSE out[Len(out)].last + 1
    [] OTHER -> TRUE

\* A Copy that has written as many bytes as MaxLoop loops of BytePerLoop hold has
\* done what it was asked for, and does not return an error (Test_CopyIO).
LimitIsNoError ==
  job.kind = "copy" /\ job.c.maxLoop > 0 /\ Len(out) = job.c.maxLoop * job.c.bpl
    => job.err # "ErrLoopMax"
=============================================================================
