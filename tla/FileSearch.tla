----------------------------- MODULE FileSearch -----------------------------
(***************************************************************************)
(* file/FileWR.go: the calls that read a file piece by piece, ReadUntilV2, *)
(* CopyToUntil, SeekUntil, ReadAll and ReadToBuf, one after the other.     *)
(* text is the content, bytes are numbers, pos is the cursor.  area is     *)
(* tmpArea: in front of a new piece of perReadSize bytes it holds the      *)
(* reserve, the last Len(sep) - 1 bytes of the piece before.  A search is  *)
(* one step for each piece.                                                *)
(***************************************************************************)
EXTENDS Integers, Sequences, SequencesExt, FiniteSetsExt

CONSTANTS
  Texts,    \* contents of the file
  Seps,     \* the values of untilBytes
  Pers,     \* the values of perReadSize
  Maxs,     \* the values of maxReadSize
  Bufs,     \* lengths and capacities of the buffers of ReadToBuf, <<len, cap>>
  MaxSearches  \* bound: calls

FileSearchAssumption ==
  /\ Texts \subseteq Seq(Nat) /\ Seps \subseteq Seq(Nat) \ {<<>>}
  /\ Pers \subseteq Nat \ {0} /\ Maxs \subseteq Int
  /\ Bufs \subseteq Nat \X Nat /\ MaxSearches \in Nat

VARIABLES
  text,
  pos,
  searches,  \* calls so far
  call       \* the call: op, for a search the state of its loop, data and err

vars == <<text, pos, searches, call>>

Init ==
  /\ text \in Texts
  /\ pos = 0
  /\ searches = 0
  /\ call = [op |-> "none", err |-> "nil"]

----------------------------------------------------------------------------
\* os.File.Read into c bytes, and bytes.Index, counted from 0.
ReadN(c) == IF c <= Len(text) - pos THEN c ELSE Len(text) - pos
Index(s, sep) ==
  LET at == {i \in 0..(Len(s) - Len(sep)) : SubSeq(s, i + 1, i + Len(sep)) = sep}
  IN  IF at = {} THEN -1 ELSE Min(at)

\* The seek that goes back by the reserve; it fails at the start of the file.
SeekBack(sep, p) == IF p >= Len(sep) - 1 THEN Len(sep) - 1 ELSE 0

Enter ==
  /\ call.err # "none" /\ searches < MaxSearches
  /\ searches' = searches + 1
  /\ UNCHANGED text

SearchBegin(op, sep, per, max, from) ==
  /\ Enter
  /\ pos' = from - SeekBack(sep, from)
  /\ call' = [op |-> op, sep |-> sep, per |-> per, from |-> from, left |-> max, first |-> TRUE,
              area |-> [i \in 1..(Len(sep) - 1 + per) |-> 0], data |-> <<>>, err |-> "none"]

ReadUntilV2(sep, per, max) == SearchBegin("until", sep, per, max, pos)
CopyToUntil(sep, per, max) == SearchBegin("copy", sep, per, max, pos)
SeekUntil(sep, whence, per, max) ==
  SearchBegin("seek", sep, per, max, IF whence = "AtOrigin" THEN 0 ELSE pos)

\* Mutant: the bytes the first piece reads again are not cut off.
AgainWhole == IF call.first THEN 0 ELSE Len(call.sep) - 1

\* How many bytes of area are from before: the first piece reads the reserve
\* again, the others move it to the front.
Again == IF call.first THEN SeekBack(call.sep, call.from) ELSE Len(call.sep) - 1
Held == IF call.first THEN 0 ELSE Len(call.sep) - 1

\* copy(tmpArea, tmpArea[reserve:])
Moved ==
  SubSeq(call.area, Held + 1, Len(call.area))
    \o SubSeq(call.area, Len(call.area) - Held + 1, Len(call.area))

\* How many bytes are read, area then, and where the separator is in it.
Got == ReadN(Len(call.area) - Held)
Area ==
  SubSeq(Moved, 1, Held) \o SubSeq(text, pos + 1, pos + Got)
    \o SubSeq(Moved, Held + Got + 1, Len(Moved))
At == Index(SubSeq(Area, 1, Held + Got), call.sep)

Finish(p, err) ==
  /\ pos' = p /\ call' = [call EXCEPT !.err = err]
  /\ UNCHANGED <<text, searches>>

\* area[Again:to] is added to the data.  CopyToUntil writes it to another file,
\* which may fail; a slice with its bounds the wrong way round panics.
Give(to, p, err) ==
  \/ /\ Again <= to
     /\ pos' = p
     /\ call' = [call EXCEPT !.data = @ \o SubSeq(Area, Again + 1, to), !.err = err,
                             !.first = FALSE, !.left = @ - Got, !.area = Area]
     /\ UNCHANGED <<text, searches>>
  \/ Again > to /\ Finish(p, "panic")
  \/ call.op = "copy" /\ Again < to /\ Finish(p, "write")

Reading == call.err = "none" /\ (call.first \/ call.left > 0)

PieceMissing ==
  /\ Reading /\ Got > 0 /\ At < 0
  /\ Give(IF call.op = "seek" THEN Again ELSE Got, pos + Got, "none")

\* The cursor goes behind the separator, for SeekUntil before it; a seek before
\* the start of the file fails, which the code ignores.
PieceFound ==
  LET at == pos - Held + At
      err == IF ~call.first /\ call.left - Got <= 0 THEN "max" ELSE "nil"
  IN
  /\ Reading /\ Got > 0 /\ At >= 0
  /\ IF call.op = "seek" THEN Give(Again, IF at < 0 THEN pos + Got ELSE at, err)
     ELSE Give(IF At = 0 THEN Again ELSE At, at + Len(call.sep), err)

PieceNone == Reading /\ Got = 0 /\ Finish(pos, "EOF")
LimitReached == call.err = "none" /\ ~Reading /\ Finish(pos, "max")

----------------------------------------------------------------------------
Done(op, data, p, err) ==
  /\ Enter
  /\ pos' = p
  /\ call' = [op |-> op, data |-> data, err |-> err]

\* The rest of the file; its size, not the rest, is compared with maxReadSize.
Rest == SubSeq(text, pos + 1, Len(text))
ReadAll(max) ==
  IF Len(text) > max THEN Done("all", <<>>, pos, "max")
  ELSE IF max <= Len(Rest) THEN Done("all", <<>>, Len(text), "max")
  ELSE Done("all", Rest, Len(text), "EOF")

\* append makes room by the missing capacity, but counts from the length: the
\* array grows only if the two are equal, or the growth goes beyond it.
Grown(len, cap) ==
  IF Len(text) > cap /\ len + Len(text) - cap > cap THEN Len(text) ELSE cap

ReadToBuf(max, len, cap) ==
  IF Len(text) > max THEN Done("buf", <<>>, pos, "max")
  ELSE IF Len(Rest) > Grown(len, cap) THEN Done("buf", <<>>, Len(text), "panic")
  ELSE IF max <= Len(Rest) THEN Done("buf", <<>>, Len(text), "max")
  ELSE Done("buf", Rest, Len(text), "EOF")

SeekIndex(p) == Done("index", <<>>, p, "nil")

Next ==
  \/ \E sep \in Seps, per \in Pers, max \in Maxs :
       \/ ReadUntilV2(sep, per, max)
       \/ CopyToUntil(sep, per, max)
       \/ \E whence \in {"AtOrigin", "AtCurrent"} : SeekUntil(sep, whence, per, max)
  \/ PieceMissing \/ PieceFound \/ PieceNone \/ LimitReached
  \/ \E max \in Maxs : ReadAll(max) \/ \E b \in Bufs : ReadToBuf(max, b[1], b[2])
  \/ \E p \in 0..Len(text) : SeekIndex(p)

Spec == Init /\ [][Next]_vars

----------------------------------------------------------------------------
(* What the doc of ReadUntilV2 says: the search goes on from the cursor,   *)
(* or from the reserve before it, to the first separator.                  *)
FirstSep(sep, from) ==
  LET start == from - SeekBack(sep, from)
      i == Index(SubSeq(text, start + 1, Len(text)), sep)
  IN  IF i < 0 THEN -1 ELSE start + i

\* The first read holds the first separator, or all that is left of the file.
InFirstRead(sep, per, from) ==
  LET i == FirstSep(sep, from)
      end == (from - SeekBack(sep, from)) + (Len(sep) - 1 + per)
  IN  IF i < 0 THEN Len(text) <= end ELSE i + Len(sep) <= end

\* The reserve is moved by its own length, not to the end of what was read: it
\* is what the next piece goes on from only if a piece is as long as it.  Then
\* the cursor is right; the data is right while no second piece has a reserve.
DataKept(sep, per, from) == Len(sep) = 1 \/ InFirstRead(sep, per, from)
PlaceKept(sep, per, from) == DataKept(sep, per, from) \/ per = Len(sep) - 1

\* A search ends at the first separator of the text, behind it, or before it for
\* SeekUntil, and reports the end of the file only if there is none, also when
\* the separator lies across two reads, if the pieces are as long as the reserve;
\* the data is the bytes before the separator, if it has one byte or lies in the
\* first read.  A separator that begins in the bytes read again may end in the
\* panic of a slice.  Other sizes of the pieces promise nothing: see UntilStops.
UntilExact ==
  call.op \in {"until", "copy", "seek"} /\ call.err # "none" =>
    LET i == FirstSep(call.sep, call.from)
        given == call.op # "seek"
        rest == SubSeq(text, call.from + 1, Len(text))
    IN  /\ PlaceKept(call.sep, call.per, call.from) =>
             /\ call.err = "nil" => i >= 0 /\ pos = IF given THEN i + Len(call.sep) ELSE i
             /\ call.err = "EOF" => i < 0 /\ pos = Len(text)
        /\ given /\ DataKept(call.sep, call.per, call.from) =>
             /\ call.err = "nil" => call.data = SubSeq(text, call.from + 1, i)
             /\ call.err = "EOF" => call.data = rest
             /\ call.err = "panic" => i \in 0..(call.from - 1)
             /\ call.err \in {"max", "write"} => IsPrefix(call.data, rest)

\* The doc of ReadUntilV2, for any separator and size of the pieces: it stops
\* behind the first untilBytes, and the data is what is before them.
UntilStops ==
  call.op = "until" /\ call.err = "nil" =>
    LET i == FirstSep(call.sep, call.from)
    IN  /\ i >= 0 /\ pos = i + Len(call.sep)
        /\ call.data = SubSeq(text, call.from + 1, i)
=============================================================================
