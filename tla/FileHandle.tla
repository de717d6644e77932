----------------------------- MODULE FileHandle -----------------------------
(***************************************************************************)
(* file/FileWR.go: the life of the handle of a File.  getRWCloser opens    *)
(* it before the lock is taken, AutoClose closes it after the lock is      *)
(* given back, and read, write and seek keep the handle they were made     *)
(* with unless AutoClose is set.  Every File f has a path of its own on    *)
(* the disk; a write puts one symbol, the writer's name.                   *)
(***************************************************************************)
EXTENDS Integers, Sequences, FiniteSets

CONSTANTS
  Files, Callers,
  Main,        \* the File of every call but CopyTo, which uses all
  OpsOf,       \* caller -> the calls it makes
  CurIndexes,  \* values of Config.CurIndex
  MaxFileOps   \* bound: calls; a behaviour ends with its first clash

VARIABLES
  config,  \* AutoClose and CurIndex, of every File
  disk,    \* f -> exist and data
  handles, \* the handles opened: f, off, open and linked
  fp,      \* f -> file, wr, rr and sr: a handle, 0 for nil
  flock,   \* f -> w, the writer or "none", and r, the readers
  call,    \* caller -> its call: pc, op, f, to, try and seen
  seen     \* what happened: calls, log, clash, moved and left

vars == <<config, disk, handles, fp, flock, call, seen>>

\* The lock each call takes on its own File; look is CurIndex and Create.
WriteLocked == {"write", "seekIndex", "delete"}
ReadLocked == {"read", "seek", "sync", "copyFrom", "copyOut", "copyTo"}
Unlocked == {"look", "name", "file", "big", "close"}
FileOps == WriteLocked \cup ReadLocked \cup Unlocked

FileHandleAssumption ==
  Main \in Files /\ OpsOf \in [Callers -> SUBSET FileOps] /\ CurIndexes \subseteq Int

NoCall == [pc |-> "idle", op |-> "look", f |-> Main, to |-> Main, try |-> TRUE, seen |-> FALSE]

Init ==
  /\ config \in [auto : BOOLEAN, cur : CurIndexes]
  /\ \E there \in BOOLEAN :
       disk = [f \in Files |-> IF there /\ f = Main THEN [exist |-> TRUE, data |-> <<"i">>]
                               ELSE [exist |-> FALSE, data |-> <<>>]]
  /\ handles = <<>>
  /\ fp = [f \in Files |-> [file |-> 0, wr |-> 0, rr |-> 0, sr |-> 0]]
  /\ flock = [f \in Files |-> [w |-> "none", r |-> {}]]
  /\ call = [u \in Callers |-> NoCall]
  /\ seen = [calls |-> 0, log |-> [f \in Files |-> disk[f].data], clash |-> FALSE,
             moved |-> FALSE, left |-> {}]

----------------------------------------------------------------------------
InCall(u) == call[u].pc # "idle"
Others(u) == {v \in Callers \ {u} : InCall(v)}
\* The File a step is about: CopyTo opens and locks to after f.
Of(u) == IF call[u].pc \in {"stat2", "open2", "lock2", "close2"} THEN call[u].to ELSE call[u].f

\* A handle is opened or closed while another call is under way.
Clash(u) == [seen EXCEPT !.clash = @ \/ Others(u) # {}]

Goto(u, p) == call' = [call EXCEPT ![u].pc = p]
Return(u) == call' = [call EXCEPT ![u] = NoCall]

Begin(u, op, f, to, try) ==
  /\ ~InCall(u) /\ seen.calls < MaxFileOps
  /\ seen' = [seen EXCEPT !.calls = @ + 1]
  /\ call' = [call EXCEPT ![u] =
       [pc |-> CASE op = "close" -> "close" [] op = "delete" -> "lock" [] OTHER -> "stat",
        op |-> op, f |-> f, to |-> to, try |-> try, seen |-> FALSE]]
  /\ UNCHANGED <<config, disk, handles, fp, flock>>

\* After getRWCloser.
Opened(u) ==
  CASE call[u].pc \in {"stat2", "open2"} -> "lock2"
    [] call[u].op = "look" -> "do"
    [] call[u].op = "name" -> "close"
    [] call[u].op \in {"file", "big"} -> "leave"
    [] OTHER -> "lock"

\* stat of the path: there, or ErrNotExist.
Stat(f) == disk[f].exist

\* getRWCloser, up to the stat of the path.
GetRWCloser(u) ==
  /\ call[u].pc \in {"stat", "stat2"}
  /\ IF config.auto \/ fp[Of(u)].file = 0
       THEN call' = [call EXCEPT ![u].pc = IF @ = "stat" THEN "open" ELSE "open2",
                                 ![u].seen = Stat(Of(u))]
       ELSE Goto(u, Opened(u))
  /\ UNCHANGED <<config, disk, handles, fp, flock, seen>>

\* Mutant: -1 is not moved on by one, and means the last byte.
StartAtLast(d) == IF config.cur < 0 THEN Len(d) + config.cur ELSE config.cur

\* Where the cursor of a file that was there begins: -1 is the end, -2 before it.
StartAt(d) == IF config.cur < 0 THEN Len(d) + config.cur + 1 ELSE config.cur

\* getRWCloser, the open: a file the stat did not see is created and truncated,
\* one that is gone since, or a cursor before its start, gives an error.
OpenFile(u) ==
  LET f == Of(u) IN
  /\ call[u].pc \in {"open", "open2"}
  /\ seen' = Clash(u)
  /\ \/ /\ ~call[u].seen
        /\ disk' = [disk EXCEPT ![f] = [exist |-> TRUE, data |-> <<>>]]
        /\ handles' = Append(handles, [f |-> f, off |-> 0, open |-> TRUE, linked |-> TRUE])
        /\ fp' = [fp EXCEPT ![f].file = Len(handles) + 1]
        /\ Goto(u, Opened(u))
     \/ /\ call[u].seen /\ disk[f].exist /\ StartAt(disk[f].data) >= 0
        /\ handles' = Append(handles, [f |-> f, off |-> StartAt(disk[f].data), open |-> TRUE, linked |-> TRUE])
        /\ fp' = [fp EXCEPT ![f].file = Len(handles) + 1]
        /\ Goto(u, Opened(u))
        /\ UNCHANGED disk
     \/ /\ call[u].seen /\ ~(disk[f].exist /\ StartAt(disk[f].data) >= 0)
        /\ IF call[u].pc = "open" THEN Return(u) ELSE Goto(u, "unlock")
        /\ UNCHANGED <<disk, handles, fp>>
  /\ UNCHANGED <<config, flock>>

\* TryRLock, TryLock or Lock; without the lock the call fails, or waits.
CanRead(f) == flock[f].w = "none"
CanWrite(f) == CanRead(f) /\ flock[f].r = {}
Locking(u) ==
  LET f == Of(u)
      reads == call[u].pc = "lock" /\ call[u].op \in ReadLocked
  IN
  /\ call[u].pc \in {"lock", "lock2"}
  /\ \/ /\ reads /\ CanRead(f)
        /\ flock' = [flock EXCEPT ![f].r = @ \cup {u}]
        /\ Goto(u, IF call[u].op = "copyTo" THEN "stat2" ELSE "do")
     \/ /\ ~reads /\ CanWrite(f)
        /\ flock' = [flock EXCEPT ![f].w = u]
        /\ Goto(u, "do")
     \/ /\ IF reads THEN ~CanRead(f) ELSE call[u].try /\ ~CanWrite(f)
        /\ CASE call[u].pc = "lock2" -> Goto(u, "close2")
             [] call[u].op = "delete" -> Return(u)
             [] OTHER -> Goto(u, "close")
        /\ UNCHANGED flock
  /\ UNCHANGED <<config, disk, handles, fp, seen>>

----------------------------------------------------------------------------
\* write, read and seek: the handle the call works with.
HandleFor(f, kept) == IF config.auto \/ kept = 0 THEN fp[f].file ELSE kept
Usable(h) == h # 0 /\ handles[h].open

\* os.File.Write at the cursor of h; a gap before it is filled with zeros.
WriteAt(d, off, s) ==
  [i \in 1..(IF off + Len(s) > Len(d) THEN off + Len(s) ELSE Len(d)) |->
     IF i > off /\ i <= off + Len(s) THEN s[i - off] ELSE IF i <= Len(d) THEN d[i] ELSE "0"]

\* A deleted file is written to, but no longer on the disk.
WriteTo(f, h, s) ==
  IF handles[h].linked
    THEN /\ disk' = [disk EXCEPT ![f].data = WriteAt(@, handles[h].off, s)]
         /\ seen' = [seen EXCEPT !.log[f] = @ \o s]
    ELSE UNCHANGED <<disk, seen>>

Rest(f, h) ==
  IF handles[h].linked THEN SubSeq(disk[f].data, handles[h].off + 1, Len(disk[f].data)) ELSE <<>>

Write(u) ==
  LET f == call[u].f
      h == HandleFor(f, fp[f].wr)
  IN
  /\ call[u].op \in {"write", "copyFrom"}
  /\ fp' = [fp EXCEPT ![f].wr = h]
  /\ IF Usable(h)
       THEN WriteTo(f, h, <<u>>) /\ handles' = [handles EXCEPT ![h].off = @ + 1]
       ELSE UNCHANGED <<disk, handles, seen>>

\* Read takes one symbol, CopyToIoWriter the rest.
Read(u) ==
  LET f == call[u].f
      h == HandleFor(f, fp[f].rr)
  IN
  /\ call[u].op \in {"read", "copyOut"}
  /\ fp' = [fp EXCEPT ![f].rr = h]
  /\ handles' = IF Usable(h) /\ Rest(f, h) # <<>>
                  THEN [handles EXCEPT ![h].off = IF call[u].op = "read" THEN @ + 1
                                                  ELSE Len(disk[f].data)]
                  ELSE handles
  /\ UNCHANGED <<disk, seen>>

\* Seek and SeekIndex to the origin; SeekIndex uses t.file.
Seek(u) ==
  LET f == call[u].f
      h == IF call[u].op = "seek" THEN HandleFor(f, fp[f].sr) ELSE fp[f].file
  IN
  /\ call[u].op \in {"seek", "seekIndex"}
  /\ fp' = IF call[u].op = "seek" THEN [fp EXCEPT ![f].sr = h] ELSE fp
  /\ handles' = IF Usable(h) THEN [handles EXCEPT ![h].off = 0] ELSE handles
  /\ seen' = [seen EXCEPT !.moved = TRUE]
  /\ UNCHANGED disk

\* Sync, CurIndex and Create change neither the file nor the handle.
Look(u) ==
  /\ call[u].op \in {"sync", "look"}
  /\ UNCHANGED <<disk, handles, fp, seen>>

\* Delete closes the handle and removes the file.
Delete(u) ==
  LET f == call[u].f IN
  /\ call[u].op = "delete"
  /\ handles' = [h \in DOMAIN handles |->
                   IF handles[h].f = f
                     THEN [f |-> f, off |-> handles[h].off, linked |-> FALSE,
                           open |-> handles[h].open /\ h # fp[f].file]
                     ELSE handles[h]]
  /\ fp' = [fp EXCEPT ![f].file = 0]
  /\ disk' = [disk EXCEPT ![f] = [exist |-> FALSE, data |-> <<>>]]
  /\ seen' = [Clash(u) EXCEPT !.log[f] = <<>>]

\* CopyTo: what is left of f is written to the other File.
CopyTo(u) ==
  LET f == call[u].f
      g == call[u].to
      r == HandleFor(f, fp[f].rr)
      w == HandleFor(g, fp[g].wr)
  IN
  /\ call[u].op = "copyTo"
  /\ fp' = [fp EXCEPT ![f].rr = r, ![g].wr = w]
  /\ IF Usable(r) /\ Usable(w) /\ Rest(f, r) # <<>>
       THEN /\ WriteTo(g, w, Rest(f, r))
            /\ handles' = [handles EXCEPT ![r].off = Len(disk[f].data),
                                          ![w].off = @ + Len(Rest(f, r))]
       ELSE UNCHANGED <<disk, handles, seen>>

\* The work of the call, and the deferred unlock of the File locked last.
Do(u) ==
  /\ call[u].pc = "do"
  /\ \/ Write(u)
     \/ Read(u)
     \/ Seek(u)
     \/ Look(u)
     \/ Delete(u)
     \/ CopyTo(u)
  /\ LET f == IF call[u].op = "copyTo" THEN call[u].to ELSE call[u].f IN
       flock' = [flock EXCEPT ![f] = [w |-> IF @.w = u THEN "none" ELSE @.w, r |-> @.r \ {u}]]
  /\ CASE call[u].op = "delete" -> Return(u)
       [] call[u].op = "copyTo" -> Goto(u, "close2")
       [] OTHER -> Goto(u, "close")
  /\ UNCHANGED config

Unlock(u) ==
  /\ call[u].pc = "unlock"
  /\ flock' = [flock EXCEPT ![call[u].f].r = @ \ {u}]
  /\ Goto(u, "close")
  /\ UNCHANGED <<config, disk, handles, fp, seen>>

\* The deferred Close, which closes whatever t.file is by then: always in CopyTo
\* and Name, else with AutoClose only.
Close(u) ==
  LET f == Of(u)
      h == fp[f].file
      closes == (config.auto \/ call[u].op \in {"copyTo", "name", "close"}) /\ h # 0
  IN
  /\ call[u].pc \in {"close", "close2"}
  /\ handles' = IF closes THEN [handles EXCEPT ![h].open = FALSE] ELSE handles
  /\ fp' = IF closes THEN [fp EXCEPT ![f].file = 0] ELSE fp
  /\ seen' = IF closes THEN Clash(u) ELSE seen
  /\ IF call[u].pc = "close2" THEN Goto(u, "unlock") ELSE Return(u)
  /\ UNCHANGED <<config, disk, flock>>

\* File, and ReadAll and ReadToBuf of a file that is too large, leave it open.
Leave(u) ==
  /\ call[u].pc = "leave"
  /\ seen' = [seen EXCEPT !.left = @ \cup {fp[call[u].f].file}]
  /\ Return(u)
  /\ UNCHANGED <<config, disk, handles, fp, flock>>

Next ==
  ~seen.clash /\ \E u \in Callers :
    \/ \E op \in OpsOf[u], f, g \in Files, try \in BOOLEAN :
         /\ IF op = "copyTo" THEN f # g ELSE f = Main /\ g = Main
         /\ op \in {"write", "copyTo"} \/ try
         /\ Begin(u, op, f, g, try)
    \/ GetRWCloser(u)
    \/ OpenFile(u)
    \/ Locking(u)
    \/ Do(u)
    \/ Unlock(u)
    \/ Close(u)
    \/ Leave(u)

Spec == Init /\ [][Next]_vars

----------------------------------------------------------------------------
OpenHandles == {h \in DOMAIN handles : handles[h].open}

\* Callers that neither open nor close a File while another call is under way
\* (with AutoClose: that do not overlap) lose nothing: a File that begins at its
\* end holds exactly the writes that succeeded, in their order, however it was
\* closed, deleted and opened again in between, and a handle that is open is the
\* one of its File, unless a call left it open on purpose.
SoloFile ==
  ~seen.clash =>
    /\ config.cur = -1 /\ ~seen.moved =>
         \A f \in Files : disk[f].data = seen.log[f]
    /\ OpenHandles \subseteq {fp[f].file : f \in Files} \cup seen.left
=============================================================================
