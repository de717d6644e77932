---------------------------- MODULE Sync_proofs ----------------------------
(***************************************************************************)
(* The properties of the stores of MCSync, each for the unit a behaviour   *)
(* is about.  Stores_proofs has the proofs for one store of each kind, and *)
(* is taken three times here, since MCSync has three maps, two kinds of    *)
(* blocks and two users of MapExceeded.  The handle of a File and the ids  *)
(* of TmplKV are proved here.                                              *)
(***************************************************************************)
EXTENDS MCSync, FiniteSetTheorems, SequenceTheorems, TLAPS

----------------------------------------------------------------------------
(* The handle of a File.                                                     *)

FilePcs == {"idle", "stat", "open", "lock", "stat2", "open2", "lock2", "do", "unlock",
            "close", "close2", "leave"}
FileCall == [pc : FilePcs, op : Handle!FileOps, f : Files, to : Files, try : BOOLEAN, seen : BOOLEAN]
FileHandles == [f : Files, off : Nat, open : BOOLEAN, linked : BOOLEAN]
FileData == Seq(FileUsers \cup {"i", "0"})

FileDisk == [exist : BOOLEAN, data : FileData]
FileSeen == [calls : Nat, log : [Files -> FileData], clash : BOOLEAN, moved : BOOLEAN,
             left : SUBSET Nat]
FilePtrs == [file : Nat, wr : Nat, rr : Nat, sr : Nat]

FileTypes ==
  /\ config \in [auto : BOOLEAN, cur : CurIndexes]
  /\ disk \in [Files -> FileDisk]
  /\ handles \in Seq(FileHandles)
  /\ fp \in [Files -> FilePtrs]
  /\ call \in [FileUsers -> FileCall]
  /\ hseen \in FileSeen

\* What the place of a call says of its operation.
CallFits(c) ==
  /\ c.pc # "idle" /\ c.op = "copyTo" => c.to # c.f
  /\ c.pc \in {"stat2", "open2", "lock2", "close2", "unlock"} => c.op = "copyTo"
  /\ c.pc \in {"stat", "open"} => c.op \notin {"delete", "close"}
  /\ c.pc = "leave" => c.op # "copyTo"
FileCalls == \A u \in FileUsers : CallFits(call[u])

\* A call about to open a File saw whether it is there, and that it has no handle to reuse.
OpensTo(c) == IF c.pc = "open2" THEN c.to ELSE c.f
FileOpens ==
  \A u \in FileUsers : call[u].pc \in {"open", "open2"} =>
    /\ call[u].seen <=> disk[OpensTo(call[u])].exist
    /\ config.auto \/ fp[OpensTo(call[u])].file = 0

\* A pointer of a File is to a handle of its own; that of the File is open.
FilePointers ==
  \A f \in Files :
    /\ \A h \in {fp[f].file, fp[f].wr, fp[f].rr, fp[f].sr} :
         h # 0 => h \in 1..Len(handles) /\ handles[h].f = f
    /\ fp[f].file # 0 => handles[fp[f].file].open

\* A handle that is open is that of its File, or another that was left open; without
\* AutoClose there is no other.
FileOpened ==
  \A h \in 1..Len(handles) : handles[h].open =>
    h = fp[handles[h].f].file \/ (config.auto /\ h \in hseen.left)

\* With AutoClose a handle is that of the call which opened it, or was left open.
HoldsFile(c, f) ==
  \/ c.f = f /\ c.pc \notin {"idle", "stat", "open"} /\ c.op \notin {"delete", "close"}
  \/ c.to = f /\ c.op = "copyTo" /\ c.pc \in {"lock2", "do", "close2"}
FileHeld ==
  config.auto => \A f \in Files :
    fp[f].file \in {0} \cup hseen.left \/ \E u \in FileUsers : HoldsFile(call[u], f)

\* A file that is gone is empty, and no handle is linked to it.
FileLinked ==
  /\ \A h \in 1..Len(handles) : handles[h].linked => disk[handles[h].f].exist
  /\ \A f \in Files : ~disk[f].exist => disk[f].data = <<>>

\* The handle of a File that begins at its end stays there.
FileAtEnd ==
  config.cur = -1 /\ ~hseen.moved =>
    \A f \in Files :
      /\ disk[f].data = hseen.log[f]
      /\ fp[f].file # 0 /\ handles[fp[f].file].linked =>
           handles[fp[f].file].off = Len(disk[f].data)

FileGood ==
  FileTypes /\ FileCalls /\ FileOpens /\ FilePointers /\ FileOpened /\ FileHeld /\ FileLinked /\ FileAtEnd

FileInv == ~hseen.clash => FileGood

\* A call that moves on keeps the rest.
LEMMA FileGoto ==
  ASSUME call \in [FileUsers -> FileCall], NEW u \in FileUsers, NEW p \in FilePcs, Handle!Goto(u, p)
  PROVE  /\ call' \in [FileUsers -> FileCall]
         /\ call'[u].pc = p /\ call'[u].op = call[u].op /\ call'[u].f = call[u].f
         /\ call'[u].to = call[u].to /\ call'[u].seen = call[u].seen
         /\ \A v \in FileUsers : v # u => call'[v] = call[v]
<1> DEFINE c == call[u]
           d == [c EXCEPT !.pc = p]
<1>1. call' = [call EXCEPT ![u] = d]
  BY DEF Handle!Goto
<1>2. c \in FileCall
  OBVIOUS
<1> HIDE DEF c
<1>3. d \in FileCall
  BY <1>2, Zenon DEF FileCall
<1>4. d.pc = p /\ d.op = c.op /\ d.f = c.f /\ d.to = c.to /\ d.seen = c.seen
  BY <1>2 DEF FileCall
<1> HIDE DEF d
<1>5. call' \in [FileUsers -> FileCall] /\ call'[u] = d /\ \A v \in FileUsers : v # u => call'[v] = call[v]
  BY <1>1, <1>3
<1> QED
  BY <1>4, <1>5 DEF c

\* A call that returns leaves nothing.
LEMMA FileReturn ==
  ASSUME call \in [FileUsers -> FileCall], NEW u \in FileUsers, Handle!Return(u)
  PROVE  /\ call' \in [FileUsers -> FileCall]
         /\ call'[u].pc = "idle"
         /\ \A v \in FileUsers : v # u => call'[v] = call[v]
<1>1. Main \in Files
  BY SyncAssumptions DEF Handle!FileHandleAssumption
<1>2. "look" \in Handle!FileOps
  BY DEF Handle!FileOps, Handle!Unlocked
<1>3. Handle!NoCall \in FileCall /\ Handle!NoCall.pc = "idle"
  BY <1>1, <1>2 DEF Handle!NoCall, FileCall, FilePcs
<1> QED
  BY <1>3 DEF Handle!Return

\* A handle that opens or closes while another call is under way is a clash.
LEMMA FileClash ==
  ASSUME hseen \in FileSeen, NEW u \in FileUsers, NEW t, t = Handle!Clash(u)
  PROVE  /\ t \in FileSeen
         /\ t.log = hseen.log /\ t.moved = hseen.moved /\ t.left = hseen.left
         /\ ~t.clash => \A v \in FileUsers : v # u => call[v].pc = "idle"
<1>1. PICK b \in BOOLEAN : /\ b <=> hseen.clash \/ Handle!Others(u) # {}
                           /\ t = [hseen EXCEPT !.clash = b]
  <2>1. PICK b \in BOOLEAN : b <=> hseen.clash \/ Handle!Others(u) # {}
    OBVIOUS
  <2>2. hseen.clash \in BOOLEAN
    BY Zenon DEF FileSeen
  <2>3. b = (hseen.clash \/ Handle!Others(u) # {})
    BY <2>1, <2>2
  <2> QED
    BY <2>1, <2>3 DEF Handle!Clash, FileSeen
<1>2. t \in FileSeen
  BY <1>1, Zenon DEF FileSeen
<1>3. t.log = hseen.log /\ t.moved = hseen.moved /\ t.left = hseen.left
  BY <1>1, Zenon DEF FileSeen
<1>4. t.clash = b
  BY <1>1, Zenon DEF FileSeen
<1>5. b = FALSE => Handle!Others(u) = {}
  BY <1>1
<1>6. Handle!Others(u) = {} => \A v \in FileUsers : v # u => call[v].pc = "idle"
  BY DEF Handle!Others, Handle!InCall
<1> QED
  BY <1>2, <1>3, <1>4, <1>5, <1>6

\* What a handle that moves keeps.
MovesTo(s, t, h, n) ==
  /\ t \in Seq(FileHandles) /\ Len(t) = Len(s)
  /\ \A k \in 1..Len(s) :
       /\ t[k].f = s[k].f /\ t[k].open = s[k].open /\ t[k].linked = s[k].linked
       /\ t[k].off = IF k = h THEN n ELSE s[k].off

\* A cursor that is set moves a handle and leaves the others.
LEMMA FileMoves ==
  ASSUME NEW s \in Seq(FileHandles), NEW t, NEW h \in 1..Len(s), NEW n \in Nat,
         t = [s EXCEPT ![h].off = n]
  PROVE  MovesTo(s, t, h, n)
<1> DEFINE a == s[h]
           b == [a EXCEPT !.off = n]
<1>1. a \in FileHandles /\ t = [s EXCEPT ![h] = b]
  OBVIOUS
<1>2. Len(s) \in Nat /\ \A k \in 1..Len(s) : s[k] \in FileHandles
  OBVIOUS
<1> HIDE DEF a
<1>3. b \in FileHandles
  BY <1>1, Zenon DEF FileHandles
<1>4. b.f = a.f /\ b.open = a.open /\ b.linked = a.linked /\ b.off = n
  BY <1>1 DEF FileHandles
<1> HIDE DEF b
<1>5. t \in Seq(FileHandles) /\ Len(t) = Len(s) /\ \A k \in 1..Len(s) : t[k] = IF k = h THEN b ELSE s[k]
  BY <1>1, <1>3
<1> QED
  BY <1>4, <1>5 DEF MovesTo, a

\* A step in which the handles keep their files and stay open or closed, and a File
\* keeps its handle.
Stands ==
  /\ UNCHANGED config
  /\ handles' \in Seq(FileHandles) /\ Len(handles') = Len(handles)
  /\ \A h \in 1..Len(handles) :
       /\ handles'[h].f = handles[h].f /\ handles'[h].open = handles[h].open
       /\ handles'[h].linked = handles[h].linked
  /\ disk' \in [Files -> FileDisk] /\ \A f \in Files : disk'[f].exist = disk[f].exist
  /\ fp' \in [Files -> FilePtrs]
  /\ \A f \in Files :
       /\ fp'[f].file = fp[f].file
       /\ {fp'[f].wr, fp'[f].rr, fp'[f].sr} \subseteq {fp[f].file, fp[f].wr, fp[f].rr, fp[f].sr}
  /\ hseen' \in FileSeen /\ hseen.left \subseteq hseen'.left

\* A step of one call that gives back no handle it does not close.
CallGoes(u) ==
  /\ call' \in [FileUsers -> FileCall]
  /\ \A v \in FileUsers : v # u => call'[v] = call[v]
  /\ CallFits(call'[u])
  /\ call'[u].pc \in {"open", "open2"} =>
       /\ call'[u].seen <=> disk[OpensTo(call'[u])].exist
       /\ config.auto \/ fp[OpensTo(call'[u])].file = 0
  /\ \A f \in Files : HoldsFile(call[u], f) =>
       HoldsFile(call'[u], f) \/ ~config.auto \/ fp[f].file \in {0} \cup hseen'.left

\* Every handle is of a File.
LEMMA FileHandle ==
  ASSUME FileTypes, NEW h \in 1..Len(handles)
  PROVE  handles[h] \in FileHandles /\ handles[h].f \in Files /\ handles[h].off \in Nat
<1>1. handles[h] \in FileHandles
  BY DEF FileTypes
<1> QED
  BY <1>1 DEF FileHandles

\* What such a step keeps.
LEMMA FileStands ==
  ASSUME FileGood, NEW u \in FileUsers, Stands, CallGoes(u)
  PROVE  /\ FileTypes' /\ FileCalls' /\ FileOpens' /\ FilePointers' /\ FileOpened' /\ FileHeld'
         /\ \A h \in 1..Len(handles') : handles'[h].linked => disk'[handles'[h].f].exist
<1>1. FileTypes'
  BY DEF FileGood, FileTypes, Stands, CallGoes
<1>2. FileCalls'
  BY DEF FileGood, FileCalls, CallGoes
<1>3. \A c \in FileCall : OpensTo(c) \in Files
  BY DEF OpensTo, FileCall
<1>4. FileOpens'
  <2> SUFFICES ASSUME NEW v \in FileUsers, call'[v].pc \in {"open", "open2"}
               PROVE  /\ call'[v].seen <=> disk'[OpensTo(call'[v])].exist
                      /\ config.auto \/ fp'[OpensTo(call'[v])].file = 0
    BY DEF FileOpens, Stands
  <2>1. call'[v] \in FileCall
    BY DEF CallGoes
  <2>2. OpensTo(call'[v]) \in Files
    BY <1>3, <2>1
  <2>3. /\ disk'[OpensTo(call'[v])].exist = disk[OpensTo(call'[v])].exist
        /\ fp'[OpensTo(call'[v])].file = fp[OpensTo(call'[v])].file
    BY <2>2 DEF Stands
  <2>4. /\ call'[v].seen <=> disk[OpensTo(call'[v])].exist
        /\ config.auto \/ fp[OpensTo(call'[v])].file = 0
    BY DEF FileGood, FileOpens, CallGoes
  <2> QED
    BY <2>3, <2>4
<1>5. FilePointers'
  <2> SUFFICES ASSUME NEW f \in Files
               PROVE  /\ \A h \in {fp'[f].file, fp'[f].wr, fp'[f].rr, fp'[f].sr} :
                           h # 0 => h \in 1..Len(handles') /\ handles'[h].f = f
                      /\ fp'[f].file # 0 => handles'[fp'[f].file].open
    BY DEF FilePointers
  <2>1. /\ \A h \in {fp[f].file, fp[f].wr, fp[f].rr, fp[f].sr} :
             h # 0 => h \in 1..Len(handles) /\ handles[h].f = f
        /\ fp[f].file # 0 => handles[fp[f].file].open
    BY DEF FileGood, FilePointers
  <2>2. /\ fp'[f].file = fp[f].file
        /\ {fp'[f].wr, fp'[f].rr, fp'[f].sr} \subseteq {fp[f].file, fp[f].wr, fp[f].rr, fp[f].sr}
    BY DEF Stands
  <2>3. Len(handles') = Len(handles) /\ \A h \in 1..Len(handles) :
          handles'[h].f = handles[h].f /\ handles'[h].open = handles[h].open
    BY DEF Stands
  <2>4. ASSUME NEW h \in {fp'[f].file, fp'[f].wr, fp'[f].rr, fp'[f].sr}, h # 0
        PROVE  h \in 1..Len(handles') /\ handles'[h].f = f
    <3>1. h \in {fp[f].file, fp[f].wr, fp[f].rr, fp[f].sr}
      BY <2>2, <2>4
    <3>2. h \in 1..Len(handles) /\ handles[h].f = f
      BY <2>1, <2>4, <3>1
    <3> QED
      BY <2>3, <3>2
  <2>5. ASSUME fp'[f].file # 0
        PROVE  handles'[fp'[f].file].open
    <3>1. fp[f].file \in 1..Len(handles) /\ handles[fp[f].file].open
      BY <2>1, <2>2, <2>5
    <3> QED
      BY <2>2, <2>3, <3>1
  <2> QED
    BY <2>4, <2>5
<1>6. FileOpened'
  <2> SUFFICES ASSUME NEW h \in 1..Len(handles), handles'[h].open
               PROVE  h = fp'[handles'[h].f].file \/ (config.auto /\ h \in hseen'.left)
    BY DEF FileOpened, Stands
  <2>1. h = fp[handles[h].f].file \/ (config.auto /\ h \in hseen.left)
    BY DEF FileGood, FileOpened, Stands
  <2>2. handles[h].f \in Files
    BY FileHandle DEF FileGood
  <2>3. handles'[h].f = handles[h].f /\ hseen.left \subseteq hseen'.left
    BY DEF Stands
  <2>4. fp'[handles[h].f].file = fp[handles[h].f].file
    BY <2>2 DEF Stands
  <2> QED
    BY <2>1, <2>3, <2>4
<1>7. FileHeld'
  <2> SUFFICES ASSUME config.auto, NEW f \in Files
               PROVE  fp'[f].file \in {0} \cup hseen'.left \/ \E v \in FileUsers : HoldsFile(call'[v], f)
    BY DEF FileHeld, Stands
  <2>1. fp'[f].file = fp[f].file /\ hseen.left \subseteq hseen'.left
    BY DEF Stands
  <2>2. fp[f].file \in {0} \cup hseen.left \/ \E v \in FileUsers : HoldsFile(call[v], f)
    BY DEF FileGood, FileHeld
  <2>3. CASE fp[f].file \in {0} \cup hseen.left
    BY <2>1, <2>3
  <2>4. CASE \E v \in FileUsers : HoldsFile(call[v], f)
    <3>1. PICK v \in FileUsers : HoldsFile(call[v], f)
      BY <2>4
    <3>2. CASE v = u
      BY <2>1, <3>1, <3>2 DEF CallGoes
    <3>3. CASE v # u
      BY <3>1, <3>3 DEF CallGoes
    <3> QED
      BY <3>2, <3>3
  <2> QED
    BY <2>2, <2>3, <2>4
<1>8. ASSUME NEW h \in 1..Len(handles'), handles'[h].linked
      PROVE  disk'[handles'[h].f].exist
  <2>1. h \in 1..Len(handles) /\ handles[h].linked /\ handles'[h].f = handles[h].f
    BY <1>8 DEF Stands
  <2>2. handles[h].f \in Files /\ disk[handles[h].f].exist
    BY <2>1, FileHandle DEF FileGood, FileLinked
  <2>3. disk'[handles[h].f].exist = disk[handles[h].f].exist
    BY <2>2 DEF Stands
  <2> QED
    BY <2>1, <2>2, <2>3
<1> QED
  BY <1>1, <1>2, <1>4, <1>5, <1>6, <1>7, <1>8

\* A step of one call that leaves the disk, the handles and the Files alone.
LEMMA FileQuiet ==
  ASSUME FileGood, NEW u \in FileUsers, CallGoes(u), UNCHANGED <<config, disk, handles, fp>>,
         hseen' \in FileSeen, hseen'.log = hseen.log, hseen'.moved = hseen.moved,
         hseen.left \subseteq hseen'.left
  PROVE  FileGood'
<1>1. Stands
  BY DEF FileGood, FileTypes, Stands
<1>2. FileLinked'
  BY DEF FileGood, FileLinked
<1>3. FileAtEnd'
  BY DEF FileGood, FileAtEnd
<1> QED
  BY <1>1, <1>2, <1>3, FileStands DEF FileGood

\* At the start there is one file at most.
LEMMA FileInit == Handle!Init => FileInv
<1> SUFFICES ASSUME Handle!Init
             PROVE  FileGood
  BY DEF FileInv
<1>1. /\ config \in [auto : BOOLEAN, cur : CurIndexes] /\ handles = <<>>
      /\ fp = [f \in Files |-> [file |-> 0, wr |-> 0, rr |-> 0, sr |-> 0]]
      /\ call = [u \in FileUsers |-> Handle!NoCall]
      /\ hseen = [calls |-> 0, log |-> [f \in Files |-> disk[f].data], clash |-> FALSE,
                  moved |-> FALSE, left |-> {}]
  BY DEF Handle!Init
<1>2. /\ disk \in [Files -> FileDisk]
      /\ \A f \in Files : ~disk[f].exist => disk[f].data = <<>>
  <2>1. /\ [exist |-> TRUE, data |-> <<"i">>] \in FileDisk
        /\ [exist |-> FALSE, data |-> <<>>] \in FileDisk
    BY DEF FileDisk, FileData
  <2>2. PICK there \in BOOLEAN :
          disk = [f \in Files |-> IF there /\ f = Main THEN [exist |-> TRUE, data |-> <<"i">>]
                                  ELSE [exist |-> FALSE, data |-> <<>>]]
    BY DEF Handle!Init
  <2>3. \A f \in Files : \/ disk[f] = [exist |-> TRUE, data |-> <<"i">>]
                         \/ disk[f] = [exist |-> FALSE, data |-> <<>>]
    BY <2>2
  <2>4. \A f \in Files : disk[f] \in FileDisk
    BY <2>1, <2>3
  <2> QED
    BY <2>2, <2>3, <2>4
<1>3. \A u \in FileUsers : call[u] \in FileCall /\ call[u].pc = "idle"
  <2>1. Main \in Files
    BY SyncAssumptions DEF Handle!FileHandleAssumption
  <2>2. "look" \in Handle!FileOps
    BY DEF Handle!FileOps, Handle!Unlocked
  <2>3. Handle!NoCall \in FileCall /\ Handle!NoCall.pc = "idle"
    BY <2>1, <2>2 DEF Handle!NoCall, FileCall, FilePcs
  <2> QED
    BY <1>1, <2>3
<1>4. hseen \in FileSeen /\ hseen.log = [f \in Files |-> disk[f].data]
  <2>1. [f \in Files |-> disk[f].data] \in [Files -> FileData]
    BY <1>2 DEF FileDisk
  <2> QED
    BY <1>1, <2>1 DEF FileSeen
<1>5. fp \in [Files -> FilePtrs] /\ \A f \in Files : fp[f].file = 0 /\ fp[f].wr = 0 /\ fp[f].rr = 0 /\ fp[f].sr = 0
  BY <1>1 DEF FilePtrs
<1>6. handles \in Seq(FileHandles) /\ Len(handles) = 0
  BY <1>1
<1>7. FileTypes
  BY <1>1, <1>2, <1>3, <1>4, <1>5, <1>6 DEF FileTypes
<1>8. FileCalls /\ FileOpens
  BY <1>3 DEF FileCalls, CallFits, FileOpens
<1>9. FilePointers /\ FileOpened /\ FileHeld
  BY <1>5, <1>6 DEF FilePointers, FileOpened, FileHeld
<1>10. FileLinked /\ FileAtEnd
  BY <1>2, <1>4, <1>5, <1>6 DEF FileLinked, FileAtEnd
<1> QED
  BY <1>7, <1>8, <1>9, <1>10 DEF FileGood

----------------------------------------------------------------------------
(* What the work of a call does to the pointers, the handles and the data.   *)

\* A handle that is used is one of its File, and when it is open it is the handle of the File.
LEMMA FileUsable ==
  ASSUME FileGood, NEW f \in Files, NEW k \in {fp[f].file, fp[f].wr, fp[f].rr, fp[f].sr},
         NEW h, h = Handle!HandleFor(f, k)
  PROVE  /\ h \in Nat /\ h \in {fp[f].file, fp[f].wr, fp[f].rr, fp[f].sr}
         /\ Handle!Usable(h) => h = fp[f].file /\ h \in 1..Len(handles) /\ handles[h].f = f
<1>1. h \in {fp[f].file, k}
  BY DEF Handle!HandleFor
<1>2. h \in {fp[f].file, fp[f].wr, fp[f].rr, fp[f].sr}
  BY <1>1
<1>3. h \in Nat
  BY <1>2 DEF FileGood, FileTypes, FilePtrs
<1>4. ASSUME Handle!Usable(h)
      PROVE  h = fp[f].file /\ h \in 1..Len(handles) /\ handles[h].f = f
  <2>1. h # 0 /\ handles[h].open
    BY <1>4 DEF Handle!Usable
  <2>2. h \in 1..Len(handles) /\ handles[h].f = f
    BY <1>2, <2>1 DEF FileGood, FilePointers
  <2>3. h = fp[f].file \/ config.auto
    BY <2>1, <2>2 DEF FileGood, FileOpened
  <2>4. config.auto => h = fp[f].file
    BY DEF Handle!HandleFor
  <2> QED
    BY <2>2, <2>3, <2>4
<1> QED
  BY <1>2, <1>3, <1>4

\* Pointers that are set to others of their File.
Points(s, t) ==
  /\ t \in [Files -> FilePtrs]
  /\ \A f \in Files :
       /\ t[f].file = s[f].file
       /\ {t[f].wr, t[f].rr, t[f].sr} \subseteq {s[f].file, s[f].wr, s[f].rr, s[f].sr}

\* A write keeps the handle it was made with.
LEMMA PointsWrite ==
  ASSUME NEW s \in [Files -> FilePtrs], NEW t, NEW f \in Files,
         NEW h \in {s[f].file, s[f].wr, s[f].rr, s[f].sr}, t = [s EXCEPT ![f].wr = h]
  PROVE  Points(s, t)
<1> DEFINE a == s[f]
           b == [a EXCEPT !.wr = h]
<1>1. a \in FilePtrs /\ t = [s EXCEPT ![f] = b]
  OBVIOUS
<1>2. h \in Nat
  BY DEF FilePtrs
<1>3. h \in {a.file, a.wr, a.rr, a.sr}
  OBVIOUS
<1> HIDE DEF a
<1>4. b \in FilePtrs /\ b.file = a.file /\ b.wr = h /\ b.rr = a.rr /\ b.sr = a.sr
  BY <1>1, <1>2 DEF FilePtrs
<1> HIDE DEF b
<1>5. t \in [Files -> FilePtrs] /\ \A g \in Files : t[g] = IF g = f THEN b ELSE s[g]
  BY <1>1, <1>4
<1> QED
  BY <1>3, <1>4, <1>5 DEF Points, a

\* A read keeps the handle it was made with.
LEMMA PointsRead ==
  ASSUME NEW s \in [Files -> FilePtrs], NEW t, NEW f \in Files,
         NEW h \in {s[f].file, s[f].wr, s[f].rr, s[f].sr}, t = [s EXCEPT ![f].rr = h]
  PROVE  Points(s, t)
<1> DEFINE a == s[f]
           b == [a EXCEPT !.rr = h]
<1>1. a \in FilePtrs /\ t = [s EXCEPT ![f] = b]
  OBVIOUS
<1>2. h \in Nat
  BY DEF FilePtrs
<1>3. h \in {a.file, a.wr, a.rr, a.sr}
  OBVIOUS
<1> HIDE DEF a
<1>4. b \in FilePtrs /\ b.file = a.file /\ b.wr = a.wr /\ b.rr = h /\ b.sr = a.sr
  BY <1>1, <1>2 DEF FilePtrs
<1> HIDE DEF b
<1>5. t \in [Files -> FilePtrs] /\ \A g \in Files : t[g] = IF g = f THEN b ELSE s[g]
  BY <1>1, <1>4
<1> QED
  BY <1>3, <1>4, <1>5 DEF Points, a

\* A seek keeps the handle it was made with.
LEMMA PointsSeek ==
  ASSUME NEW s \in [Files -> FilePtrs], NEW t, NEW f \in Files,
         NEW h \in {s[f].file, s[f].wr, s[f].rr, s[f].sr}, t = [s EXCEPT ![f].sr = h]
  PROVE  Points(s, t)
<1> DEFINE a == s[f]
           b == [a EXCEPT !.sr = h]
<1>1. a \in FilePtrs /\ t = [s EXCEPT ![f] = b]
  OBVIOUS
<1>2. h \in Nat
  BY DEF FilePtrs
<1>3. h \in {a.file, a.wr, a.rr, a.sr}
  OBVIOUS
<1> HIDE DEF a
<1>4. b \in FilePtrs /\ b.file = a.file /\ b.wr = a.wr /\ b.rr = a.rr /\ b.sr = h
  BY <1>1, <1>2 DEF FilePtrs
<1> HIDE DEF b
<1>5. t \in [Files -> FilePtrs] /\ \A g \in Files : t[g] = IF g = f THEN b ELSE s[g]
  BY <1>1, <1>4
<1> QED
  BY <1>3, <1>4, <1>5 DEF Points, a

\* A write at the end of the data is put after it.
LEMMA FileWriteAt ==
  ASSUME NEW d \in FileData, NEW n \in Nat, NEW s \in FileData, s # <<>>
  PROVE  /\ Handle!WriteAt(d, n, s) \in FileData
         /\ n = Len(d) => /\ Handle!WriteAt(d, n, s) = d \o s
                          /\ Len(Handle!WriteAt(d, n, s)) = n + Len(s)
<1> DEFINE E == FileUsers \cup {"i", "0"}
           l == IF n + Len(s) > Len(d) THEN n + Len(s) ELSE Len(d)
           w == Handle!WriteAt(d, n, s)
<1>1. /\ d \in Seq(E) /\ s \in Seq(E) /\ Len(d) \in Nat /\ Len(s) \in Nat /\ l \in Nat
      /\ (\A i \in 1..Len(d) : d[i] \in E) /\ (\A i \in 1..Len(s) : s[i] \in E)
  BY DEF FileData
<1>2. w = [i \in 1..l |-> IF i > n /\ i <= n + Len(s) THEN s[i - n] ELSE IF i <= Len(d) THEN d[i] ELSE "0"]
  BY DEF Handle!WriteAt
<1>3. \A i \in 1..l : w[i] = IF i > n /\ i <= n + Len(s) THEN s[i - n] ELSE IF i <= Len(d) THEN d[i] ELSE "0"
  BY <1>2
<1>4. ASSUME NEW i \in 1..l
      PROVE  w[i] \in E
  <2>1. i \in Nat /\ i >= 1 /\ i <= l
    BY <1>1
  <2>2. CASE i > n /\ i <= n + Len(s)
    <3>1. i - n \in 1..Len(s)
      BY <1>1, <2>1, <2>2
    <3> QED
      BY <1>1, <1>3, <2>2, <3>1
  <2>3. CASE ~(i > n /\ i <= n + Len(s)) /\ i <= Len(d)
    <3>1. i \in 1..Len(d)
      BY <1>1, <2>1, <2>3
    <3> QED
      BY <1>1, <1>3, <2>3, <3>1
  <2>4. CASE ~(i > n /\ i <= n + Len(s)) /\ ~(i <= Len(d))
    BY <1>3, <2>4
  <2> QED
    BY <2>2, <2>3, <2>4
<1>5. w \in Seq(E) /\ Len(w) = l
  <2>1. w \in [1..l -> E]
    BY <1>2, <1>4
  <2> HIDE DEF w, E, l
  <2> QED
    BY <1>1, <2>1
<1>6. ASSUME n = Len(d)
      PROVE  w = d \o s /\ Len(w) = n + Len(s)
  <2>1. Len(s) > 0
    BY <1>1
  <2>2. l = Len(d) + Len(s)
    BY <1>1, <1>6, <2>1
  <2>3. d \o s \in Seq(E) /\ Len(d \o s) = Len(d) + Len(s)
    BY <1>1
  <2>4. \A i \in 1..Len(d \o s) : (d \o s)[i] = IF i <= Len(d) THEN d[i] ELSE s[i - Len(d)]
    BY <1>1
  <2>5. ASSUME NEW i \in 1..l
        PROVE  w[i] = (d \o s)[i]
    BY <1>1, <1>3, <1>6, <2>2, <2>3, <2>4
  <2> HIDE DEF w, E, l
  <2> QED
    BY <1>1, <1>5, <1>6, <2>2, <2>3, <2>5
<1> QED
  BY <1>5, <1>6 DEF FileData

\* A write through a handle that is linked, at the end of the data, adds to the log
\* what it adds to the data; through another it adds to neither.
LEMMA FileWriteTo ==
  ASSUME FileGood, NEW f \in Files, NEW h \in 1..Len(handles), handles[h].f = f,
         NEW s \in FileData, s # <<>>, Handle!WriteTo(f, h, s)
  PROVE  /\ disk' \in [Files -> FileDisk] /\ hseen' \in FileSeen
         /\ hseen'.moved = hseen.moved /\ hseen'.left = hseen.left /\ hseen'.clash = hseen.clash
         /\ \A g \in Files : disk'[g].exist = disk[g].exist
         /\ \A g \in Files : ~disk'[g].exist => disk'[g].data = <<>>
         /\ \A g \in Files \ {f} : disk'[g].data = disk[g].data /\ hseen'.log[g] = hseen.log[g]
         /\ disk[f].data = hseen.log[f] /\ (handles[h].linked => handles[h].off = Len(disk[f].data))
              => /\ disk'[f].data = hseen'.log[f]
                 /\ handles[h].linked => Len(disk'[f].data) = handles[h].off + Len(s)
<1> DEFINE a == disk[f]
           n == handles[h].off
           d == Handle!WriteAt(a.data, n, s)
           e == [a EXCEPT !.data = d]
           lg == [hseen.log EXCEPT ![f] = @ \o s]
<1>1. /\ disk \in [Files -> FileDisk] /\ hseen \in FileSeen
      /\ \A g \in Files : ~disk[g].exist => disk[g].data = <<>>
  BY DEF FileGood, FileTypes, FileLinked
<1>2. CASE ~handles[h].linked
  BY <1>1, <1>2 DEF Handle!WriteTo
<1>3. CASE handles[h].linked
  <2>1. disk' = [disk EXCEPT ![f] = e] /\ hseen' = [hseen EXCEPT !.log = lg]
    BY <1>3 DEF Handle!WriteTo
  <2>2. a \in FileDisk /\ a.data \in FileData /\ a.exist
    BY <1>1, <1>3 DEF FileGood, FileLinked, FileDisk
  <2>3. n \in Nat
    BY FileHandle DEF FileGood
  <2>4. d \in FileData /\ (n = Len(a.data) => d = a.data \o s /\ Len(d) = n + Len(s))
    BY <2>2, <2>3, FileWriteAt
  <2> HIDE DEF d, a
  <2>5. e \in FileDisk /\ e.data = d /\ e.exist = a.exist
    BY <2>2, <2>4 DEF FileDisk
  <2>6. hseen.log \in [Files -> FileData]
    BY <1>1 DEF FileSeen
  <2>7. lg \in [Files -> FileData] /\ lg[f] = hseen.log[f] \o s /\ \A g \in Files \ {f} : lg[g] = hseen.log[g]
    <3>1. hseen.log[f] \o s \in FileData
      BY <2>6 DEF FileData
    <3> QED
      BY <2>6, <3>1
  <2> HIDE DEF e, lg, n
  <2>8. /\ hseen' \in FileSeen /\ hseen'.log = lg
        /\ hseen'.moved = hseen.moved /\ hseen'.left = hseen.left /\ hseen'.clash = hseen.clash
    <3>1. hseen' \in FileSeen
      BY <1>1, <2>1, <2>7, Zenon DEF FileSeen
    <3>2. hseen'.log = lg
      BY <1>1, <2>1, Zenon DEF FileSeen
    <3>3. hseen'.moved = hseen.moved /\ hseen'.left = hseen.left /\ hseen'.clash = hseen.clash
      BY <1>1, <2>1, Zenon DEF FileSeen
    <3> QED
      BY <3>1, <3>2, <3>3
  <2>9. disk' \in [Files -> FileDisk] /\ disk'[f] = e /\ \A g \in Files \ {f} : disk'[g] = disk[g]
    BY <1>1, <2>1, <2>5
  <2>10. a.exist = disk[f].exist /\ a.data = disk[f].data /\ n = handles[h].off
    BY DEF a, n
  <2>11. \A g \in Files : disk'[g].exist = disk[g].exist /\ (~disk'[g].exist => disk'[g].data = <<>>)
    BY <1>1, <2>2, <2>5, <2>9, <2>10
  <2>12. ASSUME disk[f].data = hseen.log[f], handles[h].off = Len(disk[f].data)
         PROVE  disk'[f].data = hseen'.log[f] /\ Len(disk'[f].data) = handles[h].off + Len(s)
    BY <2>4, <2>5, <2>7, <2>8, <2>9, <2>10, <2>12
  <2>13. \A g \in Files \ {f} : disk'[g].data = disk[g].data /\ hseen'.log[g] = hseen.log[g]
    BY <2>7, <2>8, <2>9
  <2> QED
    BY <1>3, <2>8, <2>9, <2>11, <2>12, <2>13
<1> QED
  BY <1>2, <1>3

\* A step of which the handles move, the pointers are set and the data is written.
LEMMA FileMoved ==
  ASSUME FileGood, UNCHANGED config, Points(fp, fp'),
         handles' \in Seq(FileHandles), Len(handles') = Len(handles),
         \A h \in 1..Len(handles) :
           /\ handles'[h].f = handles[h].f /\ handles'[h].open = handles[h].open
           /\ handles'[h].linked = handles[h].linked,
         disk' \in [Files -> FileDisk], \A f \in Files : disk'[f].exist = disk[f].exist,
         hseen' \in FileSeen, hseen'.left = hseen.left
  PROVE  Stands
BY DEF Stands, Points

\* The work of a call is done, and it goes on to what is deferred.
LEMMA FileDone ==
  ASSUME FileGood, NEW u \in FileUsers, call[u].pc = "do", call[u].op # "delete",
         Handle!Goto(u, IF call[u].op = "copyTo" THEN "close2" ELSE "close")
  PROVE  CallGoes(u)
<1> DEFINE p == IF call[u].op = "copyTo" THEN "close2" ELSE "close"
<1>1. p \in FilePcs /\ p \in {"close2", "close"} /\ call \in [FileUsers -> FileCall]
  BY DEF FilePcs, FileGood, FileTypes
<1>2. CallFits(call[u])
  BY DEF FileGood, FileCalls
<1> HIDE DEF p
<1>3. /\ call' \in [FileUsers -> FileCall]
      /\ call'[u].pc = p /\ call'[u].op = call[u].op /\ call'[u].f = call[u].f
      /\ call'[u].to = call[u].to /\ call'[u].seen = call[u].seen
      /\ \A v \in FileUsers : v # u => call'[v] = call[v]
  BY <1>1, FileGoto DEF p
<1>4. p = "close2" <=> call[u].op = "copyTo"
  BY DEF p
<1>5. CallFits(call'[u])
  BY <1>1, <1>2, <1>3, <1>4 DEF CallFits
<1>6. \A f \in Files : HoldsFile(call[u], f) => HoldsFile(call'[u], f)
  BY <1>1, <1>3, <1>4 DEF HoldsFile
<1> QED
  BY <1>1, <1>3, <1>5, <1>6 DEF CallGoes

\* What the work of a call leaves as it was.
LEMMA FileWorks ==
  ASSUME FileGood, NEW u \in FileUsers, Stands, CallGoes(u),
         \A f \in Files : ~disk'[f].exist => disk'[f].data = <<>>, FileAtEnd'
  PROVE  FileGood'
<1>1. FileLinked'
  BY FileStands DEF FileLinked
<1> QED
  BY <1>1, FileStands DEF FileGood

\* A call is on Files, and CopyTo on two.
LEMMA FileOfCall ==
  ASSUME FileGood, NEW u \in FileUsers
  PROVE  /\ call[u].f \in Files /\ call[u].to \in Files
         /\ call[u].pc # "idle" /\ call[u].op = "copyTo" => call[u].to # call[u].f
<1>1. call[u] \in FileCall /\ CallFits(call[u])
  BY DEF FileGood, FileTypes, FileCalls
<1> QED
  BY <1>1 DEF FileCall, CallFits

\* Write and CopyFromIoReader.
LEMMA FileWrite ==
  ASSUME FileGood, NEW u \in FileUsers, CallGoes(u), UNCHANGED config, Handle!Write(u)
  PROVE  FileGood'
<1> DEFINE f == call[u].f
           h == Handle!HandleFor(f, fp[f].wr)
<1>1. f \in Files
  BY FileOfCall
<1>2. /\ fp' = [fp EXCEPT ![f].wr = h]
      /\ IF Handle!Usable(h)
           THEN Handle!WriteTo(f, h, <<u>>) /\ handles' = [handles EXCEPT ![h].off = @ + 1]
           ELSE UNCHANGED <<disk, handles, hseen>>
  BY DEF Handle!Write
<1> HIDE DEF f
<1>3. /\ h \in Nat /\ h \in {fp[f].file, fp[f].wr, fp[f].rr, fp[f].sr}
      /\ Handle!Usable(h) => h = fp[f].file /\ h \in 1..Len(handles) /\ handles[h].f = f
  BY <1>1, FileUsable
<1> HIDE DEF h
<1>4. /\ fp \in [Files -> FilePtrs] /\ handles \in Seq(FileHandles) /\ disk \in [Files -> FileDisk]
      /\ hseen \in FileSeen /\ Len(handles) \in Nat
      /\ \A g \in Files : ~disk[g].exist => disk[g].data = <<>>
  BY DEF FileGood, FileTypes, FileLinked
<1>5. Points(fp, fp')
  BY <1>1, <1>2, <1>3, <1>4, PointsWrite
<1>6. CASE ~Handle!Usable(h)
  <2>1. UNCHANGED <<disk, handles, hseen>>
    BY <1>2, <1>6
  <2>2. Stands
    BY <1>4, <1>5, <2>1, FileMoved
  <2>3. FileAtEnd'
    BY <1>5, <2>1 DEF FileGood, FileAtEnd, Points
  <2> QED
    BY <1>4, <2>1, <2>2, <2>3, FileWorks
<1>7. CASE Handle!Usable(h)
  <2>1. Handle!WriteTo(f, h, <<u>>) /\ handles' = [handles EXCEPT ![h].off = handles[h].off + 1]
    BY <1>2, <1>7
  <2>2. h = fp[f].file /\ h \in 1..Len(handles) /\ handles[h].f = f
    BY <1>3, <1>7
  <2>3. handles[h].off \in Nat
    BY <2>2, FileHandle DEF FileGood
  <2>4. <<u>> \in FileData /\ <<u>> # <<>> /\ Len(<<u>>) = 1
    BY DEF FileData
  <2>5. /\ disk' \in [Files -> FileDisk] /\ hseen' \in FileSeen
        /\ hseen'.moved = hseen.moved /\ hseen'.left = hseen.left
        /\ \A g \in Files : disk'[g].exist = disk[g].exist
        /\ \A g \in Files : ~disk'[g].exist => disk'[g].data = <<>>
        /\ \A g \in Files \ {f} : disk'[g].data = disk[g].data /\ hseen'.log[g] = hseen.log[g]
        /\ disk[f].data = hseen.log[f] /\ (handles[h].linked => handles[h].off = Len(disk[f].data))
             => /\ disk'[f].data = hseen'.log[f]
                /\ handles[h].linked => Len(disk'[f].data) = handles[h].off + Len(<<u>>)
    BY <1>1, <2>1, <2>2, <2>4, FileWriteTo
  <2>6. MovesTo(handles, handles', h, handles[h].off + 1)
    <3> DEFINE n == handles[h].off + 1
    <3>1. n \in Nat /\ handles' = [handles EXCEPT ![h].off = n]
      BY <2>1, <2>3
    <3> HIDE DEF n
    <3>2. MovesTo(handles, handles', h, n)
      BY <1>4, <2>2, <3>1, FileMoves
    <3> QED
      BY <3>2 DEF n
  <2>7. Stands
    BY <1>4, <1>5, <2>5, <2>6, FileMoved DEF MovesTo
  <2>8. FileAtEnd'
    <3> SUFFICES ASSUME config.cur = -1, ~hseen.moved, NEW g \in Files
                 PROVE  /\ disk'[g].data = hseen'.log[g]
                        /\ fp'[g].file # 0 /\ handles'[fp'[g].file].linked =>
                             handles'[fp'[g].file].off = Len(disk'[g].data)
      BY <2>5 DEF FileAtEnd
    <3>1. /\ disk[g].data = hseen.log[g]
          /\ fp[g].file # 0 /\ handles[fp[g].file].linked =>
               handles[fp[g].file].off = Len(disk[g].data)
      BY DEF FileGood, FileAtEnd
    <3>2. fp'[g].file = fp[g].file
      BY <1>5 DEF Points
    <3>3. fp[g].file # 0 => fp[g].file \in 1..Len(handles) /\ handles[fp[g].file].f = g
      BY DEF FileGood, FilePointers
    <3>4. CASE g = f
      <4>1. handles'[h].off = handles[h].off + 1 /\ handles'[h].linked = handles[h].linked
        BY <2>2, <2>6 DEF MovesTo
      <4>2. h # 0
        BY <1>4, <2>2
      <4> QED
        BY <2>2, <2>4, <2>5, <3>1, <3>2, <3>4, <4>1, <4>2
    <3>5. CASE g # f
      <4>1. fp[g].file # 0 => /\ handles'[fp[g].file].off = handles[fp[g].file].off
                              /\ handles'[fp[g].file].linked = handles[fp[g].file].linked
        BY <2>2, <2>6, <3>3, <3>5 DEF MovesTo
      <4> QED
        BY <2>5, <3>1, <3>2, <3>5, <4>1
    <3> QED
      BY <3>4, <3>5
  <2> QED
    BY <2>5, <2>7, <2>8, FileWorks
<1> QED
  BY <1>6, <1>7

\* At its end a file has nothing left.
LEMMA FileRest ==
  ASSUME FileGood, NEW f \in Files, NEW h, h = fp[f].file, h # 0
  PROVE  /\ Handle!Rest(f, h) \in FileData
         /\ config.cur = -1 /\ ~hseen.moved => Handle!Rest(f, h) = <<>>
<1>1. disk[f].data \in FileData
  BY DEF FileGood, FileTypes, FileDisk
<1>2. h \in 1..Len(handles)
  BY DEF FileGood, FilePointers
<1>3. handles[h].off \in Nat
  BY <1>2, FileHandle DEF FileGood
<1> DEFINE d == disk[f].data
           n == handles[h].off
           s == SubSeq(d, n + 1, Len(d))
<1>4. s \in FileData /\ (n = Len(d) => s = <<>>)
  <2> HIDE DEF d, n
  <2>1. d \in FileData /\ n \in Nat
    BY <1>1, <1>3 DEF d, n
  <2> QED
    BY <2>1 DEF FileData
<1>5. <<>> \in FileData
  BY DEF FileData
<1>6. Handle!Rest(f, h) = IF handles[h].linked THEN s ELSE <<>>
  BY DEF Handle!Rest
<1>7. config.cur = -1 /\ ~hseen.moved /\ handles[h].linked => n = Len(d)
  BY DEF FileGood, FileAtEnd
<1> QED
  BY <1>4, <1>5, <1>6, <1>7

\* Read and CopyToIoWriter.
LEMMA FileRead ==
  ASSUME FileGood, NEW u \in FileUsers, CallGoes(u), UNCHANGED config, Handle!Read(u)
  PROVE  FileGood'
<1> DEFINE f == call[u].f
           h == Handle!HandleFor(f, fp[f].rr)
           n == IF call[u].op = "read" THEN handles[h].off + 1 ELSE Len(disk[f].data)
<1>1. f \in Files
  BY FileOfCall
<1>2. /\ fp' = [fp EXCEPT ![f].rr = h]
      /\ handles' = IF Handle!Usable(h) /\ Handle!Rest(f, h) # <<>>
                      THEN [handles EXCEPT ![h].off = n] ELSE handles
      /\ UNCHANGED <<disk, hseen>>
  BY DEF Handle!Read
<1>3. /\ h \in Nat /\ h \in {fp[f].file, fp[f].wr, fp[f].rr, fp[f].sr}
      /\ Handle!Usable(h) => h = fp[f].file /\ h \in 1..Len(handles) /\ handles[h].f = f
  BY <1>1, FileUsable
<1>4. /\ fp \in [Files -> FilePtrs] /\ handles \in Seq(FileHandles) /\ disk \in [Files -> FileDisk]
      /\ hseen \in FileSeen /\ Len(handles) \in Nat
      /\ \A g \in Files : ~disk[g].exist => disk[g].data = <<>>
  BY DEF FileGood, FileTypes, FileLinked
<1>5. Handle!Usable(h) => n \in Nat
  <2>1. Handle!Usable(h) => handles[h].off \in Nat
    BY <1>3, FileHandle DEF FileGood
  <2>2. Len(disk[f].data) \in Nat
    BY <1>1, <1>4 DEF FileDisk, FileData
  <2> QED
    BY <2>1, <2>2
<1>6. Handle!Usable(h) /\ config.cur = -1 /\ ~hseen.moved => Handle!Rest(f, h) = <<>>
  BY <1>1, <1>3, <1>4, FileRest
<1> HIDE DEF f, h, n
<1>7. Points(fp, fp')
  BY <1>1, <1>2, <1>3, <1>4, PointsRead
<1>8. handles' # handles => MovesTo(handles, handles', h, n)
  BY <1>2, <1>3, <1>4, <1>5, FileMoves
<1>9. Stands
  BY <1>2, <1>4, <1>7, <1>8, FileMoved DEF MovesTo
<1>10. FileAtEnd'
  BY <1>2, <1>6, <1>7 DEF FileGood, FileAtEnd, Points
<1> QED
  BY <1>2, <1>4, <1>9, <1>10, FileWorks

\* Seek and SeekIndex.
LEMMA FileSeek ==
  ASSUME FileGood, NEW u \in FileUsers, CallGoes(u), UNCHANGED config, Handle!Seek(u)
  PROVE  FileGood'
<1> DEFINE f == call[u].f
           k == Handle!HandleFor(f, fp[f].sr)
           h == IF call[u].op = "seek" THEN k ELSE fp[f].file
<1>1. f \in Files
  BY FileOfCall
<1>2. /\ fp' = IF call[u].op = "seek" THEN [fp EXCEPT ![f].sr = h] ELSE fp
      /\ handles' = IF Handle!Usable(h) THEN [handles EXCEPT ![h].off = 0] ELSE handles
      /\ hseen' = [hseen EXCEPT !.moved = TRUE]
      /\ UNCHANGED disk
  BY DEF Handle!Seek
<1>3. /\ k \in {fp[f].file, fp[f].wr, fp[f].rr, fp[f].sr}
      /\ Handle!Usable(k) => k \in 1..Len(handles)
  BY <1>1, FileUsable
<1>4. /\ fp \in [Files -> FilePtrs] /\ handles \in Seq(FileHandles) /\ disk \in [Files -> FileDisk]
      /\ hseen \in FileSeen /\ Len(handles) \in Nat
      /\ \A g \in Files : ~disk[g].exist => disk[g].data = <<>>
  BY DEF FileGood, FileTypes, FileLinked
<1>5. /\ h \in {fp[f].file, fp[f].wr, fp[f].rr, fp[f].sr}
      /\ Handle!Usable(h) => h \in 1..Len(handles)
  <2>1. fp[f].file # 0 => fp[f].file \in 1..Len(handles)
    BY <1>1 DEF FileGood, FilePointers
  <2> QED
    BY <1>3, <2>1 DEF Handle!Usable
<1> HIDE DEF f, k, h
<1>6. Points(fp, fp')
  <2>1. fp' = fp => Points(fp, fp')
    BY <1>4 DEF Points
  <2> QED
    BY <1>1, <1>2, <1>4, <1>5, <2>1, PointsSeek
<1>7. handles' # handles => MovesTo(handles, handles', h, 0)
  BY <1>2, <1>4, <1>5, FileMoves
<1>8. hseen' \in FileSeen /\ hseen'.left = hseen.left /\ hseen'.moved
  BY <1>2, <1>4, Zenon DEF FileSeen
<1>9. Stands
  BY <1>2, <1>4, <1>6, <1>7, <1>8, FileMoved DEF MovesTo
<1>10. FileAtEnd'
  BY <1>8 DEF FileAtEnd
<1> QED
  BY <1>2, <1>4, <1>9, <1>10, FileWorks

\* CopyTo reads what is left of one File and writes it to the other.
LEMMA FileCopyTo ==
  ASSUME FileGood, NEW u \in FileUsers, CallGoes(u), UNCHANGED config, call[u].pc = "do",
         Handle!CopyTo(u)
  PROVE  FileGood'
<1> DEFINE f == call[u].f
           g == call[u].to
           r == Handle!HandleFor(f, fp[f].rr)
           w == Handle!HandleFor(g, fp[g].wr)
           s == Handle!Rest(f, r)
           mid == [fp EXCEPT ![f].rr = r]
           n == Len(disk[f].data)
           o == handles[w].off + Len(s)
           hs == [handles EXCEPT ![r].off = n]
<1>1. f \in Files /\ g \in Files /\ g # f
  BY FileOfCall DEF Handle!CopyTo
<1>2. /\ fp' = [fp EXCEPT ![f].rr = r, ![g].wr = w]
      /\ IF Handle!Usable(r) /\ Handle!Usable(w) /\ s # <<>>
           THEN /\ Handle!WriteTo(g, w, s)
                /\ handles' = [handles EXCEPT ![r].off = n, ![w].off = @ + Len(s)]
           ELSE UNCHANGED <<disk, handles, hseen>>
  BY DEF Handle!CopyTo
<1>3. /\ r \in {fp[f].file, fp[f].wr, fp[f].rr, fp[f].sr}
      /\ Handle!Usable(r) => r = fp[f].file /\ r \in 1..Len(handles) /\ handles[r].f = f
  BY <1>1, FileUsable
<1>4. /\ w \in {fp[g].file, fp[g].wr, fp[g].rr, fp[g].sr}
      /\ Handle!Usable(w) => w = fp[g].file /\ w \in 1..Len(handles) /\ handles[w].f = g
  BY <1>1, FileUsable
<1>5. /\ fp \in [Files -> FilePtrs] /\ handles \in Seq(FileHandles) /\ disk \in [Files -> FileDisk]
      /\ hseen \in FileSeen /\ Len(handles) \in Nat
      /\ \A k \in Files : ~disk[k].exist => disk[k].data = <<>>
  BY DEF FileGood, FileTypes, FileLinked
<1>6. Handle!Usable(r) => r # 0
  BY DEF Handle!Usable
<1>7. Handle!Usable(r) => s \in FileData /\ (config.cur = -1 /\ ~hseen.moved => s = <<>>)
  BY <1>1, <1>3, <1>6, FileRest
<1>8. n \in Nat
  BY <1>1, <1>5 DEF FileDisk, FileData
<1> HIDE DEF f, g, r, w, s, n
<1>9. fp' = [mid EXCEPT ![g].wr = w]
  BY <1>2, <1>5
<1>10. Points(fp, mid)
  BY <1>1, <1>3, <1>5, PointsRead
<1>11. mid[g] = fp[g]
  BY <1>1, <1>5
<1> HIDE DEF mid
<1>12. Points(mid, fp')
  <2>1. mid \in [Files -> FilePtrs] /\ w \in {mid[g].file, mid[g].wr, mid[g].rr, mid[g].sr}
    BY <1>4, <1>10, <1>11 DEF Points
  <2> QED
    BY <1>1, <1>9, <2>1, PointsWrite
<1>13. Points(fp, fp')
  <2> SUFFICES ASSUME NEW k \in Files
               PROVE  /\ fp'[k].file = fp[k].file
                      /\ {fp'[k].wr, fp'[k].rr, fp'[k].sr} \subseteq {fp[k].file, fp[k].wr, fp[k].rr, fp[k].sr}
    BY <1>12 DEF Points
  <2>1. /\ mid[k].file = fp[k].file
        /\ {mid[k].wr, mid[k].rr, mid[k].sr} \subseteq {fp[k].file, fp[k].wr, fp[k].rr, fp[k].sr}
    BY <1>10 DEF Points
  <2>2. /\ fp'[k].file = mid[k].file
        /\ {fp'[k].wr, fp'[k].rr, fp'[k].sr} \subseteq {mid[k].file, mid[k].wr, mid[k].rr, mid[k].sr}
    BY <1>12 DEF Points
  <2> QED
    BY <2>1, <2>2
<1>14. CASE UNCHANGED <<disk, handles, hseen>>
  <2>1. Stands
    BY <1>5, <1>13, <1>14, FileMoved
  <2>2. FileAtEnd'
    BY <1>13, <1>14 DEF FileGood, FileAtEnd, Points
  <2> QED
    BY <1>5, <1>14, <2>1, <2>2, FileWorks
<1>15. CASE Handle!Usable(r) /\ Handle!Usable(w) /\ s # <<>>
  <2>1. /\ Handle!WriteTo(g, w, s)
        /\ handles' = [handles EXCEPT ![r].off = n, ![w].off = @ + Len(s)]
    BY <1>2, <1>15
  <2>2. r \in 1..Len(handles) /\ w \in 1..Len(handles) /\ handles[w].f = g /\ r # w
    BY <1>1, <1>3, <1>4, <1>15
  <2>3. s \in FileData /\ s # <<>> /\ ~(config.cur = -1 /\ ~hseen.moved)
    BY <1>7, <1>15
  <2>4. Len(s) \in Nat /\ handles[w].off \in Nat
    BY <2>2, <2>3, FileHandle DEF FileGood, FileData
  <2>5. o \in Nat
    BY <2>4
  <2>6. /\ disk' \in [Files -> FileDisk] /\ hseen' \in FileSeen
        /\ hseen'.moved = hseen.moved /\ hseen'.left = hseen.left
        /\ \A k \in Files : disk'[k].exist = disk[k].exist
        /\ \A k \in Files : ~disk'[k].exist => disk'[k].data = <<>>
    BY <1>1, <2>1, <2>2, <2>3, FileWriteTo
  <2>7. MovesTo(handles, hs, r, n)
    BY <1>5, <1>8, <2>2, FileMoves
  <2>8. handles' = [hs EXCEPT ![w].off = o]
    BY <1>5, <2>1, <2>2
  <2> HIDE DEF hs, o
  <2>9. MovesTo(hs, handles', w, o)
    <3>1. hs \in Seq(FileHandles) /\ w \in 1..Len(hs)
      BY <2>2, <2>7 DEF MovesTo
    <3> QED
      BY <2>5, <2>8, <3>1, FileMoves
  <2>10. /\ handles' \in Seq(FileHandles) /\ Len(handles') = Len(handles)
         /\ \A k \in 1..Len(handles) :
              /\ handles'[k].f = handles[k].f /\ handles'[k].open = handles[k].open
              /\ handles'[k].linked = handles[k].linked
    <3>1. Len(hs) = Len(handles) /\ \A k \in 1..Len(handles) :
            hs[k].f = handles[k].f /\ hs[k].open = handles[k].open /\ hs[k].linked = handles[k].linked
      BY <2>7 DEF MovesTo
    <3>2. handles' \in Seq(FileHandles) /\ Len(handles') = Len(hs) /\ \A k \in 1..Len(hs) :
            handles'[k].f = hs[k].f /\ handles'[k].open = hs[k].open /\ handles'[k].linked = hs[k].linked
      BY <2>9 DEF MovesTo
    <3> QED
      BY <3>1, <3>2
  <2>11. Stands
    BY <1>13, <2>6, <2>10, FileMoved
  <2>12. FileAtEnd'
    BY <2>3, <2>6 DEF FileAtEnd
  <2> QED
    BY <2>6, <2>11, <2>12, FileWorks
<1> QED
  BY <1>2, <1>14, <1>15

\* A call that opens or closes nothing.
LEMMA FileLook ==
  ASSUME FileGood, NEW u \in FileUsers, CallGoes(u), UNCHANGED config, Handle!Look(u)
  PROVE  FileGood'
<1>1. UNCHANGED <<config, disk, handles, fp, hseen>>
  BY DEF Handle!Look
<1>2. hseen \in FileSeen
  BY DEF FileGood, FileTypes
<1> QED
  BY <1>1, <1>2, FileQuiet

\* Without another call under way only a call of u holds a File.
LEMMA FileAlone ==
  ASSUME NEW u \in FileUsers, \A v \in FileUsers : v # u => call[v].pc = "idle",
         NEW f \in Files, NEW v \in FileUsers, HoldsFile(call[v], f)
  PROVE  v = u
BY DEF HoldsFile

\* Without another call under way the handle of one File is closed.
LEMMA FileShuts ==
  ASSUME FileGood, NEW u \in FileUsers, NEW f \in Files, UNCHANGED config,
         \A v \in FileUsers : v # u => call[v].pc = "idle",
         fp' = [fp EXCEPT ![f].file = 0],
         handles' \in Seq(FileHandles), Len(handles') = Len(handles),
         \A h \in 1..Len(handles) :
           /\ handles'[h].f = handles[h].f
           /\ handles'[h].open <=> handles[h].open /\ h # fp[f].file,
         disk' \in [Files -> FileDisk], hseen' \in FileSeen, hseen'.left = hseen.left,
         call' \in [FileUsers -> FileCall],
         \A v \in FileUsers : v # u => call'[v] = call[v],
         CallFits(call'[u]), call'[u].pc \notin {"open", "open2"},
         \A g \in Files \ {f} : HoldsFile(call[u], g) => HoldsFile(call'[u], g)
  PROVE  /\ fp' \in [Files -> FilePtrs] /\ fp'[f].file = 0
         /\ \A g \in Files \ {f} : fp'[g] = fp[g]
         /\ FileTypes' /\ FileCalls' /\ FileOpens' /\ FilePointers' /\ FileOpened' /\ FileHeld'
<1>1. /\ fp' \in [Files -> FilePtrs] /\ fp'[f].file = 0 /\ fp'[f].wr = fp[f].wr
      /\ fp'[f].rr = fp[f].rr /\ fp'[f].sr = fp[f].sr
      /\ \A g \in Files \ {f} : fp'[g] = fp[g]
  <2> DEFINE a == fp[f]
             b == [a EXCEPT !.file = 0]
  <2>1. fp \in [Files -> FilePtrs] /\ a \in FilePtrs /\ fp' = [fp EXCEPT ![f] = b]
    BY DEF FileGood, FileTypes
  <2> HIDE DEF a
  <2>2. b \in FilePtrs /\ b.file = 0 /\ b.wr = a.wr /\ b.rr = a.rr /\ b.sr = a.sr
    BY <2>1 DEF FilePtrs
  <2> HIDE DEF b
  <2>3. fp' \in [Files -> FilePtrs] /\ fp'[f] = b /\ \A g \in Files \ {f} : fp'[g] = fp[g]
    BY <2>1, <2>2
  <2> QED
    BY <2>2, <2>3 DEF a
<1>2. FileTypes'
  BY <1>1 DEF FileGood, FileTypes
<1>3. FileCalls' /\ FileOpens'
  <2>1. \A v \in FileUsers : CallFits(call'[v])
    BY DEF FileGood, FileCalls
  <2>2. \A v \in FileUsers : call'[v].pc \notin {"open", "open2"}
    OBVIOUS
  <2> QED
    BY <2>1, <2>2 DEF FileCalls, FileOpens
<1>4. FilePointers'
  <2> SUFFICES ASSUME NEW g \in Files
               PROVE  /\ \A h \in {fp'[g].file, fp'[g].wr, fp'[g].rr, fp'[g].sr} :
                           h # 0 => h \in 1..Len(handles') /\ handles'[h].f = g
                      /\ fp'[g].file # 0 => handles'[fp'[g].file].open
    BY DEF FilePointers
  <2>1. /\ \A h \in {fp[g].file, fp[g].wr, fp[g].rr, fp[g].sr} :
             h # 0 => h \in 1..Len(handles) /\ handles[h].f = g
        /\ fp[g].file # 0 => handles[fp[g].file].open
    BY DEF FileGood, FilePointers
  <2>2. ASSUME NEW h \in {fp'[g].file, fp'[g].wr, fp'[g].rr, fp'[g].sr}, h # 0
        PROVE  h \in 1..Len(handles') /\ handles'[h].f = g
    <3>1. h \in {fp[g].file, fp[g].wr, fp[g].rr, fp[g].sr}
      BY <1>1, <2>2
    <3>2. h \in 1..Len(handles) /\ handles[h].f = g
      BY <2>1, <2>2, <3>1
    <3> QED
      BY <3>2
  <2>3. ASSUME fp'[g].file # 0
        PROVE  handles'[fp'[g].file].open
    <3>1. g # f /\ fp'[g] = fp[g]
      BY <1>1, <2>3
    <3> DEFINE h == fp[g].file
    <3>2. h \in 1..Len(handles) /\ handles[h].f = g /\ handles[h].open
      BY <2>1, <2>3, <3>1
    <3>3. fp[f].file # 0 => handles[fp[f].file].f = f
      BY DEF FileGood, FilePointers
    <3>4. h # fp[f].file
      BY <2>3, <3>1, <3>2, <3>3
    <3> HIDE DEF h
    <3>5. handles'[h].open
      BY <3>2, <3>4
    <3> QED
      BY <3>1, <3>5 DEF h
  <2> QED
    BY <2>2, <2>3
<1>5. FileOpened'
  <2> SUFFICES ASSUME NEW h \in 1..Len(handles), handles'[h].open
               PROVE  h = fp'[handles'[h].f].file \/ (config.auto /\ h \in hseen.left)
    BY DEF FileOpened
  <2>1. handles[h].open /\ h # fp[f].file /\ handles'[h].f = handles[h].f
    OBVIOUS
  <2>2. h = fp[handles[h].f].file \/ (config.auto /\ h \in hseen.left)
    BY <2>1 DEF FileGood, FileOpened
  <2>3. handles[h].f \in Files
    BY FileHandle DEF FileGood
  <2> QED
    BY <1>1, <2>1, <2>2, <2>3
<1>6. FileHeld'
  <2> SUFFICES ASSUME config.auto, NEW g \in Files, g # f
               PROVE  fp'[g].file \in {0} \cup hseen.left \/ \E v \in FileUsers : HoldsFile(call'[v], g)
    BY <1>1 DEF FileHeld
  <2>1. fp[g].file \in {0} \cup hseen.left \/ \E v \in FileUsers : HoldsFile(call[v], g)
    BY DEF FileGood, FileHeld
  <2>2. ASSUME NEW v \in FileUsers, HoldsFile(call[v], g)
        PROVE  HoldsFile(call'[u], g)
    BY <2>2, FileAlone
  <2> QED
    BY <1>1, <2>1, <2>2
<1> QED
  BY <1>1, <1>2, <1>3, <1>4, <1>5, <1>6

\* Delete.
LEMMA FileDelete ==
  ASSUME FileGood, NEW u \in FileUsers, UNCHANGED config, call[u].pc = "do",
         Handle!Delete(u), Handle!Return(u), ~hseen'.clash
  PROVE  FileGood'
<1> DEFINE f == call[u].f
           c == Handle!Clash(u)
           e == [exist |-> FALSE, data |-> <<>>]
           lg == [hseen.log EXCEPT ![f] = <<>>]
<1>1. f \in Files /\ call[u].op = "delete"
  BY FileOfCall DEF Handle!Delete
<1>2. /\ fp' = [fp EXCEPT ![f].file = 0]
      /\ disk' = [disk EXCEPT ![f] = e]
      /\ handles' = [h \in DOMAIN handles |->
                       IF handles[h].f = f
                         THEN [f |-> f, off |-> handles[h].off, linked |-> FALSE,
                               open |-> handles[h].open /\ h # fp[f].file]
                         ELSE handles[h]]
      /\ hseen' = [c EXCEPT !.log[f] = <<>>]
  BY DEF Handle!Delete
<1> HIDE DEF f
<1>3. /\ fp \in [Files -> FilePtrs] /\ handles \in Seq(FileHandles) /\ disk \in [Files -> FileDisk]
      /\ hseen \in FileSeen /\ Len(handles) \in Nat /\ call \in [FileUsers -> FileCall]
  BY DEF FileGood, FileTypes
<1>4. /\ c \in FileSeen /\ c.log = hseen.log /\ c.moved = hseen.moved /\ c.left = hseen.left
      /\ ~c.clash => \A v \in FileUsers : v # u => call[v].pc = "idle"
  BY <1>3, FileClash
<1> HIDE DEF c
<1>5. <<>> \in FileData /\ e \in FileDisk /\ e.data = <<>> /\ ~e.exist
  BY DEF FileData, FileDisk
<1>6. hseen.log \in [Files -> FileData]
  BY <1>3 DEF FileSeen
<1>7. lg \in [Files -> FileData] /\ lg[f] = <<>> /\ \A g \in Files \ {f} : lg[g] = hseen.log[g]
  BY <1>1, <1>5, <1>6
<1>8. hseen' = [c EXCEPT !.log = lg]
  BY <1>2, <1>4
<1> HIDE DEF lg, e
<1>9. hseen' \in FileSeen
  BY <1>4, <1>7, <1>8, Zenon DEF FileSeen
<1>10. hseen'.log = lg
  BY <1>4, <1>8, Zenon DEF FileSeen
<1>11. hseen'.moved = hseen.moved /\ hseen'.left = hseen.left /\ hseen'.clash = c.clash
  BY <1>4, <1>8, Zenon DEF FileSeen
<1>12. \A v \in FileUsers : v # u => call[v].pc = "idle"
  BY <1>4, <1>11
<1>13. /\ call' \in [FileUsers -> FileCall] /\ call'[u].pc = "idle"
       /\ \A v \in FileUsers : v # u => call'[v] = call[v]
  BY <1>3, FileReturn
<1>14. CallFits(call'[u]) /\ call'[u].pc \notin {"open", "open2"}
  BY <1>13 DEF CallFits
<1>15. \A g \in Files \ {f} : HoldsFile(call[u], g) => HoldsFile(call'[u], g)
  BY <1>1 DEF HoldsFile, f
<1>16. disk' \in [Files -> FileDisk] /\ disk'[f] = e /\ \A g \in Files \ {f} : disk'[g] = disk[g]
  BY <1>1, <1>2, <1>3, <1>5
<1>17. /\ DOMAIN handles = 1..Len(handles)
       /\ \A h \in 1..Len(handles) : handles[h] \in FileHandles
  BY <1>3
<1>18. ASSUME NEW h \in 1..Len(handles)
       PROVE  /\ handles'[h] \in FileHandles
              /\ handles'[h].f = handles[h].f /\ handles'[h].off = handles[h].off
              /\ handles'[h].open <=> handles[h].open /\ h # fp[f].file
              /\ handles'[h].linked => handles[h].linked /\ handles[h].f # f
  <2>1. handles[h] \in FileHandles
    BY <1>17
  <2>2. handles'[h] = IF handles[h].f = f
                        THEN [f |-> f, off |-> handles[h].off, linked |-> FALSE,
                              open |-> handles[h].open /\ h # fp[f].file]
                        ELSE handles[h]
    BY <1>2, <1>17
  <2>3. CASE handles[h].f = f
    <3>1. PICK b \in BOOLEAN : b <=> handles[h].open /\ h # fp[f].file
      OBVIOUS
    <3>2. b = (handles[h].open /\ h # fp[f].file)
      BY <2>1, <3>1 DEF FileHandles
    <3>3. handles'[h] = [f |-> f, off |-> handles[h].off, open |-> b, linked |-> FALSE]
      BY <2>2, <2>3, <3>2
    <3>4. handles[h].off \in Nat
      BY <2>1 DEF FileHandles
    <3>5. handles'[h] \in FileHandles
      BY <1>1, <3>3, <3>4 DEF FileHandles
    <3> QED
      BY <2>3, <3>1, <3>3, <3>5
  <2>4. CASE handles[h].f # f
    <3>1. fp[f].file # 0 => handles[fp[f].file].f = f
      BY <1>1 DEF FileGood, FilePointers
    <3>2. h # 0
      BY <1>3
    <3> QED
      BY <2>1, <2>2, <2>4, <3>1, <3>2
  <2> QED
    BY <2>3, <2>4
<1>19. handles' \in Seq(FileHandles) /\ Len(handles') = Len(handles)
  <2>1. DOMAIN handles' = 1..Len(handles)
    BY <1>2, <1>17
  <2>2. handles' = [h \in 1..Len(handles) |-> handles'[h]]
    BY <1>2, <1>17
  <2>3. handles' \in [1..Len(handles) -> FileHandles]
    BY <1>18, <2>2
  <2> QED
    BY <1>3, <2>1, <2>3
<1>20. /\ fp' \in [Files -> FilePtrs] /\ fp'[f].file = 0
       /\ \A g \in Files \ {f} : fp'[g] = fp[g]
       /\ FileTypes' /\ FileCalls' /\ FileOpens' /\ FilePointers' /\ FileOpened' /\ FileHeld'
  BY <1>1, <1>2, <1>9, <1>11, <1>12, <1>13, <1>14, <1>15, <1>16, <1>18, <1>19, FileShuts
<1>21. FileLinked'
  <2>1. ASSUME NEW h \in 1..Len(handles), handles'[h].linked
        PROVE  disk'[handles'[h].f].exist
    <3>1. handles[h].linked /\ handles[h].f # f /\ handles'[h].f = handles[h].f
      BY <1>18, <2>1
    <3>2. handles[h].f \in Files /\ disk[handles[h].f].exist
      BY <3>1, FileHandle DEF FileGood, FileLinked
    <3> QED
      BY <1>16, <3>1, <3>2
  <2>2. \A g \in Files : ~disk'[g].exist => disk'[g].data = <<>>
    BY <1>5, <1>16 DEF FileGood, FileLinked
  <2> QED
    BY <1>19, <2>1, <2>2 DEF FileLinked
<1>22. FileAtEnd'
  <2> SUFFICES ASSUME config.cur = -1, ~hseen.moved, NEW g \in Files
               PROVE  /\ disk'[g].data = hseen'.log[g]
                      /\ fp'[g].file # 0 /\ handles'[fp'[g].file].linked =>
                           handles'[fp'[g].file].off = Len(disk'[g].data)
    BY <1>11 DEF FileAtEnd
  <2>1. CASE g = f
    BY <1>5, <1>7, <1>10, <1>16, <1>20, <2>1
  <2>2. CASE g # f
    <3>1. /\ disk[g].data = hseen.log[g]
          /\ fp[g].file # 0 /\ handles[fp[g].file].linked =>
               handles[fp[g].file].off = Len(disk[g].data)
      BY DEF FileGood, FileAtEnd
    <3>2. fp[g].file # 0 => fp[g].file \in 1..Len(handles)
      BY DEF FileGood, FilePointers
    <3>3. fp'[g] = fp[g] /\ disk'[g] = disk[g] /\ hseen'.log[g] = hseen.log[g]
      BY <1>7, <1>10, <1>16, <1>20, <2>2
    <3> QED
      BY <1>18, <3>1, <3>2, <3>3
  <2> QED
    BY <2>1, <2>2
<1> QED
  BY <1>20, <1>21, <1>22 DEF FileGood

----------------------------------------------------------------------------
(* Every step of a call.                                                     *)

\* The deferred Close closes the handle of a File, or finds nothing to close.
LEMMA FileClose ==
  ASSUME FileGood, NEW u \in FileUsers, Handle!Close(u), ~hseen'.clash
  PROVE  FileGood'
<1> DEFINE f == Handle!Of(u)
           h == fp[f].file
           closes == (config.auto \/ call[u].op \in {"copyTo", "name", "close"}) /\ h # 0
<1>1. /\ call[u].pc \in {"close", "close2"}
      /\ handles' = IF closes THEN [handles EXCEPT ![h].open = FALSE] ELSE handles
      /\ fp' = IF closes THEN [fp EXCEPT ![f].file = 0] ELSE fp
      /\ hseen' = IF closes THEN Handle!Clash(u) ELSE hseen
      /\ IF call[u].pc = "close2" THEN Handle!Goto(u, "unlock") ELSE Handle!Return(u)
      /\ UNCHANGED <<config, disk>>
  BY DEF Handle!Close
<1>2. /\ call[u].f \in Files /\ call[u].to \in Files /\ CallFits(call[u])
      /\ f = IF call[u].pc = "close2" THEN call[u].to ELSE call[u].f
  BY <1>1, FileOfCall DEF Handle!Of, FileGood, FileCalls
<1>3. /\ fp \in [Files -> FilePtrs] /\ handles \in Seq(FileHandles) /\ disk \in [Files -> FileDisk]
      /\ hseen \in FileSeen /\ Len(handles) \in Nat /\ call \in [FileUsers -> FileCall]
  BY DEF FileGood, FileTypes
<1>4. /\ call' \in [FileUsers -> FileCall]
      /\ \A v \in FileUsers : v # u => call'[v] = call[v]
      /\ call[u].pc = "close2" =>
           /\ call'[u].pc = "unlock" /\ call'[u].op = call[u].op /\ call'[u].f = call[u].f
           /\ call'[u].to = call[u].to
      /\ call[u].pc = "close" => call'[u].pc = "idle"
  <2>1. CASE call[u].pc = "close2"
    <3>1. Handle!Goto(u, "unlock") /\ "unlock" \in FilePcs
      BY <1>1, <2>1 DEF FilePcs
    <3> QED
      BY <1>3, <2>1, <3>1, FileGoto
  <2>2. CASE call[u].pc = "close"
    <3>1. Handle!Return(u)
      BY <1>1, <2>2
    <3> QED
      BY <1>3, <2>2, <3>1, FileReturn
  <2> QED
    BY <1>1, <2>1, <2>2
<1>5. CallFits(call'[u]) /\ call'[u].pc \notin {"open", "open2"}
  BY <1>1, <1>2, <1>4 DEF CallFits
<1>6. ASSUME NEW g \in Files, g # f, HoldsFile(call[u], g)
      PROVE  HoldsFile(call'[u], g)
  BY <1>1, <1>2, <1>4, <1>6 DEF HoldsFile, CallFits
<1> HIDE DEF f
<1>7. CASE ~closes
  <2>1. UNCHANGED <<config, disk, handles, fp, hseen>>
    BY <1>1, <1>7
  <2>2. ASSUME NEW g \in Files, HoldsFile(call[u], g)
        PROVE  HoldsFile(call'[u], g) \/ ~config.auto \/ fp[g].file \in {0} \cup hseen'.left
    <3>1. g = f => ~config.auto \/ fp[g].file = 0
      BY <1>7
    <3> QED
      BY <1>6, <2>2, <3>1
  <2>3. CallGoes(u)
    BY <1>4, <1>5, <2>2 DEF CallGoes
  <2> QED
    BY <1>3, <2>1, <2>3, FileQuiet
<1>8. CASE closes
  <2>1. /\ handles' = [handles EXCEPT ![h].open = FALSE] /\ fp' = [fp EXCEPT ![f].file = 0]
        /\ hseen' = Handle!Clash(u)
    BY <1>1, <1>8
  <2>2. h # 0 /\ f \in Files
    BY <1>2, <1>8
  <2>3. h \in 1..Len(handles) /\ handles[h].f = f
    BY <2>2 DEF FileGood, FilePointers
  <2>4. /\ hseen' \in FileSeen /\ hseen'.log = hseen.log /\ hseen'.moved = hseen.moved
        /\ hseen'.left = hseen.left /\ \A v \in FileUsers : v # u => call[v].pc = "idle"
    BY <1>3, <2>1, FileClash
  <2> HIDE DEF h
  <2>5. /\ handles' \in Seq(FileHandles) /\ Len(handles') = Len(handles)
        /\ \A k \in 1..Len(handles) :
             /\ handles'[k].f = handles[k].f /\ handles'[k].off = handles[k].off
             /\ handles'[k].linked = handles[k].linked
             /\ handles'[k].open <=> handles[k].open /\ k # h
    <3> DEFINE a == handles[h]
               b == [a EXCEPT !.open = FALSE]
    <3>1. a \in FileHandles /\ handles' = [handles EXCEPT ![h] = b]
      BY <1>3, <2>1, <2>3
    <3> HIDE DEF a
    <3>2. b \in FileHandles
      BY <3>1, Zenon DEF FileHandles
    <3>3. b.f = a.f /\ b.off = a.off /\ b.linked = a.linked /\ b.open = FALSE
      BY <3>1, Zenon DEF FileHandles
    <3> HIDE DEF b
    <3>4. handles' \in Seq(FileHandles) /\ Len(handles') = Len(handles)
          /\ \A k \in 1..Len(handles) : handles'[k] = IF k = h THEN b ELSE handles[k]
      BY <1>3, <2>3, <3>1, <3>2
    <3> QED
      BY <3>3, <3>4 DEF a
  <2>6. h = fp[f].file
    BY DEF h
  <2>7. /\ fp' \in [Files -> FilePtrs] /\ fp'[f].file = 0
        /\ \A g \in Files \ {f} : fp'[g] = fp[g]
        /\ FileTypes' /\ FileCalls' /\ FileOpens' /\ FilePointers' /\ FileOpened' /\ FileHeld'
    <3>1. /\ UNCHANGED config /\ disk' \in [Files -> FileDisk]
          /\ fp' = [fp EXCEPT ![f].file = 0]
      BY <1>1, <1>3, <2>1
    <3>2. \A k \in 1..Len(handles) :
            /\ handles'[k].f = handles[k].f
            /\ handles'[k].open <=> handles[k].open /\ k # fp[f].file
      BY <2>5, <2>6
    <3>3. \A g \in Files \ {f} : HoldsFile(call[u], g) => HoldsFile(call'[u], g)
      BY <1>6
    <3> QED
      BY <1>4, <1>5, <2>2, <2>4, <2>5, <3>1, <3>2, <3>3, FileShuts
  <2>8. FileLinked'
    <3>1. ASSUME NEW k \in 1..Len(handles), handles'[k].linked
          PROVE  disk[handles'[k].f].exist
      BY <2>5, <3>1 DEF FileGood, FileLinked
    <3> QED
      BY <1>1, <2>5, <3>1 DEF FileGood, FileLinked
  <2>9. FileAtEnd'
    <3> SUFFICES ASSUME config.cur = -1, ~hseen.moved, NEW g \in Files
                 PROVE  /\ disk[g].data = hseen.log[g]
                        /\ fp'[g].file # 0 /\ handles'[fp'[g].file].linked =>
                             handles'[fp'[g].file].off = Len(disk[g].data)
      BY <1>1, <2>4 DEF FileAtEnd
    <3>1. /\ disk[g].data = hseen.log[g]
          /\ fp[g].file # 0 /\ handles[fp[g].file].linked =>
               handles[fp[g].file].off = Len(disk[g].data)
      BY DEF FileGood, FileAtEnd
    <3>2. fp[g].file # 0 => fp[g].file \in 1..Len(handles)
      BY DEF FileGood, FilePointers
    <3>3. fp'[g].file # 0 => fp'[g].file = fp[g].file
      BY <2>7
    <3> QED
      BY <2>5, <3>1, <3>2, <3>3
  <2> QED
    BY <2>7, <2>8, <2>9 DEF FileGood
<1> QED
  BY <1>7, <1>8

\* Where a call goes from getRWCloser, it holds what it opened.
LEMMA FileOpenedAt ==
  ASSUME FileGood, NEW u \in FileUsers, call[u].pc \in {"stat", "stat2", "open", "open2"},
         Handle!Goto(u, Handle!Opened(u))
  PROVE  /\ call' \in [FileUsers -> FileCall]
         /\ \A v \in FileUsers : v # u => call'[v] = call[v]
         /\ CallFits(call'[u]) /\ call'[u].pc \notin {"open", "open2"}
         /\ HoldsFile(call'[u], Handle!Of(u))
         /\ \A g \in Files : HoldsFile(call[u], g) => HoldsFile(call'[u], g)
<1> DEFINE p == Handle!Opened(u)
<1>1. call[u] \in FileCall /\ CallFits(call[u]) /\ call \in [FileUsers -> FileCall]
  BY DEF FileGood, FileTypes, FileCalls
<1>2. /\ call[u].pc \in {"stat2", "open2"} => p = "lock2"
      /\ call[u].pc \in {"stat", "open"} =>
           /\ p \in {"do", "close", "leave", "lock"}
           /\ p = "leave" => call[u].op # "copyTo"
  <2> DEFINE o == call[u].op
             q == call[u].pc
  <2>1. q \in {"stat2", "open2"} => o = "copyTo"
    BY <1>1 DEF CallFits
  <2>2. p = CASE q \in {"stat2", "open2"} -> "lock2"
              [] o = "look" -> "do"
              [] o = "name" -> "close"
              [] o \in {"file", "big"} -> "leave"
              [] OTHER -> "lock"
    BY DEF Handle!Opened
  <2> HIDE DEF o, q, p
  <2>3. q \in {"stat2", "open2"} => p = "lock2"
    BY <2>1, <2>2
  <2>4. q \in {"stat", "open"} => p \in {"do", "close", "leave", "lock"} /\ (p = "leave" => o # "copyTo")
    <3>1. CASE o = "look"
      BY <2>2, <3>1
    <3>2. CASE o = "name"
      BY <2>2, <3>2
    <3>3. CASE o \in {"file", "big"}
      BY <2>2, <3>3
    <3>4. CASE o \notin {"look", "name", "file", "big"}
      BY <2>2, <3>4
    <3> QED
      BY <3>1, <3>2, <3>3, <3>4
  <2> QED
    BY <2>3, <2>4 DEF o, q
<1>3. p \in FilePcs
  BY <1>2 DEF FilePcs
<1> HIDE DEF p
<1>4. /\ call' \in [FileUsers -> FileCall]
      /\ call'[u].pc = p /\ call'[u].op = call[u].op /\ call'[u].f = call[u].f
      /\ call'[u].to = call[u].to /\ call'[u].seen = call[u].seen
      /\ \A v \in FileUsers : v # u => call'[v] = call[v]
  BY <1>1, <1>3, FileGoto DEF p
<1>5. CASE call[u].pc \in {"stat2", "open2"}
  <2>1. p = "lock2" /\ call[u].op = "copyTo" /\ call[u].to # call[u].f /\ Handle!Of(u) = call[u].to
    BY <1>1, <1>2, <1>5 DEF CallFits, Handle!Of
  <2> QED
    BY <1>4, <2>1 DEF CallFits, HoldsFile
<1>6. CASE call[u].pc \in {"stat", "open"}
  <2>1. /\ p \in {"do", "close", "leave", "lock"} /\ (p = "leave" => call[u].op # "copyTo")
        /\ call[u].op \notin {"delete", "close"} /\ Handle!Of(u) = call[u].f
        /\ call[u].op = "copyTo" => call[u].to # call[u].f
    BY <1>1, <1>2, <1>6 DEF CallFits, Handle!Of
  <2> QED
    BY <1>4, <1>6, <2>1 DEF CallFits, HoldsFile
<1> QED
  BY <1>5, <1>6

\* A File that is opened while no other call is under way, with its cursor at n.
LEMMA FileOpensAt ==
  ASSUME FileGood, NEW u \in FileUsers, call[u].pc \in {"open", "open2"},
         NEW f \in Files, f = Handle!Of(u), NEW n \in Nat,
         \A v \in FileUsers : v # u => call[v].pc = "idle",
         UNCHANGED config, Handle!Goto(u, Handle!Opened(u)),
         handles' = Append(handles, [f |-> f, off |-> n, open |-> TRUE, linked |-> TRUE]),
         fp' = [fp EXCEPT ![f].file = Len(handles) + 1],
         disk' \in [Files -> FileDisk], disk'[f].exist, disk'[f].data = disk[f].data,
         \A g \in Files \ {f} : disk'[g] = disk[g],
         hseen' \in FileSeen, hseen'.log = hseen.log, hseen'.moved = hseen.moved,
         hseen'.left = hseen.left,
         config.cur = -1 => n = Len(disk[f].data)
  PROVE  FileGood'
<1> DEFINE l == Len(handles)
           k == l + 1
           o == [f |-> f, off |-> n, open |-> TRUE, linked |-> TRUE]
<1>1. /\ fp \in [Files -> FilePtrs] /\ handles \in Seq(FileHandles) /\ disk \in [Files -> FileDisk]
      /\ hseen \in FileSeen /\ l \in Nat
  BY DEF FileGood, FileTypes
<1>2. o \in FileHandles /\ o.f = f /\ o.off = n /\ o.open = TRUE /\ o.linked = TRUE
  BY DEF FileHandles
<1> HIDE DEF o
<1>3. handles' = Append(handles, o)
  BY DEF o
<1>4. /\ handles' \in Seq(FileHandles) /\ Len(handles') = k /\ handles'[k] = o
      /\ \A h \in 1..l : handles'[h] = handles[h]
  BY <1>1, <1>2, <1>3
<1>5. 1..k = 1..l \cup {k} /\ k \notin 1..l /\ k \in Nat /\ k # 0
  BY <1>1
<1>6. /\ fp' \in [Files -> FilePtrs] /\ fp'[f].file = k /\ fp'[f].wr = fp[f].wr
      /\ fp'[f].rr = fp[f].rr /\ fp'[f].sr = fp[f].sr
      /\ \A g \in Files \ {f} : fp'[g] = fp[g]
  <2> DEFINE a == fp[f]
             b == [a EXCEPT !.file = k]
  <2>1. a \in FilePtrs /\ fp' = [fp EXCEPT ![f] = b]
    BY <1>1
  <2> HIDE DEF a, k
  <2>2. b \in FilePtrs /\ b.file = k /\ b.wr = a.wr /\ b.rr = a.rr /\ b.sr = a.sr
    BY <1>5, <2>1 DEF FilePtrs
  <2> HIDE DEF b
  <2>3. fp' \in [Files -> FilePtrs] /\ fp'[f] = b /\ \A g \in Files \ {f} : fp'[g] = fp[g]
    BY <1>1, <2>1, <2>2
  <2> QED
    BY <2>2, <2>3 DEF a
<1>7. /\ call' \in [FileUsers -> FileCall]
      /\ \A v \in FileUsers : v # u => call'[v] = call[v]
      /\ CallFits(call'[u]) /\ call'[u].pc \notin {"open", "open2"}
      /\ HoldsFile(call'[u], f)
      /\ \A g \in Files : HoldsFile(call[u], g) => HoldsFile(call'[u], g)
  BY FileOpenedAt
<1>8. ~HoldsFile(call[u], f)
  <2>1. CallFits(call[u])
    BY DEF FileGood, FileCalls
  <2> QED
    BY <2>1 DEF HoldsFile, CallFits, Handle!Of
<1> HIDE DEF l, k
<1>9. FileTypes'
  BY <1>4, <1>6, <1>7 DEF FileGood, FileTypes
<1>10. FileCalls' /\ FileOpens'
  <2>1. \A v \in FileUsers : CallFits(call'[v])
    BY <1>7 DEF FileGood, FileCalls
  <2>2. \A v \in FileUsers : call'[v].pc \notin {"open", "open2"}
    BY <1>7
  <2> QED
    BY <2>1, <2>2 DEF FileCalls, FileOpens
<1>11. \A g \in Files :
         /\ \A h \in {fp[g].file, fp[g].wr, fp[g].rr, fp[g].sr} : h # 0 => h \in 1..l /\ handles[h].f = g
         /\ fp[g].file # 0 => handles[fp[g].file].open
  BY DEF FileGood, FilePointers, l
<1>12. FilePointers'
  <2> SUFFICES ASSUME NEW g \in Files
               PROVE  /\ \A h \in {fp'[g].file, fp'[g].wr, fp'[g].rr, fp'[g].sr} :
                           h # 0 => h \in 1..k /\ handles'[h].f = g
                      /\ fp'[g].file # 0 => handles'[fp'[g].file].open
    BY <1>4 DEF FilePointers
  <2>1. ASSUME NEW h \in {fp'[g].file, fp'[g].wr, fp'[g].rr, fp'[g].sr}, h # 0
        PROVE  h \in 1..k /\ handles'[h].f = g
    <3>1. CASE g = f /\ h = k
      BY <1>2, <1>4, <1>5, <3>1
    <3>2. CASE ~(g = f /\ h = k)
      <4>1. h \in {fp[g].file, fp[g].wr, fp[g].rr, fp[g].sr}
        BY <1>6, <2>1, <3>2
      <4>2. h \in 1..l /\ handles[h].f = g
        BY <1>11, <2>1, <4>1
      <4> QED
        BY <1>4, <1>5, <4>2
    <3> QED
      BY <3>1, <3>2
  <2>2. ASSUME fp'[g].file # 0
        PROVE  handles'[fp'[g].file].open
    <3>1. CASE g = f
      BY <1>2, <1>4, <1>6, <3>1
    <3>2. CASE g # f
      <4>1. fp'[g].file = fp[g].file
        BY <1>6, <3>2
      <4>2. fp[g].file \in 1..l /\ handles[fp[g].file].open
        BY <1>11, <2>2, <4>1
      <4> QED
        BY <1>4, <4>1, <4>2
    <3> QED
      BY <3>1, <3>2
  <2> QED
    BY <2>1, <2>2
<1>13. FileOpened'
  <2> SUFFICES ASSUME NEW h \in 1..k, handles'[h].open
               PROVE  h = fp'[handles'[h].f].file \/ (config.auto /\ h \in hseen.left)
    BY <1>4 DEF FileOpened
  <2>1. CASE h = k
    BY <1>2, <1>4, <1>6, <2>1
  <2>2. CASE h \in 1..l
    <3>1. handles'[h] = handles[h]
      BY <1>4, <2>2
    <3>2. h = fp[handles[h].f].file \/ (config.auto /\ h \in hseen.left)
      BY <2>2, <3>1 DEF FileGood, FileOpened, l
    <3>3. handles[h].f \in Files
      BY <2>2, FileHandle DEF FileGood, l
    <3>4. CASE handles[h].f # f
      BY <1>6, <3>1, <3>2, <3>3, <3>4
    <3>5. CASE handles[h].f = f /\ h = fp[f].file
      <4>1. h # 0
        BY <1>1, <2>2
      <4>2. config.auto
        <5>1. config.auto \/ fp[OpensTo(call[u])].file = 0
          BY DEF FileGood, FileOpens
        <5>2. OpensTo(call[u]) = f
          BY DEF OpensTo, Handle!Of
        <5> QED
          BY <3>5, <4>1, <5>1, <5>2
      <4>3. fp[f].file \in {0} \cup hseen.left \/ \E v \in FileUsers : HoldsFile(call[v], f)
        BY <4>2 DEF FileGood, FileHeld
      <4>4. ASSUME NEW v \in FileUsers, HoldsFile(call[v], f)
            PROVE  FALSE
        BY <1>8, <4>4, FileAlone
      <4> QED
        BY <3>5, <4>1, <4>2, <4>3, <4>4
    <3> QED
      BY <3>2, <3>4, <3>5
  <2> QED
    BY <1>5, <2>1, <2>2
<1>14. FileHeld'
  <2> SUFFICES ASSUME config.auto, NEW g \in Files, g # f
               PROVE  fp'[g].file \in {0} \cup hseen.left \/ \E v \in FileUsers : HoldsFile(call'[v], g)
    BY <1>7 DEF FileHeld
  <2>1. fp[g].file \in {0} \cup hseen.left \/ \E v \in FileUsers : HoldsFile(call[v], g)
    BY DEF FileGood, FileHeld
  <2>2. ASSUME NEW v \in FileUsers, HoldsFile(call[v], g)
        PROVE  HoldsFile(call'[u], g)
    BY <1>7, <2>2, FileAlone
  <2> QED
    BY <1>6, <2>1, <2>2
<1>15. FileLinked'
  <2>1. ASSUME NEW h \in 1..k, handles'[h].linked
        PROVE  disk'[handles'[h].f].exist
    <3>1. CASE h = k
      BY <1>2, <1>4, <3>1
    <3>2. CASE h \in 1..l
      <4>1. handles'[h] = handles[h]
        BY <1>4, <3>2
      <4>2. handles[h].f \in Files /\ disk[handles[h].f].exist
        BY <2>1, <3>2, <4>1, FileHandle DEF FileGood, FileLinked, l
      <4> QED
        BY <4>1, <4>2
    <3> QED
      BY <1>5, <3>1, <3>2
  <2>2. \A g \in Files : ~disk'[g].exist => disk'[g].data = <<>>
    BY DEF FileGood, FileLinked
  <2> QED
    BY <1>4, <2>1, <2>2 DEF FileLinked
<1>16. FileAtEnd'
  <2> SUFFICES ASSUME config.cur = -1, ~hseen.moved, NEW g \in Files
               PROVE  /\ disk'[g].data = hseen.log[g]
                      /\ fp'[g].file # 0 /\ handles'[fp'[g].file].linked =>
                           handles'[fp'[g].file].off = Len(disk'[g].data)
    BY DEF FileAtEnd
  <2>1. /\ disk[g].data = hseen.log[g]
        /\ fp[g].file # 0 /\ handles[fp[g].file].linked =>
             handles[fp[g].file].off = Len(disk[g].data)
    BY DEF FileGood, FileAtEnd
  <2>2. CASE g = f
    BY <1>2, <1>4, <1>6, <2>1, <2>2
  <2>3. CASE g # f
    <3>1. fp'[g] = fp[g] /\ disk'[g] = disk[g]
      BY <1>6, <2>3
    <3>2. fp[g].file # 0 => handles'[fp[g].file] = handles[fp[g].file]
      BY <1>4, <1>11
    <3> QED
      BY <2>1, <3>1, <3>2
  <2> QED
    BY <2>2, <2>3
<1> QED
  BY <1>9, <1>10, <1>12, <1>13, <1>14, <1>15, <1>16 DEF FileGood

\* getRWCloser, the open, or its error.
LEMMA FileOpenFile ==
  ASSUME FileGood, NEW u \in FileUsers, Handle!OpenFile(u), ~hseen'.clash
  PROVE  FileGood'
<1> DEFINE f == Handle!Of(u)
           e == [exist |-> TRUE, data |-> <<>>]
           n == Handle!StartAt(disk[f].data)
<1>1. call[u].pc \in {"open", "open2"} /\ hseen' = Handle!Clash(u) /\ UNCHANGED config
  BY DEF Handle!OpenFile
<1>2. f \in Files /\ f = OpensTo(call[u])
  BY <1>1, FileOfCall DEF Handle!Of, OpensTo
<1>3. /\ call[u].seen <=> disk[f].exist
  BY <1>1, <1>2 DEF FileGood, FileOpens
<1>4. /\ hseen \in FileSeen /\ disk \in [Files -> FileDisk] /\ call \in [FileUsers -> FileCall]
      /\ \A g \in Files : ~disk[g].exist => disk[g].data = <<>>
  BY DEF FileGood, FileTypes, FileLinked
<1>5. /\ hseen' \in FileSeen /\ hseen'.log = hseen.log /\ hseen'.moved = hseen.moved
      /\ hseen'.left = hseen.left /\ \A v \in FileUsers : v # u => call[v].pc = "idle"
  BY <1>1, <1>4, FileClash
<1>6. Len(disk[f].data) \in Nat
  BY <1>2, <1>4 DEF FileDisk, FileData
<1>7. \/ /\ ~call[u].seen
         /\ disk' = [disk EXCEPT ![f] = e]
         /\ handles' = Append(handles, [f |-> f, off |-> 0, open |-> TRUE, linked |-> TRUE])
         /\ fp' = [fp EXCEPT ![f].file = Len(handles) + 1]
         /\ Handle!Goto(u, Handle!Opened(u))
      \/ /\ call[u].seen /\ disk[f].exist /\ n >= 0
         /\ handles' = Append(handles, [f |-> f, off |-> n, open |-> TRUE, linked |-> TRUE])
         /\ fp' = [fp EXCEPT ![f].file = Len(handles) + 1]
         /\ Handle!Goto(u, Handle!Opened(u))
         /\ UNCHANGED disk
      \/ /\ IF call[u].pc = "open" THEN Handle!Return(u) ELSE Handle!Goto(u, "unlock")
         /\ UNCHANGED <<disk, handles, fp>>
  BY DEF Handle!OpenFile
<1>8. config.cur \in Int /\ n = IF config.cur < 0 THEN Len(disk[f].data) + config.cur + 1 ELSE config.cur
  <2>1. config.cur \in CurIndexes /\ CurIndexes \subseteq Int
    BY SyncAssumptions DEF FileGood, FileTypes, Handle!FileHandleAssumption
  <2> QED
    BY <2>1 DEF Handle!StartAt
<1> HIDE DEF f, n, e
<1>9. CASE /\ ~call[u].seen
           /\ disk' = [disk EXCEPT ![f] = e]
           /\ handles' = Append(handles, [f |-> f, off |-> 0, open |-> TRUE, linked |-> TRUE])
           /\ fp' = [fp EXCEPT ![f].file = Len(handles) + 1]
           /\ Handle!Goto(u, Handle!Opened(u))
  <2>1. disk[f].data = <<>>
    BY <1>2, <1>3, <1>4, <1>9
  <2>2. e \in FileDisk /\ e.exist /\ e.data = <<>>
    BY DEF e, FileDisk, FileData
  <2>3. /\ disk' \in [Files -> FileDisk] /\ disk'[f].exist /\ disk'[f].data = disk[f].data
        /\ \A g \in Files \ {f} : disk'[g] = disk[g]
    BY <1>2, <1>4, <1>9, <2>1, <2>2
  <2>4. Len(disk[f].data) = 0 /\ 0 \in Nat
    BY <2>1
  <2> QED
    BY <1>1, <1>2, <1>5, <1>9, <2>3, <2>4, FileOpensAt DEF f
<1>10. CASE /\ call[u].seen /\ disk[f].exist /\ n >= 0
            /\ handles' = Append(handles, [f |-> f, off |-> n, open |-> TRUE, linked |-> TRUE])
            /\ fp' = [fp EXCEPT ![f].file = Len(handles) + 1]
            /\ Handle!Goto(u, Handle!Opened(u))
            /\ UNCHANGED disk
  <2>1. n \in Nat /\ (config.cur = -1 => n = Len(disk[f].data))
    BY <1>6, <1>8, <1>10
  <2>2. disk' \in [Files -> FileDisk] /\ disk'[f].exist
    BY <1>4, <1>10
  <2> QED
    BY <1>1, <1>2, <1>5, <1>10, <2>1, <2>2, FileOpensAt DEF f
<1>11. CASE /\ IF call[u].pc = "open" THEN Handle!Return(u) ELSE Handle!Goto(u, "unlock")
            /\ UNCHANGED <<disk, handles, fp>>
  <2>1. CallFits(call[u])
    BY DEF FileGood, FileCalls
  <2>2. CallGoes(u)
    <3>1. CASE call[u].pc = "open"
      <4>1. Handle!Return(u)
        BY <1>11, <3>1
      <4>2. /\ call' \in [FileUsers -> FileCall] /\ call'[u].pc = "idle"
            /\ \A v \in FileUsers : v # u => call'[v] = call[v]
        BY <1>4, <4>1, FileReturn
      <4>3. \A g \in Files : ~HoldsFile(call[u], g)
        BY <3>1 DEF HoldsFile
      <4> QED
        BY <4>2, <4>3 DEF CallGoes, CallFits
    <3>2. CASE call[u].pc = "open2"
      <4>1. Handle!Goto(u, "unlock") /\ "unlock" \in FilePcs
        BY <1>11, <3>2 DEF FilePcs
      <4>2. /\ call' \in [FileUsers -> FileCall] /\ call'[u].pc = "unlock"
            /\ call'[u].op = call[u].op /\ call'[u].f = call[u].f /\ call'[u].to = call[u].to
            /\ \A v \in FileUsers : v # u => call'[v] = call[v]
        BY <1>4, <4>1, FileGoto
      <4>3. CallFits(call'[u])
        BY <2>1, <3>2, <4>2 DEF CallFits
      <4>4. \A g \in Files : HoldsFile(call[u], g) => HoldsFile(call'[u], g)
        BY <3>2, <4>2 DEF HoldsFile
      <4> QED
        BY <4>2, <4>3, <4>4 DEF CallGoes
    <3> QED
      BY <1>1, <3>1, <3>2
  <2> QED
    BY <1>1, <1>5, <1>11, <2>2, FileQuiet
<1> QED
  BY <1>7, <1>9, <1>10, <1>11

\* A call begins, and holds nothing.
LEMMA FileBegin ==
  ASSUME FileGood, NEW u \in FileUsers, NEW op \in OpsOf[u], NEW f \in Files, NEW g \in Files,
         NEW try \in BOOLEAN, op = "copyTo" => f # g, Handle!Begin(u, op, f, g, try)
  PROVE  FileGood'
<1> DEFINE p == CASE op = "close" -> "close" [] op = "delete" -> "lock" [] OTHER -> "stat"
           c == [pc |-> p, op |-> op, f |-> f, to |-> g, try |-> try, seen |-> FALSE]
<1>1. /\ call[u].pc = "idle" /\ UNCHANGED <<config, disk, handles, fp>>
      /\ hseen' = [hseen EXCEPT !.calls = @ + 1]
      /\ call' = [call EXCEPT ![u] = c]
  BY DEF Handle!Begin, Handle!InCall
<1>2. op \in Handle!FileOps
  BY SyncAssumptions DEF Handle!FileHandleAssumption
<1>3. /\ p \in {"close", "lock", "stat"} /\ p \in FilePcs
      /\ p = "stat" => op \notin {"delete", "close"}
  <2>1. CASE op = "close"
    BY <2>1 DEF FilePcs
  <2>2. CASE op = "delete"
    BY <2>2 DEF FilePcs
  <2>3. CASE op \notin {"close", "delete"}
    BY <2>3 DEF FilePcs
  <2> QED
    BY <2>1, <2>2, <2>3
<1> HIDE DEF p
<1>4. c \in FileCall
  BY <1>2, <1>3 DEF FileCall
<1>5. c.pc = p /\ c.op = op /\ c.f = f /\ c.to = g
  OBVIOUS
<1>6. CallFits(c) /\ c.pc \notin {"open", "open2"}
  BY <1>3, <1>5 DEF CallFits
<1> HIDE DEF c
<1>7. hseen \in FileSeen /\ call \in [FileUsers -> FileCall]
  BY DEF FileGood, FileTypes
<1>8. call' \in [FileUsers -> FileCall] /\ call'[u] = c /\ \A v \in FileUsers : v # u => call'[v] = call[v]
  BY <1>1, <1>4, <1>7
<1>9. \A k \in Files : ~HoldsFile(call[u], k)
  BY <1>1 DEF HoldsFile
<1>10. CallGoes(u)
  BY <1>6, <1>8, <1>9 DEF CallGoes
<1>11. /\ hseen' \in FileSeen /\ hseen'.log = hseen.log /\ hseen'.moved = hseen.moved
       /\ hseen'.left = hseen.left
  <2> DEFINE n == hseen.calls + 1
  <2>1. n \in Nat /\ hseen' = [hseen EXCEPT !.calls = n]
    BY <1>1, <1>7 DEF FileSeen
  <2> HIDE DEF n
  <2>2. hseen' \in FileSeen
    BY <1>7, <2>1, Zenon DEF FileSeen
  <2>3. hseen'.log = hseen.log /\ hseen'.moved = hseen.moved /\ hseen'.left = hseen.left
    BY <1>7, <2>1, Zenon DEF FileSeen
  <2> QED
    BY <2>2, <2>3
<1> QED
  BY <1>1, <1>10, <1>11, FileQuiet

\* getRWCloser, up to the stat of the path.
LEMMA FileStat ==
  ASSUME FileGood, NEW u \in FileUsers, Handle!GetRWCloser(u)
  PROVE  FileGood'
<1> DEFINE f == Handle!Of(u)
<1>1. call[u].pc \in {"stat", "stat2"} /\ UNCHANGED <<config, disk, handles, fp, hseen>>
  BY DEF Handle!GetRWCloser
<1>2. /\ call[u] \in FileCall /\ CallFits(call[u]) /\ hseen \in FileSeen
      /\ call \in [FileUsers -> FileCall] /\ disk \in [Files -> FileDisk] /\ f \in Files
  BY FileOfCall DEF FileGood, FileTypes, FileCalls, Handle!Of
<1>3. CASE config.auto \/ fp[f].file = 0
  <2> DEFINE c == call[u]
             p == IF c.pc = "stat" THEN "open" ELSE "open2"
             b == disk[f].exist
             m1 == [c EXCEPT !.pc = p]
             d == [m1 EXCEPT !.seen = b]
  <2>1. call' = [call EXCEPT ![u] = d]
    BY <1>2, <1>3 DEF Handle!GetRWCloser, Handle!Stat
  <2>2. p \in FilePcs /\ b \in BOOLEAN
    BY <1>2 DEF FilePcs, FileDisk
  <2>3. \/ c.pc = "stat" /\ p = "open"
        \/ c.pc = "stat2" /\ p = "open2"
    BY <1>1
  <2> HIDE DEF c, p, b
  <2>4. c \in FileCall
    BY <1>2 DEF c
  <2>5. m1 \in FileCall
    BY <2>2, <2>4, Zenon DEF FileCall
  <2>6. m1.pc = p /\ m1.op = c.op /\ m1.f = c.f /\ m1.to = c.to
    BY <2>4 DEF FileCall
  <2> HIDE DEF m1
  <2>7. d \in FileCall
    BY <2>2, <2>5, Zenon DEF FileCall
  <2>8. d.pc = m1.pc /\ d.op = m1.op /\ d.f = m1.f /\ d.to = m1.to
    BY <2>5 DEF FileCall
  <2>9. d.seen = b
    BY <2>5, Zenon DEF FileCall
  <2> HIDE DEF d
  <2>10. call' \in [FileUsers -> FileCall] /\ call'[u] = d /\ \A v \in FileUsers : v # u => call'[v] = call[v]
    BY <1>2, <2>1, <2>7
  <2>11. CallFits(c)
    BY <1>2 DEF c
  <2>12. CallFits(d)
    BY <2>3, <2>6, <2>8, <2>11 DEF CallFits
  <2>13. \A g \in Files : HoldsFile(c, g) => HoldsFile(d, g)
    BY <2>3, <2>6, <2>8 DEF HoldsFile
  <2>14. OpensTo(d) = f
    BY <2>3, <2>6, <2>8 DEF OpensTo, Handle!Of, c
  <2>15. CallGoes(u)
    BY <1>3, <2>9, <2>10, <2>12, <2>13, <2>14 DEF CallGoes, b, c
  <2> QED
    BY <1>1, <1>2, <2>15, FileQuiet
<1>4. CASE ~(config.auto \/ fp[f].file = 0)
  <2>1. Handle!Goto(u, Handle!Opened(u))
    BY <1>4 DEF Handle!GetRWCloser
  <2>2. /\ call' \in [FileUsers -> FileCall]
        /\ \A v \in FileUsers : v # u => call'[v] = call[v]
        /\ CallFits(call'[u]) /\ call'[u].pc \notin {"open", "open2"}
    BY <1>1, <2>1, FileOpenedAt
  <2>3. CallGoes(u)
    BY <1>4, <2>2 DEF CallGoes
  <2> QED
    BY <1>1, <1>2, <2>3, FileQuiet
<1> QED
  BY <1>3, <1>4

\* The lock, or that there is none.
LEMMA FileLocking ==
  ASSUME FileGood, NEW u \in FileUsers, Handle!Locking(u)
  PROVE  FileGood'
<1>1. call[u].pc \in {"lock", "lock2"} /\ UNCHANGED <<config, disk, handles, fp, hseen>>
  BY DEF Handle!Locking
<1>2. /\ call[u] \in FileCall /\ CallFits(call[u]) /\ hseen \in FileSeen
      /\ call \in [FileUsers -> FileCall]
  BY DEF FileGood, FileTypes, FileCalls
<1>3. \/ call[u].pc = "lock" /\ call[u].op = "delete" /\ Handle!Return(u)
      \/ call[u].pc = "lock" /\ call[u].op = "copyTo" /\ Handle!Goto(u, "stat2")
      \/ call[u].pc = "lock" /\ Handle!Goto(u, "do")
      \/ call[u].pc = "lock" /\ Handle!Goto(u, "close")
      \/ call[u].pc = "lock2" /\ Handle!Goto(u, "do")
      \/ call[u].pc = "lock2" /\ Handle!Goto(u, "close2")
  <2> DEFINE o == call[u].op
             q == call[u].pc
  <2>1. \/ q = "lock" /\ Handle!Goto(u, IF o = "copyTo" THEN "stat2" ELSE "do")
        \/ Handle!Goto(u, "do")
        \/ CASE q = "lock2" -> Handle!Goto(u, "close2")
             [] o = "delete" -> Handle!Return(u)
             [] OTHER -> Handle!Goto(u, "close")
    BY DEF Handle!Locking
  <2>2. q = "lock2" => o = "copyTo"
    BY <1>2 DEF CallFits
  <2>3. q \in {"lock", "lock2"}
    BY <1>1
  <2> HIDE DEF q, o
  <2> QED
    BY <2>1, <2>2, <2>3 DEF q, o
<1>4. CASE call[u].pc = "lock" /\ call[u].op = "delete" /\ Handle!Return(u)
  <2>1. /\ call' \in [FileUsers -> FileCall] /\ call'[u].pc = "idle"
        /\ \A v \in FileUsers : v # u => call'[v] = call[v]
    BY <1>2, <1>4, FileReturn
  <2>2. \A g \in Files : ~HoldsFile(call[u], g)
    BY <1>4 DEF HoldsFile
  <2>3. CallGoes(u)
    BY <2>1, <2>2 DEF CallGoes, CallFits
  <2> QED
    BY <1>1, <1>2, <2>3, FileQuiet
<1>5. CASE \E p \in {"stat2", "do", "close", "close2"} :
             /\ Handle!Goto(u, p)
             /\ p = "stat2" => call[u].pc = "lock" /\ call[u].op = "copyTo"
             /\ p = "close" => call[u].pc = "lock"
             /\ p = "close2" => call[u].pc = "lock2"
  <2>1. PICK p \in {"stat2", "do", "close", "close2"} :
             /\ Handle!Goto(u, p)
             /\ p = "stat2" => call[u].pc = "lock" /\ call[u].op = "copyTo"
             /\ p = "close" => call[u].pc = "lock"
             /\ p = "close2" => call[u].pc = "lock2"
    BY <1>5
  <2>2. p \in FilePcs
    BY DEF FilePcs
  <2>3. /\ call' \in [FileUsers -> FileCall]
        /\ call'[u].pc = p /\ call'[u].op = call[u].op /\ call'[u].f = call[u].f
        /\ call'[u].to = call[u].to
        /\ \A v \in FileUsers : v # u => call'[v] = call[v]
    BY <1>2, <2>1, <2>2, FileGoto
  <2>4. CallFits(call'[u])
    BY <1>1, <1>2, <2>1, <2>3 DEF CallFits
  <2>5. \A g \in Files : HoldsFile(call[u], g) => HoldsFile(call'[u], g)
    BY <1>1, <1>2, <2>1, <2>3 DEF HoldsFile, CallFits
  <2>6. CallGoes(u)
    BY <2>3, <2>4, <2>5 DEF CallGoes
  <2> QED
    BY <1>1, <1>2, <2>6, FileQuiet
<1> QED
  BY <1>3, <1>4, <1>5

\* CopyTo gives back the lock of its own File.
LEMMA FileUnlock ==
  ASSUME FileGood, NEW u \in FileUsers, Handle!Unlock(u)
  PROVE  FileGood'
<1>1. /\ call[u].pc = "unlock" /\ UNCHANGED <<config, disk, handles, fp, hseen>>
      /\ Handle!Goto(u, "close") /\ "close" \in FilePcs
  BY DEF Handle!Unlock, FilePcs
<1>2. CallFits(call[u]) /\ hseen \in FileSeen /\ call \in [FileUsers -> FileCall]
  BY DEF FileGood, FileTypes, FileCalls
<1>3. /\ call' \in [FileUsers -> FileCall]
      /\ call'[u].pc = "close" /\ call'[u].op = call[u].op /\ call'[u].f = call[u].f
      /\ call'[u].to = call[u].to
      /\ \A v \in FileUsers : v # u => call'[v] = call[v]
  BY <1>1, <1>2, FileGoto
<1>4. CallFits(call'[u])
  BY <1>1, <1>2, <1>3 DEF CallFits
<1>5. \A g \in Files : HoldsFile(call[u], g) => HoldsFile(call'[u], g)
  BY <1>1, <1>3 DEF HoldsFile
<1>6. CallGoes(u)
  BY <1>3, <1>4, <1>5 DEF CallGoes
<1> QED
  BY <1>1, <1>2, <1>6, FileQuiet

\* A handle that is left open on purpose.
LEMMA FileLeave ==
  ASSUME FileGood, NEW u \in FileUsers, Handle!Leave(u)
  PROVE  FileGood'
<1> DEFINE h == fp[call[u].f].file
           l == hseen.left \cup {h}
<1>1. /\ call[u].pc = "leave" /\ UNCHANGED <<config, disk, handles, fp>> /\ Handle!Return(u)
      /\ hseen' = [hseen EXCEPT !.left = l]
  BY DEF Handle!Leave
<1>2. /\ CallFits(call[u]) /\ hseen \in FileSeen /\ call \in [FileUsers -> FileCall]
      /\ call[u].f \in Files /\ fp \in [Files -> FilePtrs]
  BY FileOfCall DEF FileGood, FileTypes, FileCalls
<1>3. l \in SUBSET Nat /\ hseen.left \subseteq l
  BY <1>2 DEF FilePtrs, FileSeen
<1> HIDE DEF l
<1>4. hseen' \in FileSeen
  BY <1>1, <1>2, <1>3, Zenon DEF FileSeen
<1>5. hseen'.log = hseen.log /\ hseen'.moved = hseen.moved /\ hseen'.left = l
  BY <1>1, <1>2, Zenon DEF FileSeen
<1>6. /\ call' \in [FileUsers -> FileCall] /\ call'[u].pc = "idle"
      /\ \A v \in FileUsers : v # u => call'[v] = call[v]
  BY <1>1, <1>2, FileReturn
<1>7. \A g \in Files : HoldsFile(call[u], g) => fp[g].file \in l
  BY <1>1, <1>2 DEF HoldsFile, CallFits, l
<1>8. CallGoes(u)
  BY <1>5, <1>6, <1>7 DEF CallGoes, CallFits
<1> QED
  BY <1>1, <1>3, <1>4, <1>5, <1>8, FileQuiet

\* The work of a call.
LEMMA FileDo ==
  ASSUME FileGood, NEW u \in FileUsers, Handle!Do(u), ~hseen'.clash
  PROVE  FileGood'
<1>1. /\ call[u].pc = "do" /\ UNCHANGED config
      /\ \/ Handle!Write(u)
         \/ Handle!Read(u)
         \/ Handle!Seek(u)
         \/ Handle!Look(u)
         \/ Handle!Delete(u)
         \/ Handle!CopyTo(u)
  BY DEF Handle!Do
<1>2. CASE call[u].op = "delete"
  <2>1. Handle!Return(u)
    BY <1>2 DEF Handle!Do
  <2>2. Handle!Delete(u)
    BY <1>1, <1>2 DEF Handle!Write, Handle!Read, Handle!Seek, Handle!Look, Handle!CopyTo
  <2> QED
    BY <1>1, <2>1, <2>2, FileDelete
<1>3. CASE call[u].op # "delete"
  <2>1. Handle!Goto(u, IF call[u].op = "copyTo" THEN "close2" ELSE "close")
    BY <1>3 DEF Handle!Do
  <2>2. CallGoes(u)
    BY <1>1, <1>3, <2>1, FileDone
  <2>3. ~Handle!Delete(u)
    BY <1>3 DEF Handle!Delete
  <2> QED
    BY <1>1, <2>2, <2>3, FileWrite, FileRead, FileSeek, FileLook, FileCopyTo
<1> QED
  BY <1>2, <1>3

\* Every step of a caller.
LEMMA FileStep == FileInv /\ [Handle!Next]_(Handle!vars) => FileInv'
<1> SUFFICES ASSUME FileInv, [Handle!Next]_(Handle!vars), ~hseen'.clash
             PROVE  FileGood'
  BY DEF FileInv
<1>1. CASE UNCHANGED Handle!vars
  BY <1>1 DEF Handle!vars, FileInv, FileGood, FileTypes, FileCalls, FileOpens, FilePointers,
     FileOpened, FileHeld, FileLinked, FileAtEnd, CallFits, OpensTo, HoldsFile
<1>2. CASE Handle!Next
  <2>1. FileGood
    BY <1>2 DEF FileInv, Handle!Next
  <2>2. PICK u \in FileUsers :
          \/ \E op \in OpsOf[u], f, g \in Files, try \in BOOLEAN :
               /\ IF op = "copyTo" THEN f # g ELSE f = Main /\ g = Main
               /\ op \in {"write", "copyTo"} \/ try
               /\ Handle!Begin(u, op, f, g, try)
          \/ Handle!GetRWCloser(u)
          \/ Handle!OpenFile(u)
          \/ Handle!Locking(u)
          \/ Handle!Do(u)
          \/ Handle!Unlock(u)
          \/ Handle!Close(u)
          \/ Handle!Leave(u)
    BY <1>2 DEF Handle!Next
  <2>3. ASSUME NEW op \in OpsOf[u], NEW f \in Files, NEW g \in Files, NEW try \in BOOLEAN,
               IF op = "copyTo" THEN f # g ELSE f = Main /\ g = Main,
               Handle!Begin(u, op, f, g, try)
        PROVE  FileGood'
    BY <2>1, <2>3, FileBegin
  <2> QED
    BY <2>1, <2>2, <2>3, FileStat, FileOpenFile, FileLocking, FileDo, FileUnlock, FileClose,
       FileLeave
<1> QED
  BY <1>1, <1>2

\* A File that begins at its end holds the writes, and an open handle is that of its
\* File or was left open.
LEMMA FileSafe == FileInv => Handle!SoloFile
<1> SUFFICES ASSUME FileGood
             PROVE  /\ config.cur = -1 /\ ~hseen.moved => \A f \in Files : disk[f].data = hseen.log[f]
                    /\ Handle!OpenHandles \subseteq {fp[f].file : f \in Files} \cup hseen.left
  BY DEF FileInv, Handle!SoloFile
<1>1. config.cur = -1 /\ ~hseen.moved => \A f \in Files : disk[f].data = hseen.log[f]
  BY DEF FileGood, FileAtEnd
<1>2. ASSUME NEW h \in Handle!OpenHandles
      PROVE  h \in {fp[f].file : f \in Files} \cup hseen.left
  <2>1. handles \in Seq(FileHandles) /\ DOMAIN handles = 1..Len(handles)
    BY DEF FileGood, FileTypes
  <2>2. h \in 1..Len(handles) /\ handles[h].open
    BY <2>1 DEF Handle!OpenHandles
  <2>3. handles[h].f \in Files
    BY <2>2, FileHandle DEF FileGood
  <2>4. h = fp[handles[h].f].file \/ h \in hseen.left
    BY <2>2 DEF FileGood, FileOpened
  <2> QED
    BY <2>3, <2>4
<1> QED
  BY <1>1, <1>2

\* A File, on its own.
LEMMA FileSolo == Handle!Spec => []Handle!SoloFile
BY FileInit, FileStep, FileSafe, PTL DEF Handle!Spec

----------------------------------------------------------------------------
(* Maps, blocks, pools and slots.                                           *)

\* NewBlocks, pool.Buf, a CacheWriter, and a MapExceeded with every operation.
First == INSTANCE Stores_proofs WITH
  Flex <- FALSE, TimedOps <- {"Store", "Load", "LoadOrStore", "GC", "Delete"}
\* A Map with Swap, NewFlexBlocks, and a MapExceeded with LoadOrStore alone.
Second == INSTANCE Stores_proofs WITH
  Ops <- {"Store", "Delete", "Swap"},
  m <- sm, size <- ssize, pc <- spc, todo <- stodo, calls <- scalls,
  TimedOps <- {"LoadOrStore"},
  blockNum <- flexNum, GetUsers <- FlexUsers, AutoUsers <- {}, Flex <- TRUE,
  free <- ffree, buf <- fbuf, cleanups <- fcleanups, place <- fplace, offset <- foffset,
  got <- fgot, last <- flast
\* A Map that one goroutine clears.
Third == INSTANCE Stores_proofs WITH
  Ops <- {"Store", "Delete", "CompareAndDelete", "ClearAll"},
  Keys <- ClearKeys, Threads <- {Cleaner}, MaxCalls <- MaxClears,
  m <- cm, size <- csize, pc <- cpc, todo <- ctodo, calls <- ccalls,
  Flex <- FALSE, TimedOps <- {}

\* The bounds of Map.
LEMMA FirstBounds == First!IsFiniteSet(Keys) /\ First!IsFiniteSet(Threads) /\ MaxCalls \in Nat
BY SizedMapAssumption DEF First!IsFiniteSet, IsFiniteSet

\* The bounds of the Map with Swap.
LEMMA SecondBounds == Second!IsFiniteSet(Keys) /\ Second!IsFiniteSet(Threads) /\ MaxCalls \in Nat
BY SizedMapAssumption DEF Second!IsFiniteSet, IsFiniteSet

\* The bounds of the Map that is cleared.
LEMMA ThirdBounds ==
  Third!IsFiniteSet(ClearKeys) /\ Third!IsFiniteSet({Cleaner}) /\ MaxClears \in Nat
<1>1. IsFiniteSet({Cleaner})
  BY FS_Singleton
<1> QED
  BY <1>1, SyncAssumptions DEF Third!IsFiniteSet, IsFiniteSet

----------------------------------------------------------------------------
\* Swap makes Len too small, never too large.
LEMMA SwapsTooFew == Swaps!Spec => []Swaps!NeverTooMany
<1>1. Second!Spec => []Second!NeverTooMany
  BY SecondBounds, Second!NeverTooManyCorrect
<1>2. Swaps!Init <=> Second!Init
  BY DEF
      Swaps!Init, Second!Init
<1>3. [Swaps!Next]_(Swaps!vars) <=> [Second!Next]_(Second!vars)
  BY DEF
      Swaps!Next, Second!Next, Swaps!vars, Second!vars, Swaps!Add, Second!Add, Swaps!Sub,
      Second!Sub, Swaps!ClearAll, Second!ClearAll, Swaps!ClearEnd, Second!ClearEnd, Swaps!Store,
      Second!Store, Swaps!Swap, Second!Swap, Swaps!Delete, Second!Delete,
      Swaps!CompareAndDelete, Second!CompareAndDelete, Swaps!ClearKey, Second!ClearKey,
      Swaps!Goto, Second!Goto, Swaps!Begin, Second!Begin
<1>4. Swaps!NeverTooMany <=> Second!NeverTooMany
  BY DEF
      Swaps!NeverTooMany, Second!NeverTooMany, Swaps!At, Second!At,
      Swaps!Cardinality, Second!Cardinality
<1> QED
  BY <1>1, <1>2, <1>3, <1>4, PTL DEF Swaps!Spec, Second!Spec

\* A single user of ClearAll has an exact Len.
LEMMA ClearsExact == Clears!Spec => []Clears!LenExact
<1>1. Third!Spec => []Third!LenExact
  BY ThirdBounds, Third!ClearCorrect
<1>2. Clears!Init <=> Third!Init
  BY DEF
      Clears!Init, Third!Init
<1>3. [Clears!Next]_(Clears!vars) <=> [Third!Next]_(Third!vars)
  BY DEF
      Clears!Next, Third!Next, Clears!vars, Third!vars, Clears!Add, Third!Add, Clears!Sub,
      Third!Sub, Clears!ClearAll, Third!ClearAll, Clears!ClearEnd, Third!ClearEnd, Clears!Store,
      Third!Store, Clears!Swap, Third!Swap, Clears!Delete, Third!Delete,
      Clears!CompareAndDelete, Third!CompareAndDelete, Clears!ClearKey, Third!ClearKey,
      Clears!Goto, Third!Goto, Clears!Begin, Third!Begin
<1>4. Clears!LenExact <=> Third!LenExact
  BY DEF
      Clears!LenExact, Third!LenExact,
      Clears!Cardinality, Third!Cardinality
<1> QED
  BY <1>1, <1>2, <1>3, <1>4, PTL DEF Clears!Spec, Third!Spec

\* No block is lost.
LEMMA PlainAccounted == PlainBlocks!Spec => []PlainBlocks!Accounted
<1>1. First!BL!BlocksAssumption
  BY SyncAssumptions DEF First!BL!BlocksAssumption, PlainBlocks!BlocksAssumption,
     First!BL!Users, PlainBlocks!Users
<1>2. First!BL!Spec => []First!BL!Accounted
  BY <1>1, FirstBounds, First!AccountedCorrect
<1>3. PlainBlocks!Init <=> First!BL!Init
  BY DEF
      PlainBlocks!Init, First!BL!Init, PlainBlocks!Offsets, First!BL!Offsets, PlainBlocks!Users,
      First!BL!Users
<1>4. [PlainBlocks!Next]_(PlainBlocks!vars) <=> [First!BL!Next]_(First!BL!vars)
  BY DEF
      PlainBlocks!Next, First!BL!Next, PlainBlocks!vars, First!BL!vars, PlainBlocks!Users,
      First!BL!Users, PlainBlocks!Get, First!BL!Get, PlainBlocks!GetAuto, First!BL!GetAuto,
      PlainBlocks!PutBack, First!BL!PutBack, PlainBlocks!Send, First!BL!Send,
      PlainBlocks!AutoEnd, First!BL!AutoEnd, PlainBlocks!Cleanup, First!BL!Cleanup,
      PlainBlocks!Take, First!BL!Take, PlainBlocks!Cap, First!BL!Cap
<1>5. PlainBlocks!Accounted <=> First!BL!Accounted
  BY DEF
      PlainBlocks!Accounted, First!BL!Accounted, PlainBlocks!Offsets, First!BL!Offsets,
      PlainBlocks!Has, First!BL!Has,
      PlainBlocks!Cardinality, First!BL!Cardinality
<1> QED
  BY <1>2, <1>3, <1>4, <1>5, PTL DEF PlainBlocks!Spec, First!BL!Spec

\* Get of flexBlocks gives what was put back last.
LEMMA FlexLastPut == FlexBlocks!Spec => []FlexBlocks!LastPutSeen
<1>1. Second!BL!BlocksAssumption
  BY SyncAssumptions DEF Second!BL!BlocksAssumption, FlexBlocks!BlocksAssumption,
     Second!BL!Users, FlexBlocks!Users
<1>2. Second!BL!Spec => []Second!BL!LastPutSeen
  BY <1>1, SecondBounds, Second!LastPutCorrect
<1>3. FlexBlocks!Init <=> Second!BL!Init
  BY DEF
      FlexBlocks!Init, Second!BL!Init, FlexBlocks!Offsets, Second!BL!Offsets, FlexBlocks!Users,
      Second!BL!Users
<1>4. [FlexBlocks!Next]_(FlexBlocks!vars) <=> [Second!BL!Next]_(Second!BL!vars)
  BY DEF
      FlexBlocks!Next, Second!BL!Next, FlexBlocks!vars, Second!BL!vars, FlexBlocks!Users,
      Second!BL!Users, FlexBlocks!Get, Second!BL!Get, FlexBlocks!GetAuto, Second!BL!GetAuto,
      FlexBlocks!PutBack, Second!BL!PutBack, FlexBlocks!Send, Second!BL!Send,
      FlexBlocks!AutoEnd, Second!BL!AutoEnd, FlexBlocks!Cleanup, Second!BL!Cleanup,
      FlexBlocks!Take, Second!BL!Take, FlexBlocks!Cap, Second!BL!Cap
<1>5. FlexBlocks!LastPutSeen <=> Second!BL!LastPutSeen
  BY DEF
      FlexBlocks!LastPutSeen, Second!BL!LastPutSeen
<1> QED
  BY <1>2, <1>3, <1>4, <1>5, PTL DEF FlexBlocks!Spec, Second!BL!Spec

\* No object has two owners.
LEMMA PoolOnce == Pool!Spec => []Pool!HandedOutOnce
<1>1. First!PO!PoolsAssumption
  BY SyncAssumptions DEF First!PO!PoolsAssumption, Pool!PoolsAssumption
<1>2. First!PO!Spec => []First!PO!HandedOutOnce
  BY <1>1, FirstBounds, First!HandedOutOnceCorrect
<1>3. Pool!Init <=> First!PO!Init
  BY DEF
      Pool!Init, First!PO!Init
<1>4. [Pool!Next]_(Pool!vars) <=> [First!PO!Next]_(First!PO!vars)
  BY DEF
      Pool!Next, First!PO!Next, Pool!vars, First!PO!vars, Pool!GetPooled, First!PO!GetPooled,
      Pool!GetNew, First!PO!GetNew, Pool!Put, First!PO!Put, Pool!StopsWork, First!PO!StopsWork,
      Pool!LoadOrInit, First!PO!LoadOrInit, Pool!DeleteKey, First!PO!DeleteKey, Pool!Reusable,
      First!PO!Reusable, Pool!Hand, First!PO!Hand, Pool!Idle, First!PO!Idle, Pool!Busy,
      First!PO!Busy,
      Pool!Cardinality, First!PO!Cardinality
<1>5. Pool!HandedOutOnce <=> First!PO!HandedOutOnce
  BY DEF
      Pool!HandedOutOnce, First!PO!HandedOutOnce,
      Pool!Cardinality, First!PO!Cardinality
<1> QED
  BY <1>2, <1>3, <1>4, <1>5, PTL DEF Pool!Spec, First!PO!Spec

\* The writer below gets whole pieces in order.
LEMMA CachedInOrder == Cached!Spec => []Cached!CachedWhole
<1>1. First!CW!CacheWriterAssumption
  BY SyncAssumptions DEF First!CW!CacheWriterAssumption, Cached!CacheWriterAssumption
<1>2. First!CW!Spec => []First!CW!CachedWhole
  BY <1>1, FirstBounds, First!CachedWholeCorrect
<1>3. Cached!Init <=> First!CW!Init
  BY DEF
      Cached!Init, First!CW!Init, Cached!Slots, First!CW!Slots, Cached!Place, First!CW!Place
<1>4. [Cached!Next]_(Cached!vars) <=> [First!CW!Next]_(First!CW!vars)
  BY DEF
      Cached!Next, First!CW!Next, Cached!vars, First!CW!vars, Cached!Number, First!CW!Number,
      Cached!Swap, First!CW!Swap, Cached!Fill, First!CW!Fill, Cached!Send, First!CW!Send,
      Cached!Receive, First!CW!Receive, Cached!WriteBelow, First!CW!WriteBelow, Cached!Release,
      First!CW!Release, Cached!Place, First!CW!Place
<1>5. Cached!CachedWhole <=> First!CW!CachedWhole
  BY DEF
      Cached!CachedWhole, First!CW!CachedWhole, Cached!InHand, First!CW!InHand, Cached!Pending,
      First!CW!Pending
<1> QED
  BY <1>2, <1>3, <1>4, <1>5, PTL DEF Cached!Spec, First!CW!Spec

\* "loaded" comes with data, with every operation in use.
LEMMA ExceededData == Exceeded!Spec => []Exceeded!LoadedHasData
<1>1. First!ME!Spec => []First!ME!LoadedHasData
  BY FirstBounds, First!LoadedHasDataCorrect
<1>2. Exceeded!Init <=> First!ME!Init
  BY DEF
      Exceeded!Init, First!ME!Init, Exceeded!Hand, First!ME!Hand, Exceeded!NoResult,
      First!ME!NoResult
<1>3. [Exceeded!Next]_(Exceeded!vars) <=> [First!ME!Next]_(First!ME!vars)
  BY DEF
      Exceeded!Next, First!ME!Next, Exceeded!vars, First!ME!vars, Exceeded!Expire,
      First!ME!Expire, Exceeded!Delete, First!ME!Delete, Exceeded!LoadItem, First!ME!LoadItem,
      Exceeded!GCVisit, First!ME!GCVisit, Exceeded!Store, First!ME!Store, Exceeded!LoadOrStore,
      First!ME!LoadOrStore, Exceeded!LoadExp, First!ME!LoadExp, Exceeded!LoadData,
      First!ME!LoadData, Exceeded!LoadDelete, First!ME!LoadDelete, Exceeded!GC, First!ME!GC,
      Exceeded!GCDelete, First!ME!GCDelete, Exceeded!GCEnd, First!ME!GCEnd, Exceeded!Read,
      First!ME!Read, Exceeded!NoStore, First!ME!NoStore, Exceeded!StoreData, First!ME!StoreData,
      Exceeded!StoreExp, First!ME!StoreExp, Exceeded!Begin, First!ME!Begin, Exceeded!Return,
      First!ME!Return, Exceeded!Rul, First!ME!Rul, Exceeded!Hand, First!ME!Hand, Exceeded!Goto,
      First!ME!Goto, Exceeded!SeenLive, First!ME!SeenLive, Exceeded!SeenData, First!ME!SeenData
<1>4. Exceeded!LoadedHasData <=> First!ME!LoadedHasData
  BY DEF
      Exceeded!LoadedHasData, First!ME!LoadedHasData, Exceeded!LoadOrStore,
      First!ME!LoadOrStore, Exceeded!Begin, First!ME!Begin, Exceeded!Hand, First!ME!Hand,
      Exceeded!Goto, First!ME!Goto
<1> QED
  BY <1>1, <1>2, <1>3, <1>4, PTL DEF Exceeded!Spec, First!ME!Spec

\* "loaded" comes with data, with LoadOrStore alone.
LEMMA StoresData == Stores!Spec => []Stores!LoadedHasData
<1>1. Second!ME!Spec => []Second!ME!LoadedHasData
  BY SecondBounds, Second!LoadedHasDataCorrect
<1>2. Stores!Init <=> Second!ME!Init
  BY DEF
      Stores!Init, Second!ME!Init, Stores!Hand, Second!ME!Hand, Stores!NoResult,
      Second!ME!NoResult
<1>3. [Stores!Next]_(Stores!vars) <=> [Second!ME!Next]_(Second!ME!vars)
  BY DEF
      Stores!Next, Second!ME!Next, Stores!vars, Second!ME!vars, Stores!Expire, Second!ME!Expire,
      Stores!Delete, Second!ME!Delete, Stores!LoadItem, Second!ME!LoadItem, Stores!GCVisit,
      Second!ME!GCVisit, Stores!Store, Second!ME!Store, Stores!LoadOrStore,
      Second!ME!LoadOrStore, Stores!LoadExp, Second!ME!LoadExp, Stores!LoadData,
      Second!ME!LoadData, Stores!LoadDelete, Second!ME!LoadDelete, Stores!GC, Second!ME!GC,
      Stores!GCDelete, Second!ME!GCDelete, Stores!GCEnd, Second!ME!GCEnd, Stores!Read,
      Second!ME!Read, Stores!NoStore, Second!ME!NoStore, Stores!StoreData, Second!ME!StoreData,
      Stores!StoreExp, Second!ME!StoreExp, Stores!Begin, Second!ME!Begin, Stores!Return,
      Second!ME!Return, Stores!Rul, Second!ME!Rul, Stores!Hand, Second!ME!Hand, Stores!Goto,
      Second!ME!Goto, Stores!SeenLive, Second!ME!SeenLive, Stores!SeenData, Second!ME!SeenData
<1>4. Stores!LoadedHasData <=> Second!ME!LoadedHasData
  BY DEF
      Stores!LoadedHasData, Second!ME!LoadedHasData, Stores!LoadOrStore, Second!ME!LoadOrStore,
      Stores!Begin, Second!ME!Begin, Stores!Hand, Second!ME!Hand, Stores!Goto, Second!ME!Goto
<1> QED
  BY <1>1, <1>2, <1>3, <1>4, PTL DEF Stores!Spec, Second!ME!Spec

\* What LoadOrStore alone stores is found until it is over.
LEMMA StoresFound == Stores!Spec => []Stores!StoredFound
<1>1. Second!ME!MapExceededAssumption
  BY SyncAssumptions DEF Second!ME!MapExceededAssumption, Stores!MapExceededAssumption
<1>2. Second!ME!Spec => []Second!ME!StoredFound
  BY <1>1, SecondBounds, Second!StoredFoundCorrect
<1>3. Stores!Init <=> Second!ME!Init
  BY DEF
      Stores!Init, Second!ME!Init, Stores!Hand, Second!ME!Hand, Stores!NoResult,
      Second!ME!NoResult
<1>4. [Stores!Next]_(Stores!vars) <=> [Second!ME!Next]_(Second!ME!vars)
  BY DEF
      Stores!Next, Second!ME!Next, Stores!vars, Second!ME!vars, Stores!Expire, Second!ME!Expire,
      Stores!Delete, Second!ME!Delete, Stores!LoadItem, Second!ME!LoadItem, Stores!GCVisit,
      Second!ME!GCVisit, Stores!Store, Second!ME!Store, Stores!LoadOrStore,
      Second!ME!LoadOrStore, Stores!LoadExp, Second!ME!LoadExp, Stores!LoadData,
      Second!ME!LoadData, Stores!LoadDelete, Second!ME!LoadDelete, Stores!GC, Second!ME!GC,
      Stores!GCDelete, Second!ME!GCDelete, Stores!GCEnd, Second!ME!GCEnd, Stores!Read,
      Second!ME!Read, Stores!NoStore, Second!ME!NoStore, Stores!StoreData, Second!ME!StoreData,
      Stores!StoreExp, Second!ME!StoreExp, Stores!Begin, Second!ME!Begin, Stores!Return,
      Second!ME!Return, Stores!Rul, Second!ME!Rul, Stores!Hand, Second!ME!Hand, Stores!Goto,
      Second!ME!Goto, Stores!SeenLive, Second!ME!SeenLive, Stores!SeenData, Second!ME!SeenData
<1>5. Stores!StoredFound <=> Second!ME!StoredFound
  BY DEF
      Stores!StoredFound, Second!ME!StoredFound
<1> QED
  BY <1>2, <1>3, <1>4, <1>5, PTL DEF Stores!Spec, Second!ME!Spec

----------------------------------------------------------------------------
(* tmplKV and idpool: the ids.                                             *)

\* The pool p is in order when the ids U are in use and those of s wait: no id is
\* in two of the places U, s and p.free, and the pool counts those in use and
\* those that wait.
Ids(p, U, s) ==
  /\ p \in [made : Nat, free : SUBSET Nat, sum : Int]
  /\ p.free \subseteq 1..p.made /\ U \subseteq 1..p.made
  /\ s \in Seq(Nat)
  /\ \A i \in 1..Len(s) : s[i] \in 1..p.made /\ s[i] \notin U /\ s[i] \notin p.free
  /\ \A i, j \in 1..Len(s) : s[i] = s[j] => i = j
  /\ U \cap p.free = {}
  /\ p.sum = Cardinality(U) + Len(s)

\* The ids in use are finitely many.
LEMMA IdsFinite ==
  ASSUME NEW p, NEW U, NEW s, Ids(p, U, s)
  PROVE  IsFiniteSet(U) /\ Cardinality(U) \in Nat
<1>1. p.made \in Nat /\ U \subseteq 1..p.made
  BY DEF Ids
<1>2. IsFiniteSet(1..p.made)
  BY <1>1, FS_Interval
<1> QED
  BY <1>1, <1>2, FS_Subset, FS_CardinalityType

\* An id that is given back to the pool is free there.
LEMMA IdsPut ==
  ASSUME NEW p, NEW U, NEW s, Ids(p, U, s), NEW x \in U
  PROVE  Ids(KV!AfterPut(p, x), U \ {x}, s)
<1>1. Cardinality(U \ {x}) = Cardinality(U) - 1 /\ Cardinality(U) \in Nat
  BY IdsFinite, FS_RemoveElement
<1> QED
  BY <1>1 DEF Ids, KV!AfterPut

\* Get gives an id that nobody has.
LEMMA IdsGet ==
  ASSUME NEW p, NEW U, NEW s, Ids(p, U, s), NEW x \in KV!GetIds(p)
  PROVE  x \notin U /\ Ids(KV!AfterGet(p, x), U \cup {x}, s)
<1>1. x \notin U
  BY DEF Ids, KV!GetIds
<1>2. Cardinality(U \cup {x}) = Cardinality(U) + 1 /\ Cardinality(U) \in Nat
  BY <1>1, IdsFinite, FS_AddElement
<1>3. CASE x \in p.free
  BY <1>1, <1>2, <1>3 DEF Ids, KV!AfterGet
<1>4. CASE x \notin p.free /\ x = p.made + 1
  <2> DEFINE q == KV!AfterGet(p, x)
  <2>1. /\ q \in [made : Nat, free : SUBSET Nat, sum : Int]
        /\ q.made = p.made + 1 /\ q.free = p.free /\ q.sum = p.sum + 1
    BY <1>4 DEF Ids, KV!AfterGet
  <2>2. /\ p.made \in Nat /\ p.free \subseteq 1..p.made /\ U \subseteq 1..p.made /\ p.sum \in Int
        /\ U \cap p.free = {} /\ s \in Seq(Nat) /\ p.sum = Cardinality(U) + Len(s)
    BY DEF Ids
  <2> HIDE DEF q
  <2>3. x \notin 1..p.made /\ 1..p.made \subseteq 1..q.made /\ x \in 1..q.made
    BY <1>4, <2>1, <2>2
  <2>4. \A i \in 1..Len(s) : s[i] \in 1..p.made /\ s[i] \notin U /\ s[i] \notin p.free
    BY DEF Ids
  <2>5. /\ (U \cup {x}) \cap q.free = {} /\ q.free \subseteq 1..q.made
        /\ U \cup {x} \subseteq 1..q.made
    BY <2>1, <2>2, <2>3
  <2>6. q.sum = Cardinality(U \cup {x}) + Len(s)
    BY <1>2, <2>1, <2>2
  <2>7. \A i \in 1..Len(s) : s[i] \in 1..q.made /\ s[i] \notin U \cup {x} /\ s[i] \notin q.free
    BY <2>1, <2>3, <2>4
  <2>8. \A i, j \in 1..Len(s) : s[i] = s[j] => i = j
    BY DEF Ids
  <2>9. Ids(q, U \cup {x}, s)
    BY <2>1, <2>2, <2>3, <2>5, <2>6, <2>7, <2>8 DEF Ids
  <2> QED
    BY <1>1, <2>9 DEF q
<1> QED
  BY <1>3, <1>4 DEF KV!GetIds

\* sync.Pool may drop a free id.
LEMMA IdsDrop ==
  ASSUME NEW p, NEW U, NEW s, Ids(p, U, s), NEW x
  PROVE  Ids([p EXCEPT !.free = p.free \ {x}], U, s)
BY DEF Ids

\* tmplK.free: the id waits, and the front of the list goes back beyond the limit.
LEMMA IdsFree ==
  ASSUME NEW p, NEW U, NEW s, Ids(p, U, s), NEW x \in U
  PROVE  Ids(KV!AfterFree(p, s, x).p, U \ {x}, KV!AfterFree(p, s, x).s)
<1> DEFINE t == Append(s, x)
           V == U \ {x}
<1>1. s \in Seq(Nat) /\ x \in Nat
  BY DEF Ids
<1>2. /\ t \in Seq(Nat) /\ Len(t) = Len(s) + 1 /\ Len(s) \in Nat
      /\ \A i \in 1..Len(s) : t[i] = s[i]
      /\ t[Len(s) + 1] = x
  BY <1>1
<1>3. Cardinality(V) = Cardinality(U) - 1 /\ Cardinality(U) \in Nat
  BY IdsFinite, FS_RemoveElement
<1>4. Ids(p, V, t)
  <2>1. \A i \in 1..Len(t) : t[i] \in 1..p.made /\ t[i] \notin V /\ t[i] \notin p.free
    BY <1>2 DEF Ids
  <2>2. \A i, j \in 1..Len(t) : t[i] = t[j] => i = j
    BY <1>2 DEF Ids
  <2>3. p.sum = Cardinality(V) + Len(t)
    BY <1>2, <1>3 DEF Ids
  <2> QED
    BY <1>2, <2>1, <2>2, <2>3 DEF Ids
<1>5. Ids(KV!AfterPut(p, Head(t)), V, Tail(t))
  <2> DEFINE q == KV!AfterPut(p, Head(t))
             u == Tail(t)
  <2>1. /\ u \in Seq(Nat) /\ Len(u) = Len(t) - 1 /\ Len(u) \in Nat
        /\ Head(t) = t[1]
        /\ \A i \in 1..Len(u) : u[i] = t[i + 1]
    BY <1>2
  <2>2. /\ q.made = p.made /\ q.free = p.free \cup {t[1]} /\ q.sum = p.sum - 1
        /\ DOMAIN q = {"made", "free", "sum"}
        /\ q = [made |-> q.made, free |-> q.free, sum |-> q.sum]
    BY <2>1 DEF KV!AfterPut
  <2>3. /\ p.made \in Nat /\ p.free \subseteq 1..p.made /\ p.sum \in Int /\ V \subseteq 1..p.made
        /\ p.sum = Cardinality(V) + Len(t) /\ V \cap p.free = {}
    BY <1>4 DEF Ids
  <2>4. /\ 1 \in 1..Len(t) /\ t[1] \in 1..p.made /\ t[1] \notin V
        /\ \A i \in 1..Len(u) : i + 1 \in 1..Len(t) /\ i + 1 # 1
    BY <1>2, <1>4, <2>1 DEF Ids
  <2>5. q \in [made : Nat, free : SUBSET Nat, sum : Int] /\ q.free \subseteq 1..q.made
    BY <2>2, <2>3, <2>4
  <2>6. \A i \in 1..Len(u) : u[i] \in 1..q.made /\ u[i] \notin V /\ u[i] \notin q.free
    BY <1>4, <2>1, <2>2, <2>4 DEF Ids
  <2>7. \A i, j \in 1..Len(u) : u[i] = u[j] => i = j
    <3> TAKE i, j \in 1..Len(u)
    <3> HAVE u[i] = u[j]
    <3>1. i + 1 \in 1..Len(t) /\ j + 1 \in 1..Len(t) /\ t[i + 1] = t[j + 1]
      BY <2>1, <2>4
    <3>2. i + 1 = j + 1
      BY <1>4, <3>1 DEF Ids
    <3> QED
      BY <2>1, <3>2
  <2>8. q.sum = Cardinality(V) + Len(u) /\ V \cap q.free = {}
    <3> HIDE DEF q, u, V, t
    <3>1. Cardinality(V) \in Int /\ Len(t) \in Int
      BY <1>2, <1>3
    <3>2. q.sum = Cardinality(V) + Len(u)
      BY <2>1, <2>2, <2>3, <3>1
    <3>3. V \cap q.free = {}
      BY <2>2, <2>3, <2>4
    <3> QED
      BY <3>2, <3>3
  <2> HIDE DEF q, u, V, t
  <2>9. Ids(q, V, u)
    BY <2>1, <2>2, <2>3, <2>5, <2>6, <2>7, <2>8 DEF Ids
  <2> QED
    BY <2>9 DEF q, u
<1> QED
  BY <1>4, <1>5 DEF KV!AfterFree

\* The ids of the keys in f, each with one key, and the ids in use.
IdsOf(f) == {f[k].id : k \in DOMAIN f}
OneKeyEach(f) == \A k, l \in DOMAIN f : f[k].id = f[l].id => k = l
Kept == (DOMAIN vm \ KV!Dying) \cup KV!Taken
InUse == IF kind = "v" THEN Kept ELSE IdsOf(km)

\* The calls of tmplV: an id that a Set has taken is its own and is not in the map, an id
\* that a Get has looked at is in the map, and alone a Get gives it back.
CallsApart ==
  /\ vcall = [u \in PoolUsers |-> vcall[u]]
  /\ \A u \in PoolUsers : KV!At(u, "store") => vcall[u].id \notin DOMAIN vm
  /\ \A u, w \in PoolUsers :
       KV!At(u, "store") /\ KV!At(w, "store") /\ vcall[u].id = vcall[w].id => u = w
  /\ \A u \in PoolUsers : KV!At(u, "seen") \/ KV!At(u, "del") => vcall[u].id \in DOMAIN vm
  /\ \A u, w \in PoolUsers :
       KV!At(u, "del") /\ (KV!At(w, "seen") \/ KV!At(w, "del")) /\ vcall[u].id = vcall[w].id => u = w

\* The calls that may yet make an entry, or have yet to delete one; with the ids in use
\* they are fewer than the limit and all goroutines.
Busy == {u \in PoolUsers : KV!At(u, "take") \/ KV!At(u, "del")}
FewBusy ==
  stuck = {} /\ SumInDruation >= 0 /\ PoolUsers # {} =>
    Cardinality(Kept) + Cardinality(Busy) < SumInDruation + Cardinality(PoolUsers)

\* The users of tmplV are finitely many.
LEMMA UsersFinite ==
  /\ IsFiniteSet(PoolUsers) /\ Cardinality(PoolUsers) \in Nat
  /\ PoolUsers # {} => Cardinality(PoolUsers) \in Nat \ {0}
<1>1. KV!IsFiniteSet(PoolUsers) <=> IsFiniteSet(PoolUsers)
  BY DEF KV!IsFiniteSet, IsFiniteSet
<1>2. IsFiniteSet(PoolUsers)
  BY <1>1, SyncAssumptions DEF KV!TmplAssumption
<1> QED
  BY <1>2, FS_EmptySet, FS_CardinalityType

\* The pool is in order, the stores a behaviour is not about are empty, no id is with two
\* keys, and as long as the calls of tmplV have not met, they are apart and few.
IdsInv ==
  /\ kind \in {"kv", "k", "v"} /\ SumInDruation \in Int
  /\ kind # "k" => km = <<>> /\ slow = <<>>
  /\ kind # "v" => vm = <<>> /\ clash = {} /\ \A u \in PoolUsers : KV!At(u, "idle")
  /\ stuck # {} => vm = <<>>
  /\ OneKeyEach(km)
  /\ clash = {} => Ids(ids, InUse, slow) /\ CallsApart /\ FewBusy

\* What tmplKV keeps is kept for ever or until one second after it was set, and
\* what Get last called live was such an entry, in time.
TimesInv ==
  /\ now \in Nat
  /\ \A k \in DOMAIN kv :
       /\ kv[k].kt \in Int /\ kv[k].at \in Int
       /\ kv[k].kt < 0 \/ kv[k].kt = kv[k].at + 1
  /\ seen.op = "kv" /\ seen.live /\ now > 0 =>
       seen.had # <<>> /\ (seen.had[1].kt < 0 \/ now - seen.had[1].at <= 1)

\* At the start nothing is in use.
LEMMA KVInit == KV!Init => IdsInv /\ TimesInv
<1> SUFFICES ASSUME KV!Init
             PROVE  IdsInv /\ TimesInv
  OBVIOUS
<1>1. IdsOf(km) = {} /\ DOMAIN km = {} /\ DOMAIN vm = {} /\ DOMAIN kv = {}
  BY DEF KV!Init, IdsOf
<1>2. Cardinality({}) = 0
  BY FS_EmptySet
<1>3. /\ vcall = [u \in PoolUsers |-> KV!Idle]
      /\ \A u \in PoolUsers : vcall[u].pc = "idle"
  BY DEF KV!Init, KV!Idle
<1>4. Kept = {} /\ Busy = {} /\ CallsApart
  BY <1>1, <1>3 DEF Kept, Busy, CallsApart, KV!Dying, KV!Taken, KV!At
<1>5. Ids(ids, InUse, slow)
  <2>1. InUse = {}
    BY <1>1, <1>4 DEF InUse
  <2>2. Ids(ids, {}, slow)
    BY <1>2 DEF KV!Init, KV!NoPool, Ids
  <2> QED
    BY <2>1, <2>2
<1>6. FewBusy
  <2>1. PoolUsers # {} => Cardinality(PoolUsers) \in Nat \ {0}
    BY UsersFinite
  <2>2. SumInDruation \in Int
    BY SyncAssumptions DEF KV!TmplAssumption, KV!Init
  <2> QED
    BY <1>2, <1>4, <2>1, <2>2 DEF FewBusy
<1>7. IdsInv
  BY <1>1, <1>3, <1>4, <1>5, <1>6, SyncAssumptions
     DEF KV!Init, IdsInv, OneKeyEach, KV!TmplAssumption, KV!At
<1>8. TimesInv
  BY <1>1 DEF KV!Init, TimesInv
<1> QED
  BY <1>7, <1>8

\* A key that is given an id no other key has.
LEMMA SetKeyIds ==
  ASSUME NEW f, OneKeyEach(f), NEW k, NEW x, x.id \notin {f[l].id : l \in DOMAIN f \ {k}}
  PROVE  /\ OneKeyEach(KV!SetKey(f, k, x))
         /\ IdsOf(KV!SetKey(f, k, x)) = {f[l].id : l \in DOMAIN f \ {k}} \cup {x.id}
<1> DEFINE g == KV!SetKey(f, k, x)
<1>1. /\ DOMAIN g = DOMAIN f \cup {k} /\ g[k] = x
      /\ \A l \in DOMAIN f \ {k} : g[l] = f[l]
  BY DEF KV!SetKey
<1> HIDE DEF g
<1>2. OneKeyEach(g)
  BY <1>1 DEF OneKeyEach
<1>3. IdsOf(g) = {f[l].id : l \in DOMAIN f \ {k}} \cup {x.id}
  BY <1>1 DEF IdsOf
<1> QED
  BY <1>2, <1>3 DEF g

\* A key that is dropped.
LEMMA DelKeyIds ==
  ASSUME NEW f, OneKeyEach(f), NEW k \in DOMAIN f
  PROVE  OneKeyEach(KV!DelKey(f, k)) /\ IdsOf(KV!DelKey(f, k)) = IdsOf(f) \ {f[k].id}
<1> DEFINE g == KV!DelKey(f, k)
<1>1. DOMAIN g = DOMAIN f \ {k} /\ \A l \in DOMAIN f \ {k} : g[l] = f[l]
  BY DEF KV!DelKey
<1> HIDE DEF g
<1>2. OneKeyEach(g)
  BY <1>1 DEF OneKeyEach
<1>3. IdsOf(g) = IdsOf(f) \ {f[k].id}
  BY <1>1 DEF IdsOf, OneKeyEach
<1> QED
  BY <1>2, <1>3 DEF g

\* Steps that leave the calls of tmplV and its map alone.
LEMMA VCallsStand ==
  ASSUME UNCHANGED <<vm, KV!vcalls, SumInDruation>>
  PROVE  /\ Kept' = Kept /\ (CallsApart <=> CallsApart') /\ (FewBusy <=> FewBusy')
         /\ \A u : KV!At(u, "idle") <=> KV!At(u, "idle")'
         /\ UNCHANGED <<clash, stuck>>
BY DEF Kept, CallsApart, FewBusy, Busy, KV!Dying, KV!Taken, KV!At, KV!vcalls

\* tmplK.Set gives a key an id that no other key has.
LEMMA SetKIds ==
  ASSUME IdsInv, NEW k, kind = "k", KV!SetK(k), UNCHANGED <<kind, SumInDruation>>
  PROVE  IdsInv'
<1>1. /\ Ids(ids, IdsOf(km), slow) /\ OneKeyEach(km) /\ UNCHANGED <<vm, KV!vcalls>>
      /\ kind' = "k" /\ InUse' = IdsOf(km')
  BY DEF IdsInv, InUse, KV!SetK
<1>2. SUFFICES Ids(ids', IdsOf(km'), slow') /\ OneKeyEach(km')
  BY <1>1, VCallsStand DEF IdsInv
<1> DEFINE r == IF k \in DOMAIN km THEN KV!AfterFree(ids, slow, km[k].id)
                ELSE [p |-> ids, s |-> slow]
           U == {km[l].id : l \in DOMAIN km \ {k}}
<1>3. ASSUME NEW old \in DOMAIN km, k \notin DOMAIN km, UNCHANGED <<ids, slow>>,
             km' = KV!DelKey(KV!SetKey(km, k, [id |-> km[old].id, kt |-> now]), old)
      PROVE  Ids(ids', IdsOf(km'), slow') /\ OneKeyEach(km')
  <2>1. /\ DOMAIN km' = (DOMAIN km \ {old}) \cup {k}
        /\ km'[k].id = km[old].id
        /\ \A l \in DOMAIN km \ {old} : km'[l] = km[l]
    BY <1>3 DEF KV!DelKey, KV!SetKey
  <2>2. IdsOf(km') = IdsOf(km)
    BY <1>3, <2>1 DEF IdsOf
  <2>3. OneKeyEach(km')
    BY <1>1, <1>3, <2>1 DEF OneKeyEach
  <2> QED
    BY <1>1, <1>3, <2>2, <2>3
<1>4. ASSUME NEW id \in KV!GetIds(r.p), ids' = KV!AfterGet(r.p, id), slow' = r.s,
             km' = KV!SetKey(km, k, [id |-> id, kt |-> now])
      PROVE  Ids(ids', IdsOf(km'), slow') /\ OneKeyEach(km')
  <2>1. Ids(r.p, U, r.s)
    <3>1. CASE k \in DOMAIN km
      <4>1. U = IdsOf(km) \ {km[k].id} /\ km[k].id \in IdsOf(km)
        BY <1>1, <3>1 DEF IdsOf, OneKeyEach
      <4>2. r = KV!AfterFree(ids, slow, km[k].id)
        BY <3>1
      <4> HIDE DEF r, U
      <4> QED
        BY <1>1, <4>1, <4>2, IdsFree
    <3>2. CASE k \notin DOMAIN km
      <4>1. U = IdsOf(km) /\ r.p = ids /\ r.s = slow
        BY <3>2 DEF IdsOf
      <4> QED
        BY <1>1, <4>1
    <3> QED
      BY <3>1, <3>2
  <2> HIDE DEF r, U
  <2>2. id \notin U /\ Ids(ids', U \cup {id}, slow')
    BY <1>4, <2>1, IdsGet
  <2>3. OneKeyEach(km') /\ IdsOf(km') = U \cup {id}
    BY <1>1, <1>4, <2>2, SetKeyIds DEF U
  <2> QED
    BY <2>2, <2>3
<1>5. ASSUME UNCHANGED <<km, ids, slow>>
      PROVE  Ids(ids', IdsOf(km'), slow') /\ OneKeyEach(km')
  BY <1>1, <1>5
<1> HIDE DEF r, U
<1> QED
  BY <1>3, <1>4, <1>5 DEF KV!SetK, r

\* tmplK.Get lets go of the id of an entry that is too old.
LEMMA GetKIds ==
  ASSUME IdsInv, NEW k, kind = "k", KV!GetK(k), UNCHANGED <<kind, SumInDruation>>
  PROVE  IdsInv'
<1>1. /\ Ids(ids, IdsOf(km), slow) /\ OneKeyEach(km) /\ UNCHANGED <<vm, KV!vcalls>>
      /\ kind' = "k" /\ InUse' = IdsOf(km') /\ k \in DOMAIN km
  BY DEF IdsInv, InUse, KV!GetK
<1>2. SUFFICES Ids(ids', IdsOf(km'), slow') /\ OneKeyEach(km')
  BY <1>1, VCallsStand DEF IdsInv
<1>3. CASE KV!LiveAt(km[k].kt)
  BY <1>1, <1>3 DEF KV!GetK
<1>4. CASE ~KV!LiveAt(km[k].kt)
  <2> DEFINE r == KV!AfterFree(ids, slow, km[k].id)
  <2>1. ids' = r.p /\ slow' = r.s /\ km' = KV!DelKey(km, k)
    BY <1>4 DEF KV!GetK
  <2>2. km[k].id \in IdsOf(km)
    BY <1>1 DEF IdsOf
  <2> HIDE DEF r
  <2>3. Ids(r.p, IdsOf(km) \ {km[k].id}, r.s)
    BY <1>1, <2>2, IdsFree DEF r
  <2> QED
    BY <1>1, <2>1, <2>3, DelKeyIds
<1> QED
  BY <1>3, <1>4

\* A step that takes the call of u to a place, with the id x.
LEMMA Moved ==
  ASSUME CallsApart, NEW u \in PoolUsers, NEW to, NEW x, NEW kt, KV!Goto(u, to, x, kt)
  PROVE  /\ vcall' = [w \in PoolUsers |-> vcall'[w]]
         /\ vcall'[u].pc = to /\ vcall'[u].id = x
         /\ \A w \in PoolUsers \ {u} : vcall'[w] = vcall[w]
BY DEF CallsApart, KV!Goto

\* The end of a call.
LEMMA Ended ==
  ASSUME CallsApart, NEW u \in PoolUsers, vcall' = [vcall EXCEPT ![u] = KV!Idle]
  PROVE  /\ vcall' = [w \in PoolUsers |-> vcall'[w]]
         /\ vcall'[u].pc = "idle"
         /\ \A w \in PoolUsers \ {u} : vcall'[w] = vcall[w]
BY DEF CallsApart, KV!Idle

\* How many ids are in use, and how many calls are busy.
LEMMA Counts ==
  ASSUME IdsInv, kind = "v", clash = {}
  PROVE  /\ ids.sum = Cardinality(Kept) /\ IsFiniteSet(Kept) /\ Cardinality(Kept) \in Nat
         /\ Ids(ids, Kept, slow) /\ slow = <<>> /\ km = <<>> /\ CallsApart /\ FewBusy
         /\ \A S \in SUBSET PoolUsers :
              IsFiniteSet(S) /\ Cardinality(S) \in Nat /\ Cardinality(S) <= Cardinality(PoolUsers)
         /\ IsFiniteSet(PoolUsers) /\ Cardinality(PoolUsers) \in Nat /\ SumInDruation \in Int
         /\ IsFiniteSet(Busy) /\ Cardinality(Busy) \in Nat
<1>1. IsFiniteSet(PoolUsers) /\ Cardinality(PoolUsers) \in Nat
  BY UsersFinite
<1>2. \A S \in SUBSET PoolUsers :
        IsFiniteSet(S) /\ Cardinality(S) \in Nat /\ Cardinality(S) <= Cardinality(PoolUsers)
  BY <1>1, FS_Subset, FS_CardinalityType
<1>3. Busy \subseteq PoolUsers
  BY DEF Busy
<1>4. Ids(ids, Kept, slow) /\ slow = <<>> /\ km = <<>> /\ CallsApart /\ FewBusy /\ SumInDruation \in Int
  BY DEF IdsInv, InUse
<1>5. IsFiniteSet(Kept) /\ Cardinality(Kept) \in Nat
  BY <1>4, IdsFinite
<1>6. ids.sum = Cardinality(Kept) + Len(slow) /\ Len(slow) = 0
  BY <1>4 DEF Ids
<1> QED
  BY <1>1, <1>2, <1>3, <1>4, <1>5, <1>6

\* What a step of tmplV has to keep.
LEMMA VKeeps ==
  ASSUME IdsInv, kind = "v", clash = {}, UNCHANGED <<kind, SumInDruation, km, slow>>,
         stuck' # {} => vm' = <<>>,
         clash' = {} => Ids(ids', Kept', slow) /\ CallsApart' /\ FewBusy'
  PROVE  IdsInv'
BY DEF IdsInv, InUse

\* tmplV.Set up to the choice: a new entry or the content of an old one.
LEMMA ChooseVIds ==
  ASSUME IdsInv, kind = "v", clash = {}, UNCHANGED <<kind, SumInDruation>>, NEW u \in PoolUsers,
         KV!SetV(u) \/ KV!FullV(u)
  PROVE  IdsInv'
<1> USE Counts
<1>1. /\ UNCHANGED <<ids, vm, stuck, clash, km, slow>> /\ vcall[u].pc = "idle"
      /\ \/ KV!Goto(u, "take", 0, 0) /\ (SumInDruation < 0 \/ ids.sum < SumInDruation)
         \/ KV!Goto(u, "replace", 0, 0)
  BY DEF KV!SetV, KV!FullV, KV!Rest, KV!At
<1>2. /\ vcall' = [w \in PoolUsers |-> vcall'[w]]
      /\ vcall'[u].pc \in {"take", "replace"}
      /\ vcall'[u].pc = "take" => SumInDruation < 0 \/ ids.sum < SumInDruation
      /\ \A w \in PoolUsers \ {u} : vcall'[w] = vcall[w]
  BY <1>1, Moved
<1>3. CallsApart'
  BY <1>1, <1>2 DEF CallsApart, KV!At
<1>4. Kept' = Kept
  BY <1>1, <1>2 DEF Kept, KV!Dying, KV!Taken, KV!At
<1>5. FewBusy'
  <2>1. CASE vcall'[u].pc = "take"
    <3>1. Busy' \subseteq PoolUsers
      BY DEF Busy
    <3>2. Cardinality(Busy') \in Nat /\ Cardinality(Busy') <= Cardinality(PoolUsers)
      BY <3>1
    <3> QED
      BY <1>1, <1>2, <1>4, <2>1, <3>2 DEF FewBusy
  <2>2. CASE vcall'[u].pc = "replace"
    <3>1. Busy' = Busy
      BY <1>1, <1>2, <2>2 DEF Busy, KV!At
    <3> QED
      BY <1>1, <1>4, <3>1 DEF FewBusy
  <2> QED
    BY <1>2, <2>1, <2>2
<1> QED
  BY <1>1, <1>3, <1>4, <1>5, VKeeps DEF IdsInv

\* tmplV.Set at the limit: an entry gets a new content, or the lock is kept.
LEMMA ReplaceVIds ==
  ASSUME IdsInv, kind = "v", clash = {}, UNCHANGED <<kind, SumInDruation>>, NEW u \in PoolUsers,
         KV!ReplaceV(u)
  PROVE  IdsInv'
<1> USE Counts
<1>1. /\ UNCHANGED <<ids, clash, km, slow>> /\ vcall[u].pc = "replace" /\ stuck = {}
      /\ DOMAIN vm' = DOMAIN vm
      /\ \/ vcall' = [vcall EXCEPT ![u] = KV!Idle] /\ stuck' = {}
         \/ KV!Goto(u, "take", 0, 0) /\ stuck' = {u} /\ vm' = <<>>
  BY DEF KV!ReplaceV, KV!Rest, KV!At, KV!SetKey
<1>2. /\ vcall' = [w \in PoolUsers |-> vcall'[w]]
      /\ vcall'[u].pc \in {"take", "idle"} /\ (vcall'[u].pc = "take" => stuck' = {u})
      /\ \A w \in PoolUsers \ {u} : vcall'[w] = vcall[w]
  BY <1>1, Moved, Ended
<1>3. CallsApart'
  BY <1>1, <1>2 DEF CallsApart, KV!At
<1>4. Kept' = Kept
  BY <1>1, <1>2 DEF Kept, KV!Dying, KV!Taken, KV!At
<1>5. FewBusy'
  <2>1. CASE vcall'[u].pc = "take"
    BY <1>2, <2>1 DEF FewBusy
  <2>2. CASE vcall'[u].pc = "idle"
    <3>1. Busy' = Busy
      BY <1>1, <1>2, <2>2 DEF Busy, KV!At
    <3> QED
      BY <1>1, <1>4, <3>1 DEF FewBusy
  <2> QED
    BY <1>2, <2>1, <2>2
<1>6. stuck' # {} => vm' = <<>>
  BY <1>1
<1> QED
  BY <1>1, <1>3, <1>4, <1>5, <1>6, VKeeps

\* tmplV.Set takes an id that nobody has.
LEMMA TakeVIds ==
  ASSUME IdsInv, kind = "v", clash = {}, UNCHANGED <<kind, SumInDruation>>, NEW u \in PoolUsers,
         NEW x \in KV!GetIds(ids), KV!TakeV(u, x)
  PROVE  IdsInv'
<1> USE Counts
<1>1. SUFFICES ASSUME clash' = {}
               PROVE  Ids(ids', Kept', slow) /\ CallsApart' /\ FewBusy'
  BY VKeeps DEF KV!TakeV, KV!Rest, IdsInv
<1>2. /\ UNCHANGED <<vm, stuck, km, slow>> /\ vcall[u].pc = "take"
      /\ ids' = KV!AfterGet(ids, x) /\ KV!Goto(u, "store", x, 0)
      /\ \A w \in PoolUsers : vcall[w].pc = "del" => vcall[w].id # x
  BY <1>1 DEF KV!TakeV, KV!Rest, KV!At, KV!AtId
<1>3. /\ vcall' = [w \in PoolUsers |-> vcall'[w]]
      /\ vcall'[u].pc = "store" /\ vcall'[u].id = x
      /\ \A w \in PoolUsers \ {u} : vcall'[w] = vcall[w]
  BY <1>2, Moved
<1>4. x \notin Kept /\ Ids(ids', Kept \cup {x}, slow)
  BY <1>2, IdsGet
<1>5. x \notin DOMAIN vm /\ x \notin KV!Taken
  BY <1>2, <1>4 DEF Kept, KV!Dying, KV!At
<1>6. Kept' = Kept \cup {x}
  <2>1. KV!Taken' = KV!Taken \cup {x}
    BY <1>2, <1>3 DEF KV!Taken, KV!At
  <2>2. KV!Dying' = KV!Dying
    BY <1>2, <1>3 DEF KV!Dying, KV!At
  <2> QED
    BY <1>2, <2>1, <2>2 DEF Kept
<1>7. CallsApart'
  <2>1. \A w \in PoolUsers : vcall[w].pc = "store" => vcall[w].id # x
    BY <1>5 DEF KV!Taken, KV!At
  <2> QED
    BY <1>2, <1>3, <1>5, <2>1 DEF CallsApart, KV!At
<1>8. FewBusy'
  <2>1. Busy' = Busy \ {u} /\ u \in Busy
    BY <1>2, <1>3 DEF Busy, KV!At
  <2>2. Cardinality(Busy') = Cardinality(Busy) - 1
    BY <2>1, FS_RemoveElement
  <2>3. Cardinality(Kept') = Cardinality(Kept) + 1
    BY <1>4, <1>6, FS_AddElement
  <2> QED
    BY <1>2, <2>2, <2>3 DEF FewBusy
<1> QED
  BY <1>4, <1>6, <1>7, <1>8

\* tmplV.Set stores its entry.
LEMMA StoreVIds ==
  ASSUME IdsInv, kind = "v", clash = {}, UNCHANGED <<kind, SumInDruation>>, NEW u \in PoolUsers,
         KV!StoreV(u)
  PROVE  IdsInv'
<1> USE Counts
<1>1. /\ UNCHANGED <<ids, clash, stuck, km, slow>> /\ vcall[u].pc = "store" /\ stuck = {}
      /\ DOMAIN vm' = DOMAIN vm \cup {vcall[u].id} /\ vcall' = [vcall EXCEPT ![u] = KV!Idle]
  BY DEF KV!StoreV, KV!Rest, KV!At, KV!SetKey
<1>2. /\ vcall' = [w \in PoolUsers |-> vcall'[w]]
      /\ vcall'[u].pc = "idle"
      /\ \A w \in PoolUsers \ {u} : vcall'[w] = vcall[w]
  BY <1>1, Ended
<1>3. CallsApart'
  BY <1>1, <1>2 DEF CallsApart, KV!At
<1>4. Kept' = Kept
  <2>1. KV!Dying' = KV!Dying
    BY <1>1, <1>2 DEF KV!Dying, KV!At
  <2>2. KV!Taken = KV!Taken' \cup {vcall[u].id}
    BY <1>1, <1>2 DEF KV!Taken, KV!At
  <2>3. vcall[u].id \notin KV!Dying
    BY <1>1 DEF CallsApart, KV!Dying, KV!At
  <2> QED
    BY <1>1, <2>1, <2>2, <2>3 DEF Kept
<1>5. Busy' = Busy
  BY <1>1, <1>2 DEF Busy, KV!At
<1>6. FewBusy'
  BY <1>1, <1>4, <1>5 DEF FewBusy
<1> QED
  BY <1>1, <1>3, <1>4, <1>6, VKeeps

\* tmplV.Get looks at an entry.
LEMMA LookVIds ==
  ASSUME IdsInv, kind = "v", clash = {}, UNCHANGED <<kind, SumInDruation>>, NEW u \in PoolUsers,
         NEW x \in DOMAIN vm, KV!LookV(u, x)
  PROVE  IdsInv'
<1> USE Counts
<1>1. SUFFICES ASSUME clash' = {}
               PROVE  Ids(ids', Kept', slow) /\ CallsApart' /\ FewBusy'
  BY VKeeps DEF KV!LookV, KV!Rest, IdsInv
<1>2. /\ UNCHANGED <<ids, vm, stuck, km, slow>> /\ vcall[u].pc = "idle"
      /\ KV!Goto(u, "seen", x, vm[x])
      /\ \A w \in PoolUsers : vcall[w].pc = "del" => vcall[w].id # x
  BY <1>1 DEF KV!LookV, KV!Rest, KV!At, KV!AtId
<1>3. /\ vcall' = [w \in PoolUsers |-> vcall'[w]]
      /\ vcall'[u].pc = "seen" /\ vcall'[u].id = x
      /\ \A w \in PoolUsers \ {u} : vcall'[w] = vcall[w]
  BY <1>2, Moved
<1>4. CallsApart'
  BY <1>2, <1>3 DEF CallsApart, KV!At
<1>5. Kept' = Kept
  BY <1>2, <1>3 DEF Kept, KV!Dying, KV!Taken, KV!At
<1>6. Busy' = Busy
  BY <1>2, <1>3 DEF Busy, KV!At
<1> QED
  BY <1>2, <1>4, <1>5, <1>6 DEF FewBusy

\* tmplV.Get gives the id of an entry that is too old back.
LEMMA PutVIds ==
  ASSUME IdsInv, kind = "v", clash = {}, UNCHANGED <<kind, SumInDruation>>, NEW u \in PoolUsers,
         KV!PutV(u)
  PROVE  IdsInv'
<1> USE Counts
<1> DEFINE x == vcall[u].id
<1>1. SUFFICES ASSUME clash' = {}
               PROVE  Ids(ids', Kept', slow) /\ CallsApart' /\ FewBusy'
  BY VKeeps DEF KV!PutV, KV!Rest, IdsInv
<1>2. UNCHANGED <<vm, stuck, km, slow>> /\ vcall[u].pc = "seen"
  BY DEF KV!PutV, KV!Rest, KV!At
<1>3. CASE UNCHANGED <<ids, clash>> /\ vcall' = [vcall EXCEPT ![u] = KV!Idle]
  <2>1. /\ vcall' = [w \in PoolUsers |-> vcall'[w]]
        /\ vcall'[u].pc = "idle"
        /\ \A w \in PoolUsers \ {u} : vcall'[w] = vcall[w]
    BY <1>3, Ended
  <2>2. CallsApart'
    BY <1>2, <2>1 DEF CallsApart, KV!At
  <2>3. Kept' = Kept
    BY <1>2, <2>1 DEF Kept, KV!Dying, KV!Taken, KV!At
  <2>4. Busy' = Busy
    BY <1>2, <2>1 DEF Busy, KV!At
  <2> QED
    BY <1>2, <1>3, <2>2, <2>3, <2>4 DEF FewBusy
<1>4. CASE /\ ids' = KV!AfterPut(ids, x) /\ KV!Goto(u, "del", x, 0)
           /\ clash' = KV!AtId("seen", x) \ {u}
  <2>1. /\ vcall' = [w \in PoolUsers |-> vcall'[w]]
        /\ vcall'[u].pc = "del" /\ vcall'[u].id = x
        /\ \A w \in PoolUsers \ {u} : vcall'[w] = vcall[w]
    BY <1>4, Moved
  <2>2. /\ \A w \in PoolUsers \ {u} : vcall[w].pc = "seen" => vcall[w].id # x
        /\ \A w \in PoolUsers \ {u} : vcall[w].pc = "del" => vcall[w].id # x
        /\ \A w \in PoolUsers : vcall[w].pc = "store" => vcall[w].id # x
        /\ x \in DOMAIN vm
    BY <1>1, <1>2, <1>4 DEF CallsApart, KV!At, KV!AtId
  <2>3. CallsApart'
    BY <1>2, <2>1, <2>2 DEF CallsApart, KV!At
  <2>4. KV!Dying' = KV!Dying \cup {x} /\ KV!Taken' = KV!Taken /\ x \notin KV!Dying /\ x \notin KV!Taken
    BY <1>2, <2>1, <2>2 DEF KV!Dying, KV!Taken, KV!At
  <2>5. Kept' = Kept \ {x} /\ x \in Kept
    BY <1>2, <2>2, <2>4 DEF Kept
  <2>6. Ids(ids', Kept', slow)
    BY <1>4, <2>5, IdsPut
  <2>7. FewBusy'
    <3>1. Busy' = Busy \cup {u} /\ u \notin Busy
      BY <1>2, <2>1 DEF Busy, KV!At
    <3>2. Cardinality(Busy') = Cardinality(Busy) + 1
      BY <3>1, FS_AddElement
    <3>3. Cardinality(Kept') = Cardinality(Kept) - 1
      BY <2>5, FS_RemoveElement
    <3> QED
      BY <1>2, <3>2, <3>3 DEF FewBusy
  <2> QED
    BY <2>3, <2>6, <2>7
<1> QED
  BY <1>3, <1>4 DEF KV!PutV

\* tmplV.Get deletes the entry.
LEMMA DeleteVIds ==
  ASSUME IdsInv, kind = "v", clash = {}, UNCHANGED <<kind, SumInDruation>>, NEW u \in PoolUsers,
         KV!DeleteV(u)
  PROVE  IdsInv'
<1> USE Counts
<1> DEFINE x == vcall[u].id
<1>1. /\ UNCHANGED <<ids, clash, stuck, km, slow>> /\ vcall[u].pc = "del" /\ stuck = {}
      /\ DOMAIN vm' = DOMAIN vm \ {x} /\ vcall' = [vcall EXCEPT ![u] = KV!Idle]
  BY DEF KV!DeleteV, KV!Rest, KV!At, KV!DelKey
<1>2. /\ vcall' = [w \in PoolUsers |-> vcall'[w]]
      /\ vcall'[u].pc = "idle"
      /\ \A w \in PoolUsers \ {u} : vcall'[w] = vcall[w]
  BY <1>1, Ended
<1>3. /\ \A w \in PoolUsers \ {u} : vcall[w].pc \in {"seen", "del"} => vcall[w].id # x
      /\ x \in DOMAIN vm
  BY <1>1 DEF CallsApart, KV!At
<1>4. CallsApart'
  BY <1>1, <1>2, <1>3 DEF CallsApart, KV!At
<1>5. Kept' = Kept
  <2>1. KV!Dying = KV!Dying' \cup {x} /\ x \notin KV!Dying' /\ KV!Taken' = KV!Taken
    BY <1>1, <1>2, <1>3 DEF KV!Dying, KV!Taken, KV!At
  <2> QED
    BY <1>1, <2>1 DEF Kept
<1>6. FewBusy'
  <2>1. Busy' = Busy \ {u} /\ u \in Busy
    BY <1>1, <1>2 DEF Busy, KV!At
  <2>2. Cardinality(Busy') = Cardinality(Busy) - 1
    BY <2>1, FS_RemoveElement
  <2> QED
    BY <1>1, <1>5, <2>2 DEF FewBusy
<1> QED
  BY <1>1, <1>4, <1>5, <1>6, VKeeps

\* sync.Pool drops an id.
LEMMA DropIds ==
  ASSUME IdsInv, NEW id, KV!Drop(id), UNCHANGED <<kind, SumInDruation>>
  PROVE  IdsInv'
<1>1. /\ UNCHANGED <<km, vm, slow, KV!vcalls>> /\ ids' = [ids EXCEPT !.free = ids.free \ {id}]
  BY DEF KV!Drop
<1>2. InUse' = InUse
  BY <1>1, VCallsStand DEF InUse
<1>3. clash = {} => Ids(ids', InUse, slow)
  BY <1>1, IdsDrop DEF IdsInv
<1> QED
  BY <1>1, <1>2, <1>3, VCallsStand DEF IdsInv

\* The clock, and the calls of tmplKV, leave the ids alone.
LEMMA OtherIds ==
  ASSUME IdsInv, UNCHANGED <<ids, km, slow, vm, KV!vcalls, kind, SumInDruation>>
  PROVE  IdsInv'
<1>1. InUse' = InUse
  BY VCallsStand DEF InUse
<1> QED
  BY <1>1, VCallsStand DEF IdsInv

\* A step of the stores keeps the ids in order.
LEMMA NextIds ==
  ASSUME IdsInv, [KV!Next]_(KV!vars)
  PROVE  IdsInv'
<1>1. CASE UNCHANGED KV!vars
  BY <1>1, OtherIds DEF KV!vars
<1>2. ASSUME KV!Next
      PROVE  IdsInv'
  <2>1. UNCHANGED <<kind, SumInDruation>> /\ clash = {}
    BY <1>2 DEF KV!Next
  <2>2. CASE KV!Tick
    BY <2>1, <2>2, OtherIds DEF KV!Tick
  <2>3. ASSUME NEW k \in TKeys, KV!GetKV(k) \/ \E v \in TVals, exp \in {-1, 1} : KV!SetKV(k, v, exp)
        PROVE  IdsInv'
    BY <2>1, <2>3, OtherIds DEF KV!GetKV, KV!SetKV
  <2>4. ASSUME NEW k \in TKeys, kind = "k", KV!SetK(k) \/ KV!GetK(k)
        PROVE  IdsInv'
    BY <2>1, <2>4, SetKIds, GetKIds
  <2>5. ASSUME kind = "v", NEW u \in PoolUsers, KV!VStep(u)
        PROVE  IdsInv'
    BY <2>1, <2>5, ChooseVIds, ReplaceVIds, TakeVIds, StoreVIds, LookVIds, PutVIds, DeleteVIds
       DEF KV!VStep
  <2>6. ASSUME NEW id \in ids.free, KV!Drop(id)
        PROVE  IdsInv'
    BY <2>1, <2>6, DropIds
  <2> QED
    BY <1>2, <2>2, <2>3, <2>4, <2>5, <2>6 DEF KV!Next
<1> QED
  BY <1>1, <1>2

\* A step of the stores keeps the times.
LEMMA NextTimes ==
  ASSUME TimesInv, [KV!Next]_(KV!vars)
  PROVE  TimesInv'
<1>1. Epoch \in Nat \ {0} /\ MaxClock \in Nat
  BY SyncAssumptions DEF KV!TmplAssumption
<1>2. ASSUME NEW k, NEW v, NEW exp \in {-1, 1}, KV!SetKV(k, v, exp)
      PROVE  TimesInv'
  <2>1. /\ now' = now /\ now \in Nat /\ seen' = [op |-> "none"]
        /\ DOMAIN kv' = DOMAIN kv \cup {k}
        /\ \A l \in DOMAIN kv \ {k} : kv'[l] = kv[l]
        /\ kv'[k] = [v |-> v, kt |-> IF exp >= 0 THEN now + exp ELSE exp, at |-> now]
    BY <1>2 DEF KV!SetKV, KV!SetKey, TimesInv
  <2>2. /\ kv'[k].kt \in Int /\ kv'[k].at \in Int
        /\ kv'[k].kt < 0 \/ kv'[k].kt = kv'[k].at + 1
    BY <2>1
  <2> QED
    BY <2>1, <2>2 DEF TimesInv
<1>3. ASSUME NEW k, KV!GetKV(k)
      PROVE  TimesInv'
  <2>1. /\ now' = now /\ now \in Nat
        /\ DOMAIN kv' \subseteq DOMAIN kv /\ \A l \in DOMAIN kv' : kv'[l] = kv[l]
    BY <1>3 DEF KV!GetKV, KV!DelKey, TimesInv
  <2>2. /\ seen'.live = KV!LiveKV(k)
        /\ seen'.had = IF k \in DOMAIN kv THEN <<kv[k]>> ELSE <<>>
    BY <1>3 DEF KV!GetKV
  <2>3. ASSUME KV!LiveKV(k), now > 0
        PROVE  seen'.had # <<>> /\ (seen'.had[1].kt < 0 \/ now - seen'.had[1].at <= 1)
    <3>1. k \in DOMAIN kv /\ (kv[k].kt < 0 \/ now <= kv[k].kt)
      BY <2>1, <2>3 DEF KV!LiveKV
    <3>2. seen'.had = <<kv[k]>> /\ seen'.had # <<>> /\ seen'.had[1] = kv[k]
      BY <2>2, <3>1
    <3> QED
      BY <2>1, <3>1, <3>2 DEF TimesInv
  <2> QED
    BY <2>1, <2>2, <2>3 DEF TimesInv
<1>4. CASE KV!Tick
  BY <1>1, <1>4 DEF KV!Tick, TimesInv
<1>5. ASSUME UNCHANGED <<now, kv>>, seen' = [op |-> "none"] \/ seen' = seen
      PROVE  TimesInv'
  BY <1>5 DEF TimesInv
<1>6. ASSUME NEW k, KV!SetK(k) \/ KV!GetK(k) \/ KV!VStep(k) \/ KV!Drop(k)
      PROVE  TimesInv'
  <2>1. UNCHANGED <<now, kv>> /\ seen' = [op |-> "none"]
    BY <1>6 DEF KV!SetK, KV!GetK, KV!VStep, KV!SetV, KV!FullV, KV!ReplaceV, KV!TakeV, KV!StoreV,
       KV!LookV, KV!PutV, KV!DeleteV, KV!Rest, KV!Drop
  <2> QED
    BY <1>5, <2>1
<1>7. CASE UNCHANGED KV!vars
  BY <1>5, <1>7 DEF KV!vars
<1> QED
  BY <1>2, <1>3, <1>4, <1>6, <1>7 DEF KV!Next

\* tmplK: what the property says.
LEMMA KIdsAreDistinct ==
  ASSUME IdsInv
  PROVE  KV!KIdsDistinct
<1> DEFINE U == IdsOf(km)
           W == {slow[i] : i \in DOMAIN slow}
<1>1. kind = "k" => Ids(ids, U, slow)
  BY DEF IdsInv, InUse
<1>2. slow \in Seq(Nat) /\ DOMAIN slow = 1..Len(slow) /\ Len(slow) \in Nat
  <2>1. CASE kind = "k"
    BY <1>1, <2>1 DEF Ids
  <2>2. CASE kind # "k"
    BY <2>2 DEF IdsInv
  <2> QED
    BY <2>1, <2>2
<1>3. W \cap U = {} /\ (U \cup W) \cap ids.free = {}
  <2>1. CASE kind = "k"
    <3>1. /\ U \cap ids.free = {}
          /\ \A i \in 1..Len(slow) : slow[i] \notin U /\ slow[i] \notin ids.free
      BY <1>1, <2>1 DEF Ids
    <3> HIDE DEF U
    <3> QED
      BY <1>2, <3>1
  <2>2. CASE kind # "k"
    <3>1. U = {} /\ W = {}
      BY <2>2 DEF IdsInv, IdsOf
    <3> QED
      BY <3>1
  <2> QED
    BY <2>1, <2>2
<1>4. kind = "k" => ids.sum = Cardinality(U) + Len(slow)
  BY <1>1 DEF Ids
<1>5. \A i, j \in DOMAIN slow : slow[i] = slow[j] => i = j
  BY <1>1, <1>2 DEF IdsInv, Ids
<1>6. /\ KV!ToSet(slow) = W
      /\ KV!IsInjective(slow) <=> \A i, j \in DOMAIN slow : slow[i] = slow[j] => i = j
  BY DEF KV!ToSet, KV!IsInjective
<1>7. KV!Cardinality(U) = Cardinality(U)
  BY DEF KV!Cardinality, Cardinality
<1>8. \A k, l \in DOMAIN km : km[k].id = km[l].id => k = l
  BY DEF IdsInv, OneKeyEach
<1>9. U = {km[k].id : k \in DOMAIN km}
  BY DEF IdsOf
<1> HIDE DEF U, W
<1> QED
  BY <1>3, <1>4, <1>5, <1>6, <1>7, <1>8, <1>9 DEF KV!KIdsDistinct

\* tmplV: the entries are those that stay and those that a busy call has yet to delete.
LEMMA EntriesFew ==
  ASSUME IdsInv, clash = {}, SumInDruation >= 0, PoolUsers # {}
  PROVE  Cardinality(DOMAIN vm) < SumInDruation + Cardinality(PoolUsers)
<1> DEFINE Dels == {u \in PoolUsers : KV!At(u, "del")}
<1>1. /\ IsFiniteSet(PoolUsers) /\ Cardinality(PoolUsers) \in Nat \ {0} /\ SumInDruation \in Int
  BY UsersFinite DEF IdsInv
<1>2. CASE vm = <<>>
  <2>1. Cardinality(DOMAIN vm) = 0
    BY <1>2, FS_EmptySet
  <2> QED
    BY <1>1, <2>1
<1>3. CASE vm # <<>>
  <2>1. kind = "v" /\ stuck = {} /\ FewBusy
    BY <1>3 DEF IdsInv
  <2>2. IsFiniteSet(Kept) /\ IsFiniteSet(Busy) /\ Cardinality(Kept) \in Nat /\ Cardinality(Busy) \in Nat
    BY <2>1, Counts
  <2>3. Cardinality(Kept) + Cardinality(Busy) < SumInDruation + Cardinality(PoolUsers)
    BY <2>1 DEF FewBusy
  <2>4. Dels \subseteq Busy
    BY DEF Busy
  <2>5. IsFiniteSet(Dels) /\ Cardinality(Dels) <= Cardinality(Busy) /\ Cardinality(Dels) \in Nat
    BY <2>2, <2>4, FS_Subset, FS_CardinalityType
  <2>6. IsFiniteSet(KV!Dying) /\ Cardinality(KV!Dying) <= Cardinality(Dels)
    <3> DEFINE f == [u \in Dels |-> vcall[u].id]
    <3>1. f \in Surjection(Dels, KV!Dying)
      BY DEF Surjection, KV!Dying
    <3> QED
      BY <2>5, <3>1, FS_Surjection
  <2>7. /\ IsFiniteSet(Kept \cup KV!Dying) /\ Cardinality(KV!Dying) \in Nat
        /\ Cardinality(Kept \cup KV!Dying) <= Cardinality(Kept) + Cardinality(KV!Dying)
    <3>1. /\ IsFiniteSet(Kept \cup KV!Dying) /\ Cardinality(KV!Dying) \in Nat
          /\ Cardinality(Kept \cup KV!Dying)
               = Cardinality(Kept) + Cardinality(KV!Dying) - Cardinality(Kept \cap KV!Dying)
      BY <2>2, <2>6, FS_Union, FS_CardinalityType
    <3>2. Cardinality(Kept \cap KV!Dying) \in Nat
      BY <2>2, FS_Subset, FS_CardinalityType
    <3> QED
      BY <2>2, <3>1, <3>2
  <2>8. DOMAIN vm \subseteq Kept \cup KV!Dying
    BY DEF Kept
  <2>9. Cardinality(DOMAIN vm) <= Cardinality(Kept \cup KV!Dying) /\ Cardinality(DOMAIN vm) \in Nat
        /\ Cardinality(Kept \cup KV!Dying) \in Nat
    BY <2>7, <2>8, FS_Subset, FS_CardinalityType
  <2> HIDE DEF Dels
  <2> QED
    BY <1>1, <2>2, <2>3, <2>5, <2>6, <2>7, <2>9
<1> QED
  BY <1>2, <1>3

\* tmplV: what the property says.
LEMMA VIdsAreDistinct ==
  ASSUME IdsInv
  PROVE  KV!VIdsDistinct
<1>1. SUFFICES ASSUME clash = {}
               PROVE  /\ KV!Taken \cap DOMAIN vm = {} /\ Kept \cap ids.free = {}
                      /\ \A u, w \in PoolUsers :
                           KV!At(u, "store") /\ KV!At(w, "store") /\ vcall[u].id = vcall[w].id => u = w
                      /\ kind = "v" => ids.sum = Cardinality(Kept)
                      /\ SumInDruation >= 0 /\ PoolUsers # {} =>
                           Cardinality(DOMAIN vm) < SumInDruation + Cardinality(PoolUsers)
  <2>1. \A S : KV!Cardinality(S) = Cardinality(S)
    BY DEF KV!Cardinality, Cardinality
  <2> QED
    BY <2>1 DEF KV!VIdsDistinct, Kept
<1>2. CASE kind = "v"
  <2>1. Ids(ids, Kept, slow) /\ ids.sum = Cardinality(Kept) /\ CallsApart
    BY <1>1, <1>2, Counts
  <2>2. Kept \cap ids.free = {}
    BY <2>1 DEF Ids
  <2>3. KV!Taken \cap DOMAIN vm = {}
    BY <2>1 DEF CallsApart, KV!Taken, KV!At
  <2> QED
    BY <1>1, <2>1, <2>2, <2>3, EntriesFew DEF CallsApart
<1>3. CASE kind # "v"
  <2>1. DOMAIN vm = {} /\ KV!Taken = {} /\ Kept = {} /\ CallsApart
    BY <1>1, <1>3 DEF IdsInv, Kept, KV!Taken, KV!At
  <2> QED
    BY <1>1, <1>3, <2>1, EntriesFew DEF CallsApart
<1> QED
  BY <1>2, <1>3

\* The ids and the times say what the property says.
LEMMA IdsAreDistinct ==
  ASSUME IdsInv, TimesInv
  PROVE  KV!IdsDistinct
BY KIdsAreDistinct, VIdsAreDistinct DEF KV!IdsDistinct, KV!KVLive, TimesInv

\* The ids of tmplK and tmplV have one owner each, and tmplKV forgets in time.
LEMMA IdsDistinctCorrect == KV!Spec => []KV!IdsDistinct
<1>1. IdsInv /\ TimesInv /\ [KV!Next]_(KV!vars) => (IdsInv /\ TimesInv)'
  BY NextIds, NextTimes
<1> QED
  BY <1>1, KVInit, IdsAreDistinct, PTL DEF KV!Spec

----------------------------------------------------------------------------
(* The composition that the run checks.                                    *)

\* A step of the composition is one of the unit it is about, and the others stand still.
LEMMA UnitSteps ==
  ASSUME [SyncNext]_<<unit, vars, swapVars, clearVars, exceededVars, blockVars, flexVars, poolVars,
                      kvVars, cachedVars, handleVars>>
  PROVE  /\ unit' = unit
         /\ [Next]_vars
         /\ [Swaps!Next]_(Swaps!vars)
         /\ [Clears!Next]_(Clears!vars)
         /\ unit # "stores" => [Exceeded!Next]_(Exceeded!vars)
         /\ unit = "stores" => [Stores!Next]_(Stores!vars)
         /\ [PlainBlocks!Next]_(PlainBlocks!vars)
         /\ [FlexBlocks!Next]_(FlexBlocks!vars)
         /\ [Pool!Next]_(Pool!vars)
         /\ [KV!Next]_(KV!vars)
         /\ [Cached!Next]_(Cached!vars)
         /\ [Handle!Next]_(Handle!vars)
BY DEF SyncNext, swapVars, clearVars, exceededVars, blockVars, flexVars, poolVars, kvVars,
   cachedVars, handleVars, Handle!vars, Swaps!vars, Clears!vars, Exceeded!vars, Stores!vars, PlainBlocks!vars,
   FlexBlocks!vars, Pool!vars, KV!vars, KV!vcalls, Cached!vars

\* pool/Blocks.go: at every moment each block is in the channel, with one caller, or
\* waiting for its cleanup, for every number of blocks and of callers.
THEOREM AccountedCorrect == SyncSpec => []Accounted
<1>1. SyncInit => PlainBlocks!Init
  BY DEF SyncInit
<1>2. SyncSpec => PlainBlocks!Spec
  BY <1>1, UnitSteps, PTL DEF SyncSpec, PlainBlocks!Spec
<1> QED
  BY <1>2, PlainAccounted, PTL DEF Accounted

\* pool/Blocks.go and io/io.go: Get of flexBlocks gives what was put back last, and the
\* writer below a CacheWriter gets every accepted piece whole and in order, for every
\* number of blocks, slots, users and every modulus of the counter.
THEOREM LastPutCorrect == SyncSpec => []LastPutSeen
<1>1. SyncInit => FlexBlocks!Init /\ Cached!Init
  BY DEF SyncInit
<1>2. SyncSpec => FlexBlocks!Spec
  BY <1>1, UnitSteps, PTL DEF SyncSpec, FlexBlocks!Spec
<1>3. SyncSpec => Cached!Spec
  BY <1>1, UnitSteps, PTL DEF SyncSpec, Cached!Spec
<1> QED
  BY <1>2, <1>3, FlexLastPut, CachedInOrder, PTL DEF LastPutSeen

\* pool/Pool.go, sync/LoadOrStoreFunc.go and tmplKV: an object, a key's constructor and
\* an id have one owner at a time, for every number of users, objects, keys and ids, every
\* limit and every duration.
THEOREM HandedOutOnceCorrect == SyncSpec => []HandedOutOnce
<1>1. SyncInit => Pool!Init /\ KV!Init
  BY DEF SyncInit
<1>2. SyncSpec => Pool!Spec
  BY <1>1, UnitSteps, PTL DEF SyncSpec, Pool!Spec
<1>3. SyncSpec => KV!Spec
  BY <1>1, UnitSteps, PTL DEF SyncSpec, KV!Spec
<1> QED
  BY <1>2, <1>3, PoolOnce, IdsDistinctCorrect, PTL DEF HandedOutOnce

\* sync/Map.go and sync/MapExceeded.go: what Swap and ClearAll do to Len, and what
\* LoadOrStore promises, for every number of keys, goroutines and calls.
THEOREM MapsExactCorrect == SyncSpec => []MapsExact
<1>1. SyncInit => Swaps!Init /\ Clears!Init /\ Exceeded!Init /\ Stores!Init
  BY DEF SyncInit, Exceeded!Init, Stores!Init, Exceeded!Hand, Stores!Hand, Exceeded!NoResult,
     Stores!NoResult
<1>2. SyncSpec => Swaps!Spec
  BY <1>1, UnitSteps, PTL DEF SyncSpec, Swaps!Spec
<1>3. SyncSpec => Clears!Spec
  BY <1>1, UnitSteps, PTL DEF SyncSpec, Clears!Spec
<1> DEFINE alone == unit = "stores"
<1>4. ASSUME [SyncNext]_<<unit, vars, swapVars, clearVars, exceededVars, blockVars, flexVars,
                          poolVars, kvVars, cachedVars, handleVars>>
      PROVE  /\ alone <=> alone'
             /\ ~alone => [Exceeded!Next]_(Exceeded!vars)
             /\ alone => [Stores!Next]_(Stores!vars)
  BY <1>4, UnitSteps
<1> HIDE DEF alone
<1>5. SyncSpec /\ ~alone => Exceeded!Spec /\ []~alone
  BY <1>1, <1>4, PTL DEF SyncSpec, Exceeded!Spec
<1>6. SyncSpec /\ alone => Stores!Spec
  BY <1>1, <1>4, PTL DEF SyncSpec, Stores!Spec
<1>7. Stores!LoadedHasData <=> Exceeded!LoadedHasData
  BY DEF
      Stores!LoadedHasData, Exceeded!LoadedHasData, Stores!LoadOrStore, Exceeded!LoadOrStore,
      Stores!Begin, Exceeded!Begin, Stores!Hand, Exceeded!Hand, Stores!Goto, Exceeded!Goto
<1>8. MapsExact <=> /\ Swaps!NeverTooMany /\ Clears!LenExact /\ Exceeded!LoadedHasData
                    /\ alone => Stores!StoredFound
  BY DEF MapsExact, alone
<1> QED
  BY <1>2, <1>3, <1>5, <1>6, <1>7, <1>8, SwapsTooFew, ClearsExact, ExceededData, StoresData,
     StoresFound, PTL

\* file/FileWR.go: calls that neither open nor close a File while another call is under
\* way leave on the disk what they wrote, in its order, and no handle but that of the
\* File or one that was left open on purpose, for every number of Files, callers and
\* calls and every CurIndex.
THEOREM SoloFileCorrect == SyncSpec => []SoloFile
<1>1. SyncInit => Handle!Init
  BY DEF SyncInit
<1>2. SyncSpec => Handle!Spec
  BY <1>1, UnitSteps, PTL DEF SyncSpec, Handle!Spec
<1> QED
  BY <1>2, FileSolo, PTL DEF SoloFile
=============================================================================
