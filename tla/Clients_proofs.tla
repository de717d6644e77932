---------------------------- MODULE Clients_proofs --------------------------
(***************************************************************************)
(* SqlTxs for lists of any length and transactions of any number of        *)
(* statements, and Reqf for any requests, one after another, and responses *)
(* of any length.                                                          *)
(***************************************************************************)
EXTENDS MCClients, TLAPS

\* No transaction has begun behind cuTx, and before do neither has that at cuTx.
NoneAhead ==
  /\ \A i \in Ids : i > cuTx => tx[i] = "none"
  /\ pc \in {"new", "do"} => \A i \in Ids : i = cuTx => tx[i] = "none"

\* The entries up to i have begun or hold a function, and none has ended.
BegunUpTo(i) == \A j \in Ids : j <= i => tx[j] \in {"none", "open"}

\* A function never has a database transaction.
FuncsHaveNone == \A i \in Ids : i \in Funcs => tx[i] = "none"

\* do runs forwards: whatever is behind cuTx has not begun.
Forwards ==
  pc \in {"new", "do", "stmts", "last"} =>
    /\ BegunUpTo(MaxTxs)
    /\ NoneAhead
    /\ IF pc = "new" THEN cuTx = 1 ELSE cuTx \in 1..N
    /\ pc # "last" => e = "nil"
    /\ pc = "stmts" => cuTx \notin Funcs

\* What the error of do says of the transaction that Run ends first: after a
\* failed BeginTx there is none, and an error that is no *ErrTx comes from a
\* function.
LastError ==
  pc = "last" =>
    /\ e \in {"nil", "ErrBeginTx", "ErrStmt", "errOther"}
    /\ e = "ErrBeginTx" => tx[cuTx] = "none"
    /\ e = "errOther" => cuTx \in Funcs

\* The end runs backwards: what is behind cuTx has ended, and was not committed
\* if the last one failed.
Backwards ==
  pc \in {"others", "back"} =>
    /\ cuTx \in 0..N
    /\ pc = "back" => cuTx = 0
    /\ BegunUpTo(cuTx)
    /\ \A i \in Ids : i > cuTx => tx[i] # "open"
    /\ e # "nil" => \A i \in Ids : tx[i] # "committed"

IInv ==
  /\ TypeOK
  /\ N <= MaxTxs
  /\ FuncsHaveNone
  /\ Forwards
  /\ LastError
  /\ Backwards

----------------------------------------------------------------------------

\* Init: the list is empty and nothing has begun.
LEMMA InitIInv == Init => IInv
<1> SUFFICES ASSUME Init
             PROVE  IInv
  OBVIOUS
<1>1. N = 0
  BY DEF Init, N
<1> QED
  BY <1>1, SqlTxsAssumption
  DEF Init, IInv, TypeOK, Errs, FuncsHaveNone, Funcs, Forwards, LastError, Backwards, BegunUpTo,
      NoneAhead, Ids, N

\* AddTx appends a function or a transaction that has not begun.
LEMMA AddTxIInv ==
  ASSUME IInv, NEW k \in 0..MaxStmts, NEW t \in {Func, Sql(k)}, AddTx(t)
  PROVE  IInv'
<1> USE DEF IInv, AddTx
<1>1. t \in [sql : BOOLEAN, stmts : Nat]
  <2>1. CASE t = Func
    BY <2>1 DEF Func
  <2>2. CASE t = Sql(k)
    BY <2>2, SqlTxsAssumption DEF Sql
  <2> QED
    BY <2>1, <2>2
<1>2. txs' \in Seq([sql : BOOLEAN, stmts : Nat]) /\ N' = N + 1 /\ N \in Nat
  BY <1>1 DEF TypeOK, N
<1>3. TypeOK' /\ N' <= MaxTxs
  BY <1>2, SqlTxsAssumption DEF TypeOK
<1>4. FuncsHaveNone'
  BY DEF FuncsHaveNone, Forwards, NoneAhead, Ids
<1>5. Forwards' /\ LastError' /\ Backwards'
  BY DEF Forwards, LastError, Backwards, BegunUpTo, NoneAhead, Ids
<1> QED
  BY <1>3, <1>4, <1>5

\* The list does not change once Run is called.
LEMMA RunIInv == ASSUME IInv, Run PROVE IInv'
<1> USE DEF IInv, Run
<1>1. N \in Nat /\ N' = N /\ Funcs' = Funcs
  BY DEF TypeOK, N, Funcs
<1> QED
  BY <1>1, SqlTxsAssumption
  DEF TypeOK, FuncsHaveNone, Forwards, LastError, Backwards, BegunUpTo, NoneAhead, Ids

\* A step of do goes on to the next entry or stops at this one.
LEMMA DoIInv ==
  ASSUME IInv, DoFunc \/ Begin \/ Stmt \/ StmtsEnd
  PROVE  IInv'
<1> USE DEF IInv
<1>0. pc \in {"do", "stmts"} /\ txs' = txs /\ pc' \in {"do", "stmts", "last"}
  BY DEF DoFunc, Begin, Stmt, StmtsEnd, AfterDo
<1>1. N \in Nat /\ N' = N /\ Funcs' = Funcs /\ cuTx \in 1..N /\ cuTx \in Ids
  BY <1>0, SqlTxsAssumption DEF TypeOK, N, Funcs, Forwards, Ids
<1>2. TypeOK' /\ N' <= MaxTxs
  BY <1>1 DEF TypeOK, DoFunc, Begin, Stmt, StmtsEnd, AfterDo, Errs
<1>3. FuncsHaveNone'
  BY <1>1 DEF FuncsHaveNone, TypeOK, DoFunc, Begin, Stmt, StmtsEnd
<1>4. Forwards'
  <2>1. BegunUpTo(MaxTxs)'
    BY <1>1 DEF Forwards, BegunUpTo, TypeOK, DoFunc, Begin, Stmt, StmtsEnd
  <2>2. NoneAhead'
    <3>1. ASSUME NEW err, AfterDo(err), tx' = tx
          PROVE  NoneAhead'
      BY <1>0, <1>1, <3>1 DEF Forwards, NoneAhead, AfterDo
    <3>2. CASE tx' = tx
      BY <1>1, <3>1, <3>2 DEF DoFunc, Begin, Stmt, StmtsEnd, Forwards, NoneAhead
    <3>3. CASE cuTx' = cuTx /\ tx' = [tx EXCEPT ![cuTx] = "open"] /\ pc' = "stmts"
      BY <1>0, <1>1, <3>3 DEF Forwards, NoneAhead, TypeOK
    <3> QED
      BY <3>2, <3>3 DEF DoFunc, Begin, Stmt, StmtsEnd
  <2>3. cuTx' \in 1..N' /\ (pc' # "last" => e' = "nil") /\ (pc' = "stmts" => cuTx' \notin Funcs')
    BY <1>1 DEF Forwards, DoFunc, Begin, Stmt, StmtsEnd, AfterDo
  <2> QED
    BY <1>0, <1>1, <2>1, <2>2, <2>3 DEF Forwards
<1>5. LastError'
  BY <1>1 DEF LastError, Forwards, NoneAhead, DoFunc, Begin, Stmt, StmtsEnd, AfterDo
<1>6. Backwards'
  BY <1>0 DEF Backwards
<1> QED
  BY <1>1, <1>2, <1>3, <1>4, <1>5, <1>6

\* The last transaction that do ran ends, whatever the error is.
LEMMA EndLastIInv == ASSUME IInv, EndLast PROVE IInv'
<1> USE DEF IInv
<1>1. PICK r \in CommitOrRollback(cuTx, e) :
        /\ tx' = [tx EXCEPT ![cuTx] = r.tx]
        /\ e' = r.err
        /\ errTxI' = IF r.err # "nil" THEN cuTx ELSE errTxI
  BY DEF EndLast
<1>2. /\ N \in Nat /\ N' = N /\ Funcs' = Funcs /\ cuTx \in 1..N /\ cuTx \in Ids
      /\ pc = "last" /\ pc' = "others" /\ cuTx' = cuTx - 1
  BY SqlTxsAssumption DEF TypeOK, N, Funcs, Forwards, Ids, EndLast
<1>3. /\ r.tx \in {"none", "committed", "rolledback", "failed"}
      /\ r.err \in Errs
      /\ r.err # "nil" => r.tx # "committed"
      /\ cuTx \in Funcs => r.tx = "none"
  BY <1>2 DEF CommitOrRollback, LastError, Forwards, FuncsHaveNone, BegunUpTo, Ids, Errs, TypeOK
<1>4. TypeOK' /\ N' <= MaxTxs
  BY <1>1, <1>2, <1>3 DEF TypeOK, EndLast
<1>5. FuncsHaveNone'
  BY <1>1, <1>2, <1>3 DEF FuncsHaveNone, TypeOK
<1>6. Backwards'
  BY <1>1, <1>2, <1>3 DEF Backwards, Forwards, BegunUpTo, NoneAhead, TypeOK, Ids
<1> QED
  BY <1>2, <1>4, <1>5, <1>6 DEF Forwards, LastError

\* One of the others ends, with the error of the last one or without an error.
LEMMA EndOtherIInv == ASSUME IInv, EndOther PROVE IInv'
<1> USE DEF IInv
<1>1. PICK r \in CommitOrRollback(cuTx, IF e # "nil" THEN "errOther" ELSE "nil") :
        /\ tx' = [tx EXCEPT ![cuTx] = r.tx]
        /\ pc' = IF r.err = "panic" THEN "panic" ELSE "others"
  BY DEF EndOther
<1>2. /\ N \in Nat /\ N' = N /\ Funcs' = Funcs /\ cuTx \in 1..N /\ cuTx \in Ids
      /\ pc = "others" /\ cuTx' = cuTx - 1 /\ e' = e
  BY SqlTxsAssumption DEF TypeOK, N, Funcs, Backwards, Ids, EndOther
<1>3. /\ r.tx \in {"none", "committed", "rolledback", "failed"}
      /\ e # "nil" => r.tx # "committed"
      /\ cuTx \in Funcs => r.tx = "none"
  BY <1>2 DEF CommitOrRollback, Backwards, FuncsHaveNone, BegunUpTo, Ids, TypeOK
<1>4. TypeOK' /\ N' <= MaxTxs
  BY <1>1, <1>2, <1>3 DEF TypeOK, EndOther
<1>5. FuncsHaveNone'
  BY <1>1, <1>2, <1>3 DEF FuncsHaveNone, TypeOK
<1>6. Backwards'
  BY <1>1, <1>2, <1>3 DEF Backwards, BegunUpTo, TypeOK, Ids
<1> QED
  BY <1>1, <1>2, <1>4, <1>5, <1>6 DEF Forwards, LastError

\* Run returns when the loop has passed the first entry.
LEMMA ReturnIInv == ASSUME IInv, Return PROVE IInv'
<1> USE DEF IInv, Return
<1>1. N \in Nat /\ N' = N /\ Funcs' = Funcs
  BY DEF TypeOK, N, Funcs
<1> QED
  BY <1>1 DEF TypeOK, FuncsHaveNone, Forwards, LastError, Backwards, BegunUpTo, Ids

\* Every step of Run and AddTx keeps the invariant.
LEMMA NextIInv == IInv /\ [Next]_vars => IInv'
<1> SUFFICES ASSUME IInv, [Next]_vars
             PROVE  IInv'
  OBVIOUS
<1>1. ASSUME NEW t \in {Func} \cup {Sql(k) : k \in 0..MaxStmts}, AddTx(t)
      PROVE  IInv'
  <2>1. PICK k \in 0..MaxStmts : t \in {Func, Sql(k)}
    BY SqlTxsAssumption
  <2> QED
    BY <1>1, <2>1, AddTxIInv
<1>2. CASE Run
  BY <1>2, RunIInv
<1>3. CASE DoFunc \/ Begin \/ Stmt \/ StmtsEnd
  BY <1>3, DoIInv
<1>4. CASE EndLast
  BY <1>4, EndLastIInv
<1>5. CASE EndOther
  BY <1>5, EndOtherIInv
<1>6. CASE Return
  BY <1>6, ReturnIInv
<1>7. CASE UNCHANGED vars
  BY <1>7 DEF vars, IInv, TypeOK, N, Funcs, FuncsHaveNone, Forwards, LastError, Backwards,
     BegunUpTo, NoneAhead
<1> QED
  BY <1>1, <1>2, <1>3, <1>4, <1>5, <1>6, <1>7 DEF Next

\* The place of Run in the list says which transactions are open, for lists of
\* any length.
THEOREM RunCorrect == Spec => []IInv
  BY InitIInv, NextIInv, PTL DEF Spec

\* Run (sql/SqlTxs.go) returns with no transaction left open, whichever calls of
\* the database failed on the way.
THEOREM NoneLeftOpenCorrect == Spec => []NoneLeftOpen
<1>1. IInv => NoneLeftOpen
  BY DEF IInv, Backwards, NoneLeftOpen, Ids
<1> QED
  BY <1>1, RunCorrect, PTL

\* When Run returns an error it has committed none of the transactions.
THEOREM ErrorMeansNothingCorrect == Spec => []ErrorMeansNothing
<1>1. IInv => ErrorMeansNothing
  BY DEF IInv, Backwards, ErrorMeansNothing
<1> QED
  BY <1>1, RunCorrect, PTL

----------------------------------------------------------------------------
\* The types of the request, of the one that has the lock, and of what ends contexts.
Errors == {"nil", "ErrClientDo", "ErrCopyRes", "400", "Canceled", "DeadlineExceeded"}
ReqRecord ==
  [l : {"free", "held"}, state : {"free", "running"}, err : Errors, buf : Seq(Nat), file : Nat,
   files : SUBSET Nat]
CurRecord ==
  [job : 0..MaxReqs, val : Vals \cup {Requests!NoVal}, i : Nat, att : Nat,
   pc : {"idle", "refused", "loop", "do", "copy", "after", "finish"}, code : {200, 400}]
Causes == {"no", "user", "deadline", "stalled", "end"}

ReqTypeOK ==
  /\ req \in ReqRecord
  /\ cur \in CurRecord
  /\ done \in [Requests!Jobs -> Causes]

\* The lock is held, and the state is running, from Reqf to the end of reqfM.
LockHeld ==
  /\ req.l = "free" <=> cur.pc = "idle"
  /\ req.state = "free" <=> cur.pc = "idle"
  /\ cur.pc \notin {"idle", "refused"} => cur.job > 0

\* The buffer is that of the attempt under way, and whole if it ended without an error.
BufOfAttempt ==
  cur.job > 0 =>
    /\ cur.pc \notin {"loop", "refused"} => \A k \in DOMAIN req.buf : req.buf[k] = cur.att
    /\ cur.pc = "do" => req.buf = <<>>
    /\ cur.pc = "copy" => Len(req.buf) <= Chunks
    /\ cur.pc \in {"after", "finish", "idle"} /\ req.err = "nil" =>
         Len(req.buf) = Chunks /\ cur.code < 400

\* The context of a request ends, at the latest, when reqfM does.
ContextEnds ==
  \A j \in Requests!Jobs :
    /\ done[j] = "end" => j < cur.job \/ (j = cur.job /\ cur.pc \in {"idle", "refused"})
    /\ cur.pc = "idle" /\ j = cur.job => done[j] # "no"

\* The first request opens a file in its only attempt, and clean closes it.
FilesClosed ==
  /\ cur.pc = "idle" => req.file \notin req.files \/ cur.job = 0
  /\ cur.job = 0 => req.files = {}
  /\ cur.job = 1 /\ cur.val.retry = 0 =>
       /\ cur.pc \in {"idle", "loop", "do"} => req.files = {}
       /\ cur.pc \in {"copy", "after", "finish"} => req.files \subseteq {req.file}

ReqIInv == ReqTypeOK /\ LockHeld /\ BufOfAttempt /\ ContextEnds /\ FilesClosed

----------------------------------------------------------------------------
\* NewReq.
LEMMA ReqInitIInv == ASSUME Requests!ReqfAssumption, Requests!Init PROVE ReqIInv
<1> USE DEF Requests!ReqfAssumption, Requests!Init
<1>1. req \in ReqRecord /\ cur \in CurRecord /\ done \in [Requests!Jobs -> Causes]
  BY DEF ReqRecord, CurRecord, Causes, Errors
<1>2. LockHeld /\ BufOfAttempt /\ FilesClosed
  BY DEF LockHeld, BufOfAttempt, FilesClosed
<1>3. ContextEnds
  BY DEF ContextEnds, Requests!Jobs
<1> QED
  BY <1>1, <1>2, <1>3 DEF ReqIInv, ReqTypeOK

\* Reqf takes the lock; the request before has left it.
LEMMA ReqfIInv ==
  ASSUME Requests!ReqfAssumption, ReqIInv, NEW val \in Vals, Requests!Reqf(val)
  PROVE  ReqIInv'
<1> USE DEF Requests!ReqfAssumption, ReqIInv, ReqTypeOK, ReqRecord, CurRecord, Causes, Errors
<1>0. req.l = "free" /\ cur.job < MaxReqs /\ cur.pc = "idle" /\ done' = done
  BY DEF Requests!Reqf, LockHeld
<1>1. CASE Requests!Prepare(val)
  <2>1. req' = [l |-> "held", state |-> "running", err |-> req.err, buf |-> <<>>, file |-> 0,
                files |-> req.files]
    BY <1>1 DEF Requests!Prepare
  <2>2. cur' = [job |-> cur.job + 1, val |-> val, i |-> 0, att |-> cur.att, pc |-> "loop",
                code |-> cur.code]
    BY <1>1 DEF Requests!Prepare
  <2>3. ReqTypeOK'
    BY <1>0, <2>1, <2>2
  <2>4. LockHeld' /\ BufOfAttempt' /\ FilesClosed'
    BY <1>0, <2>1, <2>2 DEF LockHeld, BufOfAttempt, FilesClosed
  <2>5. ContextEnds'
    BY <1>0, <2>2 DEF ContextEnds, Requests!Jobs
  <2> QED
    BY <2>3, <2>4, <2>5
<1>2. CASE req' = [req EXCEPT !.l = "held", !.state = "running"]
           /\ cur' = [cur EXCEPT !.pc = "refused", !.val = val]
  <2>1. req' = [l |-> "held", state |-> "running", err |-> req.err, buf |-> req.buf,
                file |-> req.file, files |-> req.files]
    BY <1>2
  <2>2. cur' = [job |-> cur.job, val |-> val, i |-> cur.i, att |-> cur.att, pc |-> "refused",
                code |-> cur.code]
    BY <1>2
  <2>3. ReqTypeOK'
    BY <1>0, <2>1, <2>2
  <2> QED
    BY <1>0, <2>1, <2>2, <2>3 DEF LockHeld, BufOfAttempt, ContextEnds, FilesClosed
<1> QED
  BY <1>1, <1>2 DEF Requests!Reqf

\* An attempt starts with an empty buffer.
LEMMA AttemptIInv ==
  ASSUME Requests!ReqfAssumption, ReqIInv, Requests!Attempt
  PROVE  ReqIInv'
<1> USE DEF Requests!ReqfAssumption, ReqIInv, ReqTypeOK, ReqRecord, CurRecord, Causes, Errors
<1>1. req' = [l |-> req.l, state |-> req.state, err |-> "nil", buf |-> <<>>, file |-> req.file,
              files |-> req.files]
  BY DEF Requests!Attempt, Requests!PrepareRes
<1>2. cur' = [job |-> cur.job, val |-> cur.val, i |-> cur.i, att |-> cur.att + 1, pc |-> "do",
              code |-> cur.code]
  BY DEF Requests!Attempt
<1>3. ReqTypeOK' /\ cur.pc = "loop" /\ done' = done
  BY <1>1, <1>2 DEF Requests!Attempt
<1> QED
  BY <1>1, <1>2, <1>3 DEF LockHeld, BufOfAttempt, ContextEnds, FilesClosed

\* The attempt fails, or it ends well with a whole buffer.
LEMMA FailIInv ==
  ASSUME Requests!ReqfAssumption, ReqIInv, NEW err \in Errors, Requests!Fail(err),
         cur.pc \in {"do", "copy"}, done' = done,
         err = "nil" => Len(req.buf) = Chunks /\ cur.code < 400 /\ cur.pc = "copy"
  PROVE  ReqIInv'
<1> USE DEF Requests!ReqfAssumption, ReqIInv, ReqTypeOK, ReqRecord, CurRecord, Causes, Errors
<1>1. req' = [l |-> req.l, state |-> req.state, err |-> err, buf |-> req.buf, file |-> req.file,
              files |-> req.files]
  BY DEF Requests!Fail
<1>2. cur' = [job |-> cur.job, val |-> cur.val, i |-> cur.i, att |-> cur.att, pc |-> "after",
              code |-> cur.code]
  BY DEF Requests!Fail
<1>3. ReqTypeOK'
  BY <1>1, <1>2
<1> QED
  BY <1>1, <1>2, <1>3 DEF LockHeld, BufOfAttempt, ContextEnds, FilesClosed

\* client.Do answers with an empty buffer, and opens the file.
LEMMA ReqDoIInv ==
  ASSUME Requests!ReqfAssumption, ReqIInv, Requests!Do
  PROVE  ReqIInv'
<1> USE DEF Requests!ReqfAssumption, ReqIInv, ReqTypeOK, ReqRecord, CurRecord, Causes, Errors
<1>0. cur.pc = "do" /\ done' = done
  BY DEF Requests!Do
<1>1. CASE Requests!Fail("ErrClientDo")
  BY <1>0, <1>1, FailIInv
<1>2. ASSUME NEW code \in {200, 400}, cur' = [cur EXCEPT !.pc = "copy", !.code = code],
             req' = IF cur.val.save
                      THEN [req EXCEPT !.file = cur.att, !.files = @ \cup {cur.att}]
                      ELSE req
      PROVE  ReqIInv'
  <2>1. cur' = [job |-> cur.job, val |-> cur.val, i |-> cur.i, att |-> cur.att, pc |-> "copy",
                code |-> code]
    BY <1>2
  <2>2. PICK file \in Nat, files \in SUBSET Nat :
          /\ req' = [l |-> req.l, state |-> req.state, err |-> req.err, buf |-> req.buf,
                     file |-> file, files |-> files]
          /\ files \subseteq req.files \cup {file}
    <3>1. CASE cur.val.save
      <4>1. req' = [l |-> req.l, state |-> req.state, err |-> req.err, buf |-> req.buf,
                    file |-> cur.att, files |-> req.files \cup {cur.att}]
        BY <1>2, <3>1
      <4>2. cur.att \in Nat /\ req.files \cup {cur.att} \in SUBSET Nat
        OBVIOUS
      <4> QED
        BY <4>1, <4>2
    <3>2. CASE ~cur.val.save
      <4>1. req' = [l |-> req.l, state |-> req.state, err |-> req.err, buf |-> req.buf,
                    file |-> req.file, files |-> req.files]
        BY <1>2, <3>2
      <4>2. req.file \in Nat /\ req.files \in SUBSET Nat
        OBVIOUS
      <4> QED
        BY <4>1, <4>2
    <3> QED
      BY <3>1, <3>2
  <2>3. ReqTypeOK'
    BY <1>0, <2>1, <2>2
  <2>4. BufOfAttempt'
    BY <1>0, <2>1, <2>2 DEF BufOfAttempt
  <2> QED
    BY <1>0, <2>1, <2>2, <2>3, <2>4 DEF LockHeld, ContextEnds, FilesClosed
<1> QED
  BY <1>1, <1>2 DEF Requests!Do

\* Append to a sequence that holds one value only.
LEMMA AppendSame ==
  ASSUME NEW s \in Seq(Nat), NEW a \in Nat, NEW c \in Nat, Len(s) < c,
         \A k \in DOMAIN s : s[k] = a
  PROVE  /\ Append(s, a) \in Seq(Nat)
         /\ Len(Append(s, a)) <= c
         /\ \A k \in DOMAIN Append(s, a) : Append(s, a)[k] = a
OBVIOUS

\* Every piece is one of this attempt.
LEMMA CopyResIInv ==
  ASSUME Requests!ReqfAssumption, ReqIInv, Requests!CopyRes
  PROVE  ReqIInv'
<1> USE DEF Requests!ReqfAssumption, ReqIInv, ReqTypeOK, ReqRecord, CurRecord, Causes, Errors
<1>0. cur.pc = "copy" /\ done' = done /\ cur.job > 0 /\ Len(req.buf) \in Nat /\ Len(req.buf) <= Chunks
  BY DEF Requests!CopyRes, LockHeld, BufOfAttempt
<1>1. CASE Len(req.buf) < Chunks /\ req' = [req EXCEPT !.buf = Append(@, cur.att)] /\ cur' = cur
  <2> DEFINE buf == Append(req.buf, cur.att)
  <2>1. buf \in Seq(Nat) /\ Len(buf) <= Chunks /\ \A k \in DOMAIN buf : buf[k] = cur.att
    <3>1. \A k \in DOMAIN req.buf : req.buf[k] = cur.att
      BY <1>0 DEF BufOfAttempt
    <3> QED
      BY <1>0, <1>1, <3>1, AppendSame
  <2>2. req' = [l |-> req.l, state |-> req.state, err |-> req.err, buf |-> buf,
                file |-> req.file, files |-> req.files]
    BY <1>1
  <2>3. cur' = cur
    BY <1>1
  <2> HIDE DEF buf
  <2>4. ReqTypeOK'
    BY <1>0, <2>1, <2>2, <2>3
  <2> QED
    BY <1>0, <2>1, <2>2, <2>3, <2>4 DEF LockHeld, BufOfAttempt, ContextEnds, FilesClosed
<1>2. CASE Requests!Fail("ErrCopyRes")
  BY <1>0, <1>2, FailIInv
<1>3. CASE Len(req.buf) >= Chunks /\ Requests!Fail(IF cur.code >= 400 THEN "400" ELSE "nil")
  <2>1. CASE cur.code >= 400
    BY <1>0, <1>3, <2>1, FailIInv
  <2>2. CASE ~(cur.code >= 400)
    <3>1. Len(req.buf) = Chunks /\ cur.code < 400 /\ Requests!Fail("nil")
      BY <1>0, <1>3, <2>2
    <3> QED
      BY <1>0, <3>1, FailIInv
  <2> QED
    BY <2>1, <2>2
<1> QED
  BY <1>1, <1>2, <1>3 DEF Requests!CopyRes

\* The cause of an ended context is an error.
LEMMA CutIInv ==
  ASSUME Requests!ReqfAssumption, ReqIInv, Requests!Cut
  PROVE  ReqIInv'
<1> USE DEF ReqIInv, ReqTypeOK, ReqRecord, CurRecord, Causes, Errors
<1>1. cur.job \in Requests!Jobs /\ cur.pc \in {"do", "copy"} /\ done[cur.job] # "no" /\ done' = done
      /\ Requests!Fail(Requests!CtxErr)
  BY DEF Requests!ReqfAssumption, Requests!Cut, LockHeld, Requests!Jobs
<1>2. done[cur.job] \in {"user", "deadline", "stalled"}
  BY <1>1 DEF ContextEnds, Requests!ReqfAssumption, Requests!Jobs
<1>3. Requests!CtxErr \in {"Canceled", "DeadlineExceeded", "ErrCopyRes"}
  BY <1>2 DEF Requests!CtxErr
<1> QED
  BY <1>1, <1>3, FailIInv DEF Errors

\* The loop goes on or ends, and leaves the attempt as it is.
LEMMA AfterIInv ==
  ASSUME Requests!ReqfAssumption, ReqIInv, Requests!After
  PROVE  ReqIInv'
<1> USE DEF Requests!ReqfAssumption, ReqIInv, ReqTypeOK, ReqRecord, CurRecord, Causes, Errors
<1>1. cur.pc = "after" /\ UNCHANGED <<req, done>>
  BY DEF Requests!After
<1>2. CASE cur' = [cur EXCEPT !.pc = "finish"]
  BY <1>1, <1>2 DEF LockHeld, BufOfAttempt, ContextEnds, FilesClosed
<1>3. CASE cur' = [cur EXCEPT !.pc = "loop", !.i = @ + 1] /\ ~(cur.i >= cur.val.retry)
  <2>1. cur' = [job |-> cur.job, val |-> cur.val, i |-> cur.i + 1, att |-> cur.att, pc |-> "loop",
                code |-> cur.code]
    BY <1>3
  <2>2. ReqTypeOK' /\ cur.val.retry # 0
    BY <1>1, <1>3, <2>1
  <2> QED
    BY <1>1, <2>1, <2>2 DEF LockHeld, BufOfAttempt, ContextEnds, FilesClosed
<1> QED
  BY <1>2, <1>3 DEF Requests!After

\* reqfM ends the context, closes the file and gives the lock back.
LEMMA FinishIInv ==
  ASSUME Requests!ReqfAssumption, ReqIInv, Requests!Finish
  PROVE  ReqIInv'
<1> USE DEF Requests!ReqfAssumption, ReqIInv, ReqTypeOK, ReqRecord, CurRecord, Causes, Errors
<1>0. cur.pc = "finish" /\ cur.job \in Requests!Jobs
  BY DEF Requests!Finish, LockHeld, Requests!Jobs
<1>1. req' = [l |-> "free", state |-> "free", err |-> req.err, buf |-> req.buf, file |-> req.file,
              files |-> req.files \ {req.file}]
  BY DEF Requests!Finish, Requests!Clean
<1>2. cur' = [job |-> cur.job, val |-> cur.val, i |-> cur.i, att |-> cur.att, pc |-> "idle",
              code |-> cur.code]
  BY DEF Requests!Finish
<1>3. ReqTypeOK'
  BY <1>0, <1>1, <1>2 DEF Requests!Finish
<1>4. ContextEnds'
  BY <1>0, <1>2 DEF Requests!Finish, ContextEnds, Requests!Jobs
<1> QED
  BY <1>0, <1>1, <1>2, <1>3, <1>4 DEF LockHeld, BufOfAttempt, FilesClosed

\* The timers and the user end contexts, and change nothing else.
LEMMA ContextIInv ==
  ASSUME ReqIInv, UNCHANGED <<req, cur>>,
         done' = done \/ \E j \in Requests!Jobs, c \in {"user", "deadline", "stalled"} :
                           done' = [done EXCEPT ![j] = IF @ # "no" THEN @ ELSE c]
  PROVE  ReqIInv'
<1> USE DEF ReqIInv, ReqTypeOK, ReqRecord, CurRecord, Causes, Errors
<1>1. CASE done' = done
  BY <1>1 DEF LockHeld, BufOfAttempt, ContextEnds, FilesClosed
<1>2. ASSUME NEW j \in Requests!Jobs, NEW c \in {"user", "deadline", "stalled"},
             done' = [done EXCEPT ![j] = IF @ # "no" THEN @ ELSE c]
      PROVE  ReqIInv'
  <2>1. done' \in [Requests!Jobs -> Causes] /\ \A k \in Requests!Jobs : done'[k] \in {done[k], c}
    BY <1>2
  <2>2. \A k \in Requests!Jobs : done[k] # "no" => done'[k] = done[k]
    BY <1>2
  <2>3. ContextEnds'
    BY <2>1, <2>2 DEF ContextEnds
  <2> QED
    BY <2>1, <2>3 DEF LockHeld, BufOfAttempt, FilesClosed
<1> QED
  BY <1>1, <1>2

\* Every step of a request, of its goroutines and of the user.
LEMMA ReqNextIInv ==
  ASSUME Requests!ReqfAssumption, ReqIInv, [Requests!Next]_(Requests!vars)
  PROVE  ReqIInv'
<1>1. CASE UNCHANGED Requests!vars
  BY <1>1, ContextIInv DEF Requests!vars
<1>2. ASSUME NEW k \in Requests!Timers, NEW j \in Requests!Jobs,
             Requests!TimerFires(k, j) \/ Requests!CancelByTimer(k, j) \/ Requests!WatcherLeaves(k, j)
      PROVE  ReqIInv'
  <2>1. UNCHANGED <<req, cur>>
    BY <1>2 DEF Requests!TimerFires, Requests!CancelByTimer, Requests!WatcherLeaves
  <2>2. done' = done \/ \E c \in {"user", "deadline", "stalled"} :
                          done' = [done EXCEPT ![j] = IF @ # "no" THEN @ ELSE c]
    BY <1>2 DEF Requests!TimerFires, Requests!CancelByTimer, Requests!WatcherLeaves
  <2> QED
    BY <2>1, <2>2, ContextIInv
<1>3. CASE Requests!UserCancels
  <2>1. cur.job \in Requests!Jobs
    BY <1>3 DEF Requests!UserCancels, ReqIInv, ReqTypeOK, CurRecord, LockHeld, Requests!Jobs, Requests!ReqfAssumption
  <2>2. UNCHANGED <<req, cur>> /\ done' = [done EXCEPT ![cur.job] = IF @ # "no" THEN @ ELSE "user"]
    BY <1>3 DEF Requests!UserCancels
  <2> QED
    BY <2>1, <2>2, ContextIInv
<1> QED
  BY <1>1, <1>2, <1>3, ReqfIInv, AttemptIInv, ReqDoIInv, CopyResIInv, CutIInv, AfterIInv, FinishIInv
  DEF Requests!Next

\* Whoever gets the read lock of a Req (reqf/Reqf.go) sees one finished attempt,
\* for any number of requests and retries and whenever the timers fire.
THEOREM ReqfCorrect ==
  ASSUME Requests!ReqfAssumption
  PROVE  Requests!Spec => []Requests!OneAttemptSeen
<1>1. Requests!Init => ReqIInv
  BY ReqInitIInv
<1>2. ReqIInv /\ [Requests!Next]_(Requests!vars) => ReqIInv'
  BY ReqNextIInv
<1>3. ASSUME ReqIInv
      PROVE  Requests!OneAttemptSeen
  <2> SUFFICES ASSUME Requests!Readable, cur.job > 0
               PROVE  Requests!OneAttemptSeen
    BY DEF Requests!OneAttemptSeen
  <2>1. cur.pc = "idle" /\ req.state = "free" /\ cur.job \in Requests!Jobs
    BY <1>3 DEF ReqIInv, ReqTypeOK, CurRecord, LockHeld, Requests!Readable, Requests!Jobs, Requests!ReqfAssumption
  <2>2. done[cur.job] # "no"
    BY <1>3, <2>1 DEF ReqIInv, ContextEnds
  <2>3. /\ \A k \in DOMAIN req.buf : req.buf[k] = cur.att
        /\ req.err = "nil" => Len(req.buf) = Chunks /\ cur.code < 400
    BY <1>3, <2>1 DEF ReqIInv, BufOfAttempt
  <2>4. /\ req.file \notin req.files
        /\ cur.val.retry = 0 /\ cur.job = 1 => req.files = {}
    BY <1>3, <2>1 DEF ReqIInv, FilesClosed
  <2> QED
    BY <2>1, <2>2, <2>3, <2>4 DEF Requests!OneAttemptSeen
<1> QED
  BY <1>1, <1>2, <1>3, PTL DEF Requests!Spec

----------------------------------------------------------------------------
\* What the goroutine of a Client has told when it is at a place (websocket/Client.go).
Told(at) ==
  /\ client.normal + client.abort <= 1
  /\ at \in {"none", "next", "verdict"} => client.normal = 0 /\ client.abort = 0
  /\ at \in {"exit", "setClose", "over"} => client.errs # {} \/ client.normal = 1
  /\ at \in {"none", "next", "verdict", "exit"} => client.exits = 0
  /\ at \in {"setClose", "over"} => client.exits = 1
  /\ client.close => at = "over"

\* The timers of the pings: every one was made, and the last one is stored.
Pings ==
  /\ timers.ping \subseteq 1..timers.made
  /\ ~timers.lost => timers.ping \subseteq {timers.pingT}

\* The types of the client, its goroutine and its timers.
ClientTypes ==
  /\ DOMAIN client = {"closeCall", "close", "exits", "errs", "normal", "abort"}
  /\ client.exits \in Nat /\ client.normal \in Nat /\ client.abort \in Nat
  /\ DOMAIN reader = {"pc", "err"}
  /\ reader.pc \in {"none", "next", "verdict", "exit", "setClose", "over"}
  /\ DOMAIN timers = {"ping", "pingT", "made", "cto", "period", "lost"}
  /\ timers.made \in Nat /\ timers.pingT \in Nat /\ timers.lost \in BOOLEAN

\* The goroutine starts when the dial succeeds.
Dialed ==
  /\ DOMAIN conn = {"dialed", "open", "peer"}
  /\ conn.dialed \/ reader.pc = "none"

WsIInv == ClientTypes /\ Told(reader.pc) /\ Pings /\ Dialed

\* What a step that is not of the goroutine may do to the client.
Aside ==
  /\ DOMAIN client' = DOMAIN client
  /\ client'.exits = client.exits /\ client'.normal = client.normal
  /\ client'.abort = client.abort /\ client'.close = client.close
  /\ client.errs \subseteq client'.errs

\* What a step may do to the timers.
TimersAside ==
  /\ DOMAIN timers' = DOMAIN timers
  /\ timers'.made \in Nat /\ timers'.pingT \in Nat /\ timers'.lost \in BOOLEAN
  /\ Pings'

\* The timer of another ping; ~lost says that the one before it had been stopped.
LEMMA PingMade ==
  ASSUME WsIInv,
         DOMAIN timers' = DOMAIN timers,
         timers'.made = timers.made + 1,
         timers'.ping = timers.ping \cup {timers.made + 1},
         timers'.pingT = timers.made + 1,
         timers'.lost = (timers.lost \/ timers.pingT # 0)
  PROVE  TimersAside
<1> USE DEF WsIInv, ClientTypes, Pings, TimersAside
<1>1. timers'.ping \subseteq 1..timers'.made
  OBVIOUS
<1>2. ASSUME ~timers'.lost
      PROVE  timers'.ping \subseteq {timers'.pingT}
  <2>1. ~timers.lost /\ ~(timers.pingT # 0)
    BY <1>2, Zenon
  <2>2. timers.ping \subseteq {0}
    BY <2>1
  <2> QED
    BY <2>2
<1>3. timers'.lost \in BOOLEAN
  OBVIOUS
<1> QED
  BY <1>1, <1>2, <1>3

\* A push of "send" leaves the client's counters alone and keeps the timers.
LEMMA SendAside ==
  ASSUME WsIInv, NEW ty, Ws!Send(ty)
  PROVE  Aside /\ TimersAside
<1> USE DEF WsIInv, ClientTypes, Pings, Aside, TimersAside
<1>1. CASE UNCHANGED <<sender, client, timers>>
  BY <1>1
<1>2. CASE Ws!SendClose
  <2>1. Aside
    BY <1>2 DEF Ws!SendClose
  <2>2. TimersAside
    BY <1>2 DEF Ws!SendClose, Ws!AskClose
  <2> QED
    BY <2>1, <2>2
<1>3. CASE Ws!SendPing
  <2>1. Aside
    BY <1>3 DEF Ws!SendPing, Ws!Fails
  <2>2. /\ DOMAIN timers' = DOMAIN timers
        /\ timers'.made = timers.made + 1
        /\ timers'.ping = timers.ping \cup {timers.made + 1}
        /\ timers'.pingT = timers.made + 1
        /\ timers'.lost = (timers.lost \/ timers.pingT # 0)
    BY <1>3 DEF Ws!SendPing
  <2> QED
    BY <2>1, <2>2, PingMade
<1>4. CASE Ws!SendText
  BY <1>4 DEF Ws!SendText, Ws!Fails
<1> QED
  BY <1>1, <1>2, <1>3, <1>4 DEF Ws!Send

\* The timers, the user and the peer leave what the goroutine has told alone.
LEMMA WsAside ==
  ASSUME Ws!WsClientAssumption, WsIInv, reader' = reader,
         \/ Ws!Register \/ Ws!CtoFires \/ Ws!PeriodFires
         \/ \E ty \in {"text", "ping", "close"} : Ws!User(ty)
         \/ \E k \in timers.ping : Ws!PongFail(k)
         \/ \E ty \in ReadTypes : Ws!ReadMessage(ty)
         \/ \E how \in {"normal", "abnormal", "other"} : Ws!PeerEnds(how)
  PROVE  Aside /\ TimersAside
<1> USE DEF WsIInv, ClientTypes, Pings, Aside, TimersAside
<1>1. CASE Ws!Register
  BY <1>1 DEF Ws!Register
<1>2. CASE Ws!CtoFires
  BY <1>2 DEF Ws!CtoFires
<1>3. CASE Ws!PeriodFires
  <2>1. Aside
    BY <1>3 DEF Ws!PeriodFires, Ws!Fails
  <2>2. CASE sender # "on"
    <3>1. DOMAIN timers' = DOMAIN timers /\ timers'.made = timers.made /\ timers'.ping = timers.ping
          /\ timers'.pingT = timers.pingT /\ timers'.lost = timers.lost
      BY <1>3, <2>2 DEF Ws!PeriodFires
    <3> QED
      BY <2>1, <3>1
  <2>3. CASE sender = "on"
    <3>1. /\ DOMAIN timers' = DOMAIN timers
          /\ timers'.made = timers.made + 1
          /\ timers'.ping = timers.ping \cup {timers.made + 1}
          /\ timers'.pingT = timers.made + 1
          /\ timers'.lost = (timers.lost \/ timers.pingT # 0)
      BY <1>3, <2>3 DEF Ws!PeriodFires
    <3> QED
      BY <2>1, <3>1, PingMade
  <2> QED
    BY <2>1, <2>2, <2>3
<1>4. ASSUME NEW ty, Ws!User(ty)
      PROVE  Aside /\ TimersAside
  BY <1>4, SendAside DEF Ws!User
<1>5. ASSUME NEW k \in timers.ping, Ws!PongFail(k)
      PROVE  Aside /\ TimersAside
  <2>1. Aside
    BY <1>5 DEF Ws!PongFail
  <2>2. DOMAIN timers' = DOMAIN timers /\ timers'.made = timers.made /\ timers'.pingT = timers.pingT
        /\ timers'.ping = timers.ping \ {k} /\ timers'.lost = timers.lost
    BY <1>5 DEF Ws!PongFail, Ws!AskClose
  <2> QED
    BY <2>1, <2>2
<1>6. ASSUME NEW ty \in ReadTypes, Ws!ReadMessage(ty)
      PROVE  Aside /\ TimersAside
  <2>1. CASE Ws!Send("pong")
    BY <2>1, SendAside
  <2>2. CASE UNCHANGED <<sender, client, timers>>
    BY <2>2
  <2>3. CASE /\ timers' = [timers EXCEPT !.ping = @ \ {timers.pingT}, !.pingT = 0,
                                         !.period = @ \/ Periodic]
             /\ UNCHANGED <<sender, client>>
    <3>1. DOMAIN timers' = DOMAIN timers /\ timers'.made = timers.made /\ timers'.pingT = 0
          /\ timers'.ping = timers.ping \ {timers.pingT} /\ timers'.lost = timers.lost
      BY <2>3
    <3> QED
      BY <2>3, <3>1
  <2> QED
    BY <1>6, <2>1, <2>2, <2>3 DEF Ws!ReadMessage, Ws!WsClientAssumption
<1>7. ASSUME NEW how, Ws!PeerEnds(how)
      PROVE  Aside /\ TimersAside
  BY <1>7 DEF Ws!PeerEnds
<1> QED
  BY <1>1, <1>2, <1>3, <1>4, <1>5, <1>6, <1>7

\* The goroutine tells each thing once, in the order of its places.
LEMMA WsNextIInv ==
  ASSUME Ws!WsClientAssumption, WsIInv, [Ws!Next]_(Ws!vars)
  PROVE  WsIInv'
<1> USE DEF WsIInv, ClientTypes, Told
<1>1. ASSUME reader' = reader, Aside, TimersAside, Dialed'
      PROVE  WsIInv'
  BY <1>1 DEF Aside, TimersAside
<1>2. CASE UNCHANGED Ws!vars
  BY <1>2 DEF Ws!vars, Pings, Dialed
<1>3. CASE Ws!Dial
  <2>1. UNCHANGED timers
    BY <1>3 DEF Ws!Dial
  <2>2. CASE reader' = [reader EXCEPT !.pc = "next"] /\ UNCHANGED client
    <3>1. reader.pc = "none" /\ conn'.dialed /\ DOMAIN conn' = DOMAIN conn
      <4>1. ~conn.dialed /\ conn' = [dialed |-> TRUE, open |-> TRUE, peer |-> "open"]
        BY <1>3, <2>2 DEF Ws!Dial, Dialed
      <4> QED
        BY <4>1 DEF Dialed
    <3> QED
      BY <2>1, <2>2, <3>1 DEF Pings, Dialed
  <2>3. CASE /\ conn' = [conn EXCEPT !.dialed = TRUE]
             /\ client' = [client EXCEPT !.errs = @ \cup {"dial"}] /\ UNCHANGED reader
    <3>1. DOMAIN conn' = DOMAIN conn /\ conn'.dialed
      BY <2>3 DEF Dialed
    <3> QED
      BY <2>1, <2>3, <3>1 DEF Pings, Dialed
  <2> QED
    BY <1>3, <2>2, <2>3 DEF Ws!Dial
<1>4. CASE Ws!ReadFails
  BY <1>4 DEF Ws!ReadFails, Pings, Dialed
<1>5. CASE Ws!Verdict
  <2>1. UNCHANGED <<conn, timers>> /\ reader' = [reader EXCEPT !.pc = "exit"] /\ reader.pc = "verdict"
    BY <1>5 DEF Ws!Verdict
  <2>2. CASE client' = [client EXCEPT !.normal = @ + 1]
    BY <2>1, <2>2 DEF Pings, Dialed
  <2>3. CASE client' = [client EXCEPT !.abort = @ + 1, !.errs = @ \cup {Ws!Judged}]
    <3>1. /\ DOMAIN client' = DOMAIN client /\ client'.abort = client.abort + 1
          /\ client'.errs # {} /\ client'.exits = client.exits
          /\ client'.normal = client.normal /\ client'.close = client.close
      BY <2>3
    <3> QED
      BY <2>1, <3>1 DEF Pings, Dialed
  <2>4. CASE client' = [client EXCEPT !.errs = @ \cup {Ws!Judged}]
    BY <2>1, <2>4 DEF Pings, Dialed
  <2> QED
    BY <1>5, <2>2, <2>3, <2>4 DEF Ws!Verdict
<1>6. CASE Ws!PushExit
  BY <1>6 DEF Ws!PushExit, Pings, Dialed
<1>7. CASE Ws!SetClose
  BY <1>7 DEF Ws!SetClose, Pings, Dialed
<1>8. CASE \/ Ws!Register \/ Ws!CtoFires \/ Ws!PeriodFires
           \/ \E ty \in {"text", "ping", "close"} : Ws!User(ty)
           \/ \E k \in timers.ping : Ws!PongFail(k)
           \/ \E ty \in ReadTypes : Ws!ReadMessage(ty)
           \/ \E how \in {"normal", "abnormal", "other"} : Ws!PeerEnds(how)
  <2>1. /\ reader' = reader
        /\ conn' = conn \/ conn' = [conn EXCEPT !.open = FALSE]
                        \/ \E how : conn' = [conn EXCEPT !.peer = how]
    BY <1>8 DEF Ws!Register, Ws!CtoFires, Ws!PeriodFires, Ws!User, Ws!PongFail, Ws!ReadMessage, Ws!PeerEnds
  <2>2. Dialed'
    BY <2>1 DEF Dialed
  <2> QED
    BY <1>1, <1>8, <2>1, <2>2, WsAside
<1> QED
  BY <1>2, <1>3, <1>4, <1>5, <1>6, <1>7, <1>8 DEF Ws!Next

\* A Client (websocket/Client.go) that is closed has told so once, with an error unless the
\* peer closed normally, and the timer it keeps is the only one that may blame the peer
\* unless a second ping overwrote it, for any number of pushes, messages and timers.
THEOREM ToldOnceCorrect ==
  ASSUME Ws!WsClientAssumption
  PROVE  Ws!Spec => []Ws!ToldOnce
<1>1. Ws!Init => WsIInv
  BY DEF Ws!Init, WsIInv, ClientTypes, Told, Pings, Dialed
<1>2. WsIInv => Ws!ToldOnce
  BY DEF WsIInv, ClientTypes, Told, Pings, Ws!ToldOnce
<1> QED
  BY <1>1, <1>2, WsNextIInv, PTL DEF Ws!Spec

----------------------------------------------------------------------------
(* The composition that the run checks.                                    *)

\* A step of the composition is one of the unit it is about, and the others stand still.
LEMMA UnitSteps ==
  ASSUME [ClientsNext]_<<unit, vars, pipeVars, reqVars, wsVars>>
  PROVE  [Requests!Next]_(Requests!vars) /\ [Ws!Next]_(Ws!vars)
BY DEF ClientsNext, reqVars, wsVars, Requests!vars, Ws!vars

\* reqf/Reqf.go: whoever gets the lock of a Req sees one finished attempt, as ReqfCorrect
\* says, beside everything else that the run composes.
THEOREM OneAttemptSeenCorrect == ClientsSpec => []OneAttemptSeen
<1>1. ClientsSpec => Requests!Spec
  <2>1. ClientsInit => Requests!Init
    BY DEF ClientsInit
  <2> QED
    BY <2>1, UnitSteps, PTL DEF ClientsSpec, Requests!Spec
<1>2. Requests!Spec => []Requests!OneAttemptSeen
  BY ReqfCorrect, ClientsAssumptions
<1> QED
  BY <1>1, <1>2, PTL DEF OneAttemptSeen
=============================================================================
