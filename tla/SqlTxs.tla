------------------------------- MODULE SqlTxs -------------------------------
(***************************************************************************)
(* sql/SqlTxs.go and sql/SqlTx.go: several transactions run as one.  Run   *)
(* executes the transactions in order until one fails, commits or rolls    *)
(* back the last one it executed, and then, backwards, the ones before it. *)
(* Any call of the database may fail; database/sql ends a transaction whose *)
(* Commit or Rollback fails without committing it.                         *)
(***************************************************************************)
EXTENDS Integers, Sequences

CONSTANTS
  MaxTxs,    \* bound: transactions in the list
  MaxStmts   \* bound: statements of a transaction

ASSUME SqlTxsAssumption == MaxTxs \in Nat /\ MaxStmts \in Nat

Ids == 1..MaxTxs

VARIABLES
  txs,       \* the list: functions, and transactions of so many statements
  pc,        \* where Run is
  cuTx,
  stmt,      \* the statement that do is at
  e,         \* the error: a kind, or "nil"
  errTxI,
  tx,        \* [Ids -> state of the database transaction]
  applied    \* [Ids -> Nat], the statements executed in it

vars == <<txs, pc, cuTx, stmt, e, errTxI, tx, applied>>

\* errOther stands for the errors that are no *ErrTx: the error of a
\* function added with AddTxFunc.
Errs == {"nil", "ErrBeginTx", "ErrStmt", "ErrCommit", "ErrRollback", "errOther"}

Func == [sql |-> FALSE, stmts |-> 0]
\* BeginTx, with k statements of SimpleDo, Do or StopWithErr.
Sql(k) == [sql |-> TRUE, stmts |-> k]

N == Len(txs)
Funcs == {i \in 1..N : ~txs[i].sql}
Stmts(i) == txs[i].stmts

\* NewSqlTxs
Init ==
  /\ txs = <<>>
  /\ pc = "new"
  /\ cuTx = 1
  /\ stmt = 0
  /\ e = "nil"
  /\ errTxI = 0
  /\ tx = [i \in Ids |-> "none"]
  /\ applied = [i \in Ids |-> 0]

\* AddTx (AddToTxs) and AddTxFunc
AddTx(t) ==
  /\ pc = "new"
  /\ N < MaxTxs
  /\ txs' = Append(txs, t)
  /\ UNCHANGED <<pc, cuTx, stmt, e, errTxI, tx, applied>>

\* Run; on an empty list it reads t.txs[0].
Run ==
  /\ pc = "new"
  /\ pc' = IF N = 0 THEN "panic" ELSE "do"
  /\ UNCHANGED <<txs, cuTx, stmt, e, errTxI, tx, applied>>

\* The loop over do goes on, or it has come to an error or to the end.
AfterDo(err) ==
  /\ e' = err
  /\ stmt' = 0
  /\ IF err = "nil" /\ cuTx < N
       THEN cuTx' = cuTx + 1 /\ pc' = "do"
       ELSE UNCHANGED cuTx /\ pc' = "last"

\* txFunc.do
DoFunc ==
  /\ pc = "do" /\ cuTx \in Funcs
  /\ \E err \in {"nil", "errOther"} : AfterDo(err)
  /\ UNCHANGED <<txs, errTxI, tx, applied>>

\* SqlTx.do: canTx.BeginTx
Begin ==
  /\ pc = "do" /\ cuTx \in 1..N \ Funcs
  /\ \/ /\ AfterDo("ErrBeginTx")
        /\ UNCHANGED tx
     \/ /\ tx' = [tx EXCEPT ![cuTx] = "open"]
        /\ pc' = "stmts"
        /\ UNCHANGED <<cuTx, stmt, e>>
  /\ UNCHANGED <<txs, errTxI, applied>>

\* One statement with its BeforeF and AfterEF or AfterQF; it may fail before
\* or after it was executed.
Stmt ==
  /\ pc = "stmts" /\ stmt < Stmts(cuTx)
  /\ \/ /\ applied' = [applied EXCEPT ![cuTx] = @ + 1]
        /\ stmt' = stmt + 1
        /\ UNCHANGED <<pc, cuTx, e>>
     \/ /\ AfterDo("ErrStmt")
        /\ applied' \in {applied, [applied EXCEPT ![cuTx] = @ + 1]}
  /\ UNCHANGED <<txs, errTxI, tx>>

StmtsEnd ==
  /\ pc = "stmts" /\ stmt = Stmts(cuTx)
  /\ AfterDo("nil")
  /\ UNCHANGED <<txs, errTxI, tx, applied>>

\* commitOrRollback(err) of transaction i: its new state, and the error that
\* it returns ("panic" when NewErrTx is given an error that is no *ErrTx).
CommitOrRollback(i, err) ==
  IF i \in Funcs \/ tx[i] # "open" THEN {[tx |-> tx[i], err |-> err]}
  ELSE IF err = "nil"
         THEN {[tx |-> "committed", err |-> "nil"], [tx |-> "failed", err |-> "ErrCommit"]}
  ELSE IF err \in {"ErrBeginTx", "ErrCommit", "ErrRollback"}
         THEN {[tx |-> "open", err |-> err]}
         ELSE {[tx |-> "rolledback", err |-> err],
               [tx |-> "failed", err |-> IF err = "errOther" THEN "panic" ELSE "ErrRollback"]}

\* e = t.txs[cuTx].commitOrRollback(e)
EndLast ==
  /\ pc = "last"
  /\ \E r \in CommitOrRollback(cuTx, e) :
       /\ tx' = [tx EXCEPT ![cuTx] = r.tx]
       /\ e' = r.err
       /\ errTxI' = IF r.err # "nil" THEN cuTx ELSE errTxI
  /\ cuTx' = cuTx - 1
  /\ pc' = "others"
  /\ UNCHANGED <<txs, stmt, applied>>

\* Mutant: an error leaves the other transactions alone.
EndOtherCommitOnly ==
  /\ pc = "others" /\ cuTx >= 1
  /\ tx' = IF e = "nil" /\ tx[cuTx] = "open" THEN [tx EXCEPT ![cuTx] = "committed"] ELSE tx
  /\ cuTx' = cuTx - 1
  /\ UNCHANGED <<txs, pc, stmt, e, errTxI, applied>>

\* Mutant: the others are committed although the last one failed.
EndOtherCommitAlways ==
  /\ pc = "others" /\ cuTx >= 1
  /\ \E r \in CommitOrRollback(cuTx, "nil") : tx' = [tx EXCEPT ![cuTx] = r.tx]
  /\ cuTx' = cuTx - 1
  /\ UNCHANGED <<txs, pc, stmt, e, errTxI, applied>>

\* The loop backwards: the others are rolled back with errOtherTx or
\* committed, and their errors are dropped.
EndOther ==
  /\ pc = "others" /\ cuTx >= 1
  /\ \E r \in CommitOrRollback(cuTx, IF e # "nil" THEN "errOther" ELSE "nil") :
       /\ tx' = [tx EXCEPT ![cuTx] = r.tx]
       /\ pc' = IF r.err = "panic" THEN "panic" ELSE "others"
  /\ cuTx' = cuTx - 1
  /\ UNCHANGED <<txs, stmt, e, errTxI, applied>>

Return ==
  /\ pc = "others" /\ cuTx < 1
  /\ pc' = "back"
  /\ UNCHANGED <<txs, cuTx, stmt, e, errTxI, tx, applied>>

Next ==
  \/ \E t \in {Func} \cup {Sql(k) : k \in 0..MaxStmts} : AddTx(t)
  \/ Run
  \/ DoFunc
  \/ Begin
  \/ Stmt
  \/ StmtsEnd
  \/ EndLast
  \/ EndOther
  \/ Return

Spec == Init /\ [][Next]_vars

----------------------------------------------------------------------------
TypeOK ==
  /\ txs \in Seq([sql : BOOLEAN, stmts : Nat])
  /\ pc \in {"new", "do", "stmts", "last", "others", "back", "panic"}
  /\ cuTx \in Int
  /\ stmt \in Nat
  /\ e \in Errs
  /\ errTxI \in 0..N
  /\ tx \in [Ids -> {"none", "open", "committed", "rolledback", "failed"}]
  /\ applied \in [Ids -> Nat]

\* Run returns with no transaction left open, whatever failed on the way.
NoneLeftOpen == pc = "back" => \A i \in Ids : tx[i] # "open"

\* commitOrRollback is called for every transaction that do began, also when
\* Run ends in a panic.
EveryTxEnded == pc \in {"back", "panic"} => \A i \in Ids : tx[i] # "open"

\* When Run returns an error nothing was committed.
ErrorMeansNothing == pc = "back" /\ e # "nil" => \A i \in Ids : tx[i] # "committed"

=============================================================================
