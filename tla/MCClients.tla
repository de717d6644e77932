----------------------------- MODULE MCClients ------------------------------
(***************************************************************************)
(* What talks to a partner that may fail, be slow or not answer: the       *)
(* transactions of package sql, the requests of reqf, the pipes of io and  *)
(* the websocket client.  They share no state, so a behaviour exercises    *)
(* one of them: unit says which, and the others stay as they began; a pipe *)
(* that is not exercised is one whose copy is over.                        *)
(***************************************************************************)
EXTENDS SqlTxs

CONSTANTS
  Vals, Chunks, MaxReqs,         \* Requests
  ReadTypes, Periodic, MaxWsOps  \* Ws

VARIABLES
  unit,
  ctxDone, now, pipe, writer, copy, chanw, watch, closers, \* Pipe
  req, cur, done, timer, watchers,                         \* Requests
  conn, reader, sender, client, timers, wsops              \* Ws

pipeVars == <<ctxDone, now, pipe, writer, copy, chanw, watch, closers>>
reqVars  == <<req, cur, done, timer, watchers>>
wsVars   == <<conn, reader, sender, client, timers, wsops>>

Pipe == INSTANCE PipeCopy WITH to <- 2, MaxNow <- 6, MaxPipeWrites <- 2

\* One request after another with the same Req.
Requests == INSTANCE Reqf

Ws == INSTANCE WsClient

ASSUME ClientsAssumptions == Requests!ReqfAssumption /\ Ws!WsClientAssumption

\* With a retry, asynchronous and saved to a file, with CopyResponseTimeout only, and one
\* that prepare refuses.
Val(async, retry, timeout, stall, save, bad) ==
  [async |-> async, retry |-> retry, timeout |-> timeout, stall |-> stall,
   save |-> save, bad |-> bad]
MCVals ==
  {Val(FALSE, 1, TRUE, FALSE, FALSE, FALSE), Val(TRUE, 0, TRUE, TRUE, TRUE, FALSE),
   Val(FALSE, 2, FALSE, TRUE, TRUE, FALSE), Val(FALSE, 0, FALSE, FALSE, FALSE, TRUE)}

PipeOver ==
  /\ ctxDone = FALSE /\ now = 1 /\ chanw = -1
  /\ pipe = [closed |-> "no", e |-> "nil"]
  /\ writer = [pc |-> "idle", calls |-> 0, why |-> "nil"]
  /\ copy = [pc |-> "ret", since |-> 1, ret |-> "nil"]
  /\ watch = [pc |-> "off", deadline |-> 0, alarm |-> FALSE]
  /\ closers = [withCtx |-> "closed", user |-> "closed"]

ClientsInit ==
  /\ unit \in {"sql", "pipe", "reqf", "ws"}
  /\ Init /\ Requests!Init /\ Ws!Init
  /\ IF unit = "pipe" THEN Pipe!Init ELSE PipeOver

ClientsNext ==
  /\ UNCHANGED unit
  /\ \/ unit = "sql" /\ Next /\ UNCHANGED <<pipeVars, reqVars, wsVars>>
     \/ unit = "pipe" /\ Pipe!Next /\ UNCHANGED <<vars, reqVars, wsVars>>
     \/ unit = "reqf" /\ Requests!Next /\ UNCHANGED <<vars, pipeVars, wsVars>>
     \/ unit = "ws" /\ Ws!Next /\ UNCHANGED <<vars, pipeVars, reqVars>>

\* No fair step is enabled in a unit that stays as it began.
ClientsSpec ==
  /\ ClientsInit
  /\ [][ClientsNext]_<<unit, vars, pipeVars, reqVars, wsVars>>
  /\ Pipe!Fairness /\ Requests!Fairness /\ Ws!Fairness

----------------------------------------------------------------------------

\* WithCtxCopy, IOpipe: the watcher raises no false alarm and a refused write
\* says why; once the context has ended, the copy and a waiting write return.
PipeReturns == Pipe!NoFalseAlarms /\ Pipe!CopyEnds

\* Reqf: whoever gets the lock sees one finished attempt.
OneAttemptSeen == Requests!OneAttemptSeen

\* Reqf: a request with a Timeout ends, with every retry.
TimeoutEnds == Requests!TimeoutEnds

\* Client: whoever was asked to close ends, and tells so once.
ClientEnds == Ws!ClientEnds
=============================================================================
