-------------------------------- MODULE Reqf --------------------------------
(***************************************************************************)
(* reqf/Reqf.go: a Req used for one request after another.  Reqf takes the *)
(* write lock, which reqfM gives back, in the caller or in a goroutine of  *)
(* its own.  Every request has a context and up to two timers, shared with *)
(* the requests before and after it: one for all of it, and one for each   *)
(* read of the body; a goroutine waits for either of them and the context. *)
(* The server may fail, answer with an error status, break off, or never   *)
(* answer.                                                                 *)
(***************************************************************************)
EXTENDS Integers, Sequences

CONSTANTS
  Vals,     \* Rval: records of async, retry, timeout, stall (CopyResponseTimeout),
            \* save (SaveToPath) and bad
  Chunks,   \* pieces of a whole response
  MaxReqs   \* bound: requests

ReqfAssumption == Chunks \in Nat /\ MaxReqs \in Nat

VARIABLES
  req,      \* l: "free", "held"; state; err; buf; file; files
  cur,      \* the request that has the lock: job, val, i, att, pc, code
  done,     \* job -> "no", or the cause its context ended with
  timer,    \* allTO and rwTO: armed or not
  watchers  \* their goroutines: job -> "none", "select", "fired", "gone"

vars == <<req, cur, done, timer, watchers>>

Jobs == 1..MaxReqs
Timers == {"allTO", "rwTO"}
NoVal == [async |-> FALSE, retry |-> 0, timeout |-> FALSE, stall |-> FALSE,
          save |-> FALSE, bad |-> FALSE]
Init ==
  /\ req = [l |-> "free", state |-> "free", err |-> "nil", buf |-> <<>>, file |-> 0, files |-> {}]
  /\ cur = [job |-> 0, val |-> NoVal, i |-> 0, att |-> 0, pc |-> "idle", code |-> 200]
  /\ done = [j \in Jobs |-> "no"]
  /\ timer = [k \in Timers |-> FALSE]
  /\ watchers = [k \in Timers |-> [j \in Jobs |-> "none"]]

----------------------------------------------------------------------------
\* prepare of a Rval it accepts: the file and the buffer of the request before
\* are dropped, the context is made, the timers are set and their goroutines
\* start.  The transport, the method and the body of the request are left out.
Prepare(val) ==
  /\ ~val.bad
  /\ req' = [req EXCEPT !.l = "held", !.state = "running", !.file = 0, !.buf = <<>>]
  /\ cur' = [cur EXCEPT !.job = @ + 1, !.val = val, !.i = 0, !.pc = "loop"]
  /\ timer' = [allTO |-> timer["allTO"] \/ val.timeout, rwTO |-> FALSE]
  /\ watchers' = [k \in Timers |-> [watchers[k] EXCEPT ![cur.job + 1] =
                   IF (IF k = "allTO" THEN val.timeout ELSE val.stall) THEN "select" ELSE "none"]]

\* Reqf up to reqfM.  The lock of a Rval that prepare refuses is never given back.
Reqf(val) ==
  /\ req.l = "free" /\ cur.job < MaxReqs
  /\ \/ Prepare(val)
     \/ /\ val.bad
        /\ req' = [req EXCEPT !.l = "held", !.state = "running"]
        /\ cur' = [cur EXCEPT !.pc = "refused", !.val = val]
        /\ UNCHANGED <<timer, watchers>>
  /\ UNCHANGED done

\* Mutant: the buffer keeps what the attempt before has read.
BufKept == [req EXCEPT !.err = "nil"]

\* prepareRes.
PrepareRes == [req EXCEPT !.err = "nil", !.buf = <<>>]

Attempt ==
  /\ cur.pc = "loop"
  /\ req' = PrepareRes
  /\ cur' = [cur EXCEPT !.pc = "do", !.att = @ + 1]
  /\ UNCHANGED <<done, timer, watchers>>

\* The error of a request whose context has ended: its cause.
CtxErr == CASE done[cur.job] = "user" -> "Canceled"
            [] done[cur.job] = "deadline" -> "DeadlineExceeded"
            [] done[cur.job] = "stalled" -> "ErrCopyRes"
Fail(err) ==
  /\ req' = [req EXCEPT !.err = err]
  /\ cur' = [cur EXCEPT !.pc = "after"]

\* client.Do, while the context goes on: an error or a response.  The file of
\* SaveToPath is created anew, and rwTO runs from the first read.
Do ==
  /\ cur.pc = "do" /\ done[cur.job] = "no"
  /\ \/ Fail("ErrClientDo") /\ UNCHANGED timer
     \/ \E code \in {200, 400} :
          /\ cur' = [cur EXCEPT !.pc = "copy", !.code = code]
          /\ req' = IF cur.val.save
                      THEN [req EXCEPT !.file = cur.att, !.files = @ \cup {cur.att}]
                      ELSE req
          /\ timer' = [timer EXCEPT !["rwTO"] = cur.val.stall]
  /\ UNCHANGED <<done, watchers>>

\* The copy of the body, however it is compressed: a piece, which sets rwTO
\* again, the end, or an error, which stop it.
CopyRes ==
  /\ cur.pc = "copy" /\ done[cur.job] = "no"
  /\ \/ /\ Len(req.buf) < Chunks
        /\ req' = [req EXCEPT !.buf = Append(@, cur.att)]
        /\ timer' = [timer EXCEPT !["rwTO"] = cur.val.stall]
        /\ UNCHANGED cur
     \/ /\ Len(req.buf) < Chunks
        /\ Fail("ErrCopyRes") /\ timer' = [timer EXCEPT !["rwTO"] = FALSE]
     \/ /\ Len(req.buf) >= Chunks
        /\ Fail(IF cur.code >= 400 THEN "400" ELSE "nil")
        /\ timer' = [timer EXCEPT !["rwTO"] = FALSE]
  /\ UNCHANGED <<done, watchers>>

\* Do and the copy fail when the context has ended.
Cut ==
  /\ cur.pc \in {"do", "copy"} /\ done[cur.job] # "no"
  /\ Fail(CtxErr)
  /\ timer' = IF cur.pc = "copy" THEN [timer EXCEPT !["rwTO"] = FALSE] ELSE timer
  /\ UNCHANGED <<done, watchers>>

\* The end of a turn: success, IsCancel or the last retry end the loop.
After ==
  /\ cur.pc = "after"
  /\ cur' = IF req.err \in {"nil", "Canceled"} \/ cur.i >= cur.val.retry
              THEN [cur EXCEPT !.pc = "finish"]
              ELSE [cur EXCEPT !.pc = "loop", !.i = @ + 1]
  /\ UNCHANGED <<req, done, timer, watchers>>

\* clean: the file of the last attempt is closed.
Clean == req.files \ {req.file}

\* ctxf1(nil), clean, the state and the deferred Unlock.
Finish ==
  /\ cur.pc = "finish"
  /\ done' = [done EXCEPT ![cur.job] = IF @ = "no" THEN "end" ELSE @]
  /\ timer' = [timer EXCEPT !["allTO"] = @ /\ ~cur.val.timeout]
  /\ req' = [req EXCEPT !.files = Clean, !.state = "free", !.l = "free"]
  /\ cur' = [cur EXCEPT !.pc = "idle"]
  /\ UNCHANGED watchers

----------------------------------------------------------------------------
\* Mutant: the goroutine takes the tick and cancels nothing.
TickLost(k, j) ==
  /\ watchers[k][j] = "fired"
  /\ watchers' = [watchers EXCEPT ![k][j] = "gone"]
  /\ UNCHANGED <<req, cur, done, timer>>

\* A goroutine in the select gets the tick of the timer, whosever it is.
TimerFires(k, j) ==
  /\ watchers[k][j] = "select" /\ timer[k]
  /\ timer' = [timer EXCEPT ![k] = FALSE]
  /\ watchers' = [watchers EXCEPT ![k][j] = "fired"]
  /\ UNCHANGED <<req, cur, done>>

\* ctxf1(DeadlineExceeded) or ctxf1(ErrCopyRes): its context ends, and allTO
\* stops if the request had a Timeout.
CancelByTimer(k, j) ==
  /\ watchers[k][j] = "fired"
  /\ done' = [done EXCEPT ![j] = IF @ # "no" THEN @
                                 ELSE IF k = "allTO" THEN "deadline" ELSE "stalled"]
  /\ timer' = [timer EXCEPT !["allTO"] = @ /\ watchers["allTO"][j] = "none"]
  /\ watchers' = [watchers EXCEPT ![k][j] = "gone"]
  /\ UNCHANGED <<req, cur>>

WatcherLeaves(k, j) ==
  /\ watchers[k][j] = "select" /\ done[j] # "no"
  /\ watchers' = [watchers EXCEPT ![k][j] = "gone"]
  /\ UNCHANGED <<req, cur, done, timer>>

\* The context the user gave ends.
UserCancels ==
  /\ cur.pc \notin {"idle", "refused"} /\ done[cur.job] = "no"
  /\ done' = [done EXCEPT ![cur.job] = "user"]
  /\ UNCHANGED <<req, cur, timer, watchers>>

Next ==
  \/ \E val \in Vals : Reqf(val)
  \/ Attempt \/ Do \/ CopyRes \/ Cut \/ After \/ Finish
  \/ \E k \in Timers, j \in Jobs : TimerFires(k, j) \/ CancelByTimer(k, j) \/ WatcherLeaves(k, j)
  \/ UserCancels

\* The server need not answer: Do and CopyRes are not fair.
Fairness ==
  /\ WF_vars(Attempt) /\ WF_vars(Cut) /\ WF_vars(After) /\ WF_vars(Finish)
  /\ \A k \in Timers, j \in Jobs :
       WF_vars(TimerFires(k, j)) /\ WF_vars(CancelByTimer(k, j)) /\ WF_vars(WatcherLeaves(k, j))
Spec == Init /\ [][Next]_vars /\ Fairness

----------------------------------------------------------------------------
\* Wait and the getters take the read lock.
Readable == req.l = "free"

\* Whoever gets the read lock sees one finished attempt: the buffer holds pieces
\* of the last attempt only, all of them if the error is nil, whatever the
\* attempts before it left behind; its context has ended and its file is closed.
OneAttemptSeen ==
  Readable /\ cur.job > 0 =>
    /\ \A k \in DOMAIN req.buf : req.buf[k] = cur.att
    /\ req.err = "nil" => Len(req.buf) = Chunks /\ cur.code < 400
    /\ done[cur.job] # "no"
    /\ req.file \notin req.files /\ req.state = "free"
    /\ cur.val.retry = 0 /\ cur.job = 1 => req.files = {}

\* Only the goroutines of the running request wait for the timers.
NoStaleWatcher ==
  \A k \in Timers, j \in Jobs : watchers[k][j] \in {"select", "fired"} => j = cur.job

\* A request with a Timeout ends although the server never answers, with every
\* retry, and one with a CopyResponseTimeout although the body stops halfway, if
\* the goroutines of earlier requests are gone: one that is still there can take
\* the tick, or stop the timer.
TimeoutEnds ==
  []NoStaleWatcher =>
    \A j \in Jobs :
      /\ (cur.job = j /\ cur.val.timeout /\ cur.pc # "refused")
           ~> (done[j] # "no" /\ (cur.job = j => Readable \/ cur.pc = "refused"))
      /\ (cur.job = j /\ cur.val.stall /\ cur.pc = "copy")
           ~> (cur.job = j => cur.pc # "copy")
=============================================================================
