------------------------------ MODULE PipeCopy ------------------------------
(***************************************************************************)
(* io/io.go: WithCtxCopy reading from an IOpipe that WithCtx closes when   *)
(* the context ends.  One goroutine writes to the pipe, one runs the copy, *)
(* one watches it and raises an alarm (panicf) when a read or a write      *)
(* takes longer than to, one closes the pipe when the context ends, and    *)
(* the user may close it too, with an error or without.  Clock readings    *)
(* are whole seconds; time passes only while the copy is in a read or a    *)
(* write, or has returned.  WithCtxTO has the same watcher: reading and    *)
(* writing through it until the first error, and then its Close, takes the *)
(* steps of WithCtxCopy.                                                   *)
(***************************************************************************)
EXTENDS Integers

CONSTANTS
  to,            \* the timeout of the watcher
  MaxNow,        \* bound: the clock
  MaxPipeWrites  \* bound: writes to the pipe

VARIABLES
  ctxDone,
  now,
  pipe,    \* closed: "no", "EOF" or the error its reader gets; e: the onceError
  writer,  \* the goroutine that writes to the pipe: pc and calls
  copy,    \* WithCtxCopy: pc, since (when its last read or write began), ret
  chanw,   \* the time of the last progress, -1 after the copy
  watch,   \* the watcher: pc, deadline, alarm
  closers  \* WithCtx's goroutine and the user -> pc of their close

vars == <<ctxDone, now, pipe, writer, copy, chanw, watch, closers>>

Init ==
  /\ ctxDone = FALSE
  /\ now = 1
  /\ pipe = [closed |-> "no", e |-> "nil"]
  /\ writer = [pc |-> "idle", calls |-> 0, why |-> "nil"]
  /\ copy = [pc |-> "top", since |-> 1, ret |-> "none"]
  /\ chanw = 1
  /\ watch = [pc |-> "on", deadline |-> 0, alarm |-> FALSE]
  /\ closers = [withCtx |-> "wait", user |-> "wait"]

----------------------------------------------------------------------------
\* IOpipe.Write: io.Pipe refuses a closed pipe, with the error stored by then.
PipeWrite ==
  /\ writer.pc = "idle" /\ writer.calls < MaxPipeWrites
  /\ writer' = [writer EXCEPT !.calls = @ + 1,
                              !.pc = IF pipe.closed = "no" THEN "blocked" ELSE "refused"]
  /\ UNCHANGED <<ctxDone, now, pipe, copy, chanw, watch, closers>>

\* A write that waits is refused once the pipe is closed.
PipeRefuse ==
  /\ writer.pc = "blocked" /\ pipe.closed # "no"
  /\ writer' = [writer EXCEPT !.pc = "refused"]
  /\ UNCHANGED <<ctxDone, now, pipe, copy, chanw, watch, closers>>

\* errors.Join(err, t.e.Load()) of a write that was refused.
PipeReason ==
  /\ writer.pc = "refused"
  /\ writer' = [writer EXCEPT !.pc = "end", !.why = pipe.e]
  /\ UNCHANGED <<ctxDone, now, pipe, copy, chanw, watch, closers>>

\* onceError.Store, first its Load, then the store.
StoreLoad(c, begins) ==
  /\ begins /\ closers[c] = "wait"
  /\ closers' = [closers EXCEPT ![c] = IF pipe.e = "nil" THEN "store" ELSE "close"]
  /\ UNCHANGED <<ctxDone, now, pipe, writer, copy, chanw, watch>>

StoreSet(c) ==
  /\ closers[c] = "store"
  /\ pipe' = [pipe EXCEPT !.e = c]
  /\ closers' = [closers EXCEPT ![c] = "close"]
  /\ UNCHANGED <<ctxDone, now, writer, copy, chanw, watch>>

\* Mutant: the context of the pipe is cancelled and its end is left open.
CloseForgotten(c) ==
  /\ closers[c] = "close"
  /\ closers' = [closers EXCEPT ![c] = "closed"]
  /\ UNCHANGED <<ctxDone, now, pipe, writer, copy, chanw, watch>>

\* CloseWithError: the writer's end is closed, the first error stays, and ctxC.
CloseEnd(c) ==
  /\ closers[c] = "close"
  /\ pipe' = [pipe EXCEPT !.closed = IF @ = "no" THEN c ELSE @]
  /\ closers' = [closers EXCEPT ![c] = "closed"]
  /\ UNCHANGED <<ctxDone, now, writer, copy, chanw, watch>>

\* Close: the writer's end is closed without an error.
Close ==
  /\ closers.user = "wait"
  /\ pipe' = [pipe EXCEPT !.closed = IF @ = "no" THEN "EOF" ELSE @]
  /\ closers' = [closers EXCEPT !.user = "closed"]
  /\ UNCHANGED <<ctxDone, now, writer, copy, chanw, watch>>

\* WithCtx: the goroutine closes when ctx ends, or leaves when the pipe has.
WithCtxLeaves ==
  /\ closers.withCtx = "wait" /\ pipe.closed # "no"
  /\ closers' = [closers EXCEPT !.withCtx = "closed"]
  /\ UNCHANGED <<ctxDone, now, pipe, writer, copy, chanw, watch>>

----------------------------------------------------------------------------
CopyReturn(err) ==
  /\ copy' = [copy EXCEPT !.pc = "ret", !.ret = err]
  /\ chanw' = -1

\* Mutant: a write that works does not count as progress.
WroteUnseen(p) ==
  /\ copy' = [copy EXCEPT !.pc = p]
  /\ UNCHANGED chanw

\* Progress: the time of a read or a write that worked.
Progress(p) ==
  /\ copy' = [copy EXCEPT !.pc = p]
  /\ chanw' = now

\* The select before a read and before a write.
CopySelect ==
  /\ copy.pc \in {"top", "got"}
  /\ IF ctxDone THEN CopyReturn("ErrRead")
     ELSE /\ copy' = [copy EXCEPT !.pc = IF copy.pc = "top" THEN "reading" ELSE "writing",
                                  !.since = now]
          /\ UNCHANGED chanw
  /\ UNCHANGED <<ctxDone, now, pipe, writer, watch, closers>>

\* The read: what the writer hands over, the error of a closed pipe, or after
\* Close the end of the data.
CopyRead ==
  /\ copy.pc = "reading"
  /\ \/ /\ writer.pc = "blocked" /\ pipe.closed = "no"
        /\ Progress("got")
        /\ writer' = [writer EXCEPT !.pc = "idle"]
     \/ /\ pipe.closed # "no"
        /\ CopyReturn(IF pipe.closed = "EOF" THEN "nil" ELSE "ErrRead")
        /\ UNCHANGED writer
  /\ UNCHANGED <<ctxDone, now, pipe, watch, closers>>

CopyWrite ==
  /\ copy.pc = "writing"
  /\ Progress("top") \/ CopyReturn("ErrWrite") \/ CopyReturn("nil")
  /\ UNCHANGED <<ctxDone, now, pipe, writer, watch, closers>>

----------------------------------------------------------------------------
Late == chanw > 0 /\ now - chanw > to

\* The watcher: the ticker, every to.
WatchTick ==
  /\ watch.pc = "on" /\ now % to = 0 /\ Late
  /\ watch' = [watch EXCEPT !.pc = "off", !.alarm = TRUE]
  /\ UNCHANGED <<ctxDone, now, pipe, writer, copy, chanw, closers>>

\* The watcher, when the context has ended: at once, or time.AfterFunc.
WatchDone ==
  /\ watch.pc = "on" /\ ctxDone
  /\ watch' = IF Late THEN [watch EXCEPT !.pc = "off", !.alarm = TRUE]
              ELSE [watch EXCEPT !.pc = "after", !.deadline = now + to]
  /\ UNCHANGED <<ctxDone, now, pipe, writer, copy, chanw, closers>>

WatchAfter ==
  /\ watch.pc = "after" /\ now >= watch.deadline
  /\ watch' = [watch EXCEPT !.pc = "off", !.alarm = chanw # -1]
  /\ UNCHANGED <<ctxDone, now, pipe, writer, copy, chanw, closers>>

CtxEnds ==
  /\ ~ctxDone /\ ctxDone' = TRUE
  /\ UNCHANGED <<now, pipe, writer, copy, chanw, watch, closers>>

Clock ==
  /\ now < MaxNow /\ copy.pc \in {"reading", "writing", "ret"}
  /\ now' = now + 1
  /\ UNCHANGED <<ctxDone, pipe, writer, copy, chanw, watch, closers>>

Next ==
  \/ PipeWrite \/ PipeRefuse \/ PipeReason
  \/ StoreLoad("withCtx", ctxDone) \/ StoreLoad("user", TRUE)
  \/ \E c \in DOMAIN closers : StoreSet(c) \/ CloseEnd(c)
  \/ Close \/ WithCtxLeaves
  \/ CopySelect \/ CopyRead \/ CopyWrite
  \/ WatchTick \/ WatchDone \/ WatchAfter
  \/ CtxEnds \/ Clock

\* Goroutines that can run do; the writer below does not block for ever.
Fairness ==
  /\ WF_vars(CopySelect) /\ WF_vars(CopyRead) /\ WF_vars(CopyWrite)
  /\ WF_vars(PipeRefuse) /\ WF_vars(PipeReason)
  /\ WF_vars(StoreLoad("withCtx", ctxDone)) /\ WF_vars(StoreSet("withCtx"))
  /\ WF_vars(CloseEnd("withCtx")) /\ WF_vars(WithCtxLeaves)
  /\ WF_vars(StoreSet("user")) /\ WF_vars(CloseEnd("user"))
Spec == Init /\ [][Next]_vars /\ Fairness

----------------------------------------------------------------------------
\* The watcher accuses no copy that has returned, and none that is not in a read
\* or a write that began at least to ago: every progress restarts its clock,
\* whichever of the ticker, the end of the context and the timer comes first.  A
\* write to the pipe that is refused says why, unless Close came first: an error
\* of one of the closers is stored before the pipe is closed.
NoFalseAlarm ==
  /\ watch'.alarm /\ ~watch.alarm => copy.pc # "ret" /\ now - copy.since >= to
  /\ writer'.pc = "end" /\ writer'.why = "nil" => pipe.closed = "EOF"
NoFalseAlarms == [][NoFalseAlarm]_vars

\* Once the context has ended the copy returns and no write stays in the pipe,
\* although the copy waits in a read and the writer for a reader that is gone.
CopyEnds == ctxDone ~> (copy.pc = "ret" /\ writer.pc # "blocked")
=============================================================================
