------------------------------- MODULE Signal ------------------------------
(***************************************************************************)
(* signal/Signal.go: a channel that Done closes once, and a count of the   *)
(* goroutines that wait for it, which Done waits to become 0 and then sets *)
(* to -1.  Islive is tested, the count changed and the channel closed in   *)
(* separate steps.                                                         *)
(***************************************************************************)
EXTENDS Integers, FiniteSets

CONSTANTS
  Waiters,   \* goroutines that call Wait or WaitC, once each
  Closers    \* goroutines that call Done, once each

ASSUME SignalAssumption ==
  /\ Waiters \cap Closers = {}
  /\ IsFiniteSet(Waiters)
  /\ IsFiniteSet(Closers)

VARIABLES
  closed,     \* i.c is closed
  waitCount,  \* atomic.Int32
  spc,        \* where each goroutine is in its call
  held        \* the waiters that were counted when the channel was closed

signalVars == <<closed, waitCount, spc, held>>

SignalPcs == {"idle", "add", "wait", "nil", "fin", "close", "spin", "end", "panic"}

SignalInit ==
  /\ closed = FALSE
  /\ waitCount = 0
  /\ spc = [t \in Waiters \cup Closers |-> "idle"]
  /\ held = {}

SGoto(t, l) == spc' = [spc EXCEPT ![t] = l]

\* A select on i.c with a default.
Islive == ~closed

----------------------------------------------------------------------------
(* Wait and WaitC.  WaitC on a signal that is not live returns a nil       *)
(* channel and a fin that does nothing; Wait returns.                      *)

WaitEnter(t) ==
  /\ spc[t] = "idle"
  /\ SGoto(t, IF Islive THEN "add" ELSE "nil")
  /\ UNCHANGED <<closed, waitCount, held>>

WaitAdd(t) ==
  /\ spc[t] = "add"
  /\ waitCount' = waitCount + 1
  /\ SGoto(t, "wait")
  /\ UNCHANGED <<closed, held>>

\* The receive from the closed channel in Wait.
WaitRecv(t) ==
  /\ spc[t] = "wait"
  /\ closed
  /\ SGoto(t, "fin")
  /\ UNCHANGED <<closed, waitCount, held>>

\* Mutant: Wait returns without taking itself off the count.
FinForgotten(t) ==
  /\ spc[t] = "fin"
  /\ SGoto(t, "end")
  /\ UNCHANGED <<closed, waitCount, held>>

\* waitCount.Add(-1), the last step of Wait and the fin of WaitC.
Fin(t) ==
  /\ spc[t] = "fin"
  /\ waitCount' = waitCount - 1
  /\ SGoto(t, "end")
  /\ UNCHANGED <<closed, held>>

----------------------------------------------------------------------------
(* Done.                                                                   *)

SDoneEnter(d) ==
  /\ spc[d] = "idle"
  /\ SGoto(d, IF Islive THEN "close" ELSE "end")
  /\ UNCHANGED <<closed, waitCount, held>>

SCounted == {t \in Waiters : spc[t] \in {"wait", "fin"}}

\* close(i.c), which panics if another Done closed it after our test.
DoneClose(d) ==
  /\ spc[d] = "close"
  /\ \/ /\ ~closed
        /\ closed' = TRUE
        /\ held' = SCounted
        /\ SGoto(d, "spin")
     \/ /\ closed
        /\ SGoto(d, "panic")
        /\ UNCHANGED <<closed, held>>
  /\ UNCHANGED waitCount

\* Mutant: one waiter is let go unseen.
DoneSpinOffByOne(d) ==
  /\ spc[d] = "spin"
  /\ waitCount <= 1
  /\ waitCount' = waitCount - 1
  /\ SGoto(d, "end")
  /\ UNCHANGED <<closed, held>>

\* The CompareAndSwap(0, -1) that ends the loop.
DoneSpin(d) ==
  /\ spc[d] = "spin"
  /\ waitCount = 0
  /\ waitCount' = -1
  /\ SGoto(d, "end")
  /\ UNCHANGED <<closed, held>>

WaitStep(t) == WaitEnter(t) \/ WaitAdd(t) \/ WaitRecv(t) \/ Fin(t)

SDoneStep(d) == SDoneEnter(d) \/ DoneClose(d) \/ DoneSpin(d)

SignalNext == (\E t \in Waiters : WaitStep(t)) \/ (\E d \in Closers : SDoneStep(d))

SignalSafety == SignalInit /\ [][SignalNext]_signalVars

----------------------------------------------------------------------------
SignalTypeOK ==
  /\ closed \in BOOLEAN
  /\ waitCount \in Nat \cup {-1}
  /\ spc \in [Waiters \cup Closers -> SignalPcs]
  /\ held \subseteq Waiters

\* The channel was closed and the Done that did it has returned.
DoneReturned == closed /\ \A d \in Closers : spc[d] # "spin"

\* waitCount is the number of waiters between their Add(1) and their Add(-1),
\* less one once Done is through: a waiter that saw the signal live and adds
\* itself after Done is through only passes by.
CountExact ==
  waitCount = Cardinality(SCounted) - (IF DoneReturned THEN 1 ELSE 0)

\* When the Done that closed the channel has returned, every waiter that was
\* counted when it closed it has been through Add(-1).
DoneWaits == DoneReturned => held \cap SCounted = {}

\* Every Wait that is entered is over once the signal is done, and every Done
\* that closed the channel returns.
WaitEnds ==
  /\ \A t \in Waiters : (closed /\ spc[t] # "idle") ~> spc[t] \in {"end", "nil"}
  /\ \A d \in Closers : spc[d] = "spin" ~> spc[d] = "end"

----------------------------------------------------------------------------
(* The inductive invariant behind CountExact and DoneWaits.                *)

\* One Done at most closed the channel, so one at most loops.
OneSpin ==
  /\ \A d \in Closers : spc[d] = "spin" => closed
  /\ \A d, e \in Closers : spc[d] = "spin" /\ spc[e] = "spin" => d = e

\* A waiter that was counted at the close does not come back to its Add(1).
HeldPast == \A t \in held : spc[t] \in {"wait", "fin", "end"}

SignalIInv == SignalTypeOK /\ OneSpin /\ HeldPast /\ CountExact /\ DoneWaits
=============================================================================
