------------------------------ MODULE ProgLock ------------------------------
(***************************************************************************)
(* progLock/Lock.go: the lock file of a program.  Start refuses while the  *)
(* file is young; without a file it starts a goroutine that writes the     *)
(* time, sleeps lock_timeout seconds and begins again; a file that is too  *)
(* old it leaves as it is, and starts no goroutine.  Stop removes the      *)
(* file.  The clock runs in ticks and the file holds whole seconds.        *)
(***************************************************************************)
EXTENDS Integers

CONSTANTS
  Programs,
  Second,       \* the ticks of a second
  lock_timeout, \* in seconds
  MaxClock      \* bound: the clock

ProgLockAssumption == Second \in Nat \ {0} /\ lock_timeout \in Nat /\ MaxClock \in Nat

VARIABLES
  clock,
  lockFile,  \* exist and Time; at is the tick at which Time was read
  prog,      \* program -> pc, sign (stopsign) and tick: the time to write, the end of the sleep
  odd        \* "race", "crash", "stop" or "late", what has happened

vars == <<clock, lockFile, prog, odd>>

Unix(tick) == tick \div Second

NoFile == [exist |-> FALSE, time |-> 0, at |-> 0]

Init ==
  /\ clock = 0
  /\ lockFile = NoFile
  /\ prog = [p \in Programs |-> [pc |-> "off", sign |-> FALSE, tick |-> 0]]
  /\ odd = {}

\* Its goroutine runs, and was not told to stop.
Writes(p) == prog[p].pc \in {"first", "sleep", "write"} /\ ~prog[p].sign

\* Mutant: the file counts as young up to the timeout exclusively.
YoungBelow(time) == Unix(clock) - time < lock_timeout

Young(time) == Unix(clock) - time <= lock_timeout

\* Start refuses: the file is young.
Refused(p) ==
  /\ lockFile.exist /\ Young(lockFile.time)
  /\ UNCHANGED <<prog, odd>>

\* Start returns nil behind an old file, and starts nothing; "late": the file
\* really holds a time of more than lock_timeout seconds ago.
Behind(p) ==
  /\ lockFile.exist /\ ~Young(lockFile.time)
  /\ prog' = [prog EXCEPT ![p].pc = "ghost"]
  /\ odd' = odd \cup IF clock - lockFile.at > lock_timeout * Second THEN {"late"} ELSE {}

\* Start starts the goroutine; "race": another has one that has yet to write.
First(p) ==
  /\ ~lockFile.exist
  /\ prog' = [prog EXCEPT ![p].pc = "first"]
  /\ odd' = odd \cup
       IF \E q \in Programs \ {p} : Writes(q) /\ prog[q].pc # "sleep" THEN {"race"} ELSE {}

Start(p) ==
  /\ prog[p].pc = "off" /\ ~prog[p].sign
  /\ Refused(p) \/ Behind(p) \/ First(p)
  /\ UNCHANGED <<clock, lockFile>>

\* The loop: the test of stopsign and the time, at the start and any while after
\* the end of the sleep.
Wake(p) ==
  /\ \/ prog[p].pc = "first"
     \/ prog[p].pc = "sleep" /\ clock >= prog[p].tick
  /\ prog' = [prog EXCEPT ![p] =
       [pc |-> IF @.sign THEN "off" ELSE "write", sign |-> @.sign, tick |-> clock]]
  /\ UNCHANGED <<clock, lockFile, odd>>

\* The write of that time, any while later, and the sleep.
Beat(p) ==
  /\ prog[p].pc = "write"
  /\ lockFile' = [exist |-> TRUE, time |-> Unix(prog[p].tick), at |-> prog[p].tick]
  /\ prog' = [prog EXCEPT ![p] =
       [pc |-> "sleep", sign |-> @.sign, tick |-> clock + lock_timeout * Second]]
  /\ UNCHANGED <<clock, odd>>

\* Stop by a program whose Start returned nil: the sign, and RemoveAll; "stop": a
\* write under way puts the file back, or the file was another's.
Stop(p) ==
  /\ prog[p].pc \in {"sleep", "write", "ghost"} /\ ~prog[p].sign
  /\ prog' = [prog EXCEPT ![p] =
       [pc |-> IF @.pc = "ghost" THEN "off" ELSE @.pc, sign |-> TRUE, tick |-> @.tick]]
  /\ lockFile' = NoFile
  /\ odd' = odd \cup IF prog[p].pc # "sleep" THEN {"stop"} ELSE {}
  /\ UNCHANGED clock

\* The program dies; its file stays.
Crash(p) ==
  /\ prog[p].pc # "off"
  /\ prog' = [prog EXCEPT ![p] = [pc |-> "off", sign |-> @.sign, tick |-> 0]]
  /\ odd' = odd \cup {"crash"}
  /\ UNCHANGED <<clock, lockFile>>

\* Time passes, whatever is due.
Tick ==
  /\ clock < MaxClock
  /\ clock' = clock + 1
  /\ UNCHANGED <<lockFile, prog, odd>>

Next ==
  \/ \E p \in Programs : Start(p) \/ Wake(p) \/ Beat(p) \/ Stop(p) \/ Crash(p)
  \/ Tick

Spec == Init /\ [][Next]_vars

----------------------------------------------------------------------------
\* Past its Start, and not stopped.
Active(p) == prog[p].pc # "off" /\ ~prog[p].sign

AtMostOne(Is(_)) == \A p, q \in Programs : Is(p) /\ Is(q) => p = q

\* Unless two Starts overlap, a program dies, or a Stop meets a write under way or
\* removes another's file: at most one program has a goroutine that writes the
\* file, however late its writes are; and at most one is past its Start as long
\* as no Start finds a time of really more than lock_timeout seconds ago, although
\* the times are whole seconds and read before they are written.  Such a Start
\* returns nil beside a program that lives, against Lock.go:33; every period gives
\* it a chance, from the end of the sleep to the next write.
OneProgram ==
  /\ odd \subseteq {"late"} => AtMostOne(Writes)
  /\ odd = {} => AtMostOne(Active)
=============================================================================
