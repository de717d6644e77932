----------------------------- MODULE MCFuncCtrl -----------------------------
(***************************************************************************)
(* What decides who may run, and when: the controls of package funcCtrl,   *)
(* the getters of keyFunc and the lock file of progLock.  They share no    *)
(* state, so a behaviour exercises one of them: unit says which, and the   *)
(* others stay as they began; a Get that is not exercised is over.         *)
(***************************************************************************)
EXTENDS BlockSeq, TLC

CONSTANTS
  GivesUp, a1,                       \* GiveUps, OneAll
  Ones, Alls, max,                   \* ManyAll
  Runners, Addrs, MaxFlashes,        \* Flashes
  Programs, Second, lock_timeout, MaxClock \* LockFile

VARIABLES
  unit,
  gl, gclosedCh, gprev, gn, gpc,  \* GiveUps
  mn, mpc, mtodo,                 \* ManyAll
  on, opc, otodo,                 \* OneAll
  skip, runner, block, flash, callbacks, ranger, \* Flashes
  frames, nodes, ret,             \* Getter
  clock, lockFile, prog, odd      \* LockFile

giveUpVars  == <<gl, gclosedCh, gprev, gn, gpc>>
manyAllVars == <<mn, mpc, mtodo>>
oneAllVars  == <<on, opc, otodo>>
flashVars   == <<skip, runner, block, flash, callbacks, ranger>>
getterVars  == <<frames, nodes, ret>>
lockVars    == <<clock, lockFile, prog, odd>>

\* BlockSeqFunc with a caller of BlockCtx, which may give up.
GiveUps == INSTANCE BlockSeq WITH
  CtxUsers <- {GivesUp}, l <- gl, closedCh <- gclosedCh, prev <- gprev, n <- gn, pc <- gpc

\* BlockFuncN with callers of Block and of BlockAll.
ManyAll == INSTANCE BlockN WITH n <- mn, pc <- mpc, todo <- mtodo

\* BlockFuncN with a single caller of BlockAll.
OneAll == INSTANCE BlockN WITH
  Alls <- {a1}, max <- 2, n <- on, pc <- opc, todo <- otodo

\* SkipFunc, BlockFunc and FlashFunc; new(struct{}) has the addresses Addrs.
Flashes == INSTANCE SkipFlash

\* Three keys whose methods miss one another in a circle, and one without methods.
Getter == INSTANCE KeyFunc WITH
  keyGet <- ("a" :> 2) @@ ("b" :> 1) @@ ("c" :> 2),
  Deps <- ("a" :> {"b", "c", "d"}) @@ ("b" :> {"c", "a"}) @@ ("c" :> {"a", "d"}),
  Target <- "a"

LockFile == INSTANCE ProgLock

ASSUME FuncCtrlAssumptions ==
  /\ ManyAll!BlockNAssumption /\ OneAll!BlockNAssumption
  /\ Flashes!SkipFlashAssumption /\ LockFile!ProgLockAssumption

FuncCtrlInit ==
  /\ unit \in {"seq", "giveups", "manyall", "oneall", "flashes", "getter", "lockfile"}
  /\ Init /\ GiveUps!Init /\ ManyAll!Init /\ OneAll!Init /\ Flashes!Init /\ LockFile!Init
  /\ \/ unit = "getter" /\ Getter!Init
     \/ unit # "getter" /\ frames = <<>> /\ nodes = <<>> /\ ret = "over"

FuncCtrlNext ==
  /\ UNCHANGED unit
  /\ \/ unit = "seq" /\ Next
     \/ unit # "seq" /\ UNCHANGED vars
  /\ \/ unit = "giveups" /\ GiveUps!Next
     \/ unit # "giveups" /\ UNCHANGED giveUpVars
  /\ \/ unit = "manyall" /\ ManyAll!Next
     \/ unit # "manyall" /\ UNCHANGED manyAllVars
  /\ \/ unit = "oneall" /\ OneAll!Next
     \/ unit # "oneall" /\ UNCHANGED oneAllVars
  /\ \/ unit = "flashes" /\ Flashes!Next
     \/ unit # "flashes" /\ UNCHANGED flashVars
  /\ \/ unit = "getter" /\ Getter!Next
     \/ unit # "getter" /\ UNCHANGED getterVars
  /\ \/ unit = "lockfile" /\ LockFile!Next
     \/ unit # "lockfile" /\ UNCHANGED lockVars

\* No fair step is enabled in a unit that stays as it began.
FuncCtrlSpec ==
  /\ FuncCtrlInit
  /\ [][FuncCtrlNext]_<<unit, vars, giveUpVars, manyAllVars, oneAllVars, flashVars, getterVars,
                        lockVars>>
  /\ Fairness /\ GiveUps!Fairness /\ OneAll!Fairness /\ Getter!Fairness

----------------------------------------------------------------------------

\* BlockSeqFunc: everyone who waits gets in; behind a caller of BlockCtx that
\* gives up nobody is left waiting for ever.  BlockFuncN: everyone gets in, and
\* out again through the receives of unBlock, as long as one goroutine uses
\* BlockAll.
NobodyLeftWaiting ==
  /\ WaitingEnters /\ GiveUps!WaitingEnds
  /\ OneAll!EveryoneEnters /\ OneAll!UnBlockReturns

\* BlockFuncN: between BlockAll and its unBlock nobody else is inside, although
\* BlockAll takes the channel's places one by one among other callers.  SkipFunc
\* and BlockFunc let one run at a time, and FlashFunc keeps one context and one
\* callback, although they compare addresses that may be equal.
AllAlone == ManyAll!AllAlone /\ Flashes!OneRuns

\* keyFunc.Get returns, and never goes round in a circle of missing keys.
GetEnds == Getter!GetEnds

\* progLock: one program at a time writes the lock file, and no other Start succeeds
\* before the file is really too old.
OneProgram == LockFile!OneProgram
=============================================================================
