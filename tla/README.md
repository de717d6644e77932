# A TLA+ model of qydysky/part

`part` is a collection of Go packages: concurrency helpers (contexts that wait,
signals, limits, blocking controls, maps), a message queue on which the
websocket and SSE servers and the logger are built, a web router with request
limits and expiring keys, chained SQL transactions, pools, and many smaller
helpers. There is no main program; a user calls the packages from goroutines of
its own. What is hard to get right, and hard to test, is in the small concurrent
objects and in the code that keeps data for others or talks to a partner that
may fail: these are what is modelled.

This directory holds the TLA+ modules, the TLC configurations, the proofs and
`PROJECT.json`, which lists the components, the runs, the mutants of each
property, the map from definitions to source lines, the findings, the hazards
and the theorems. Source paths below are relative to `src/`.

## Inventory

| Component | State | Operations | What is hard | What makes it correct |
|---|---|---|---|---|
| `ctx` WithWait/WaitCtx | two atomic counters per scope, cancel state | register (scope or task), `done(wait)` | two counters read and written in separate steps, repeated `done`, timeouts | nil means finished; a scope is taken off its parent once; `done` returns |
| `ctx` Mctx | one child pointer per context, a goroutine each | `MergeCtx` | joining while others end | cancellation reaches everything downstream and nothing else |
| `msgq` | list of subscribers, two NeedRemove flags, a RW lock | Register, cancel, Push, PushLock, ClearAll, removers | removal beside iteration, cancel without the lock, handlers that push | no call after cancel, everyone called once, calls return |
| `sync` RWMutex, Map, MapG, MapExceeded, LoadOrInitFunc | lock with reports; `sync.Map` with a counter; items with a time | Load/Store/Delete/Swap/ClearAll; LoadOrStore with a store function, GC | entry and counter, look and delete, in two steps | Len exact at rest; a stored value is found; "loaded" comes with a value |
| `signal` | channel and waiter count | Wait, WaitC/fin, Done | counting after the close | Done leaves no counted waiter behind |
| `limit` | bucket channel, refill goroutine, a `signal` | TO, Close | refill against takers, close order | no more tokens than periods allow; TO and Close return |
| `funcCtrl` | swapped channel (BlockSeqFunc), counting channel (BlockFuncN), pointers (Skip, Flash) | Block, BlockCtx, BlockAll | giving up, partial acquisition | one at a time, in order; nobody waits for ever |
| `sql` SqlTxs | list of open transactions | AddTx, Run | one of several calls fails | all or nothing up to commit; nothing left open |
| `web` WebPath | tree of nodes | Store, Delete, Reset, lookups | pruning, inner nodes | lookups agree with the set of stored paths |
| `web` Limits | slots per item, locks | AddCount and its goroutine | check, lock, check again | items never overrun; slots come back |
| `web` Exprier | map of keys, channel of keys | Reg, Check, Drop | map and channel change separately | at most max keys, oldest leaves, a returned key is valid |
| `pool` Blocks, FlexBlocks | channel of free offsets | Get, putBack, GetAuto | collector-driven return | a block has one user |
| `pool` Buf, LoadOrInitFunc, `idpool`, `tmplKV` | set of pooled items, a spare value, free ids, entries with a time | Get, Put, LoadOrInit, Set, Get | reuse while in use, an id returned before its entry is gone | nothing is handed out twice; a live value is really in time |
| `msgq` adapters | a batch with a chain of cancels, goroutines of async handlers, a map of handlers | Pull_tags, Tag, TagAsync, Pull_tag_chan, Pull_tag_async_only, Pull_tag_syncmap | results of goroutines out of order, cancel beside push | who asked to be disabled stays disabled |
| `websocket` server, `sse` | sessions over `msgq`, ids of `idpool` | WS, Handle | fin against reuse of the id, close against send, ids that are addresses | no session of websocket hears what was for another; a User or Umsg has one session |
| `websocket` client | connection, timers of ping, pong and close | Handle, Heartbeat, Close | a peer that falls silent, timers that overwrite one another | whoever asked for a close ends, and is told once |
| `rpc` | pooled coders | Register, Call | - | one HTTP exchange per call |
| `reqf` | request state, lock, two timers, their goroutines | Reqf, Wait, getters | retries, timers shared by requests, early errors | a reader sees one finished attempt; timeouts end requests |
| `io` | pipes, a watcher, two buffers | Copy, ReadLine, CopyDealer, WithCtxCopy, CacheWriter | short reads and failures at limits, dealers that change the length, timeout against late progress | data in order, alarms true, copies return |
| `slice` | buffer with modification stamps, index | Append, RemoveFront, Read, HadModified | old elements behind the content | the content is the queue the calls describe |
| `file` | a handle, a lock, a cursor | searches, Write, Read, Delete, CopyTo | separator on a chunk boundary, handle opened outside the lock | same result as an unchunked search; writes are not lost |
| `keyFunc` | registry of methods | Reg, Get | keys that miss one another | Get ends, with a true trace |
| `progLock` | a file with a time, in whole seconds | Start, Stop | the file at the age of its timeout, writes that come late | one program writes the file |
| `log`, `crypto`, `compress`, `sys`, `linuxwin`, `errors`, root package and small helpers | little or none | formatting, library and OS calls | - | not a question for a model |

Interactions: `limit` uses `signal`; `msgq` uses `sync.RWMutex`; `web.Exprier`
and `MapExceeded` use `sync.Map`; `websocket`, `sse` and `log` use `msgq`; `rpc`
uses `web.WebPath`; the websocket server and `tmplKV` use `idpool`; the recorder
and `progLock` use `file`; `reqf` uses the pipes of `io`; `sql` logs and pools through `pool`.

## Modules

Each module names the code it models in its header, and `PROJECT.json` gives the
lines of each definition. Every atomic operation, lock or channel operation of
the code is a step of its own; what runs under a lock that all users take is one
step where no other code can see its middle. Values that no property tells apart
are left out. Definitions that begin with the comment "Mutant" are plausible
bugs: replacing the definition they follow by one of them must break a property.

* **CtxWait**: `Scopes` are calls of WithWait, `Tasks` of WaitCtx, `Under` the
  context each was given. `DoneEnter` to `DoneLeave` follow `done()` statement
  by statement; `CountChild` is the pair of atomic adds. A timeout may fire at
  any moment of a scope that has one.
* **MergeCtx**: one goroutine per joined context (`Wake`, `Walk`), the child
  pointer that a later MergeCtx overwrites, `End` for a context that ends.
* **Msgq**: the lock as a value (a writer announces itself,
  later readers queue behind it), and the message queue over it. Owners
  register and cancel, `Pushers` push with or without PushLock, `Removers` are
  the goroutines of `removeDisable`. The list is a sequence; an element that is
  removed loses its next pointer (`NextOf`), as `container/list` does.
* **Signal** and **Limit**: Limit EXTENDS Signal: its refill goroutine is the
  waiter, Close is Done.
* **InOrder** and **BlockSeq**: InOrder is the abstract promise (callers enter
  in the order they came, one at a time); BlockSeq is BlockSeqFunc with numbered
  channels, and `OrderSpec` is the refinement.
* **BlockN**: BlockFuncN, entries of the channel without owners.
* **SqlTxs**: Run, do and commitOrRollback; each call of the database may fail.
* **WebPath**: the tree as records `[Path, f, Same, Next]`, the operations as
  recursive operators, compared with the plain set of stored paths. Reset clears
  every part of the first node but its handler (`ResetTo`), which comes back for
  its segment when the next path that is stored is longer; `Stored` says so in
  the reference.
* **ReqLimits**: AddCount with its first look, the lock, the second look, the
  taking and the returning, one item per step.
* **Exprier**: Reg, Check and Drop; the map and the channel change in separate
  steps, but for the receive and the LoadAndDelete of a Reg that makes room, which
  are one: with one registrar nobody else receives. SetMax and Disable are not
  modelled.
* **MapExceeded**: items are objects, because the store function that
  LoadOrStore returns outlives the key. Unlocked reads race: they see any value
  while store writes (`SeenLive`, `SeenData`).
* **SizedMap**: `sync.Map` plus counter, the code of `Map` that `MapG` repeats.
* **Blocks**: the channel of offsets, putBack, and the cleanup of GetAuto that
  the collector may run as soon as GetAuto has returned.
* **Pools**: `pool.Buf` (Get, Put, State, with values that may still be in use)
  and LoadOrInitFunc with its spare value.
* **TmplKV**: the three stores of tmplKV with their coarse clock, and the ids of
  idpool, which `tmplK` and `tmplV` use. The calls of tmplV overlap, each of their
  locked parts and each call of the pool a step: Get puts an id back (`PutV`)
  before it deletes the entry (`DeleteV`), and a Set may take it in between. The
  calls that meet at such an id are in `clash`, and the behaviour ends there. A
  Set that finds the limit reached and the map empty keeps the lock (`stuck`).
  `tmplK` has no lock for its list and its maps and `tmplKV` none for its map:
  used by several goroutines they race, so they are modelled for one.
* **SliceBuf**: the array behind `slice.Buf` with capacity, length and bufsize;
  `want` is the queue its calls are meant to keep. Read is two steps, since it
  only takes the read lock; ReadFrom and ReadMoreN are one step for each read.
* **FileSearch**: CopyToUntil, ReadUntilV2 and SeekUntil, one step for each piece
  that is read, compared with the first separator in the whole text; ReadAll and
  ReadToBuf. `area` is the code's array with all it holds, as it is moved by the
  length of the reserve and read into (`Moved`, `Area`); `Held` is how much of it
  is in front of a new piece, `Again` how much of it is not given again.
* **FileHandle**: getRWCloser before the lock, Close after it, and the handles
  that read, write and seek keep; the disk with its linked and deleted files. A
  TryRLock may succeed while a writer waits, which Go does not allow: the model has
  a few more behaviours than the code.
* **IoCopy**: Copy with its limits, WriterWithConfig over several Writes, ReadAll,
  ReadLine and CopyDealer, one turn of the loop per step. The reader returns as
  little as it likes, nothing, or an error, and the writer fails after any part.
  A dealer may change, lengthen or shorten what it is given, stop the copy, or
  overrun the buffer: from its first change on (`job.dealt`) the bytes are no
  longer followed, only the lengths, which decide whether the next read has room.
  Buffers of less than three bytes are left out for CopyDealer: they give its
  reads no room at all.
* **CacheWriter**: the slots, their channel, and the counter that wraps round.
* **PipeCopy**: IOpipe, WithCtx and WithCtxCopy with its watcher, whose clock is
  in whole seconds as in the code.
* **TagGroup**: a batch of tagged handlers over Msgq, of which only the walk over
  the list and its lock are kept.
* **Sessions**: the websocket server and sse, with the pool of their Users and
  Umsgs, their tagged handlers and Pull_tag_chan. An id is an address. That of a
  User is the address of an item which the User keeps, so a new one differs from
  those of the others; that of a Umsg is the address of an int that nothing keeps
  (`sse/server.go:24`), so a new one is any address (`NewIds`), and two sessions
  of sse may have the same.
* **WsClient**: NewClient, dial, the read loop, the handler of "send", and the
  timers; the peer may send, close, break off or fall silent.
* **Reqf**: a Req used for one request after another: the lock, the attempts,
  the copy of the body, the two timers and their goroutines. An os.Create or Seek
  that fails in prepareRes is left out.
* **SkipFlash**: SkipFunc, BlockFunc, FlashFunc and RangeCtx. An address of a
  zero-size allocation is any member of `Addrs`.
* **KeyFunc**: the recursion of getTrace as a stack of frames.
* **ProgLock**: two programs, their goroutines, the file and a clock. The clock
  runs in ticks, `Second` of them in a second, and the code sees whole seconds
  (`Unix`). A goroutine may read the time any while after its sleep has ended
  (`Wake`), write it any while after that (`Beat`), and sleeps from the write on.
  A write of the file is one step. Behind a file that is too old Start returns nil
  and starts no goroutine (`Behind`).

The `MC*` modules compose what one run asks about. MCMsgq, MCFuncCtrl, MCSync,
MCBounds, MCCore and MCClients are specifications with CONSTANTS of their own, which the cfg
gives values: the proofs are about these modules (for MCCore, about Limit and
CtxWait, which it extends), for every value that their ASSUME allows. They replace no definition. The components of one package share no
state, so one run can ask its questions of several of them without exploring their
product: the variable `unit`, chosen in
the initial state, says which of them a behaviour exercises, and the others stay
as they began. An instance named after its setting (`GiveUps`, `OneAll`,
`Swaps`, `Doubles`, ...) is the component with other constants; the properties of an
instance are named again in the MC module.

## Runs

Deadlock checking is off everywhere: these are libraries, their users may simply
stop calling, and the bounds on calls stop the models; that no call hangs is
stated as liveness. `returns`, `msgq` and `clients` take about two minutes, `core`,
`sync` and `bounds` one to two, the others less.

| Run | Module | Bounds | Shows |
|---|---|---|---|
| core | MCCore | limit: bucket of 2, 3 callers with 3 calls, 3 periods, 2 closers; ctx: a root scope, a scope nested in a task's context with a timeout, 2 tasks, 2 callers of done; web: 7 paths, and 5 with empty segments, 6 operations, of which 2 Resets | no more tokens than the begun periods allow, Done and Close wait for whom they counted; a nil result means finished, exact counters, repeated done harmless; exact and nearest lookups |
| msgq | MCMsgq | 2 subscribers, 2 pushers, 2 removers, ClearAll once, a handler that pushes; a batch of a sync and an async handler, 2 pushers with 2 pushes; 2 sessions with 2 addresses, 2 pushers (websocket) or 1 (sse) with 2 pushes | no call after cancel, each subscriber once, the list stable under a plain push; disabled for good; no message to a session that only had the id before (websocket) or the Umsg (sse) |
| returns | MCReturns | ctx: 2 scopes, 2 tasks, all announced; merge: a chain of 3 with a branch; queue: 2 subscribers, a push, ClearAll; signal: 2 waiters, 2 closers; limit: bucket of 1, 2 callers, with a period and with period 0; requests: 4 on items with 2, 1 and 0 slots | what must end does end; cancellation reaches exactly what is downstream |
| funcctrl | MCFuncCtrl | BlockSeqFunc: 3 goroutines, 6 calls, with and without one that may give up; BlockFuncN: 3 callers of Block, 1 or 2 of BlockAll; SkipFunc and FlashFunc: 2 goroutines, 3 contexts, 2 addresses; keyFunc: 3 keys that miss one another in a circle and one that has no methods; progLock: 2 programs, timeout 1 second, a clock of 5 half seconds | one at a time and in order (refinement of InOrder), nobody left waiting; BlockAll alone; one context alive; Get ends; one program writes the file, however late |
| sync | MCSync | Map: 3 goroutines, 2 keys, 3 calls each, with Swap apart, and one goroutine with ClearAll and 8 calls; MapExceeded: 2 goroutines, 2 keys, 3 items, 2 calls each; 3 blocks, 2 users of Get and 2 of GetAuto; 2 flexible blocks, 3 users; Buf: 2 users, 4 objects, room for 2; tmplKV: 3 keys, 3 ids, 3 readings of the clock, 2 users of tmplV whose calls overlap; CacheWriter: 2 writers, 2 slots and a counter that wraps at 3; file handles: 2 Files, 2 callers, 3 calls | counter off by the operations under way; Swap only lowers it; "loaded" comes with a value; nothing stored is lost without GC and Load; every block in one place; the last slice put back is seen; nothing handed out twice; whole pieces in order; what calls that do not overlap write to a File is there, and their handles are closed |
| bounds | MCBounds | limits: 4 requests, 3 items; keys: 4, room for 2, one goroutine each that registers, renews, drops and checks, 2 calls each; slice: 4 calls of up to 2 elements, MaxSize 3, 2 readers; copies of 0, 3 and 7 bytes; searches: 2 calls on files of up to 5 bytes, 4 separators of 1 to 3 bytes, pieces of 1, 2 and 5 | never overrun, turned away only when full; bound and oldest leaves until somebody renews a key, Reg does not wait; the content is the queue; copies exact although readers, writers and dealers fail; searches exact in the cases the code can keep |
| clients | MCClients | sql: up to 3 transactions of 2 statements, every failure; reqf: 2 requests out of 4 kinds, 2 pieces; io: 2 writes to the pipe, a watcher of 2 seconds, a clock of 6; websocket: 4 messages or pushes | nothing left open, an error means nothing committed; a reader sees one finished attempt; a timeout ends a request, and a stalled body; copies return and alarms are true; a client that is asked to close ends |
| msgq_clearall | MCMsgq | 2 subscribers, ClearAll, a push | violation: ClearAll removes only the first subscriber |
| sqltxs_panic | SqlTxs | up to 3 transactions of 2 statements | violation: a failing Rollback panics and leaves transactions open |
| exprier_unstored | Exprier | 2 keys, room for 1 | violation: Reg returns a key it did not store |
| copy_limit | MCBounds | the copy of Test_CopyIO: 6 bytes, one loop of 5, a buffer of at most 4 | violation: all that the loop holds is written, and the error is ErrLoopMax |
| search_pieces | MCBounds | as `bounds` | violation: in pieces shorter than the reserve ReadUntilV2 gives a first byte of the separator as data |

The bounds are enough for the cases at stake: two actors in every race plus a
third that sees the result, a resource with one unit more and one less than its
users, one call before, in and after the window. Symmetry is used only for sets
of interchangeable model values and only in runs without liveness.

The five runs that must find a violation state what a comment or a test says;
the findings in `PROJECT.json` quote the line. Other limits of the code were met
while modelling. They are why some properties are stated for fewer users or under
a condition; the first ones are reached by changing the constants named, the
later ones are the cases that the condition of a property leaves out.

* `Downstream` fails when one context of the chain is joined without a cancel
  function (`Cancelable` without n2), although the comment at `ctx/Ctx.go:195`
  says that later contexts are cancelled.
* `CallsReturn` fails with a handler that pushes from Push (`Nesters` = {i1})
  while a registration waits for the lock.
* `OrderSpec` of BlockSeq fails with a caller of BlockCtx (`CtxUsers` = {p2}).
* `EveryoneEnters` of BlockN fails with two callers of BlockAll.
* `StoredFound` fails with GC or Load beside LoadOrStore.
* `Bounded` and `EvictsOldest` fail with renewals.
* A block of GetAuto can be handed out while it is in use: its cleanup belongs to a variable
  that is dead when GetAuto returns.
* LoadPerfix finds nothing, or a directory that is not the nearest, for a path
  that is only an inner node: with /a/ and, before it, /a/b/c stored, LoadPerfix of
  /a/b finds nothing, although the comment at `web/Web.go:247-251` lists it as
  found. RoutesExact allows what the code does for such a node (`Hollow`) and no
  more. What LoadOnePerfix finds is not compared for paths with empty segments:
  for // and below it finds the handler of /.
* A Reset of the router keeps the handler of the first node: Store of /a, Reset,
  Store of /a/b makes Load of /a find the old handler. The reference of RoutesExact
  says so (`Stored`).
* `file` searches: with a separator of several bytes the reserve is moved by its own
  length, and a piece is given before it is known whether a separator begins in its
  last bytes. So ReadUntilV2 and CopyToUntil drop bytes, repeat some or give bytes of
  the separator beyond the first read (the run `search_pieces`), and the separator
  is missed when the pieces are not as long as the reserve. UntilExact says of the
  cursor what holds for one-byte separators, for separators in the first read and
  for pieces as long as the reserve (`PlaceKept`), of the data what holds for the
  first two (`DataKept`). A separator that begins in the bytes that a second search
  reads again ends in a panic (`FileWR.go:506`, a slice with its bounds the wrong
  way round), and with three bytes or more a short first piece can panic too.
  ReadToBuf panics when the length of its buffer is below its capacity and the file
  is larger.
* `file` handles: getRWCloser opens, and may truncate, before the lock is taken,
  so overlapping calls overwrite what others appended, leak handles or close the
  handle another call uses; read, write and seek keep a closed handle after Close,
  Name or CopyTo without AutoClose. Two CopyTo in opposite directions that wait
  for their locks wait for each other.
* `io`: Copy returns ErrLoopMax when MaxLoop is used up, also when it has written
  what Test_CopyIO asks of it (the run `copy_limit`); it writes more than MaxByte
  when one loop holds more than that; without a seeker a read that lies in the bytes
  to skip ends or spoils the copy; ReadLine loses its place after a line and skips
  an empty one. CopyDealer misses a pattern that two reads split; it returns nil when
  its writer fails with io.EOF; when the dealers make nothing of the data, what was
  left before is dealt again; and dealers that lengthen the data fill the buffer
  until a read has no room, where CopyDealer goes round without reading or a slice
  panics. A Read of an IOpipe after Close gives EOF.
* `slice.Buf`: ReadFrom and ReadMoreN put a zero over an element when the array is
  longer than the slice; WriteTo drops what a partial write left; two Reads that
  overlap return the same elements.
* `reqf`: an error of prepare leaves the lock taken (`Reqf.go:122`). A goroutine
  of an earlier request that is still in its select takes the tick of the timer,
  or stops it, and the request waits for its server. A retry leaves the file of
  the attempt before it open.
* `websocket` client: a second ping overwrites the timer of the first, which then
  reports a missing pong; after a failed write the handler of "send" is gone and
  Close does nothing; the comment at `Client.go:142` offers a push of "close", for
  which there is no handler. gorilla's NextReader does not return control frames;
  ReadTypes holds them nevertheless because the code handles them.
* `websocket` server and `sse`: WS gives its id back before it pushes fin
  (`Server.go:67`). A cancel of Pull_tag_chan beside a push can send on a closed
  channel.
* `msgq` adapters: a push between the registration and the first Swap of a batch
  meets a nil cancel; the Store of Pull_tag_async_only lets the false of a late
  goroutine undo the true of an earlier one.
* `sse`: two sessions may have the same id, and then hear what is pushed to it, both
  of them.
* `tmplKV`: before the first tick every unknown key is called live. Two Gets of
  `tmplV` that meet at an expired entry put its id back twice; a Set that takes the
  id between the Put and the delete loses its entry. A Set that finds the limit
  reached and the map empty never gives the lock back, with SumInDruation 0 the
  first one.
* `progLock`: from the end of a sleep of lock_timeout to the next write a Start may
  find the time of a live program too old. It returns nil, although the comment at
  `Lock.go:33` promises an error, and writes nothing: so one program at a time is
  past its Start only until a Start finds a file that is late, while one goroutine
  at most writes the file all along. After a crash the next program returns from
  Start without writing the file, too; a Stop that meets a write under way leaves a
  file behind; Start after Stop waits for ever; Stop of a program that writes nothing
  removes the file of the other.

## Fairness

* Go runs every runnable goroutine: weak fairness of each goroutine's own next
  step (`Fairness` in MCReturns, BlockSeq and BlockN).
* A channel is not denied for ever to one who waits (Go's channels queue their
  waiters): strong fairness of the steps that take one where others can take it
  again and again (TO and the refill goroutine of limit, Send of BlockN). The
  other models are bounded and come to rest, so weak fairness is enough for
  their mutexes.
* Users: a caller that has entered calls its done or unBlock function; announced
  children register and end when their context ends; net/http ends the context
  of every request. Without these the waiting calls have no reason to return,
  and the code says so in its examples.
* Of the partners nothing is assumed: a server may never answer a request, a peer
  never answer a close, a writer never write. Fair are the goroutines of the
  code (the attempts of Reqf, the goroutines of its timers, WithCtxCopy and the
  closing of its pipe, the read loop of the client once its connection is closed),
  and a timer that runs fires. The writer below WithCtxCopy is supposed not to
  block for ever.
* Nothing is assumed of user calls that have not begun, of Expire, of timeouts
  or of the collector.

## Proofs

Proved with TLAPS for every value of the constants that satisfies the named
assumptions. Each proof establishes an inductive invariant, with one lemma per
action or group of actions, and then the property; the types are part of the
invariant. Where a run composes several units, the proofs about the components
are carried over to the composition: a step of the composition is a step of the
unit it is about and a stutter of the others (`UnitSteps`), so the theorem at the
end of the module is about the specification TLC runs, with its constants left
open.

* **CtxWait_proofs**: TypeOK, ActualCounts, NilMeansPlanFinished,
  NilMeansSeenFinished. The property alone is not inductive: planC and actualC
  have to be tied to the sets of children at each stage (`PlanCounts`,
  `ActualCounts`), the first done call to the moment a scope leaves its parent
  (`FirstEnds`, `ScopeStages`), and what a waiting call has seen to those sets
  (`CallWaits`).
* **Limit_proofs**: first the signal: CountExact and DoneWaits, with `OneSpin`
  (one Done wins) and `HeldPast` (whoever is past the receive has seen the
  close). Limit's steps are Signal's steps or stutters (LimitIsSignal), so these
  carry over. RateBound from `TokenCount` (tokens granted, in the bucket and
  still to be put are bounded by the begun periods) and CloseWaits from
  `RefillStages`.
* **FuncCtrl_proofs**: BlockSeq: Exclusive and OrderSpec, the refinement of
  InOrder, for callers of Block only (CtxUsers = {}: with BlockCtx the property
  is false); `Prefix` says that the closed channels are a prefix of the swapped
  ones. BlockN: `EntriesHeld` counts the entries of the channel by what each
  caller has sent. SkipFlash: `FlashIInv` ties the current pointer to the runner
  or context that set it, whatever addresses an allocation may give. ProgLock:
  `FileOwned` says that the file is there while the goroutine of a program sleeps,
  whose it is, and that nobody is behind it before a write is late: a time that is
  over in whole seconds is really over (`OldIsLate`). AllAlone and OneProgram are stated of the composition.
* **Msgq_proofs**: NoCallAfterCancel, EveryoneCalledOnce and ListStable.
  `PlaceInv` says what each place of the code knows of its locals, `LockInv`
  counts the readers by the goroutines that hold the lock (`Writers`, `Reads`),
  `ListInv` says that the list holds registered items once. EveryoneCalledOnce
  needs in addition that what a push has before it is behind the element it
  stands on (`InOrder`, with `From` and `After`), that an item that is due is not
  gone (`NotGone`), and that a step of anybody else keeps the suffix of the list
  a push walks (`StepKeeps`, `Stays`).
  What is built on the queue follows in the same module. DisabledForGood of the
  tagged adapters, for any batch: `TagBatch` says how far the batch is, `TagChain`
  that the chain from there is then 1, 2, ... to the last member registered (the
  recursive function is compared with these sequences at the smallest place where
  they would differ), `TagTogether` that a finished batch is off, or the chain some
  pusher still walks covers what is not, `TagDisabled` that the true of a
  goroutine stays. SessionsApart of websocket: a User that was made has an
  address of its own (`WsMade`), is in the pool or has one owner (`WsIds`), and a
  handler that can be called is that of a session that is reading (`WsReading`).
  Of sse the same without the address (`SseMade`, `SseIds`, `SseListening`): what
  lies in the channel of a session is the close handed to it last and is there until
  it is received (`SseBuffer`), how far its cancel is (`SseCancels`), and, while no
  push overlaps a cancel, who can still send on the channel (`Unraced`).
* **Clients_proofs**: NoneLeftOpen and ErrorMeansNothing of SqlTxs, from the place
  of Run in the list: which transactions are open, ended or not begun before and
  behind the index. OneAttemptSeen, from who holds the lock of a Req and what the
  attempt under way has left in the buffer, stated of the composition. A Client
  of the websocket is told once (`Told`), with the states of its timers
  (`Pings`) and of its connection (`Dialed`).
* **Stores_proofs**: one store of each kind. SizedMap: the counter differs from
  the number of keys by the operations under way and a `Gap` that only Swap and
  ClearAll change. Blocks: a block is in one place at most (`OnePlace`) and in
  one at least (`SomePlace`); with putBack the slice that was put back is kept
  (`KeptSeen`). Pools: nothing is in two hands. MapExceeded: who is live has data
  or is held by the one that stores (`LiveHasData`), and without GC and Load a
  stored item stays in the map (`StaysInMap`). CacheWriter: a slot has one holder
  (`OneHolder`) and the pieces that wait are the accepted ones in order
  (`AllInOrder`).
* **Sync_proofs**: MapsExact, Accounted, LastPutSeen, HandedOutOnce and SoloFile of
  the composition MCSync. Its three Maps, two kinds of blocks and two users of
  MapExceeded are instances of the components with different constants: the
  theorems of Stores_proofs are taken with INSTANCE for each, and each instance
  is shown to be the one MCSync runs. The ids of tmplK and tmplV are proved
  here: `Ids` says that no id is in two of the places in use, waiting and free,
  and that the pool counts the first two; of the calls of tmplV that overlap,
  `CallsApart` says that no two of them have taken the same id until the first
  clash, and `FewBusy` counts them, for how far they exceed the limit. So is the handle of a File, with an
  invariant that holds up to the first clash: a pointer of a File is to a handle
  of its own (`FilePointers`); a handle that is open is that of its File or, with
  AutoClose, one left open (`FileOpened`), and then the handle of a File belongs
  to a call that will close it (`FileHeld`); a call about to open a File saw
  whether it is there (`FileOpens`), so that only a missing, empty file is
  truncated (`FileLinked`); and the cursor stands at the end of data that equals
  the log (`FileAtEnd`).
* **Bounds_proofs**: what keeps within its limits and in order; all six properties
  of the run `bounds` are stated of the composition.
  ReqLimits: NeverOver, AllItems and OnlyWhenFull. `Slots` equates
  available with the slots nobody has, `Locked` says who holds the lock, `Room`
  that under the lock an item once seen with a slot keeps it, `MatchsAll` what
  the local of AddCount holds. Exprier: Bounded and EvictsOldest: the registrar
  has made room in the channel (`RoomInChannel`), every key in the map is in the
  channel or in its hands (`MapInChannel`, which a renewal breaks), and the
  channel is in the order in which the keys were made (`Sorted`, `KeyOrder`).
  SliceBuf: the content agrees with the queue, and so do the snapshot that carries
  the present stamp and the copy a reader holds (`QSame`, with `Match` and
  `Starts`); what was read and what is in the queue were put in in this order
  (`QOrdered`, with `Rise`); a buffer that is being filled is locked (`QAlone`).
  It needs to know that the elements behind the content stay where they are,
  which is why the array is part of the types. IoCopy: one invariant for each
  kind of call (`InCopy`, `InConfig`, `InAll`, `InDeal`, `InLine`), in which what was written,
  what is in the buffers and what the reader still has are consecutive bytes
  (`Run`), as long as no dealer changed them, and `LoopRoom` counts what the loops
  of Copy may still write, for MaxByte. FileSearch: the first separator ends behind
  the cursor while a search goes on, the end of the area is the text before the
  cursor (`Fronted`), and the data is the text up to it (`SUnder`). The place is
  inductive beyond the first read because the piece is as long as the reserve, so
  that what the code moves to the front is what the next piece goes on from; the
  data only while no second piece has a reserve. The conditions of UntilExact say
  just this. The lemmas below it say where the first occurrence
  of a separator in a piece is in the text (`IndexOf`, `OneFirst`, `TwoFirst`).

The assumptions of the theorems are the ones a reader would expect (finite sets,
numbers in Nat, distinct model values) and these, without which the property is
false: only Block among the users of BlockSeqFunc, one goroutine that registers
keys with an Exprier, no Swap and ClearAll for InFlight, one user of ClearAll,
nobody but LoadOrStore for StoredFound, and one user of tmplK and of tmplKV. The bounds (MaxCalls and the like) are
any number, so none of the results rests on them.

CountExact, Exclusive, AllItems, LenExact, RegNeverWaits and the websocket
client's ToldOnce are proved and no run lists them under these names: the runs
check what follows from them or what contains them.

Only model-checked:

* all liveness (fairness and ENABLED are out of the prover's reach), MergeCtx and
  KeyFunc, whose properties are of this kind;
* RoutesExact: WebPath builds and walks a tree with recursive operators, and what
  they compute for a tree of any depth would take an induction over data.

SliceBuf, IoCopy and FileSearch are written as the loops they are, one turn or one
piece per step: the induction over data is then the one over steps that an
invariant makes, which the prover can do.

## Not modelled, and what could come next

Time is a number only in TmplKV, PipeCopy and ProgLock, whose code compares clock
readings; elsewhere timeouts and expiry may happen at any moment. Formats, texts
of statements and log lines are left out. The components list gives the reason
for each part that has no module: cryptography, compression, operating-system
calls, decoders and stateless helpers stay out for good; `rpc`, `component`, the
web cache and the recorder add no protocol to the packages they are built on.

Of the modelled packages these operations are left out: Flash and NeedExit of
FlashFunc, SetMax and Disable of Exprier, the timeout reports of sync.RWMutex,
RawPipe, SaveToPipe, NoResponse and JustResponseCode of reqf, RW2Chan of io,
directories in file's CopyTo, and SliceIndex.

What could come next: RoutesExact, if WebPath were written as one step per node
of the walk; the data of separators that lie across two reads, once the code gives
the bytes it reads there; and the
operations listed above.
