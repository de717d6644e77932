------------------------------- MODULE MCSync -------------------------------
(***************************************************************************)
(* What many goroutines share: the maps of package sync, blocks, pools of  *)
(* objects and ids, the slots of a CacheWriter, and the handle of a File.  *)
(* They share no state, so a behaviour exercises one of them: unit says    *)
(* which, and the others stay as they began.                               *)
(***************************************************************************)
EXTENDS SizedMap

CONSTANTS
  ClearKeys, Cleaner, MaxClears,                       \* Clears
  TimedKeys, Objs, Callers, MaxTimed, None,            \* Exceeded, Stores
  GetUsers, AutoUsers, blockNum, FlexUsers, flexNum,   \* PlainBlocks, FlexBlocks
  PoolUsers, Items, maxsize, HasInUse, InitKeys,       \* Pool
  TKeys, TVals, Limits, Druation, Epoch, MaxClock, MaxIds, \* KV
  Writers, slotN, CounterMod, MaxCacheWrites,          \* Cached
  Files, FileUsers, Main, OpsOf, CurIndexes, MaxFileOps   \* Handle

VARIABLES
  unit,
  sm, ssize, spc, stodo, scalls,                                       \* Swaps
  cm, csize, cpc, ctodo, ccalls,                                       \* Clears
  xm, data, live, used, blank, wait, xpc, loc, walk, rul, xcalls, kept,\* Exceeded, Stores
  free, buf, cleanups, place, offset, got, last,                       \* PlainBlocks
  ffree, fbuf, fcleanups, fplace, foffset, fgot, flast,                \* FlexBlocks
  mbuf, made, held, working, cache, store,                             \* Pool
  now, ids, kv, km, slow, vm, vcall, stuck, clash, SumInDruation, kind, seen, \* KV
  bufs, taken, cc, wpc, workers, cnum, cancelled, writes, accepted, below, \* Cached
  config, disk, handles, fp, flock, call, hseen                        \* Handle

swapVars     == <<sm, ssize, spc, stodo, scalls>>
clearVars    == <<cm, csize, cpc, ctodo, ccalls>>
exceededVars == <<xm, data, live, used, blank, wait, xpc, loc, walk, rul, xcalls, kept>>
blockVars    == <<free, buf, cleanups, place, offset, got, last>>
flexVars     == <<ffree, fbuf, fcleanups, fplace, foffset, fgot, flast>>
poolVars     == <<mbuf, made, held, working, cache, store>>
kvVars       ==
  <<now, ids, kv, km, slow, vm, vcall, stuck, clash, SumInDruation, kind, seen>>
cachedVars   == <<bufs, taken, cc, wpc, workers, cnum, cancelled, writes, accepted, below>>
handleVars   == <<config, disk, handles, fp, flock, call, hseen>>

\* A Map on which Swap is used, and one that a single goroutine clears.
Swaps == INSTANCE SizedMap WITH
  Ops <- {"Store", "Delete", "Swap"},
  m <- sm, size <- ssize, pc <- spc, todo <- stodo, calls <- scalls
Clears == INSTANCE SizedMap WITH
  Ops <- {"Store", "Delete", "CompareAndDelete", "ClearAll"},
  Keys <- ClearKeys, Threads <- {Cleaner}, MaxCalls <- MaxClears,
  m <- cm, size <- csize, pc <- cpc, todo <- ctodo, calls <- ccalls

\* A MapExceeded with every operation, and one whose users only call
\* LoadOrStore and the function it returns.
Exceeded == INSTANCE MapExceeded WITH
  Keys <- TimedKeys, MaxCalls <- MaxTimed,
  Ops <- {"Store", "Load", "LoadOrStore", "GC", "Delete"},
  m <- xm, pc <- xpc, calls <- xcalls
Stores == INSTANCE MapExceeded WITH
  Keys <- TimedKeys, MaxCalls <- MaxTimed, Ops <- {"LoadOrStore"},
  m <- xm, pc <- xpc, calls <- xcalls

\* NewBlocks, with callers of Get and of GetAuto, and NewFlexBlocks.
PlainBlocks == INSTANCE Blocks WITH Flex <- FALSE, pc <- place
FlexBlocks == INSTANCE Blocks WITH
  blockNum <- flexNum, GetUsers <- FlexUsers, AutoUsers <- {}, Flex <- TRUE,
  free <- ffree, buf <- fbuf, cleanups <- fcleanups, pc <- fplace, offset <- foffset,
  got <- fgot, last <- flast

\* pool.Buf and LoadOrInitFunc; tmplKV, tmplK and tmplV.
Pool == INSTANCE Pools WITH Keys <- InitKeys
KV == INSTANCE TmplKV WITH Users <- PoolUsers

\* A CacheWriter, whose counter wraps round.
Cached == INSTANCE CacheWriter

\* Two Files and two callers, one of which makes every call.
Handle == INSTANCE FileHandle WITH Callers <- FileUsers, seen <- hseen
AnyOp == {"write", "seekIndex", "delete", "read", "seek", "sync", "copyFrom", "copyOut",
          "copyTo", "look", "name", "file", "big", "close"}
MCOpsOf == [u |-> AnyOp, v |-> {"write", "read"}]
MCCurIndexes == {0, -1}

\* Limits of tmplK and tmplV, one without.
MCLimits == {-1, 1, 2}

ASSUME SyncAssumptions ==
  /\ IsFiniteSet(ClearKeys) /\ MaxClears \in Nat
  /\ Exceeded!MapExceededAssumption /\ Stores!MapExceededAssumption
  /\ PlainBlocks!BlocksAssumption /\ FlexBlocks!BlocksAssumption /\ Pool!PoolsAssumption
  /\ KV!TmplAssumption
  /\ Cached!CacheWriterAssumption
  /\ Handle!FileHandleAssumption

SyncInit ==
  /\ unit \in {"sized", "swaps", "clears", "exceeded", "stores", "blocks", "flex", "pool", "kv",
               "cached", "handle"}
  /\ Init /\ Swaps!Init /\ Clears!Init /\ Exceeded!Init
  /\ PlainBlocks!Init /\ FlexBlocks!Init /\ Pool!Init /\ Cached!Init
  /\ KV!Init /\ (unit # "kv" => kind = "kv" /\ SumInDruation = 1)
  /\ Handle!Init
  /\ unit # "handle" => config.cur = -1 /\ ~config.auto /\ ~disk[Main].exist

SyncNext ==
  /\ UNCHANGED unit
  /\ IF unit = "sized" THEN Next ELSE UNCHANGED vars
  /\ IF unit = "swaps" THEN Swaps!Next ELSE UNCHANGED swapVars
  /\ IF unit = "clears" THEN Clears!Next ELSE UNCHANGED clearVars
  /\ CASE unit = "exceeded" -> Exceeded!Next
       [] unit = "stores" -> Stores!Next
       [] OTHER -> UNCHANGED exceededVars
  /\ IF unit = "blocks" THEN PlainBlocks!Next ELSE UNCHANGED blockVars
  /\ IF unit = "flex" THEN FlexBlocks!Next ELSE UNCHANGED flexVars
  /\ IF unit = "pool" THEN Pool!Next ELSE UNCHANGED poolVars
  /\ IF unit = "kv" THEN KV!Next ELSE UNCHANGED kvVars
  /\ IF unit = "cached" THEN Cached!Next ELSE UNCHANGED cachedVars
  /\ IF unit = "handle" THEN Handle!Next ELSE UNCHANGED handleVars

SyncSpec ==
  /\ SyncInit
  /\ [][SyncNext]_<<unit, vars, swapVars, clearVars, exceededVars, blockVars, flexVars, poolVars,
                    kvVars, cachedVars, handleVars>>

----------------------------------------------------------------------------

\* Map: Swap, which does not count, can make Len too small, never too large,
\* and ClearAll used by one goroutine leaves it exact.  MapExceeded: whoever
\* LoadOrStore tells that a value was there gets a value, never the empty data of
\* an item that another goroutine is still storing; with LoadOrStore and its store
\* function alone no stored value is lost before it is over.
MapsExact ==
  /\ Swaps!NeverTooMany /\ Clears!LenExact
  /\ Exceeded!LoadedHasData
  /\ unit = "stores" => Stores!StoredFound

\* Blocks: each block is once in the channel, with a caller of Get, or waiting for
\* its cleanup.
Accounted == PlainBlocks!Accounted

\* What is used again and again: Get of flexBlocks gives what the last putBack of that
\* block was given, and the writer below a CacheWriter gets every accepted piece whole
\* and in order.
LastPutSeen == FlexBlocks!LastPutSeen /\ Cached!CachedWhole

\* pool.Buf, LoadOrInitFunc, tmplK and tmplV: an object or an id has one owner at
\* a time, whatever was given back, expired or dropped before.  For tmplK this is
\* said of calls one after the other; for tmplV of calls that overlap, until one of
\* them meets an id that a Get has given back and has still to delete.
HandedOutOnce == Pool!HandedOutOnce /\ KV!IdsDistinct

\* File: calls that do not overlap leave on the disk what they wrote, and no handle.
SoloFile == Handle!SoloFile
=============================================================================
