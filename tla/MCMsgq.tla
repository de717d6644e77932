------------------------------ MODULE MCMsgq -------------------------------
(***************************************************************************)
(* The message queue and what is built on its handlers: the tagged         *)
(* adapters, and the sessions of websocket and sse.  A behaviour exercises *)
(* one of them: unit says which, and the others stay as they began.  The   *)
(* subscribers of Msgq all have one type.                                  *)
(***************************************************************************)
EXTENDS Msgq, TLC

CONSTANTS
  int, Units,
  Batch, TagPushers, MaxTagPush, MaxStores,                   \* Tags
  WsSess, WsPushers, SseSess, SsePushers, Addrs, MaxUserPush  \* WsUsers, SseUsers

VARIABLES
  unit,
  items, group, asyncs, smap, walk, past,              \* Tags
  pooled, addr, sess, handlers, closeCh, pushing, told,       \* WsUsers
  spooled, saddr, ssess, shandlers, scloseCh, spushing, stold \* SseUsers

tagVars == <<items, group, asyncs, smap, walk, past>>
wsVars  == <<pooled, addr, sess, handlers, closeCh, pushing, told>>
sseVars == <<spooled, saddr, ssess, shandlers, scloseCh, spushing, stold>>

OneKind == [i \in Items |-> int]

Perms == Permutations(Pushers) \cup Permutations(WsSess) \cup Permutations(SseSess)

\* Pull_tags of a batch, here of an asynchronous and a synchronous handler.
MCBatch == <<"tagAsync", "tag">>
Tags == INSTANCE TagGroup

\* Sessions of WS, and users that push to them.
WsUsers == INSTANCE Sessions WITH Ws <- WsSess, Sse <- {}, UserPushers <- WsPushers

\* Sessions of sse, each with a channel for its messages.
SseUsers == INSTANCE Sessions WITH
  Ws <- {}, Sse <- SseSess, UserPushers <- SsePushers,
  pooled <- spooled, addr <- saddr, sess <- ssess, handlers <- shandlers, closeCh <- scloseCh,
  pushing <- spushing, told <- stold

ASSUME MsgqAssumptions == Tags!TagGroupAssumption /\ WsUsers!SessionsAssumption

MsgqInit ==
  /\ unit \in Units
  /\ Init /\ Tags!Init /\ WsUsers!Init /\ SseUsers!Init

MsgqNext ==
  /\ UNCHANGED unit
  /\ \/ unit = "msgq" /\ Next /\ UNCHANGED <<tagVars, wsVars, sseVars>>
     \/ unit = "tags" /\ Tags!Next /\ UNCHANGED <<vars, wsVars, sseVars>>
     \/ unit = "ws" /\ WsUsers!Next /\ UNCHANGED <<vars, tagVars, sseVars>>
     \/ unit = "sse" /\ SseUsers!Next /\ UNCHANGED <<vars, tagVars, wsVars>>

MsgqSpec == MsgqInit /\ [][MsgqNext]_<<unit, vars, tagVars, wsVars, sseVars>>

----------------------------------------------------------------------------

\* Tagged adapters: a handler that asked to be disabled is not called again, and
\* takes the others of its group with it.
DisabledForGood == Tags!DisabledForGood

\* WS and Handle: the messages and ids of one session never reach another one.
SessionsApart == WsUsers!SessionsApart /\ SseUsers!SessionsApart
=============================================================================
