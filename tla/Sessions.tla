------------------------------ MODULE Sessions ------------------------------
(***************************************************************************)
(* websocket/Server.go WS and sse/server.go Handle: sessions that take a   *)
(* User or Umsg from a pool and talk to the program over a MsgType, with   *)
(* the Pull_tag_chan of msgq/Msgq.go through which an sse session hears    *)
(* "close".  A push walks the handlers in the list and a registration      *)
(* waits for the pushes under way.  What a session pushes to the program   *)
(* (init, recv, error and fin) is no more than a step of it; its own       *)
(* "close" is heard by handlers of the same id only, so it is one step.    *)
(*                                                                         *)
(* An id is an address.  The one of a User is that of its Item, which      *)
(* lives as long as the User; the one of a Umsg is that of an int that     *)
(* nothing keeps, so that any two Umsgs may have the same id.              *)
(***************************************************************************)
EXTENDS Integers, Sequences, SequencesExt, FiniteSetsExt

CONSTANTS
  Ws, Sse,         \* sessions; a server has one kind, the other set is empty
  UserPushers,
  Addrs,           \* addresses, none of them 0
  MaxUserPush      \* bound: pushes of send and close

SessionsAssumption == Addrs \subseteq Nat \ {0}

Sess == Ws \cup Sse

VARIABLES
  pooled,   \* what is in userpool or connPool, named for the session that made it
  addr,     \* made by a session -> the id it has, 0 if it made none
  sess,     \* session -> pc, item (User or umsg)
  handlers, \* the list: records of s and kind ("both", "send", "chan"), and off
  closeCh,  \* sse session -> the channel of Pull_tag_chan: buf, closed, done (ctx)
  pushing,  \* pusher -> pc, tag, to (an id, 0 for all), the handlers to visit
  told      \* pushes, the last close each sse session was handed, raced and panic

vars == <<pooled, addr, sess, handlers, closeCh, pushing, told>>

NoPushing == [pc |-> "idle", tag |-> "none", to |-> 0, todo |-> <<>>]

Init ==
  /\ pooled = {}
  /\ addr = [s \in Sess |-> 0]
  /\ sess = [s \in Sess |-> [pc |-> "out", item |-> s]]
  /\ handlers = [list |-> <<>>, off |-> {}]
  /\ closeCh = [s \in Sse |-> [buf |-> <<>>, closed |-> FALSE, done |-> FALSE]]
  /\ pushing = [p \in UserPushers |-> NoPushing]
  /\ told = [pushes |-> 0, last |-> [s \in Sse |-> -1], raced |-> FALSE, panic |-> FALSE]

----------------------------------------------------------------------------
Goto(s, p) == sess' = [sess EXCEPT ![s].pc = p]
NoPush == \A p \in UserPushers : pushing[p].pc = "idle"
Quiet == UNCHANGED <<pooled, handlers, closeCh, pushing, told>>

Id(s) == addr[sess[s].item]

\* The id of a new User or Umsg.
NewIds(s) == IF s \in Ws THEN Addrs \ Range(addr) ELSE Addrs

\* userpool.Get, connPool.Get: one that was put back, or a new one.
Begin(s) ==
  /\ sess[s].pc = "out"
  /\ \E u \in pooled \cup {s} :
       /\ sess' = [sess EXCEPT ![s] = [pc |-> "init", item |-> u]]
       /\ pooled' = pooled \ {u}
       /\ \/ u # s /\ UNCHANGED addr
          \/ u = s /\ \E a \in NewIds(s) : addr' = [addr EXCEPT ![s] = a]
  /\ UNCHANGED <<handlers, closeCh, pushing, told>>

PushInit(s) ==
  /\ sess[s].pc = "init"
  /\ Goto(s, IF s \in Ws THEN "upgrade" ELSE "register") /\ Quiet

\* The upgrade may fail, which ends the session before it has a handler.
Upgrade(s) ==
  /\ sess[s].pc = "upgrade"
  /\ Goto(s, "register") \/ Goto(s, "put")
  /\ Quiet

\* Pull_tag of "send" and "close", Pull_tag_only and Pull_tag_chan.
Register(s) ==
  /\ sess[s].pc \in {"register", "register2"} /\ NoPush
  /\ LET kind == IF s \in Ws THEN "both" ELSE IF sess[s].pc = "register" THEN "send" ELSE "chan"
     IN  handlers' = [handlers EXCEPT !.list = Append(@, [s |-> s, kind |-> kind])]
  /\ Goto(s, IF s \in Ws THEN "read" ELSE IF sess[s].pc = "register" THEN "register2" ELSE "recv")
  /\ UNCHANGED <<pooled, closeCh, pushing, told>>

----------------------------------------------------------------------------
\* WS: ReadMessage ends with an error; what it reads before is pushed as recv.
ReadMessage(s) ==
  /\ sess[s].pc = "read"
  /\ Goto(s, "close")
  /\ Quiet

\* Mutant: nobody tells the handler that the session ends.
PushCloseForgotten(s) ==
  /\ sess[s].pc = "close"
  /\ Goto(s, "put")
  /\ UNCHANGED <<pooled, handlers, closeCh, pushing, told>>

\* WS: its own "close" disables the handlers of its id.
PushClose(s) ==
  /\ sess[s].pc = "close"
  /\ handlers' = [handlers EXCEPT !.off =
                    @ \cup {h \in ToSet(handlers.list) : Id(h.s) = Id(s)}]
  /\ Goto(s, "put")
  /\ UNCHANGED <<pooled, closeCh, pushing, told>>

\* sse: "recv", and the loop that waits for a close of its own or the request's end.
PushRecv(s) == sess[s].pc = "recv" /\ Goto(s, "loop") /\ Quiet

Loop(s) ==
  /\ sess[s].pc = "loop"
  /\ \/ /\ closeCh[s].buf # <<>>
        /\ closeCh' = [closeCh EXCEPT ![s].buf = Tail(@)]
        /\ sess' = IF Head(closeCh[s].buf) \in {0, Id(s)}
                     THEN [sess EXCEPT ![s].pc = "cancel"] ELSE sess
     \/ Goto(s, "cancel") /\ UNCHANGED closeCh
  /\ UNCHANGED <<pooled, handlers, pushing, told>>

\* The cancel of Pull_tag_chan: cancelC, unreg and close; then that of "send".
CancelChan(s) ==
  \/ /\ sess[s].pc = "cancel"
     /\ closeCh' = [closeCh EXCEPT ![s].done = TRUE]
     /\ told' = [told EXCEPT !.raced = @ \/ ~NoPush]
     /\ Goto(s, "unreg") /\ UNCHANGED handlers
  \/ /\ sess[s].pc = "unreg"
     /\ handlers' = [handlers EXCEPT !.off = @ \cup {[s |-> s, kind |-> "chan"]}]
     /\ Goto(s, "closeCh") /\ UNCHANGED <<closeCh, told>>
  \/ /\ sess[s].pc = "closeCh"
     /\ closeCh' = [closeCh EXCEPT ![s].closed = TRUE]
     /\ told' = [told EXCEPT !.panic = @ \/ closeCh[s].closed]
     /\ Goto(s, "unregSend") /\ UNCHANGED handlers
  \/ /\ sess[s].pc = "unregSend"
     /\ handlers' = [handlers EXCEPT !.off = @ \cup {[s |-> s, kind |-> "send"]}]
     /\ Goto(s, "fin") /\ UNCHANGED <<closeCh, told>>

Ending(s) ==
  /\ CancelChan(s)
  /\ UNCHANGED <<pooled, pushing>>

\* The end: WS puts the User back and then pushes "fin", Handle the other way round.
Put(s) ==
  /\ sess[s].pc = "put"
  /\ pooled' = pooled \cup {sess[s].item}
  /\ Goto(s, IF s \in Ws THEN "fin" ELSE "over")
  /\ UNCHANGED <<handlers, closeCh, pushing, told>>

PushFin(s) ==
  /\ sess[s].pc = "fin"
  /\ Goto(s, IF s \in Ws THEN "over" ELSE "put") /\ Quiet

----------------------------------------------------------------------------
\* The program pushes "send" or "close" to an id, or to everyone.
UserPush(p, tag, to) ==
  /\ pushing[p].pc = "idle" /\ told.pushes < MaxUserPush
  /\ pushing' = [pushing EXCEPT ![p] =
                   [pc |-> "visit", tag |-> tag, to |-> to, todo |-> handlers.list]]
  /\ told' = [told EXCEPT !.pushes = @ + 1,
                         !.raced = @ \/ \E s \in Sse : sess[s].pc \in {"unreg", "closeCh"}]
  /\ UNCHANGED <<pooled, sess, handlers, closeCh>>

GoOn(p) == pushing' = [pushing EXCEPT ![p].pc = "visit", ![p].todo = Tail(@)]
Heard(p, h) == pushing[p].to \in {0, Id(h.s)}

\* Msgq.push: past the test of the disabled flag the handler runs.
Visit(p) ==
  /\ pushing[p].pc = "visit"
  /\ \/ pushing[p].todo = <<>> /\ pushing' = [pushing EXCEPT ![p] = NoPushing]
     \/ pushing[p].todo # <<>> /\ Head(pushing[p].todo) \in handlers.off /\ GoOn(p)
     \/ /\ pushing[p].todo # <<>> /\ Head(pushing[p].todo) \notin handlers.off
        /\ pushing' = [pushing EXCEPT ![p].pc = "handle"]
  /\ UNCHANGED <<pooled, sess, handlers, closeCh, told>>

\* The handlers of "send" and of WS's "close": a write that fails disables the
\* handler, and so does a close that is heard.
Handle(p) ==
  LET h == Head(pushing[p].todo)
      fails == Heard(p, h) /\ pushing[p].tag = "send"
      closes == Heard(p, h) /\ pushing[p].tag = "close" /\ h.kind = "both"
  IN
  /\ pushing[p].pc = "handle" /\ h.kind # "chan"
  /\ \/ ~closes /\ UNCHANGED handlers
     \/ (fails \/ closes) /\ handlers' = [handlers EXCEPT !.off = @ \cup {h}]
  /\ GoOn(p)
  /\ UNCHANGED <<pooled, sess, closeCh, told>>

\* Pull_tag_chan's handler: after the test of ctx it empties the channel and sends.
\* It closes the channel if ctx is done, which cancel does as well.
ChanTest(p) ==
  LET h == Head(pushing[p].todo) IN
  /\ pushing[p].pc = "handle" /\ h.kind = "chan"
  /\ \/ pushing[p].tag # "close" /\ GoOn(p) /\ UNCHANGED <<handlers, closeCh, told>>
     \/ /\ pushing[p].tag = "close" /\ closeCh[h.s].done
        /\ closeCh' = [closeCh EXCEPT ![h.s].closed = TRUE]
        /\ told' = [told EXCEPT !.panic = @ \/ closeCh[h.s].closed]
        /\ handlers' = [handlers EXCEPT !.off = @ \cup {h}]
        /\ GoOn(p)
     \/ /\ pushing[p].tag = "close" /\ ~closeCh[h.s].done
        /\ pushing' = [pushing EXCEPT ![p].pc = "drain"]
        /\ UNCHANGED <<handlers, closeCh, told>>
  /\ UNCHANGED <<pooled, sess>>

\* The loop of receives until the channel is empty, and the send.
DrainAndSend(c, m) == [c EXCEPT !.buf = <<m>>]

ChanSend(p) ==
  LET s == Head(pushing[p].todo).s IN
  /\ pushing[p].pc = "drain"
  /\ IF closeCh[s].closed
       THEN told' = [told EXCEPT !.panic = TRUE] /\ UNCHANGED closeCh
       ELSE /\ closeCh' = [closeCh EXCEPT ![s] = DrainAndSend(@, pushing[p].to)]
            /\ told' = [told EXCEPT !.last[s] = pushing[p].to]
  /\ GoOn(p)
  /\ UNCHANGED <<pooled, sess, handlers>>

\* Everything but a session's beginning.
Step ==
  /\ UNCHANGED addr
  /\ \/ \E s \in Sess : PushInit(s) \/ Register(s) \/ Put(s) \/ PushFin(s)
     \/ \E s \in Ws : Upgrade(s) \/ ReadMessage(s) \/ PushClose(s)
     \/ \E s \in Sse : PushRecv(s) \/ Loop(s) \/ Ending(s)
     \/ \E p \in UserPushers :
          \/ \E tag \in {"send", "close"}, to \in {0} \cup Range(addr) :
               UserPush(p, tag, to)
          \/ Visit(p) \/ Handle(p) \/ ChanTest(p) \/ ChanSend(p)

Next == ~told.panic /\ ((\E s \in Sess : Begin(s)) \/ Step)

Spec == Init /\ [][Next]_vars

----------------------------------------------------------------------------
Live == {h \in ToSet(handlers.list) : h \notin handlers.off}
InUse(s) == sess[s].pc \notin {"out", "over"}

\* Two sessions of WS have different ids, two of sse different Umsgs.
Apart(s, t) == IF {s, t} \subseteq Ws THEN Id(s) # Id(t) ELSE sess[s].item # sess[t].item

\* A handler that can be called belongs to a session that has its User or Umsg, so
\* that what is pushed to an id of WS never reaches a session that had it before;
\* from its init to its fin no other session has the id, or the Umsg, of a session,
\* except that WS has put it back when it comes to push its fin; a close that was
\* handed to an sse session is still there for it to receive, unless a later one
\* took its place; and Pull_tag_chan panics only if its cancel and a push overlap.
\* That two sse sessions have different ids is not said: the code does not see to it.
SessionsApart ==
  /\ \A h \in Live : sess[h.s].item \notin pooled
  /\ \A h, k \in Live : h.s # k.s => Apart(h.s, k.s)
  /\ \A s, t \in Sess : s # t /\ InUse(s) /\ InUse(t) =>
       Apart(s, t) \/ \E u \in {s, t} \cap Ws : sess[u].pc = "fin"
  /\ \A s \in Sse : sess[s].pc = "loop" /\ told.last[s] \in {0, Id(s)} =>
       told.last[s] \in ToSet(closeCh[s].buf)
  /\ told.panic => told.raced
=============================================================================
