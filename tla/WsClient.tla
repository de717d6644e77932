------------------------------ MODULE WsClient ------------------------------
(***************************************************************************)
(* websocket/Client.go: a Client, which Handle dials.  A goroutine reads   *)
(* from the connection, the handler of "send" writes to it under wlock,    *)
(* and timers close it (CTO after a close was asked for) or give up on a   *)
(* pong (RTO after a ping).  The peer may send anything at any moment,     *)
(* close, or fall silent.  The buffers of msgsPool are left out.           *)
(***************************************************************************)
EXTENDS Integers, FiniteSets

CONSTANTS
  ReadTypes,  \* what NextReader returns: "text", "ping", "pong"
  Periodic,   \* Ping.PeriodDur # 0
  MaxWsOps    \* bound: pushes of the user, and messages of the peer

WsClientAssumption == ReadTypes \subseteq {"text", "ping", "pong"}

VARIABLES
  conn,    \* dialed; open: c.Close was not called; peer: what the peer does
  reader,  \* pc of the goroutine, and err, the error that ended its loop
  sender,  \* the handler of "send": "none", "on" or "off"
  client,  \* closeCall, close, errs and the calls of Func_*_close
  timers,  \* ping: the timers that run; pingT: the last (0 for nil); made; cto; period
  wsops

vars == <<conn, reader, sender, client, timers, wsops>>

Init ==
  /\ conn = [dialed |-> FALSE, open |-> FALSE, peer |-> "none"]
  /\ reader = [pc |-> "none", err |-> "nil"]
  /\ sender = "none"
  /\ client = [closeCall |-> FALSE, close |-> FALSE, exits |-> 0, errs |-> {}, normal |-> 0, abort |-> 0]
  /\ timers = [ping |-> {}, pingT |-> 0, made |-> 0, cto |-> FALSE, period |-> FALSE, lost |-> FALSE]
  /\ wsops = 0

----------------------------------------------------------------------------
\* Handle dials: an error goes to the user, or the goroutine starts.
Dial ==
  /\ ~conn.dialed
  /\ \/ /\ conn' = [dialed |-> TRUE, open |-> TRUE, peer |-> "open"]
        /\ reader' = [reader EXCEPT !.pc = "next"]
        /\ UNCHANGED client
     \/ /\ conn' = [conn EXCEPT !.dialed = TRUE]
        /\ client' = [client EXCEPT !.errs = @ \cup {"dial"}]
        /\ UNCHANGED reader
  /\ UNCHANGED <<sender, timers, wsops>>

\* Handle registers the handler when the goroutine runs already.
Register ==
  /\ sender = "none" /\ reader.pc # "none" /\ sender' = "on"
  /\ UNCHANGED <<conn, reader, client, timers, wsops>>

Fails(e) ==
  /\ sender' = "off"
  /\ client' = [client EXCEPT !.errs = @ \cup {e}]

\* Mutant: the connection is left to the peer.
CloseAsked(t) == t

\* time.AfterFunc(o.CTO, c.Close).
AskClose(t) == [t EXCEPT !.cto = TRUE]

\* The handler: what a message does, and the write, which fails on a closed
\* connection and may fail on any other; an error disables the handler.
SendText ==
  /\ \/ conn.open /\ UNCHANGED <<sender, client>>
     \/ Fails("write")
  /\ UNCHANGED timers

SendClose ==
  /\ timers' = AskClose(timers)
  /\ \/ conn.open /\ client' = [client EXCEPT !.closeCall = TRUE] /\ UNCHANGED sender
     \/ /\ sender' = "off"
        /\ client' = [client EXCEPT !.closeCall = TRUE, !.errs = @ \cup {"write"}]

\* pingT.Store(time.AfterFunc(o.RTO, ...)): the timer of a ping before it goes on.
SendPing ==
  /\ timers' = [timers EXCEPT !.made = @ + 1, !.ping = @ \cup {timers.made + 1},
                              !.pingT = timers.made + 1, !.lost = @ \/ timers.pingT # 0]
  /\ \/ conn.open /\ UNCHANGED <<sender, client>>
     \/ Fails("write")

\* Push_tag("send"): nothing happens without the handler.
Send(ty) ==
  IF sender # "on" THEN UNCHANGED <<sender, client, timers>>
  ELSE CASE ty = "close" -> SendClose
         [] ty = "ping" -> SendPing
         [] OTHER -> SendText

\* The user: a push of "send", Heartbeat and Close.
User(ty) ==
  /\ wsops < MaxWsOps /\ wsops' = wsops + 1
  /\ Send(ty)
  /\ UNCHANGED <<conn, reader>>

----------------------------------------------------------------------------
\* c.Close, CTO after it was asked for.
CtoFires ==
  /\ timers.cto
  /\ conn' = [conn EXCEPT !.open = FALSE]
  /\ timers' = [timers EXCEPT !.cto = FALSE]
  /\ UNCHANGED <<reader, sender, client, wsops>>

\* RTO after a ping: PongFail, and a close.
PongFail(k) ==
  /\ k \in timers.ping
  /\ timers' = AskClose([timers EXCEPT !.ping = @ \ {k}])
  /\ \E failed \in BOOLEAN :
       /\ failed \/ conn.open
       /\ client' = [client EXCEPT !.closeCall = TRUE,
                      !.errs = @ \cup {"PongFail"} \cup IF failed THEN {"write"} ELSE {}]
  /\ UNCHANGED <<conn, reader, sender, wsops>>

\* PeriodDur after a pong: the next ping.
PeriodFires ==
  /\ timers.period /\ wsops < MaxWsOps /\ wsops' = wsops + 1
  /\ LET t == [timers EXCEPT !.period = FALSE] IN
       IF sender # "on" THEN timers' = t /\ UNCHANGED <<sender, client>>
       ELSE /\ timers' = [t EXCEPT !.made = @ + 1, !.ping = @ \cup {t.made + 1},
                                   !.pingT = t.made + 1, !.lost = @ \/ t.pingT # 0]
            /\ \/ conn.open /\ UNCHANGED <<sender, client>>
               \/ Fails("write")
  /\ UNCHANGED <<conn, reader>>

----------------------------------------------------------------------------
\* NextReader and ReadAll of a message: "recv" to the user, a pong for a ping;
\* a pong stops the timer of the last ping.
ReadMessage(ty) ==
  /\ reader.pc = "next" /\ conn.open /\ conn.peer = "open"
  /\ wsops < MaxWsOps /\ wsops' = wsops + 1
  /\ CASE ty = "text" -> UNCHANGED <<sender, client, timers>>
       [] ty = "ping" -> Send("pong")
       [] ty = "pong" -> /\ timers' = [timers EXCEPT !.ping = @ \ {timers.pingT}, !.pingT = 0,
                                                     !.period = @ \/ Periodic]
                         /\ UNCHANGED <<sender, client>>
  /\ UNCHANGED <<conn, reader>>

\* The peer ends: a close frame, normal or not, or a broken connection.
PeerEnds(how) ==
  /\ conn.peer = "open" /\ conn' = [conn EXCEPT !.peer = how]
  /\ UNCHANGED <<reader, sender, client, timers, wsops>>

\* The read fails: of a closed connection, by the end of the peer, or RTO.
ReadFails ==
  /\ reader.pc = "next"
  /\ reader' = [pc |-> "verdict",
                err |-> IF ~conn.open THEN "ErrClosed"
                        ELSE IF conn.peer # "open" THEN conn.peer ELSE "timeout"]
  /\ UNCHANGED <<conn, sender, client, timers, wsops>>

\* The error is judged; ErrClosed after a close was asked for is abnormal.
Judged == IF client.closeCall /\ reader.err = "ErrClosed" THEN "abnormal" ELSE reader.err
Verdict ==
  /\ reader.pc = "verdict"
  /\ client' = CASE Judged = "normal" -> [client EXCEPT !.normal = @ + 1]
                 [] Judged = "abnormal" -> [client EXCEPT !.abort = @ + 1, !.errs = @ \cup {Judged}]
                 [] OTHER -> [client EXCEPT !.errs = @ \cup {Judged}]
  /\ reader' = [reader EXCEPT !.pc = "exit"]
  /\ UNCHANGED <<conn, sender, timers, wsops>>

\* The deferred push of "exit", and after it close = true.
PushExit ==
  /\ reader.pc = "exit"
  /\ reader' = [reader EXCEPT !.pc = "setClose"]
  /\ client' = [client EXCEPT !.exits = @ + 1]
  /\ UNCHANGED <<conn, sender, timers, wsops>>

SetClose ==
  /\ reader.pc = "setClose"
  /\ reader' = [reader EXCEPT !.pc = "over"]
  /\ client' = [client EXCEPT !.close = TRUE]
  /\ UNCHANGED <<conn, sender, timers, wsops>>

Next ==
  \/ Dial \/ Register
  \/ \E ty \in {"text", "ping", "close"} : User(ty)
  \/ CtoFires \/ PeriodFires
  \/ \E k \in timers.ping : PongFail(k)
  \/ \E ty \in ReadTypes : ReadMessage(ty)
  \/ \E how \in {"normal", "abnormal", "other"} : PeerEnds(how)
  \/ ReadFails \/ Verdict \/ PushExit \/ SetClose

\* The timer fires, and the goroutine runs; a read of a connection that was
\* closed here returns.  Nothing obliges the peer, or a read with a deadline
\* that messages keep moving.
Fairness ==
  /\ WF_vars(CtoFires)
  /\ WF_vars(~conn.open /\ ReadFails)
  /\ WF_vars(Verdict) /\ WF_vars(PushExit) /\ WF_vars(SetClose)
Spec == Init /\ [][Next]_vars /\ Fairness

----------------------------------------------------------------------------
\* A client that is closed has told so once, with an error unless the peer closed
\* normally; it blames the peer for a missing pong only if there is none, or a
\* second ping had overwritten the timer of the first.
ToldOnce ==
  /\ client.close => client.exits = 1 /\ (client.errs = {} => client.normal = 1)
  /\ client.normal + client.abort <= 1
  /\ ~timers.lost => timers.ping \subseteq {timers.pingT}

\* Whoever was asked to close ends, although the peer never answers the close.
ClientEnds == []ToldOnce /\ (client.closeCall ~> client.close)
=============================================================================
