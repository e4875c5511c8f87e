------------------------------ MODULE WsServer ------------------------------
(***************************************************************************)
(* realtime/ws_server.py: signal_stream handlers, one per WebSocket, and   *)
(* the ConnectionManager they share with callers of broadcast().  The      *)
(* district locks are never held across an await, so they do not show.     *)
(***************************************************************************)
EXTENDS Channels

CONSTANTS
  MaxBroadcasts,  \* bound: calls of broadcast()
  Broadcast(_)    \* the message of a call

ASSUME BroadcastAssumption == MaxBroadcasts \in Nat

VARIABLES
  handler,   \* client -> where its signal_stream is
  conns,     \* ConnectionManager._connections, as a set of clients
  sending,   \* ConnectionManager._sending
  flights,   \* client -> sends in progress: who sends what, and how far it is
  open,      \* clients whose transport is open
  got,       \* client -> signals it received, in order
  dropped,   \* client -> messages counted by ConnectionManager.dropped
  pend,      \* broadcaster -> targets it has captured and not begun to send to
  broadcasts \* broadcasts begun so far

connVars == <<conns, sending, flights, open, got, dropped>>
castVars == <<pend, broadcasts>>
wsVars == <<handler, connVars, castVars>>

ByPump == 0
Broadcasters == 1..MaxBroadcasts
Senders == Broadcasters \cup {ByPump}
Flights == [by : Senders, msg : Events \cup {Broadcast(b) : b \in Broadcasters},
            phase : {"sending", "closing"}]
Flying(c, k) == {f \in flights[c] : f.by = k}

WsInit ==
  /\ handler = [c \in Clients |-> "none"]
  /\ conns = {} /\ sending = {}
  /\ flights = [c \in Clients |-> {}]
  /\ open = {}
  /\ got = [c \in Clients |-> <<>>]
  /\ dropped = [c \in Clients |-> 0]
  /\ pend = [b \in Broadcasters |-> {}] /\ broadcasts = 0

-----------------------------------------------------------------------------
\* No token, an invalid one or no Redis: the socket is closed at once.
Refuse(c) ==
  /\ handler[c] = "none"
  /\ handler' = [handler EXCEPT ![c] = "ended"]
  /\ UNCHANGED <<connVars, castVars, chanVars>>

\* ConnectionManager.connect of an authenticated client.
Connect(c) ==
  /\ handler[c] = "none"
  /\ handler' = [handler EXCEPT ![c] = "subscribing"]
  /\ conns' = conns \cup {c} /\ open' = open \cup {c}
  /\ UNCHANGED <<sending, flights, got, dropped, castVars, chanVars>>

Subscribe(c) ==
  /\ handler[c] = "subscribing"
  /\ handler' = [handler EXCEPT ![c] = "streaming"]
  /\ Subscribed(c)
  /\ UNCHANGED <<connVars, castVars>>

\* subscribe() precedes the try block: nothing disconnects the client.
SubscribeFails(c) ==
  /\ handler[c] = "subscribing" /\ "subscribe" \in Faults
  /\ handler' = [handler EXCEPT ![c] = "failed"]
  /\ open' = open \ {c}
  /\ UNCHANGED <<conns, sending, flights, got, dropped, castVars, chanVars>>

-----------------------------------------------------------------------------
\* _send, up to its await: the message is dropped if a send is under way.
BeginSend(c, k, m) ==
  IF c \in sending
  THEN dropped' = [dropped EXCEPT ![c] = @ + 1] /\ UNCHANGED <<sending, flights>>
  ELSE /\ sending' = sending \cup {c}
       /\ flights' = [flights EXCEPT ![c] = @ \cup {[by |-> k, msg |-> m, phase |-> "sending"]}]
       /\ UNCHANGED dropped

\* (mutant) the mark is left behind when the client was dropped.
MutClear(f, c) == sending' = IF f.phase = "closing" THEN sending \cup {c} ELSE sending \ {c}
\* The finally clause of _send.
Clear(f, c) == sending' = sending \ {c}

\* What the pump does after _send: it returns if the client is no longer listed.
AfterSend(c, k) ==
  IF k = ByPump /\ c \notin conns
  THEN handler' = [handler EXCEPT ![c] = "ending"] ELSE UNCHANGED handler

\* The pump takes a message once its previous _send has returned.
Pump(c) ==
  /\ handler[c] = "streaming" /\ Flying(c, ByPump) = {}
  /\ queue[c] # <<>>
  /\ Taken(c)
  /\ BeginSend(c, ByPump, Head(queue[c]))
  /\ IF c \in sending THEN AfterSend(c, ByPump) ELSE UNCHANGED handler
  /\ UNCHANGED <<conns, open, got, castVars, subs>>

\* get_message raises: the pump task ends and with it the handler.
PumpFails(c) ==
  /\ handler[c] = "streaming" /\ "redis" \in Faults
  /\ Flying(c, ByPump) = {}
  /\ handler' = [handler EXCEPT ![c] = "ending"]
  /\ UNCHANGED <<connVars, castVars, chanVars>>

\* send_json returns.
Sent(c, f) ==
  /\ f \in flights[c] /\ f.phase = "sending" /\ c \in open
  /\ got' = [got EXCEPT ![c] = IF f.by = ByPump THEN Append(@, f.msg) ELSE @]
  /\ Clear(f, c)
  /\ flights' = [flights EXCEPT ![c] = @ \ {f}]
  /\ AfterSend(c, f.by)
  /\ UNCHANGED <<conns, open, dropped, castVars, chanVars>>

\* It times out or raises: _drop_client disconnects and begins to close.
Unlist(c) == conns' = conns \ {c} /\ sending' = sending \ {c}
SendFails(c, f) ==
  /\ f \in flights[c] /\ f.phase = "sending"
  /\ "timeout" \in Faults \/ c \notin open
  /\ Unlist(c)
  /\ flights' = [flights EXCEPT ![c] = (@ \ {f}) \cup {[f EXCEPT !.phase = "closing"]}]
  /\ UNCHANGED <<handler, open, got, dropped, castVars, chanVars>>

\* (mutant) the socket is not closed.
MutHangUp(c) == UNCHANGED open
HangUp(c) == open' = open \ {c}
\* ws.close has returned.
Closed(c, f) ==
  /\ f \in flights[c] /\ f.phase = "closing"
  /\ HangUp(c)
  /\ Clear(f, c)
  /\ flights' = [flights EXCEPT ![c] = @ \ {f}]
  /\ AfterSend(c, f.by)
  /\ UNCHANGED <<conns, got, dropped, castVars, chanVars>>

-----------------------------------------------------------------------------
\* The client closes its socket, or it breaks.
Gone(c) ==
  /\ c \in open
  /\ open' = open \ {c}
  /\ UNCHANGED <<handler, conns, sending, flights, got, dropped, castVars, chanVars>>

\* drain() sees the socket closed.
Drained(c) ==
  /\ handler[c] = "streaming" /\ c \notin open
  /\ handler' = [handler EXCEPT ![c] = "ending"]
  /\ UNCHANGED <<connVars, castVars, chanVars>>

\* The finally block.  The tasks are cancelled: the finally clause of a send of
\* the pump runs.
Cancel(c) ==
  /\ handler[c] = "ending"
  /\ handler' = [handler EXCEPT ![c] = "cleaning"]
  /\ flights' = [flights EXCEPT ![c] = @ \ Flying(c, ByPump)]
  /\ sending' = IF Flying(c, ByPump) # {} THEN sending \ {c} ELSE sending
  /\ UNCHANGED <<conns, open, got, dropped, castVars, chanVars>>

\* (mutant) the client stays in the table.
MutCleanup(c) == sending' = sending \ {c} /\ UNCHANGED conns
Cleanup(c) == Unlist(c)
\* The client is disconnected, with its mark, whoever else is sending to it: the
\* socket may still be open.
Leave(c) ==
  /\ handler[c] = "cleaning"
  /\ handler' = [handler EXCEPT ![c] = "leaving"]
  /\ Cleanup(c)
  /\ UNCHANGED <<flights, open, got, dropped, castVars, chanVars>>

\* The subscription is closed and the handler returns, which makes the ASGI
\* server close the transport.
End(c) ==
  /\ handler[c] = "leaving"
  /\ handler' = [handler EXCEPT ![c] = "ended"]
  /\ open' = open \ {c}
  /\ Unsubscribed(c)
  /\ UNCHANGED <<conns, sending, flights, got, dropped, castVars>>

-----------------------------------------------------------------------------
\* broadcast(): the targets are listed first; the sends start afterwards.
Capture(d) ==
  /\ broadcasts < MaxBroadcasts
  /\ \E c \in conns : ClientDistrict[c] = d
  /\ broadcasts' = broadcasts + 1
  /\ pend' = [pend EXCEPT ![broadcasts'] = {c \in conns : ClientDistrict[c] = d}]
  /\ UNCHANGED <<handler, connVars, chanVars>>

CastTo(b, c) ==
  /\ c \in pend[b]
  /\ pend' = [pend EXCEPT ![b] = @ \ {c}]
  /\ BeginSend(c, b, Broadcast(b))
  /\ UNCHANGED <<handler, conns, open, got, broadcasts, chanVars>>

-----------------------------------------------------------------------------
\* What the event loop does of itself for a client: every await returns or
\* raises.
ClientStep(c) ==
  \/ Subscribe(c) \/ SubscribeFails(c) \/ Pump(c)
  \/ Drained(c) \/ Cancel(c) \/ Leave(c) \/ End(c)
  \/ \E f \in flights[c] : Sent(c, f) \/ SendFails(c, f) \/ Closed(c, f)

WsNext ==
  \/ \E c \in Clients : Connect(c) \/ Refuse(c) \/ Gone(c) \/ PumpFails(c) \/ ClientStep(c)
  \/ \E d \in {ClientDistrict[c] : c \in Clients} : Capture(d)
  \/ \E b \in Broadcasters, c \in Clients : CastTo(b, c)

WsTypeOK ==
  /\ handler \in [Clients -> {"none", "subscribing", "streaming", "ending", "cleaning",
                             "leaving", "ended", "failed"}]
  /\ conns \subseteq Clients /\ sending \subseteq Clients /\ open \subseteq Clients
  /\ flights \in [Clients -> SUBSET Flights]
  /\ got \in [Clients -> Seq(Events)]
  /\ dropped \in [Clients -> Nat]
  /\ pend \in [Broadcasters -> SUBSET Clients]
  /\ broadcasts \in 0..MaxBroadcasts
=============================================================================
