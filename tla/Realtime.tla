------------------------------ MODULE Realtime ------------------------------
(***************************************************************************)
(* Collectors, event processor and WebSocket server around the Redis       *)
(* channels that connect them.                                             *)
(***************************************************************************)
EXTENDS EventStream, WsServer

CONSTANT MaxMessages  \* bound: events and broadcasts altogether

vars == <<chanVars, streamVars, wsVars>>

Init == ChanInit /\ StreamInit /\ WsInit

Next == /\ \/ StreamNext /\ UNCHANGED wsVars
           \/ WsNext /\ UNCHANGED streamVars
        /\ FoldFunction(+, 0, published') + broadcasts' <= MaxMessages

Spec == Init /\ [][Next]_vars

\* The event loop runs every handler on; an await of theirs returns or times out.
FairSpec == Spec /\ \A c \in Clients : WF_vars(ClientStep(c) /\ UNCHANGED streamVars)

-----------------------------------------------------------------------------
Received(c) == {got[c][i] : i \in DOMAIN got[c]}
Waiting(x)  == {queue[x][i] : i \in DOMAIN queue[x]}

\* Every variable keeps its type.
TypeOK == ChanTypeOK /\ StreamTypeOK /\ WsTypeOK

\* What a client receives is history: each signal on its way to a client or
\* received by it has its row in ts_realtime_events, and belongs to the
\* district the client asked for.
SignalsAreStored ==
  \A c \in Clients : \A e \in Received(c) \cup Waiting(c) :
    e \in stored /\ EventDistrict[e.src] = ClientDistrict[c]

\* A client that _send treats as busy has a message being written, so no client
\* is starved by a mark nobody removes; and as long as it is listed at most one
\* message at a time is written to it.  (disconnect() takes the mark away with a
\* send still under way: a broadcast that listed the client before can then
\* write a second message to the open socket.)
BusyMeansSending ==
  /\ \A c \in sending : \E f \in flights[c] : f.phase = "sending"
  /\ \A c \in conns : \A f, g \in flights[c] :
       f.phase = "sending" /\ g.phase = "sending" => f = g

\* The connection table lists clients whose handler is running, except those
\* whose subscription failed after connect().
TableIsLive ==
  \A c \in conns :
    handler[c] \in {"subscribing", "streaming", "ending", "cleaning", "failed"}

\* The snapshot of a critical source never goes back to an older event, unless
\* the update that takes it back was cut off by stop() and ran on in its thread.
CriticalInOrder ==
  [][\A s \in CriticalSources :
       applied'[s] < applied[s] => [src |-> s, n |-> applied'[s]] \in stray]_vars

\* A client that lost its place in the connection table does not keep its
\* handler and its Redis subscription.
UnlistedLeave ==
  \A c \in Clients :
    (handler[c] = "streaming" /\ c \notin conns) ~> (handler[c] = "ended" /\ c \notin subs)
=============================================================================
