------------------------------ MODULE Channels ------------------------------
(***************************************************************************)
(* Redis Pub/Sub as homepy/realtime uses it: a message published to a      *)
(* channel is appended to the queue of every subscription there is at that *)
(* moment, and is lost for everybody else.  The event processor subscribes *)
(* to events:*, a WebSocket handler to signals:<district of its client>.   *)
(***************************************************************************)
EXTENDS Naturals, Sequences, FiniteSets

CONSTANTS
  Processor,    \* the subscription of the event processor
  Clients,      \* WebSocket connections; each has a subscription of its own
  ClientDistrict, \* client -> district it asked for
  Sources,      \* the real-time collectors
  EventDistrict,  \* source -> district of its events ("" in the code: NoDistrict)
  NoDistrict,
  CriticalSources, \* sources of rate_change events
  MaxEvents,    \* bound: events published altogether
  Faults        \* kinds of failure the environment may cause

ASSUME ChannelAssumption ==
  /\ Processor \notin Clients
  /\ MaxEvents \in Nat
  /\ CriticalSources \subseteq Sources
  /\ \A c \in Clients : ClientDistrict[c] # NoDistrict

VARIABLES
  subs,   \* subscribers whose subscription is in place
  queue   \* subscriber -> messages get_message has not returned yet

chanVars == <<subs, queue>>

Subscribers == Clients \cup {Processor}
Events == [src : Sources, n : Nat \ {0}]

ChanInit == subs = {} /\ queue = [x \in Subscribers |-> <<>>]

\* A message reaches those of the intended recipients that are subscribed.
Deliver(recipients, msg) ==
  queue' = [x \in Subscribers |->
              IF x \in recipients \cap subs THEN Append(queue[x], msg) ELSE queue[x]]

Subscribed(x)   == subs' = subs \cup {x} /\ UNCHANGED queue
Unsubscribed(x) == subs' = subs \ {x} /\ queue' = [queue EXCEPT ![x] = <<>>]
Taken(x)        == queue' = [queue EXCEPT ![x] = Tail(@)]

ChanTypeOK == subs \subseteq Subscribers /\ queue \in [Subscribers -> Seq(Events)]
=============================================================================
