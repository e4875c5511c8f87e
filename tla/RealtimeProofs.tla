--------------------------- MODULE RealtimeProofs ---------------------------
(***************************************************************************)
(* Theorems about Realtime, for any number of collectors, clients, events  *)
(* and broadcasts.                                                         *)
(***************************************************************************)
EXTENDS Realtime, SequenceTheorems, TLAPS

-----------------------------------------------------------------------------
\* Channels.  What each operation does to the queues.
LEMMA DeliverFacts ==
  ASSUME ChanTypeOK, NEW to, NEW msg \in Events, Deliver(to, msg)
  PROVE  /\ queue' \in [Subscribers -> Seq(Events)]
         /\ \A x \in Subscribers :
              \/ queue'[x] = queue[x]
              \/ /\ x \in to
                 /\ Len(queue'[x]) = Len(queue[x]) + 1 /\ queue'[x][Len(queue[x]) + 1] = msg
                 /\ \A i \in 1..Len(queue[x]) : queue'[x][i] = queue[x][i]
<1>1. ASSUME NEW x \in Subscribers
      PROVE  /\ queue[x] \in Seq(Events)
             /\ queue'[x] = IF x \in to \cap subs THEN Append(queue[x], msg) ELSE queue[x]
             /\ queue'[x] \in Seq(Events)
  BY DEF ChanTypeOK, Deliver
<1>2. queue' \in [Subscribers -> Seq(Events)]
  BY <1>1 DEF Deliver
<1> QED
  BY <1>1, <1>2, AppendProperties

LEMMA TakenFacts ==
  ASSUME ChanTypeOK, NEW x \in Subscribers, queue[x] # <<>>, Taken(x)
  PROVE  /\ queue' \in [Subscribers -> Seq(Events)]
         /\ Head(queue[x]) \in Events /\ Head(queue[x]) = queue[x][1] /\ 1 \in 1..Len(queue[x])
         /\ \A y \in Subscribers \ {x} : queue'[y] = queue[y]
         /\ \A i \in 1..Len(queue'[x]) : i + 1 \in 1..Len(queue[x]) /\ queue'[x][i] = queue[x][i + 1]
<1>1. queue[x] \in Seq(Events) /\ queue'[x] = Tail(queue[x])
  BY DEF ChanTypeOK, Taken
<1>2. /\ Head(queue[x]) \in Events /\ Tail(queue[x]) \in Seq(Events)
      /\ Len(Tail(queue[x])) = Len(queue[x]) - 1
      /\ \A i \in 1..Len(Tail(queue[x])) : Tail(queue[x])[i] = queue[x][i + 1]
  BY <1>1, HeadTailProperties
<1>3. Len(queue[x]) \in Nat
  BY <1>1
<1>4. queue' \in [Subscribers -> Seq(Events)] /\ \A y \in Subscribers \ {x} : queue'[y] = queue[y]
  BY <1>2 DEF ChanTypeOK, Taken
<1> QED
  BY <1>1, <1>2, <1>3, <1>4

LEMMA UnsubscribedFacts ==
  ASSUME ChanTypeOK, NEW x \in Subscribers, Unsubscribed(x)
  PROVE  ChanTypeOK' /\ queue'[x] = <<>> /\ \A y \in Subscribers \ {x} : queue'[y] = queue[y]
BY EmptySeq DEF ChanTypeOK, Unsubscribed

LEMMA SubscriberFacts ==
  /\ Processor \in Subscribers /\ Clients \subseteq Subscribers
  /\ \A c \in Clients : c # Processor
  /\ NoEvent \notin Events
BY ChannelAssumption DEF Subscribers, NoEvent, Events

-----------------------------------------------------------------------------
\* Types.  A processor that does not run has no listener, so start() never finds
\* an event in process.
Halted ==
  /\ ctl \in {"starting", "gathering"} => ~running
  /\ ~running => listener = "none"

LEMMA StreamKeepsHalted ==
  ASSUME Halted, StreamTypeOK, StreamNext
  PROVE  Halted'
<1>1. ASSUME NEW s \in Sources, CollectorStart(s) \/ CollectorStop(s) \/ Publish(s)
      PROVE  Halted'
  <2>1. UNCHANGED <<ctl, running, listener>>
    BY <1>1 DEF CollectorStart, CollectorStop, Publish
  <2> QED
    BY <2>1 DEF Halted
<1>2. ASSUME NEW e, Background(e) \/ Stray(e)
      PROVE  Halted'
  BY <1>2 DEF Background, Stray, Halted
<1>3. CASE Start \/ Stop \/ StopRaises \/ Started \/ StartFails \/ Gathered
  BY <1>3 DEF Start, Stop, StopRaises, Started, StartFails, Gathered, Halted, StreamTypeOK
<1>4. CASE Get \/ GetFails \/ Insert \/ Signal \/ ProcessFails \/ Awaited
  BY <1>4 DEF Get, GetFails, Insert, Signal, Update, ProcessFails, Awaited, Halted, StreamTypeOK
<1> QED
  BY <1>1, <1>2, <1>3, <1>4 DEF StreamNext, ProcessorStep

LEMMA StreamKeepsTypes ==
  ASSUME Halted, StreamTypeOK, ChanTypeOK, StreamNext
  PROVE  StreamTypeOK' /\ ChanTypeOK'
<1> USE SubscriberFacts
<1>1. ASSUME NEW s \in Sources, CollectorStart(s) \/ CollectorStop(s)
      PROVE  StreamTypeOK' /\ ChanTypeOK'
  BY <1>1 DEF CollectorStart, CollectorStop, StreamTypeOK, ChanTypeOK, chanVars
<1>2. ASSUME NEW s \in Sources, Publish(s)
      PROVE  StreamTypeOK' /\ ChanTypeOK'
  <2>1. published[s] + 1 \in Nat \ {0}
    BY DEF StreamTypeOK
  <2>2. [src |-> s, n |-> published[s] + 1] \in Events
    BY <2>1 DEF Events
  <2>3. ChanTypeOK'
    BY <1>2, <2>2, DeliverFacts DEF Publish, ChanTypeOK
  <2>4. published' \in [Sources -> Nat]
    BY <1>2, <2>1 DEF Publish, StreamTypeOK
  <2> QED
    BY <1>2, <2>3, <2>4 DEF Publish, StreamTypeOK
<1>3. CASE Start \/ StartFails \/ StopRaises
  <2>1. CASE Start
    BY <2>1 DEF Start, collVars, chanVars, StreamTypeOK, ChanTypeOK
  <2>2. CASE StartFails
    BY <2>2 DEF StartFails, collVars, chanVars, StreamTypeOK, ChanTypeOK
  <2>3. CASE StopRaises
    BY <2>3 DEF StopRaises, collVars, chanVars, StreamTypeOK, ChanTypeOK, InProcess
  <2> QED
    BY <1>3, <2>1, <2>2, <2>3
<1>4. CASE Started
  BY <1>4 DEF Started, Halted, Subscribed, collVars, StreamTypeOK, ChanTypeOK, InProcess
<1>5. CASE Stop
  <2>1. listener = "publishing" \/ listener = "inserting" \/ listener = "updating" => current \in Events
    BY DEF StreamTypeOK, InProcess
  <2>2. ChanTypeOK'
    BY <1>5, <2>1, DeliverFacts DEF Stop, ChanTypeOK
  <2> QED
    BY <1>5, <2>1, <2>2 DEF Stop, collVars, StreamTypeOK, InProcess
<1>6. CASE Gathered
  BY <1>6, UnsubscribedFacts DEF Gathered, collVars, StreamTypeOK
<1>7. CASE Get
  <2>1. Head(queue[Processor]) \in Events /\ ChanTypeOK'
    BY <1>7, TakenFacts DEF Get, ChanTypeOK
  <2> QED
    BY <1>7, <2>1 DEF Get, collVars, StreamTypeOK, InProcess
<1>8. CASE GetFails
  <2>1. ChanTypeOK'
    BY <1>8, EmptySeq DEF GetFails, ChanTypeOK
  <2> QED
    BY <1>8, <2>1 DEF GetFails, collVars, StreamTypeOK, InProcess
<1>9. CASE Insert \/ ProcessFails
  BY <1>9 DEF Insert, ProcessFails, collVars, chanVars, StreamTypeOK, ChanTypeOK, InProcess
<1>10. CASE Signal
  <2>1. current \in Events
    BY <1>10 DEF Signal, StreamTypeOK, InProcess
  <2>2. ChanTypeOK'
    BY <1>10, <2>1, DeliverFacts DEF Signal, ChanTypeOK
  <2> QED
    BY <1>10, <2>1, <2>2 DEF Signal, Update, collVars, StreamTypeOK, InProcess
<1>11. ASSUME NEW e \in Events, Apply(e)
       PROVE  applied' \in [Sources -> Nat]
  BY <1>11 DEF Apply, Events, StreamTypeOK
<1>12. CASE Awaited
  <2>1. current \in Events
    BY <1>12 DEF Awaited, StreamTypeOK, InProcess
  <2> QED
    BY <1>11, <1>12, <2>1 DEF Awaited, collVars, chanVars, StreamTypeOK, ChanTypeOK, InProcess
<1>13. ASSUME NEW e \in bg \cup stray, Background(e) \/ Stray(e)
       PROVE  StreamTypeOK' /\ ChanTypeOK'
  <2>1. e \in Events
    BY DEF StreamTypeOK
  <2> QED
    BY <1>11, <1>13, <2>1 DEF Background, Stray, collVars, chanVars, StreamTypeOK, ChanTypeOK
<1> QED
  BY <1>1, <1>2, <1>3, <1>4, <1>5, <1>6, <1>7, <1>8, <1>9, <1>10, <1>12, <1>13
     DEF StreamNext, ProcessorStep

\* A broadcast is a call of its own, and no pump.
LEMMA SenderFacts ==
  /\ ByPump \in Senders
  /\ \A b \in Broadcasters : b \in Senders /\ b # ByPump
BY BroadcastAssumption DEF Senders, Broadcasters, ByPump

\* A message that a pump is sending is an event.
PumpsSendEvents == \A c \in Clients : \A f \in flights[c] : f.by = ByPump => f.msg \in Events


\* _send, up to its await: a send of the message is begun, or it is dropped.
LEMMA BeginSendFacts ==
  ASSUME WsTypeOK, NEW c \in Clients, NEW k \in Senders,
         NEW m \in Events \cup {Broadcast(b) : b \in Broadcasters}, BeginSend(c, k, m)
  PROVE  /\ dropped' \in [Clients -> Nat] /\ sending' \subseteq Clients
         /\ flights' \in [Clients -> SUBSET Flights]
         /\ sending \subseteq sending'
         /\ \A d \in Clients : flights[d] \subseteq flights'[d]
         /\ \A d \in Clients : \A f \in flights'[d] \ flights[d] :
              /\ d = c /\ c \notin sending /\ c \in sending'
              /\ f = [by |-> k, msg |-> m, phase |-> "sending"]
         /\ \A d \in sending' \ sending :
              d = c /\ [by |-> k, msg |-> m, phase |-> "sending"] \in flights'[c]
<1>1. CASE c \in sending
  <2>1. dropped' = [dropped EXCEPT ![c] = @ + 1] /\ sending' = sending /\ flights' = flights
    BY <1>1 DEF BeginSend
  <2> QED
    BY <2>1 DEF WsTypeOK
<1>2. CASE c \notin sending
  <2> DEFINE g == [by |-> k, msg |-> m, phase |-> "sending"]
  <2>1. /\ dropped' = dropped /\ sending' = sending \cup {c}
        /\ flights' = [flights EXCEPT ![c] = @ \cup {g}]
    BY <1>2 DEF BeginSend
  <2>2. g \in Flights
    BY DEF Flights
  <2> HIDE DEF g
  <2>3. flights' \in [Clients -> SUBSET Flights] /\ g \in flights'[c]
    BY <2>1, <2>2 DEF WsTypeOK
  <2>4. \A d \in Clients : flights'[d] = IF d = c THEN flights[d] \cup {g} ELSE flights[d]
    BY <2>1 DEF WsTypeOK
  <2>5. dropped' \in [Clients -> Nat] /\ sending' \subseteq Clients
    BY <2>1 DEF WsTypeOK
  <2> QED
    BY <1>2, <2>1, <2>3, <2>4, <2>5 DEF g
<1> QED
  BY <1>1, <1>2

LEMMA AfterSendFacts ==
  ASSUME WsTypeOK, NEW c \in Clients, NEW k, AfterSend(c, k)
  PROVE  /\ handler' \in [Clients -> {"none", "subscribing", "streaming", "ending", "cleaning",
                                    "leaving", "ended", "failed"}]
         /\ \A d \in Clients : \/ handler'[d] = handler[d]
                               \/ d \notin conns /\ handler'[d] = "ending"
BY DEF AfterSend, WsTypeOK

\* What a send that returns, or fails, does to the sends in progress.
LEMMA FlightEnds ==
  ASSUME WsTypeOK, NEW c \in Clients, NEW f \in flights[c], Sent(c, f) \/ Closed(c, f)
  PROVE  /\ f \in Flights
         /\ flights' = [flights EXCEPT ![c] = @ \ {f}]
         /\ flights' \in [Clients -> SUBSET Flights]
         /\ sending' = sending \ {c}
         /\ \A d \in Clients : flights'[d] \subseteq flights[d]
         /\ \A d \in Clients \ {c} : flights'[d] = flights[d]
         /\ AfterSend(c, f.by) /\ UNCHANGED <<conns, dropped, castVars, chanVars>>
<1>1. flights' = [flights EXCEPT ![c] = @ \ {f}] /\ flights \in [Clients -> SUBSET Flights]
  BY DEF Sent, Closed, WsTypeOK
<1> QED
  BY <1>1 DEF Sent, Closed, Clear, chanVars, castVars

LEMMA SendFailsFacts ==
  ASSUME WsTypeOK, NEW c \in Clients, NEW f \in flights[c], SendFails(c, f)
  PROVE  LET g == [f EXCEPT !.phase = "closing"] IN
         /\ f \in Flights /\ g \in Flights /\ g.by = f.by /\ g.msg = f.msg /\ g.phase = "closing"
         /\ f.phase = "sending"
         /\ flights' \in [Clients -> SUBSET Flights]
         /\ flights'[c] = (flights[c] \ {f}) \cup {g}
         /\ \A d \in Clients \ {c} : flights'[d] = flights[d]
         /\ \A h \in flights'[c] : h \in flights[c] \/ (h.by = f.by /\ h.msg = f.msg)
<1> DEFINE g == [f EXCEPT !.phase = "closing"]
<1>1. flights \in [Clients -> SUBSET Flights] /\ f \in Flights
  BY DEF WsTypeOK
<1>2. g \in Flights /\ g.by = f.by /\ g.msg = f.msg /\ g.phase = "closing"
  BY <1>1 DEF Flights
<1>3. flights' = [flights EXCEPT ![c] = (@ \ {f}) \cup {g}] /\ f.phase = "sending"
  BY DEF SendFails
<1> HIDE DEF g
<1>4. /\ flights' \in [Clients -> SUBSET Flights]
      /\ flights'[c] = (flights[c] \ {f}) \cup {g}
      /\ \A d \in Clients \ {c} : flights'[d] = flights[d]
  BY <1>1, <1>2, <1>3
<1>5. \A h \in flights'[c] : h \in flights[c] \/ (h.by = f.by /\ h.msg = f.msg)
  BY <1>2, <1>4, Zenon
<1> QED
  BY <1>1, <1>2, <1>3, <1>4, <1>5 DEF g

LEMMA WsKeepsTypes ==
  ASSUME WsTypeOK, ChanTypeOK, PumpsSendEvents, WsNext
  PROVE  WsTypeOK' /\ ChanTypeOK' /\ PumpsSendEvents'
<1> USE SubscriberFacts
<1>1. ASSUME NEW c \in Clients, Refuse(c) \/ Connect(c) \/ SubscribeFails(c)
      PROVE  WsTypeOK' /\ ChanTypeOK' /\ PumpsSendEvents'
  BY <1>1 DEF Refuse, Connect, SubscribeFails, connVars, castVars, chanVars,
              WsTypeOK, ChanTypeOK, PumpsSendEvents
<1>2. ASSUME NEW c \in Clients, Gone(c) \/ Drained(c) \/ PumpFails(c)
      PROVE  WsTypeOK' /\ ChanTypeOK' /\ PumpsSendEvents'
  BY <1>2 DEF Gone, Drained, PumpFails, connVars, castVars, chanVars,
              WsTypeOK, ChanTypeOK, PumpsSendEvents
<1>3. ASSUME NEW c \in Clients, Subscribe(c)
      PROVE  WsTypeOK' /\ ChanTypeOK' /\ PumpsSendEvents'
  BY <1>3 DEF Subscribe, Subscribed, connVars, castVars, WsTypeOK, ChanTypeOK, PumpsSendEvents
<1>4. ASSUME NEW c \in Clients, Pump(c)
      PROVE  WsTypeOK' /\ ChanTypeOK' /\ PumpsSendEvents'
  <2>1. queue[c] # <<>> /\ Taken(c) /\ subs' = subs
    BY <1>4 DEF Pump
  <2>2. Head(queue[c]) \in Events /\ ChanTypeOK'
    BY <2>1, TakenFacts DEF ChanTypeOK
  <2>3. /\ ByPump \in Senders /\ BeginSend(c, ByPump, Head(queue[c]))
        /\ Head(queue[c]) \in Events \cup {Broadcast(b) : b \in Broadcasters}
    BY <1>4, <2>2, SenderFacts DEF Pump
  <2>4. /\ dropped' \in [Clients -> Nat] /\ sending' \subseteq Clients
        /\ flights' \in [Clients -> SUBSET Flights]
        /\ \A d \in Clients : \A f \in flights'[d] \ flights[d] :
             f = [by |-> ByPump, msg |-> Head(queue[c]), phase |-> "sending"]
    BY <2>3, BeginSendFacts, Zenon
  <2>5. handler' \in [Clients -> {"none", "subscribing", "streaming", "ending", "cleaning",
                                    "leaving", "ended", "failed"}]
    BY <1>4, AfterSendFacts DEF Pump, WsTypeOK
  <2>6. WsTypeOK'
    BY <1>4, <2>4, <2>5 DEF Pump, castVars, WsTypeOK
  <2> QED
    BY <2>2, <2>4, <2>6 DEF PumpsSendEvents
<1>5. ASSUME NEW c \in Clients, NEW f \in flights[c], Sent(c, f) \/ Closed(c, f)
      PROVE  WsTypeOK' /\ ChanTypeOK' /\ PumpsSendEvents'
  <2>1. /\ flights' \in [Clients -> SUBSET Flights] /\ \A d \in Clients : flights'[d] \subseteq flights[d]
        /\ sending' \subseteq Clients /\ UNCHANGED <<conns, dropped, castVars, chanVars>>
        /\ handler' \in [Clients -> {"none", "subscribing", "streaming", "ending", "cleaning",
                                    "leaving", "ended", "failed"}]
    BY <1>5, FlightEnds, AfterSendFacts DEF WsTypeOK
  <2>2. got' \in [Clients -> Seq(Events)] /\ open' \subseteq Clients
    <3>1. f.by = ByPump => f.msg \in Events
      BY DEF PumpsSendEvents
    <3>2. CASE Sent(c, f)
      BY <3>1, <3>2 DEF Sent, WsTypeOK
    <3>3. CASE Closed(c, f)
      BY <3>3 DEF Closed, HangUp, WsTypeOK
    <3> QED
      BY <1>5, <3>2, <3>3
  <2> QED
    BY <2>1, <2>2 DEF WsTypeOK, ChanTypeOK, PumpsSendEvents, castVars, chanVars
<1>6. ASSUME NEW c \in Clients, NEW f \in flights[c], SendFails(c, f)
      PROVE  WsTypeOK' /\ ChanTypeOK' /\ PumpsSendEvents'
  <2>1. UNCHANGED <<handler, open, got, dropped, castVars, chanVars>> /\ Unlist(c)
    BY <1>6 DEF SendFails
  <2>2. flights' \in [Clients -> SUBSET Flights]
    BY <1>6, SendFailsFacts
  <2>3. WsTypeOK' /\ ChanTypeOK'
    <3>1. UNCHANGED <<handler, open, got, dropped, pend, broadcasts, subs, queue>>
      BY <2>1 DEF castVars, chanVars
    <3>2. conns' \subseteq Clients /\ sending' \subseteq Clients
      BY <2>1 DEF WsTypeOK, Unlist
    <3> QED
      BY <2>2, <3>1, <3>2 DEF WsTypeOK, ChanTypeOK
  <2>4. PumpsSendEvents'
    <3>1. \A d \in Clients \ {c} : flights'[d] = flights[d]
      BY <1>6, SendFailsFacts
    <3>2. ASSUME NEW h \in flights'[c]
          PROVE  h \in flights[c] \/ (h.by = f.by /\ h.msg = f.msg)
      BY <1>6, SendFailsFacts, Zenon
    <3> QED
      BY <3>1, <3>2 DEF PumpsSendEvents
  <2> QED
    BY <2>3, <2>4
<1>7. ASSUME NEW c \in Clients, Cancel(c) \/ Leave(c) \/ End(c)
      PROVE  WsTypeOK' /\ ChanTypeOK' /\ PumpsSendEvents'
  <2>1. ChanTypeOK'
    BY <1>7, UnsubscribedFacts DEF Cancel, Leave, End, chanVars, ChanTypeOK
  <2>2. /\ flights' \in [Clients -> SUBSET Flights]
        /\ \A d \in Clients : flights'[d] \subseteq flights[d]
    <3>1. /\ flights \in [Clients -> SUBSET Flights]
          /\ \/ flights' = [flights EXCEPT ![c] = @ \ Flying(c, ByPump)]
             \/ flights' = flights
      BY <1>7 DEF Cancel, Leave, End, WsTypeOK
    <3> QED
      BY <3>1
  <2>3. /\ conns' \subseteq Clients /\ sending' \subseteq Clients /\ open' \subseteq Clients
        /\ UNCHANGED <<got, dropped, pend, broadcasts>>
    BY <1>7 DEF Cancel, Leave, End, Cleanup, Unlist, castVars, WsTypeOK
  <2>4. \E x \in {"cleaning", "leaving", "ended"} : handler' = [handler EXCEPT ![c] = x]
    BY <1>7 DEF Cancel, Leave, End
  <2>5. WsTypeOK'
    BY <2>2, <2>3, <2>4 DEF WsTypeOK
  <2> QED
    BY <2>1, <2>2, <2>5 DEF PumpsSendEvents
<1>8. ASSUME NEW d, Capture(d)
      PROVE  WsTypeOK' /\ ChanTypeOK' /\ PumpsSendEvents'
  <2>1. /\ broadcasts \in 0..MaxBroadcasts /\ broadcasts < MaxBroadcasts /\ broadcasts' = broadcasts + 1
        /\ pend' = [pend EXCEPT ![broadcasts'] = {c \in conns : ClientDistrict[c] = d}]
        /\ UNCHANGED <<handler, connVars, chanVars>>
    BY <1>8 DEF Capture, WsTypeOK
  <2>2. broadcasts' \in 0..MaxBroadcasts
    BY <2>1, BroadcastAssumption
  <2>3. {c \in conns : ClientDistrict[c] = d} \subseteq Clients
    BY DEF WsTypeOK
  <2>4. pend' \in [Broadcasters -> SUBSET Clients]
    BY <2>1, <2>3 DEF WsTypeOK
  <2> QED
    BY <2>1, <2>2, <2>4 DEF connVars, chanVars, WsTypeOK, ChanTypeOK, PumpsSendEvents
<1>9. ASSUME NEW b \in Broadcasters, NEW c \in Clients, CastTo(b, c)
      PROVE  WsTypeOK' /\ ChanTypeOK' /\ PumpsSendEvents'
  <2>1. /\ b \in Senders /\ b # ByPump /\ BeginSend(c, b, Broadcast(b))
        /\ Broadcast(b) \in Events \cup {Broadcast(x) : x \in Broadcasters}
    BY <1>9, SenderFacts DEF CastTo
  <2>2. /\ dropped' \in [Clients -> Nat] /\ sending' \subseteq Clients
        /\ flights' \in [Clients -> SUBSET Flights]
        /\ \A d \in Clients : \A f \in flights'[d] \ flights[d] :
             f = [by |-> b, msg |-> Broadcast(b), phase |-> "sending"]
    BY <2>1, BeginSendFacts, Zenon
  <2>3. WsTypeOK' /\ ChanTypeOK'
    BY <1>9, <2>2 DEF CastTo, chanVars, WsTypeOK, ChanTypeOK
  <2> QED
    BY <2>1, <2>2, <2>3 DEF PumpsSendEvents
<1> QED
  BY <1>1, <1>2, <1>3, <1>4, <1>5, <1>6, <1>7, <1>8, <1>9 DEF WsNext, ClientStep
-----------------------------------------------------------------------------
\* History before signals.  An event is forwarded after its row was stored, and
\* nothing takes a row away while the signal is under way.
Rightful(c, e) == e \in stored /\ EventDistrict[e.src] = ClientDistrict[c]

History ==
  /\ listener \in {"publishing", "updating"} => current \in stored
  /\ \A c \in Clients :
       /\ \A i \in 1..Len(queue[c]) : Rightful(c, queue[c][i])
       /\ \A i \in 1..Len(got[c]) : Rightful(c, got[c][i])
       /\ \A f \in flights[c] : f.by = ByPump => Rightful(c, f.msg)

\* What a step of the processor or of a collector adds for a client is the event
\* that the processor forwards.
LEMMA StreamForwards ==
  ASSUME StreamTypeOK, ChanTypeOK, History, StreamNext
  PROVE  /\ stored \subseteq stored'
         /\ listener' \in {"publishing", "updating"} => current' \in stored'
         /\ \A c \in Clients : \A i \in 1..Len(queue'[c]) :
              \/ i \in 1..Len(queue[c]) /\ queue'[c][i] = queue[c][i]
              \/ Rightful(c, queue'[c][i])
<1> USE SubscriberFacts
<1> DEFINE Quiet == queue' = queue \/ \A c \in Clients : queue'[c] = queue[c]
<1>1. ASSUME NEW s \in Sources, CollectorStart(s) \/ CollectorStop(s)
      PROVE  Quiet /\ UNCHANGED <<stored, listener, current>>
  BY <1>1 DEF CollectorStart, CollectorStop, chanVars
<1>2. ASSUME NEW s \in Sources, Publish(s)
      PROVE  Quiet /\ UNCHANGED <<stored, listener, current>>
  <2>1. Deliver({Processor}, [src |-> s, n |-> published[s] + 1])
        /\ UNCHANGED <<stored, listener, current>>
    BY <1>2 DEF Publish
  <2>2. [src |-> s, n |-> published[s] + 1] \in Events
    BY DEF Events, StreamTypeOK
  <2> QED
    BY <2>1, <2>2, DeliverFacts
<1>3. ASSUME NEW e, Background(e) \/ Stray(e)
      PROVE  Quiet /\ UNCHANGED <<stored, listener, current>>
  BY <1>3 DEF Background, Stray, chanVars
<1>4. CASE Start \/ StopRaises \/ Started \/ StartFails \/ Gathered \/ GetFails \/ ProcessFails \/ Awaited
  <2>1. Quiet
    BY <1>4, UnsubscribedFacts DEF Start, StopRaises, Started, Subscribed, StartFails, Gathered,
         GetFails, ProcessFails, Awaited, chanVars, ChanTypeOK
  <2>2. /\ stored' = stored
        /\ \/ listener' = listener /\ current' = current
           \/ listener' \in {"none", "getting", "dead"}
    BY <1>4 DEF Start, StopRaises, Started, StartFails, Gathered, GetFails, ProcessFails, Awaited
  <2> QED
    BY <2>1, <2>2 DEF History, ChanTypeOK
<1>5. CASE Get
  <2>1. Quiet
    BY <1>5, TakenFacts DEF Get
  <2> QED
    BY <1>5, <2>1 DEF Get, ChanTypeOK
<1>6. CASE Insert
  BY <1>6 DEF Insert, chanVars
<1>7. ASSUME Deliver({c \in Clients : ClientDistrict[c] = EventDistrict[current.src]}, current),
             listener = "publishing"
      PROVE  \A c \in Clients : \A i \in 1..Len(queue'[c]) :
               \/ i \in 1..Len(queue[c]) /\ queue'[c][i] = queue[c][i]
               \/ Rightful(c, queue'[c][i])
  <2>1. current \in Events /\ current \in stored
    BY <1>7 DEF StreamTypeOK, InProcess, History
  <2>2. ASSUME NEW c \in Clients, NEW i \in 1..Len(queue'[c]), queue'[c] # queue[c]
        PROVE  \/ i \in 1..Len(queue[c]) /\ queue'[c][i] = queue[c][i]
               \/ Rightful(c, queue'[c][i])
    <3>1. /\ c \in {d \in Clients : ClientDistrict[d] = EventDistrict[current.src]}
          /\ Len(queue'[c]) = Len(queue[c]) + 1 /\ queue'[c][Len(queue[c]) + 1] = current
          /\ \A j \in 1..Len(queue[c]) : queue'[c][j] = queue[c][j]
      BY <1>7, <2>1, <2>2, DeliverFacts
    <3>2. Len(queue[c]) \in Nat
      BY DEF ChanTypeOK
    <3>3. i \in 1..Len(queue[c]) \/ i = Len(queue[c]) + 1
      BY <3>1, <3>2
    <3> QED
      BY <2>1, <3>1, <3>3 DEF Rightful
  <2> QED
    BY <2>2
<1>8. CASE Stop
  <2>1. stored \subseteq stored' /\ listener' = "none"
    BY <1>8 DEF Stop
  <2> QED
    BY <1>7, <1>8, <2>1 DEF Stop
<1>9. CASE Signal
  <2>1. stored' = stored /\ current \in stored /\ (current' = current \/ listener' = "getting")
    BY <1>9 DEF Signal, Update, History
  <2> QED
    BY <1>7, <1>9, <2>1 DEF Signal
<1>10. ASSUME Quiet, UNCHANGED <<stored, listener, current>>
       PROVE  /\ stored \subseteq stored'
              /\ listener' \in {"publishing", "updating"} => current' \in stored'
              /\ \A c \in Clients : \A i \in 1..Len(queue'[c]) :
                   \/ i \in 1..Len(queue[c]) /\ queue'[c][i] = queue[c][i]
                   \/ Rightful(c, queue'[c][i])
  BY <1>10 DEF History
<1> QED
  BY <1>1, <1>2, <1>3, <1>4, <1>5, <1>6, <1>8, <1>9, <1>10 DEF StreamNext, ProcessorStep

LEMMA StreamKeepsHistory ==
  ASSUME StreamTypeOK, ChanTypeOK, History, StreamNext, UNCHANGED wsVars
  PROVE  History'
<1>1. got' = got /\ flights' = flights
  BY DEF wsVars, connVars
<1>2. stored \subseteq stored'
  BY StreamForwards
<1>3. ASSUME NEW c \in Clients, NEW i \in 1..Len(queue'[c])
      PROVE  queue'[c][i] \in stored' /\ EventDistrict[queue'[c][i].src] = ClientDistrict[c]
  <2>1. Rightful(c, queue'[c][i])
    BY StreamForwards DEF History
  <2> QED
    BY <1>2, <2>1 DEF Rightful
<1> QED
  BY <1>1, <1>2, <1>3, StreamForwards DEF History, Rightful

LEMMA WsKeepsHistory ==
  ASSUME WsTypeOK, ChanTypeOK, History, WsNext, UNCHANGED streamVars
  PROVE  History'
<1> USE SubscriberFacts
<1>1. stored' = stored /\ listener' = listener /\ current' = current
  BY DEF streamVars
<1> DEFINE Queued == \A c \in Clients : \A i \in 1..Len(queue'[c]) : Rightful(c, queue'[c][i])
           Heard == \A c \in Clients : \A i \in 1..Len(got'[c]) : Rightful(c, got'[c][i])
           Pumped == \A c \in Clients : \A f \in flights'[c] : f.by = ByPump => Rightful(c, f.msg)
<1>2. queue' = queue => Queued
  BY DEF History
<1>3. got' = got => Heard
  BY DEF History
<1>4. (\A c \in Clients : flights'[c] \subseteq flights[c]) => Pumped
  BY DEF History
<1>5. ASSUME NEW c \in Clients,
             Refuse(c) \/ Connect(c) \/ Subscribe(c) \/ SubscribeFails(c) \/ Gone(c) \/ Drained(c) \/ PumpFails(c)
      PROVE  Queued /\ Heard /\ Pumped
  <2>1. UNCHANGED <<queue, got, flights>>
    BY <1>5 DEF Refuse, Connect, Subscribe, Subscribed, SubscribeFails, Gone, Drained, PumpFails,
                connVars, chanVars
  <2> QED
    BY <1>2, <1>3, <1>4, <2>1
<1>6. ASSUME NEW c \in Clients, Pump(c)
      PROVE  Queued /\ Heard /\ Pumped
  <2>1. queue[c] # <<>> /\ Taken(c) /\ got' = got
    BY <1>6 DEF Pump
  <2>2. /\ Head(queue[c]) \in Events /\ Head(queue[c]) = queue[c][1] /\ 1 \in 1..Len(queue[c])
        /\ \A d \in Clients \ {c} : queue'[d] = queue[d]
        /\ \A i \in 1..Len(queue'[c]) : i + 1 \in 1..Len(queue[c]) /\ queue'[c][i] = queue[c][i + 1]
    BY <2>1, TakenFacts
  <2>3. Queued
    <3>1. ASSUME NEW i \in 1..Len(queue'[c])
          PROVE  Rightful(c, queue'[c][i])
      BY <2>2 DEF History
    <3>2. ASSUME NEW d \in Clients \ {c}, NEW i \in 1..Len(queue'[d])
          PROVE  Rightful(d, queue'[d][i])
      BY <2>2 DEF History
    <3> QED
      BY <3>1, <3>2
  <2>4. Rightful(c, Head(queue[c]))
    BY <2>2 DEF History
  <2>5. /\ ByPump \in Senders /\ BeginSend(c, ByPump, Head(queue[c]))
        /\ Head(queue[c]) \in Events \cup {Broadcast(b) : b \in Broadcasters}
    BY <1>6, <2>2, SenderFacts DEF Pump
  <2>6. \A d \in Clients : \A f \in flights'[d] \ flights[d] :
          d = c /\ f = [by |-> ByPump, msg |-> Head(queue[c]), phase |-> "sending"]
    BY <2>5, BeginSendFacts, Zenon
  <2>7. Pumped
    BY <2>4, <2>6 DEF History
  <2> QED
    BY <1>3, <2>1, <2>3, <2>7
<1>7. ASSUME NEW c \in Clients, NEW f \in flights[c], Sent(c, f) \/ Closed(c, f)
      PROVE  Queued /\ Heard /\ Pumped
  <2>1. queue' = queue /\ \A d \in Clients : flights'[d] \subseteq flights[d]
    BY <1>7, FlightEnds DEF chanVars
  <2>2. Heard
    <3>1. CASE got' = got
      BY <1>3, <3>1
    <3>2. CASE f.by = ByPump /\ got' = [got EXCEPT ![c] = Append(@, f.msg)]
      <4>1. Rightful(c, f.msg)
        BY <3>2 DEF History
      <4>2. got[c] \in Seq(Events) /\ got'[c] = Append(got[c], f.msg)
            /\ \A d \in Clients \ {c} : got'[d] = got[d]
        BY <3>2 DEF WsTypeOK
      <4>3. ASSUME NEW i \in 1..Len(got'[c])
            PROVE  Rightful(c, got'[c][i])
        <5>1. got'[c][i] = IF i \in 1..Len(got[c]) THEN got[c][i] ELSE f.msg
          BY <4>2
        <5> QED
          BY <4>1, <5>1 DEF History
      <4>4. ASSUME NEW d \in Clients \ {c}, NEW i \in 1..Len(got'[d])
            PROVE  Rightful(d, got'[d][i])
        BY <4>2 DEF History
      <4> QED
        BY <4>3, <4>4
    <3> QED
      BY <1>7, <3>1, <3>2 DEF Sent, Closed, WsTypeOK
  <2> QED
    BY <1>2, <1>4, <2>1, <2>2
<1>8. ASSUME NEW c \in Clients, NEW f \in flights[c], SendFails(c, f)
      PROVE  Queued /\ Heard /\ Pumped
  <2>1. queue' = queue /\ got' = got
    BY <1>8 DEF SendFails, chanVars
  <2>2. \A d \in Clients \ {c} : flights'[d] = flights[d]
    BY <1>8, SendFailsFacts
  <2>3. ASSUME NEW h \in flights'[c]
        PROVE  h \in flights[c] \/ (h.by = f.by /\ h.msg = f.msg)
    BY <1>8, SendFailsFacts, Zenon
  <2>4. Pumped
    BY <2>2, <2>3 DEF History
  <2> QED
    BY <1>2, <1>3, <2>1, <2>4
<1>9. ASSUME NEW c \in Clients, Cancel(c) \/ Leave(c) \/ End(c)
      PROVE  Queued /\ Heard /\ Pumped
  <2>1. got' = got /\ \A d \in Clients : flights'[d] \subseteq flights[d]
    BY <1>9 DEF Cancel, Leave, End, WsTypeOK
  <2>2. \/ queue' = queue
        \/ queue'[c] = <<>> /\ \A d \in Clients \ {c} : queue'[d] = queue[d]
    BY <1>9, UnsubscribedFacts DEF Cancel, Leave, End, chanVars
  <2>3. Queued
    BY <1>2, <2>2 DEF History
  <2> QED
    BY <1>3, <1>4, <2>1, <2>3
<1>10. ASSUME NEW d, Capture(d)
       PROVE  Queued /\ Heard /\ Pumped
  BY <1>2, <1>3, <1>4, <1>10 DEF Capture, connVars, chanVars
<1>11. ASSUME NEW b \in Broadcasters, NEW c \in Clients, CastTo(b, c)
       PROVE  Queued /\ Heard /\ Pumped
  <2>1. /\ b \in Senders /\ b # ByPump /\ BeginSend(c, b, Broadcast(b))
        /\ Broadcast(b) \in Events \cup {Broadcast(x) : x \in Broadcasters}
        /\ queue' = queue /\ got' = got
    BY <1>11, SenderFacts DEF CastTo, chanVars
  <2>2. \A d \in Clients : \A f \in flights'[d] \ flights[d] :
          f = [by |-> b, msg |-> Broadcast(b), phase |-> "sending"]
    BY <2>1, BeginSendFacts, Zenon
  <2>3. Pumped
    BY <2>1, <2>2 DEF History
  <2> QED
    BY <1>2, <1>3, <2>1, <2>3
<1>12. Queued /\ Heard /\ Pumped
  BY <1>5, <1>6, <1>7, <1>8, <1>9, <1>10, <1>11 DEF WsNext, ClientStep
<1> QED
  BY <1>1, <1>12 DEF History, Rightful

-----------------------------------------------------------------------------
\* The order of critical events.  Of a critical source, the updates that the
\* snapshot shows or that run on in a thread are of earlier events than the one
\* in process, and that is earlier than those in the queue.
Latest(s, n) ==
  /\ n <= published[s] /\ applied[s] < n
  /\ \A e \in stray : e.src = s => e.n < n

Ordered(s) ==
  /\ applied[s] <= published[s] /\ \A e \in stray : e.src = s => e.n <= published[s]
  /\ current # NoEvent /\ current.src = s => Latest(s, current.n)
  /\ \A i \in 1..Len(queue[Processor]) : queue[Processor][i].src = s =>
       /\ Latest(s, queue[Processor][i].n)
       /\ current # NoEvent /\ current.src = s => current.n < queue[Processor][i].n
       /\ \A j \in 1..Len(queue[Processor]) :
            i < j /\ queue[Processor][j].src = s => queue[Processor][i].n < queue[Processor][j].n

\* No critical update runs in the background, and only those are awaited.
Awaiting ==
  /\ \A e \in bg : ~Critical(e)
  /\ listener = "updating" => Critical(current)

Sequencing == Awaiting /\ \A s \in CriticalSources : Ordered(s)

\* What the order says about does not change, or the queue is thrown away.
LEMMA SameOrder ==
  ASSUME Sequencing, UNCHANGED <<published, applied, stray>>,
         (current' = current) \/ current' = NoEvent,
         queue'[Processor] = queue[Processor] \/ queue'[Processor] = <<>>
  PROVE  \A s \in CriticalSources : Ordered(s)'
BY DEF Sequencing, Ordered, Latest

LEMMA StreamKeepsSequence ==
  ASSUME StreamTypeOK, ChanTypeOK, Sequencing, StreamNext
  PROVE  Sequencing'
<1> USE SubscriberFacts
<1> DEFINE q == queue[Processor]
<1>0. q \in Seq(Events) /\ Len(q) \in Nat /\ \A i \in 1..Len(q) : q[i] \in Events
  BY DEF ChanTypeOK
<1>1. ASSUME NEW s \in Sources, CollectorStart(s) \/ CollectorStop(s)
      PROVE  Sequencing'
  <2>1. UNCHANGED <<published, applied, stray, current, queue, bg, listener>>
    BY <1>1 DEF CollectorStart, CollectorStop, chanVars
  <2> QED
    BY <2>1, SameOrder DEF Sequencing, Awaiting, Critical
<1>2. ASSUME NEW s \in Sources, Publish(s)
      PROVE  Sequencing'
  <2> DEFINE m == [src |-> s, n |-> published[s] + 1]
  <2>1. /\ UNCHANGED <<applied, stray, current, bg, listener>> /\ Deliver({Processor}, m)
        /\ published' = [published EXCEPT ![s] = @ + 1]
    BY <1>2 DEF Publish
  <2>2. published \in [Sources -> Nat] /\ applied \in [Sources -> Nat] /\ m \in Events
        /\ stray \subseteq Events /\ current \in Events \cup {NoEvent}
    BY DEF Events, StreamTypeOK
  <2>3. \A r \in Sources : published'[r] = IF r = s THEN published[r] + 1 ELSE published[r]
    BY <2>1, <2>2
  <2>4. \/ queue'[Processor] = q
        \/ /\ Len(queue'[Processor]) = Len(q) + 1 /\ queue'[Processor][Len(q) + 1] = m
           /\ \A i \in 1..Len(q) : queue'[Processor][i] = q[i]
    BY <2>1, <2>2, DeliverFacts
  <2> HIDE DEF m
  <2>5. ASSUME NEW r \in CriticalSources
        PROVE  Ordered(r)'
    <3> DEFINE Late(n) == /\ n <= published'[r] /\ applied'[r] < n
                          /\ \A e \in stray' : e.src = r => e.n < n
    <3>1. /\ r \in Sources /\ published[r] \in Nat /\ applied[r] \in Nat
          /\ published'[r] \in Nat
          /\ published'[r] = IF r = s THEN published[r] + 1 ELSE published[r]
      BY <2>2, <2>3, ChannelAssumption
    <3>2. ASSUME NEW n \in Nat, Latest(r, n)
          PROVE  Late(n) /\ (r = s => n < m.n)
      BY <2>1, <3>1, <3>2 DEF Latest, m
    <3>3. \A e \in stray : e.n \in Nat
      BY <2>2 DEF Events
    <3>4. /\ applied[r] <= published[r] /\ \A e \in stray : e.src = r => e.n <= published[r]
      BY DEF Sequencing, Ordered
    <3>5. applied'[r] <= published'[r] /\ \A e \in stray' : e.src = r => e.n <= published'[r]
      BY <2>1, <3>1, <3>3, <3>4
    <3>6. r = s => Late(m.n)
      BY <2>1, <3>1, <3>3, <3>4 DEF m
    <3>7. \A i \in 1..Len(q) : q[i].n \in Nat
      BY <1>0 DEF Events
    <3>8. current # NoEvent => current.n \in Nat
      BY <2>2 DEF Events
    <3>9. current' # NoEvent /\ current'.src = r => Late(current'.n)
      BY <2>1, <3>2, <3>8 DEF Sequencing, Ordered
    <3>10. ASSUME NEW i \in 1..Len(queue'[Processor]), queue'[Processor][i].src = r
           PROVE  /\ Late(queue'[Processor][i].n)
                  /\ current' # NoEvent /\ current'.src = r => current'.n < queue'[Processor][i].n
                  /\ \A j \in 1..Len(queue'[Processor]) :
                       i < j /\ queue'[Processor][j].src = r =>
                         queue'[Processor][i].n < queue'[Processor][j].n
      <4> HIDE DEF Late
      <4>1. CASE i \in 1..Len(q) /\ queue'[Processor][i] = q[i]
        <5>1. Latest(r, q[i].n) /\ q[i].n \in Nat
          BY <3>7, <3>10, <4>1 DEF Sequencing, Ordered
        <5>2. Late(q[i].n) /\ (r = s => q[i].n < m.n)
          BY <3>2, <5>1
        <5>3. current # NoEvent /\ current.src = r => current.n < q[i].n
          BY <3>10, <4>1 DEF Sequencing, Ordered
        <5>4. ASSUME NEW j \in 1..Len(queue'[Processor]), i < j, queue'[Processor][j].src = r
              PROVE  q[i].n < queue'[Processor][j].n
          <6>1. CASE j \in 1..Len(q) /\ queue'[Processor][j] = q[j]
            BY <3>10, <4>1, <5>4, <6>1 DEF Sequencing, Ordered
          <6>2. CASE queue'[Processor][j] = m
            BY <5>2, <5>4, <6>2 DEF m
          <6> QED
            BY <1>0, <2>4, <6>1, <6>2
        <5> QED
          BY <2>1, <4>1, <5>2, <5>3, <5>4
      <4>2. CASE i = Len(q) + 1 /\ queue'[Processor][i] = m /\ Len(queue'[Processor]) = Len(q) + 1
        <5>1. r = s
          BY <3>10, <4>2 DEF m
        <5>2. current # NoEvent /\ current.src = r => current.n < m.n
          BY <3>2, <3>8, <5>1 DEF Sequencing, Ordered
        <5>3. \A j \in 1..Len(queue'[Processor]) : ~(i < j)
          BY <1>0, <4>2
        <5> QED
          BY <2>1, <3>6, <4>2, <5>1, <5>2, <5>3
      <4> QED
        BY <1>0, <2>4, <4>1, <4>2
    <3> QED
      BY <3>5, <3>9, <3>10 DEF Ordered, Latest
  <2> QED
    BY <2>1, <2>5 DEF Sequencing, Awaiting, Critical
<1>3. CASE Start \/ StopRaises \/ Started \/ StartFails \/ Gathered \/ GetFails \/ ProcessFails \/ Insert
  <2>1. UNCHANGED <<published, applied, stray, bg>> /\ (current' = current \/ current' = NoEvent)
        /\ (listener' = "updating" => listener' = listener /\ current' = current)
    BY <1>3 DEF Start, StopRaises, Started, StartFails, Gathered, GetFails, ProcessFails, Insert, collVars
  <2>2. queue'[Processor] = q \/ queue'[Processor] = <<>>
    BY <1>3, UnsubscribedFacts DEF Start, StopRaises, Started, Subscribed, StartFails, Gathered,
         GetFails, ProcessFails, Insert, chanVars, ChanTypeOK
  <2> QED
    BY <2>1, <2>2, SameOrder DEF Sequencing, Awaiting, Critical
<1>4. CASE Get
  <2>1. /\ UNCHANGED <<published, applied, stray, bg>> /\ listener' = "inserting"
        /\ current = NoEvent /\ current' = Head(q) /\ q # <<>> /\ Taken(Processor)
    BY <1>4 DEF Get, collVars, StreamTypeOK, InProcess
  <2>2. /\ current' = q[1] /\ 1 \in 1..Len(q)
        /\ \A i \in 1..Len(queue'[Processor]) :
             i + 1 \in 1..Len(q) /\ queue'[Processor][i] = q[i + 1]
    BY <2>1, TakenFacts
  <2>3. ASSUME NEW r \in CriticalSources
        PROVE  Ordered(r)'
    <3>1. ASSUME NEW i \in 1..Len(queue'[Processor]), queue'[Processor][i].src = r
          PROVE  /\ Latest(r, queue'[Processor][i].n)
                 /\ current'.src = r => current'.n < queue'[Processor][i].n
                 /\ \A j \in 1..Len(queue'[Processor]) :
                      i < j /\ queue'[Processor][j].src = r =>
                        queue'[Processor][i].n < queue'[Processor][j].n
      <4>1. i + 1 \in 1..Len(q) /\ queue'[Processor][i] = q[i + 1] /\ 1 < i + 1
        BY <2>2
      <4>2. Latest(r, q[i + 1].n) /\ (q[1].src = r => q[1].n < q[i + 1].n)
        BY <2>2, <3>1, <4>1 DEF Sequencing, Ordered
      <4>3. ASSUME NEW j \in 1..Len(queue'[Processor]), i < j, queue'[Processor][j].src = r
            PROVE  q[i + 1].n < queue'[Processor][j].n
        <5>1. j + 1 \in 1..Len(q) /\ queue'[Processor][j] = q[j + 1] /\ i + 1 < j + 1
          BY <2>2, <4>3
        <5> QED
          BY <3>1, <4>1, <4>3, <5>1 DEF Sequencing, Ordered
      <4> QED
        BY <2>2, <4>1, <4>2, <4>3
    <3>2. current'.src = r => Latest(r, current'.n)
      BY <2>2 DEF Sequencing, Ordered
    <3>3. applied'[r] <= published'[r] /\ \A e \in stray' : e.src = r => e.n <= published'[r]
      BY <2>1 DEF Sequencing, Ordered
    <3> QED
      BY <2>1, <3>1, <3>2, <3>3 DEF Ordered, Latest
  <2> QED
    BY <2>1, <2>3 DEF Sequencing, Awaiting
<1>5. CASE Signal
  <2>1. /\ UNCHANGED <<published, applied, stray>> /\ (current' = current \/ current' = NoEvent)
        /\ Awaiting'
    BY <1>5 DEF Signal, Update, collVars, Sequencing, Awaiting, Critical
  <2>2. queue'[Processor] = q
    <3>1. current \in Events
      BY <1>5 DEF Signal, StreamTypeOK, InProcess
    <3> QED
      BY <1>5, <3>1, DeliverFacts DEF Signal
  <2> QED
    BY <2>1, <2>2, SameOrder DEF Sequencing
<1>6. CASE Stop
  <2>1. /\ UNCHANGED <<published, applied, bg>> /\ current' = NoEvent /\ listener' = "none"
        /\ stray' = stray \/ (current \in Events /\ stray' = stray \cup {current})
    BY <1>6 DEF Stop, collVars, StreamTypeOK, InProcess
  <2>2. queue'[Processor] = q
    <3>1. listener = "publishing" => current \in Events
      BY DEF StreamTypeOK, InProcess
    <3> QED
      BY <1>6, <3>1, DeliverFacts DEF Stop
  <2>3. ASSUME NEW r \in CriticalSources
        PROVE  Ordered(r)'
    BY <2>1, <2>2 DEF Sequencing, Ordered, Latest
  <2> QED
    BY <2>1, <2>3 DEF Sequencing, Awaiting
<1>7. CASE Awaited
  <2>1. /\ UNCHANGED <<published, stray, queue, bg>> /\ current' = NoEvent /\ listener' = "getting"
        /\ current \in Events /\ Apply(current)
    BY <1>7 DEF Awaited, collVars, chanVars, StreamTypeOK, InProcess
  <2>2. applied \in [Sources -> Nat]
    BY DEF StreamTypeOK
  <2>3. ASSUME NEW r \in CriticalSources
        PROVE  Ordered(r)'
    <3>1. r \in Sources
      BY ChannelAssumption
    <3>2. applied'[r] = applied[r] \/ (current.src = r /\ applied'[r] = current.n)
      BY <2>1, <2>2, <3>1 DEF Apply
    <3> QED
      BY <2>1, <3>2 DEF Sequencing, Ordered, Latest
  <2> QED
    BY <2>1, <2>3 DEF Sequencing, Awaiting
<1>8. ASSUME NEW e \in bg, Background(e)
      PROVE  Sequencing'
  <2>1. /\ UNCHANGED <<published, stray, queue, current, listener>> /\ bg' \subseteq bg
        /\ Apply(e) /\ e.src \notin CriticalSources
    BY <1>8 DEF Background, collVars, chanVars, Sequencing, Awaiting, Critical
  <2>2. \A r \in CriticalSources : applied'[r] = applied[r]
    BY <2>1, ChannelAssumption DEF Apply, StreamTypeOK
  <2>3. \A r \in CriticalSources : Ordered(r)'
    BY <2>1, <2>2 DEF Sequencing, Ordered, Latest
  <2> QED
    BY <2>1, <2>3 DEF Sequencing, Awaiting, Critical
<1>9. ASSUME NEW e \in stray, Stray(e)
      PROVE  Sequencing'
  <2>1. /\ UNCHANGED <<published, queue, current, listener, bg>> /\ stray' \subseteq stray
        /\ Apply(e)
    BY <1>9 DEF Stray, collVars, chanVars
  <2>2. ASSUME NEW r \in CriticalSources
        PROVE  Ordered(r)'
    <3>1. applied'[r] = applied[r] \/ (e.src = r /\ applied'[r] = e.n)
      BY <2>1, ChannelAssumption DEF Apply, StreamTypeOK
    <3> QED
      BY <2>1, <3>1 DEF Sequencing, Ordered, Latest
  <2> QED
    BY <2>1, <2>2 DEF Sequencing, Awaiting, Critical
<1> QED
  BY <1>1, <1>2, <1>3, <1>4, <1>5, <1>6, <1>7, <1>8, <1>9 DEF StreamNext, ProcessorStep

-----------------------------------------------------------------------------
\* The connection manager.  As long as a client is listed, whoever sends to it is
\* the one that marked it busy, and no send of it has failed; a client that never
\* connected is in no list, not even in one that a broadcast still holds.
Marked == \A c \in conns : \A f \in flights[c] : f.phase = "sending" /\ c \in sending

Strangers ==
  \A c \in Clients : handler[c] = "none" =>
    c \notin conns /\ flights[c] = {} /\ \A b \in Broadcasters : c \notin pend[b]

Managed == BusyMeansSending /\ Marked /\ TableIsLive /\ Strangers

LEMMA BeginKeepsMarks ==
  ASSUME WsTypeOK, BusyMeansSending, Marked, NEW c \in Clients, NEW k \in Senders,
         NEW m \in Events \cup {Broadcast(b) : b \in Broadcasters}, BeginSend(c, k, m),
         conns' = conns
  PROVE  BusyMeansSending' /\ Marked'
<1> DEFINE g == [by |-> k, msg |-> m, phase |-> "sending"]
<1>1. /\ sending \subseteq sending' /\ \A d \in Clients : flights[d] \subseteq flights'[d]
      /\ \A d \in Clients : \A f \in flights'[d] \ flights[d] :
           d = c /\ c \notin sending /\ c \in sending' /\ f = g
      /\ \A d \in sending' \ sending : d = c /\ g \in flights'[c]
  BY BeginSendFacts, Zenon
<1>2. sending \subseteq Clients /\ conns \subseteq Clients /\ g.phase = "sending"
  BY DEF WsTypeOK
<1> HIDE DEF g
<1>3. ASSUME NEW d \in sending'
      PROVE  \E f \in flights'[d] : f.phase = "sending"
  BY <1>1, <1>2, <1>3 DEF BusyMeansSending
<1>4. ASSUME NEW d \in conns, NEW f \in flights'[d]
      PROVE  f.phase = "sending" /\ d \in sending'
  BY <1>1, <1>2, <1>4 DEF Marked
<1>5. ASSUME NEW d \in conns, NEW f \in flights'[d], NEW h \in flights'[d],
             f.phase = "sending", h.phase = "sending"
      PROVE  f = h
  BY <1>1, <1>2, <1>5 DEF BusyMeansSending, Marked
<1> QED
  BY <1>3, <1>4, <1>5 DEF BusyMeansSending, Marked

\* Where a mark is taken away the client is unlisted, or the send that set the mark
\* is over.
LEMMA ClearKeepsMarks ==
  ASSUME WsTypeOK, BusyMeansSending, Marked, NEW c \in Clients,
         sending' = sending \ {c}, conns' \subseteq conns,
         \A d \in Clients \ {c} : flights'[d] = flights[d],
         c \in conns' => flights'[c] = {}
  PROVE  BusyMeansSending' /\ Marked'
<1>1. sending \subseteq Clients /\ conns \subseteq Clients
  BY DEF WsTypeOK
<1>2. \A d \in sending' : \E f \in flights'[d] : f.phase = "sending"
  BY <1>1 DEF BusyMeansSending
<1>3. ASSUME NEW d \in conns', NEW f \in flights'[d]
      PROVE  d # c /\ d \in Clients \ {c} /\ d \in conns /\ f \in flights[d]
             /\ f.phase = "sending" /\ d \in sending'
  BY <1>1, <1>3 DEF Marked
<1> QED
  BY <1>2, <1>3 DEF BusyMeansSending, Marked

LEMMA WsKeepsManaged ==
  ASSUME WsTypeOK, ChanTypeOK, Managed, WsNext
  PROVE  Managed'
<1> USE SubscriberFacts DEF Managed
<1>0. /\ handler \in [Clients -> {"none", "subscribing", "streaming", "ending", "cleaning",
                                    "leaving", "ended", "failed"}]
      /\ flights \in [Clients -> SUBSET Flights] /\ conns \subseteq Clients
      /\ open \subseteq Clients /\ sending \subseteq Clients
      /\ pend \in [Broadcasters -> SUBSET Clients]
  BY DEF WsTypeOK
<1>1. ASSUME NEW c \in Clients, Connect(c)
      PROVE  Managed'
  <2>1. /\ handler[c] = "none" /\ handler' = [handler EXCEPT ![c] = "subscribing"]
        /\ conns' = conns \cup {c} /\ open' = open \cup {c}
        /\ UNCHANGED <<sending, flights, pend>>
    BY <1>1 DEF Connect, castVars
  <2>2. flights[c] = {} /\ c \notin conns
    BY <2>1 DEF Strangers
  <2>3. BusyMeansSending' /\ Marked'
    BY <2>1, <2>2 DEF BusyMeansSending, Marked
  <2>4. TableIsLive' /\ Strangers'
    BY <1>0, <2>1 DEF TableIsLive, Strangers
  <2> QED
    BY <2>3, <2>4
<1>2. ASSUME NEW c \in Clients,
             Refuse(c) \/ Subscribe(c) \/ SubscribeFails(c) \/ Gone(c) \/ Drained(c) \/ PumpFails(c)
      PROVE  Managed'
  <2>1. /\ UNCHANGED <<conns, sending, flights, pend>> /\ open' \subseteq open
        /\ \A d \in Clients : \/ handler'[d] = handler[d]
                              \/ handler[d] = "none" /\ handler'[d] = "ended"
                              \/ handler'[d] \in {"streaming", "failed", "ending"}
    BY <1>0, <1>2 DEF Refuse, Subscribe, SubscribeFails, Gone, Drained, PumpFails, connVars, castVars
  <2>2. BusyMeansSending' /\ Marked'
    BY <2>1 DEF BusyMeansSending, Marked
  <2>3. TableIsLive' /\ Strangers'
    BY <1>0, <2>1 DEF TableIsLive, Strangers
  <2> QED
    BY <2>2, <2>3
<1>3. ASSUME NEW c \in Clients, Pump(c)
      PROVE  Managed'
  <2>1. queue[c] # <<>> /\ Taken(c) /\ handler[c] = "streaming" /\ UNCHANGED <<conns, open, pend>>
    BY <1>3 DEF Pump, castVars
  <2>2. Head(queue[c]) \in Events
    BY <2>1, TakenFacts
  <2>3. /\ ByPump \in Senders /\ BeginSend(c, ByPump, Head(queue[c]))
        /\ Head(queue[c]) \in Events \cup {Broadcast(b) : b \in Broadcasters}
    BY <1>3, <2>2, SenderFacts DEF Pump
  <2>4. BusyMeansSending' /\ Marked'
    BY <2>1, <2>3, BeginKeepsMarks, Zenon
  <2>5. \A d \in Clients \ {c} : flights'[d] \subseteq flights[d]
    BY <2>3, BeginSendFacts, Zenon
  <2>6. \A d \in Clients : \/ handler'[d] = handler[d]
                           \/ d \notin conns /\ handler'[d] = "ending"
    BY <1>3, AfterSendFacts DEF Pump
  <2>7. TableIsLive' /\ Strangers'
    BY <1>0, <2>1, <2>5, <2>6 DEF TableIsLive, Strangers
  <2> QED
    BY <2>4, <2>7
<1>4. ASSUME NEW c \in Clients, NEW f \in flights[c], Sent(c, f) \/ Closed(c, f)
      PROVE  Managed'
  <2>1. /\ flights' = [flights EXCEPT ![c] = @ \ {f}] /\ sending' = sending \ {c}
        /\ \A d \in Clients : flights'[d] \subseteq flights[d]
        /\ \A d \in Clients \ {c} : flights'[d] = flights[d]
        /\ AfterSend(c, f.by) /\ UNCHANGED <<conns, pend>>
    BY <1>4, FlightEnds DEF castVars
  <2>2. flights'[c] = flights[c] \ {f}
    BY <1>0, <2>1
  <2>3. c \in conns' => flights'[c] = {}
    BY <2>1, <2>2 DEF BusyMeansSending, Marked
  <2>4. BusyMeansSending' /\ Marked'
    BY <2>1, <2>2, <2>3, ClearKeepsMarks
  <2>5. \A d \in Clients : \/ handler'[d] = handler[d]
                           \/ d \notin conns /\ handler'[d] = "ending"
    BY <2>1, AfterSendFacts
  <2>6. TableIsLive' /\ Strangers'
    BY <1>0, <2>1, <2>5 DEF TableIsLive, Strangers
  <2> QED
    BY <2>4, <2>6
<1>5. ASSUME NEW c \in Clients, NEW f \in flights[c], SendFails(c, f)
      PROVE  Managed'
  <2>1. /\ UNCHANGED <<handler, pend>> /\ conns' = conns \ {c} /\ sending' = sending \ {c}
    BY <1>5 DEF SendFails, castVars, Unlist
  <2>2. \A d \in Clients \ {c} : flights'[d] = flights[d]
    BY <1>5, SendFailsFacts
  <2>3. BusyMeansSending' /\ Marked'
    BY <2>1, <2>2, ClearKeepsMarks
  <2>4. handler[c] # "none"
    BY DEF Strangers
  <2>5. TableIsLive' /\ Strangers'
    BY <2>1, <2>2, <2>4 DEF TableIsLive, Strangers
  <2> QED
    BY <2>3, <2>5
<1>6. ASSUME NEW c \in Clients, Cancel(c)
      PROVE  Managed'
  <2>1. /\ handler[c] = "ending" /\ handler' = [handler EXCEPT ![c] = "cleaning"]
        /\ flights' = [flights EXCEPT ![c] = @ \ Flying(c, ByPump)]
        /\ sending' = IF Flying(c, ByPump) # {} THEN sending \ {c} ELSE sending
        /\ UNCHANGED <<conns, pend>>
    BY <1>6 DEF Cancel, castVars
  <2>2. /\ flights'[c] = flights[c] \ Flying(c, ByPump)
        /\ \A d \in Clients \ {c} : flights'[d] = flights[d]
    BY <1>0, <2>1
  <2>3. Flying(c, ByPump) \subseteq flights[c]
    BY DEF Flying
  <2>4. ASSUME Flying(c, ByPump) # {}
        PROVE  BusyMeansSending' /\ Marked'
    <3>1. c \in conns => flights'[c] = {}
      BY <2>2, <2>3, <2>4 DEF BusyMeansSending, Marked
    <3> QED
      BY <2>1, <2>2, <2>4, <3>1, ClearKeepsMarks
  <2>5. ASSUME Flying(c, ByPump) = {}
        PROVE  BusyMeansSending' /\ Marked'
    <3>1. sending' = sending /\ \A d \in Clients : flights'[d] = flights[d]
      BY <2>1, <2>2, <2>5
    <3> QED
      BY <1>0, <2>1, <3>1 DEF BusyMeansSending, Marked
  <2>6. TableIsLive' /\ Strangers'
    BY <1>0, <2>1, <2>2 DEF TableIsLive, Strangers
  <2> QED
    BY <2>4, <2>5, <2>6
<1>7. ASSUME NEW c \in Clients, Leave(c)
      PROVE  Managed'
  <2>1. /\ handler' = [handler EXCEPT ![c] = "leaving"] /\ conns' = conns \ {c}
        /\ sending' = sending \ {c} /\ UNCHANGED <<flights, pend>>
    BY <1>7 DEF Leave, Cleanup, Unlist, castVars
  <2>2. BusyMeansSending' /\ Marked'
    BY <2>1, ClearKeepsMarks
  <2>3. TableIsLive' /\ Strangers'
    BY <1>0, <2>1 DEF TableIsLive, Strangers
  <2> QED
    BY <2>2, <2>3
<1>8. ASSUME NEW c \in Clients, End(c)
      PROVE  Managed'
  <2>1. /\ handler[c] = "leaving" /\ handler' = [handler EXCEPT ![c] = "ended"]
        /\ UNCHANGED <<conns, sending, flights, pend>>
    BY <1>8 DEF End, castVars
  <2>2. BusyMeansSending' /\ Marked'
    BY <2>1 DEF BusyMeansSending, Marked
  <2>3. TableIsLive' /\ Strangers'
    BY <1>0, <2>1 DEF TableIsLive, Strangers
  <2> QED
    BY <2>2, <2>3
<1>9. ASSUME NEW d, Capture(d)
      PROVE  Managed'
  <2>1. /\ UNCHANGED <<handler, conns, sending, flights>>
        /\ \A x \in Broadcasters : pend'[x] = pend[x] \/ pend'[x] \subseteq conns
    BY <1>0, <1>9 DEF Capture, connVars
  <2> QED
    BY <2>1 DEF BusyMeansSending, Marked, TableIsLive, Strangers
<1>10. ASSUME NEW b \in Broadcasters, NEW c \in Clients, CastTo(b, c)
      PROVE  Managed'
  <2>1. /\ b \in Senders /\ BeginSend(c, b, Broadcast(b)) /\ c \in pend[b]
        /\ Broadcast(b) \in Events \cup {Broadcast(x) : x \in Broadcasters}
        /\ UNCHANGED <<handler, conns>> /\ pend' = [pend EXCEPT ![b] = @ \ {c}]
    BY <1>10, SenderFacts DEF CastTo
  <2>2. BusyMeansSending' /\ Marked'
    BY <2>1, BeginKeepsMarks
  <2>3. \A d \in Clients \ {c} : flights'[d] \subseteq flights[d]
    BY <2>1, BeginSendFacts, Zenon
  <2>4. handler[c] # "none"
    BY <2>1 DEF Strangers
  <2>5. \A x \in Broadcasters : pend'[x] \subseteq pend[x]
    BY <1>0, <2>1
  <2>6. TableIsLive' /\ Strangers'
    BY <2>1, <2>3, <2>4, <2>5 DEF TableIsLive, Strangers
  <2> QED
    BY <2>2, <2>6
<1> QED
  BY <1>1, <1>2, <1>3, <1>4, <1>5, <1>6, <1>7, <1>8, <1>9, <1>10 DEF WsNext, ClientStep

\* The handlers of the clients leave the processor's queue alone.
LEMMA WsLeavesProcessor ==
  ASSUME WsTypeOK, ChanTypeOK, WsNext
  PROVE  queue'[Processor] = queue[Processor]
<1> USE SubscriberFacts
<1>1. ASSUME NEW c \in Clients, Pump(c) \/ End(c)
      PROVE  queue'[Processor] = queue[Processor]
  BY <1>1, TakenFacts, UnsubscribedFacts DEF Pump, End
<1>2. ASSUME NEW c \in Clients,
             \/ Refuse(c) \/ Connect(c) \/ Subscribe(c) \/ SubscribeFails(c) \/ Gone(c)
             \/ Drained(c) \/ PumpFails(c) \/ Cancel(c) \/ Leave(c)
             \/ \E f \in flights[c] : Sent(c, f) \/ SendFails(c, f) \/ Closed(c, f)
      PROVE  queue' = queue
  BY <1>2 DEF Refuse, Connect, Subscribe, Subscribed, SubscribeFails, Gone, Drained, PumpFails,
              Cancel, Leave, Sent, SendFails, Closed, chanVars
<1>3. ASSUME NEW b, NEW x, Capture(x) \/ CastTo(b, x)
      PROVE  queue' = queue
  BY <1>3 DEF Capture, CastTo, chanVars
<1> QED
  BY <1>1, <1>2, <1>3 DEF WsNext, ClientStep

-----------------------------------------------------------------------------
\* What every state of the streaming side satisfies.
RealtimeInv ==
  /\ TypeOK /\ PumpsSendEvents /\ Halted
  /\ History /\ Sequencing /\ Managed

LEMMA RealtimeStart ==
  ASSUME Init
  PROVE  RealtimeInv
<1>1. /\ subs = {} /\ queue = [x \in Subscribers |-> <<>>]
      /\ \A x \in Subscribers : queue[x] = <<>>
  BY DEF Init, ChanInit
<1>2. ChanTypeOK
  BY <1>1, EmptySeq DEF ChanTypeOK
<1>3. StreamTypeOK /\ Halted
  BY DEF Init, StreamInit, StreamTypeOK, Halted, InProcess
<1>4. WsTypeOK /\ PumpsSendEvents
  BY BroadcastAssumption, EmptySeq DEF Init, WsInit, WsTypeOK, PumpsSendEvents
<1>5. History
  BY <1>1, SubscriberFacts DEF History, Init, StreamInit, WsInit
<1>6. Sequencing
  BY <1>1, SubscriberFacts, ChannelAssumption DEF Sequencing, Awaiting, Ordered, Init, StreamInit
<1>7. Managed
  BY DEF Managed, BusyMeansSending, Marked, TableIsLive, Strangers, Init, WsInit
<1> QED
  BY <1>2, <1>3, <1>4, <1>5, <1>6, <1>7 DEF RealtimeInv, TypeOK

LEMMA RealtimeStep ==
  ASSUME RealtimeInv, [Next]_vars
  PROVE  RealtimeInv'
<1>1. CASE StreamNext /\ UNCHANGED wsVars
  <2>1. StreamTypeOK' /\ ChanTypeOK' /\ Halted' /\ History' /\ Sequencing'
    BY <1>1, StreamKeepsTypes, StreamKeepsHalted, StreamKeepsHistory, StreamKeepsSequence
       DEF RealtimeInv, TypeOK
  <2>2. UNCHANGED <<handler, conns, sending, flights, open, got, dropped, pend, broadcasts>>
    BY <1>1 DEF wsVars, connVars, castVars
  <2>3. WsTypeOK' /\ PumpsSendEvents' /\ Managed'
    BY <2>2 DEF RealtimeInv, TypeOK, WsTypeOK, PumpsSendEvents, Managed, BusyMeansSending, Marked,
                TableIsLive, Strangers
  <2> QED
    BY <2>1, <2>3 DEF RealtimeInv, TypeOK
<1>2. CASE WsNext /\ UNCHANGED streamVars
  <2>1. WsTypeOK' /\ ChanTypeOK' /\ PumpsSendEvents' /\ History' /\ Managed'
    BY <1>2, WsKeepsTypes, WsKeepsHistory, WsKeepsManaged DEF RealtimeInv, TypeOK
  <2>2. UNCHANGED <<collecting, published, ctl, running, listener, current, bg, stray, stored, applied>>
    BY <1>2 DEF streamVars
  <2>3. StreamTypeOK' /\ Halted'
    BY <2>2 DEF RealtimeInv, TypeOK, StreamTypeOK, Halted
  <2>4. queue'[Processor] = queue[Processor]
    BY <1>2, WsLeavesProcessor DEF RealtimeInv, TypeOK
  <2>5. Sequencing'
    BY <2>2, <2>4, SameOrder DEF RealtimeInv, Sequencing, Awaiting, Critical
  <2> QED
    BY <2>1, <2>3, <2>5 DEF RealtimeInv, TypeOK
<1>3. CASE UNCHANGED vars
  <2>1. UNCHANGED <<chanVars, streamVars, wsVars>>
    BY <1>3 DEF vars
  <2>2. UNCHANGED <<subs, queue, collecting, published, ctl, running, listener, current, bg, stray,
                    stored, applied>>
    BY <2>1 DEF chanVars, streamVars
  <2>3. UNCHANGED <<handler, conns, sending, flights, open, got, dropped, pend, broadcasts>>
    BY <2>1 DEF wsVars, connVars, castVars
  <2>4. TypeOK' /\ PumpsSendEvents' /\ Halted'
    BY <2>2, <2>3 DEF RealtimeInv, TypeOK, ChanTypeOK, StreamTypeOK, WsTypeOK, PumpsSendEvents, Halted
  <2>5. History' /\ Sequencing'
    BY <2>2, <2>3 DEF RealtimeInv, History, Rightful, Sequencing, Awaiting, Critical, Ordered, Latest
  <2>6. Managed'
    BY <2>3 DEF RealtimeInv, Managed, BusyMeansSending, Marked, TableIsLive, Strangers
  <2> QED
    BY <2>4, <2>5, <2>6 DEF RealtimeInv
<1> QED
  BY <1>1, <1>2, <1>3 DEF Next

\* A step that takes the snapshot of a critical source back is of an update that
\* outlived the processor it was started by.
InOrder ==
  \A s \in CriticalSources :
    applied'[s] < applied[s] => [src |-> s, n |-> applied'[s]] \in stray

LEMMA StepInOrder ==
  ASSUME RealtimeInv, [Next]_vars
  PROVE  InOrder
<1> SUFFICES ASSUME NEW s \in CriticalSources, applied'[s] < applied[s]
             PROVE  [src |-> s, n |-> applied'[s]] \in stray
  BY DEF InOrder
<1>1. /\ s \in Sources /\ applied \in [Sources -> Nat] /\ stray \subseteq Events
      /\ applied'[s] # applied[s]
  BY ChannelAssumption DEF RealtimeInv, TypeOK, StreamTypeOK
<1>2. StreamNext
  BY <1>1 DEF Next, vars, streamVars
<1>3. CASE Awaited
  <2>1. /\ current \in Events /\ Apply(current)
    BY <1>3 DEF Awaited, RealtimeInv, TypeOK, StreamTypeOK, InProcess
  <2>2. current.src = s /\ applied'[s] = current.n
    BY <1>1, <2>1 DEF Apply
  <2>3. applied[s] < current.n
    BY <2>1, <2>2, SubscriberFacts DEF RealtimeInv, Sequencing, Ordered, Latest
  <2> QED
    BY <1>1, <2>1, <2>2, <2>3 DEF Events
<1>4. ASSUME NEW e \in bg, Background(e)
      PROVE  FALSE
  <2>1. e.src \notin CriticalSources /\ Apply(e)
    BY <1>4 DEF Background, RealtimeInv, Sequencing, Awaiting, Critical
  <2> QED
    BY <1>1, <2>1 DEF Apply
<1>5. ASSUME NEW e \in stray, Stray(e)
      PROVE  [src |-> s, n |-> applied'[s]] \in stray
  <2>1. e.src = s /\ applied'[s] = e.n /\ e \in Events
    BY <1>1, <1>5 DEF Stray, Apply
  <2>2. e = [src |-> s, n |-> applied'[s]]
    BY <2>1 DEF Events
  <2> QED
    BY <2>2
<1>6. ASSUME NEW r \in Sources, CollectorStart(r) \/ CollectorStop(r) \/ Publish(r)
      PROVE  FALSE
  BY <1>1, <1>6 DEF CollectorStart, CollectorStop, Publish
<1>7. CASE Start \/ Stop \/ StopRaises \/ Started \/ StartFails \/ Gathered \/ Get \/ GetFails
           \/ Insert \/ Signal \/ ProcessFails
  BY <1>1, <1>7 DEF Start, Stop, StopRaises, Started, StartFails, Gathered, Get, GetFails, Insert,
                    Signal, ProcessFails
<1> QED
  BY <1>2, <1>3, <1>4, <1>5, <1>6, <1>7 DEF StreamNext, ProcessorStep

-----------------------------------------------------------------------------
\* The queues, the events in process and the sends in progress hold together in
\* every behaviour.
THEOREM RealtimeInvariant == Spec => []RealtimeInv
<1>1. Init => RealtimeInv
  BY RealtimeStart
<1>2. RealtimeInv /\ [Next]_vars => RealtimeInv'
  BY RealtimeStep
<1> QED
  BY <1>1, <1>2, PTL DEF Spec

\* Every variable keeps its type; of the processor that includes that an event is
\* at hand just while one is processed, also across start() and stop().
THEOREM TypeCorrect == Spec => []TypeOK
<1>1. RealtimeInv => TypeOK
  BY DEF RealtimeInv
<1> QED
  BY <1>1, RealtimeInvariant, PTL

\* A client never receives a signal without a row, whatever statement failed and
\* wherever the processor was stopped, and never one of another district.
THEOREM HistoryFirst == Spec => []SignalsAreStored
<1>1. ASSUME RealtimeInv
      PROVE  SignalsAreStored
  <2>1. /\ \A c \in Clients : got[c] \in Seq(Events) /\ queue[c] \in Seq(Events)
        /\ History
    BY <1>1, SubscriberFacts DEF RealtimeInv, TypeOK, WsTypeOK, ChanTypeOK
  <2> QED
    BY <2>1 DEF SignalsAreStored, Received, Waiting, History, Rightful
<1> QED
  BY <1>1, RealtimeInvariant, PTL

\* Any number of broadcasts may race with the pump, time-outs and hang-ups, and
\* write on to a client that was disconnected: a mark is always that of a send
\* under way, and a listed client has one writer.
THEOREM MarksHold == Spec => []BusyMeansSending
<1>1. RealtimeInv => BusyMeansSending
  BY DEF RealtimeInv, Managed
<1> QED
  BY <1>1, RealtimeInvariant, PTL

\* Once a handler has ended its client is not listed, and no broadcast that took
\* its targets before puts it back.
THEOREM TableHolds == Spec => []TableIsLive
<1>1. RealtimeInv => TableIsLive
  BY DEF RealtimeInv, Managed
<1> QED
  BY <1>1, RealtimeInvariant, PTL

\* Critical snapshots go forward, through lost messages, failed statements and
\* restarts of the processor, but for the threads that stop() leaves behind.
THEOREM SnapshotsInOrder == Spec => CriticalInOrder
<1>1. RealtimeInv /\ [Next]_vars => [InOrder]_vars
  BY StepInOrder
<1>2. Spec => [][InOrder]_vars
  BY <1>1, RealtimeInvariant, PTL DEF Spec
<1> QED
  BY <1>2 DEF CriticalInOrder, InOrder
=============================================================================
