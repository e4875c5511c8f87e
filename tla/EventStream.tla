---------------------------- MODULE EventStream ----------------------------
(***************************************************************************)
(* The producing half of homepy/realtime: collectors that publish events   *)
(* to Redis, and the EventProcessor that stores each event, forwards it to *)
(* the signal channel of its district and updates the TypeDB snapshot.     *)
(* Everything runs on one event loop: a step lies between two awaits.      *)
(***************************************************************************)
EXTENDS Channels, Functions

VARIABLES
  collecting, \* collectors with _running = True
  published,  \* source -> number of events published so far
  ctl,        \* what the caller of start() and stop() is waiting for
  running,    \* EventProcessor._running
  listener,   \* the listener task: where in _listen / process_event it is
  current,    \* the event it processes
  bg,         \* EventProcessor._bg: events with a background update
  stray,      \* events whose update thread outlived the cancelled listener
  stored,     \* rows of ts_realtime_events
  applied     \* source -> last event its TypeDB snapshot shows (0: none)

streamVars == <<collecting, published, ctl, running, listener, current, bg,
                stray, stored, applied>>
collVars == <<collecting, published>>

NoEvent == [src |-> "none", n |-> 0]
Critical(e) == e.src \in CriticalSources
InProcess == {"inserting", "publishing", "updating"}

StreamInit ==
  /\ collecting = {} /\ published = [s \in Sources |-> 0]
  /\ ctl = "idle" /\ running = FALSE
  /\ listener = "none" /\ current = NoEvent
  /\ bg = {} /\ stray = {} /\ stored = {}
  /\ applied = [s \in Sources |-> 0]

-----------------------------------------------------------------------------
\* Collectors.  A second start() of a running one does nothing.
CollectorStart(s) ==
  /\ s \notin collecting
  /\ collecting' = collecting \cup {s}
  /\ UNCHANGED <<published, ctl, running, listener, current, bg, stray, stored,
                 applied, chanVars>>

\* stop() cancels the task; a crash of the loop has the same effect, for the
\* exception handler only clears _running.
CollectorStop(s) ==
  /\ s \in collecting
  /\ collecting' = collecting \ {s}
  /\ UNCHANGED <<published, ctl, running, listener, current, bg, stray, stored,
                 applied, chanVars>>

Publish(s) ==
  /\ s \in collecting
  /\ FoldFunction(+, 0, published) < MaxEvents
  /\ published' = [published EXCEPT ![s] = @ + 1]
  /\ Deliver({Processor}, [src |-> s, n |-> published[s] + 1])
  /\ UNCHANGED <<collecting, ctl, running, listener, current, bg, stray, stored,
                 applied, subs>>

-----------------------------------------------------------------------------
\* EventProcessor.start(): nothing if running, else psubscribe is awaited ...
Start ==
  /\ ctl = "idle" /\ ~running
  /\ ctl' = "starting"
  /\ UNCHANGED <<collVars, running, listener, current, bg, stray, stored, applied, chanVars>>

\* ... and the listener task is created.
Started ==
  /\ ctl = "starting"
  /\ ctl' = "idle" /\ running' = TRUE /\ listener' = "getting"
  /\ Subscribed(Processor)
  /\ UNCHANGED <<collVars, current, bg, stray, stored, applied>>

StartFails ==
  /\ ctl = "starting"
  /\ "redis" \in Faults
  /\ ctl' = "idle"
  /\ UNCHANGED <<collVars, running, listener, current, bg, stray, stored, applied, chanVars>>

\* stop(): the listener is cancelled where it is.  Of the statement in progress
\* nothing is known: the row may be stored or not, the signal sent or not; the
\* thread of a critical update runs on, if it was running already.
Stop ==
  /\ ctl = "idle" /\ listener \notin {"none", "dead"}
  /\ ctl' = "gathering" /\ running' = FALSE
  /\ listener' = "none" /\ current' = NoEvent
  /\ \/ UNCHANGED stray
     \/ listener = "updating" /\ stray' = stray \cup {current}
  /\ \/ UNCHANGED stored
     \/ listener = "inserting" /\ stored' = stored \cup {current}
  /\ \/ UNCHANGED queue
     \/ /\ listener = "publishing"
        /\ Deliver({c \in Clients : ClientDistrict[c] = EventDistrict[current.src]}, current)
  /\ UNCHANGED <<collVars, bg, applied, subs>>

\* stop() of a listener that died: awaiting the task raises its error again, so
\* neither the background tasks are waited for nor the subscription closed.
StopRaises ==
  /\ ctl = "idle" /\ listener = "dead"
  /\ running' = FALSE /\ listener' = "none"
  /\ UNCHANGED <<collVars, ctl, current, bg, stray, stored, applied, chanVars>>

\* gather(*_bg) has returned; the subscription is closed, or its connection was
\* lost, which ends it as well.
Gathered ==
  /\ ctl = "gathering" /\ bg = {}
  /\ ctl' = "idle"
  /\ Unsubscribed(Processor)
  /\ UNCHANGED <<collVars, running, listener, current, bg, stray, stored, applied>>

-----------------------------------------------------------------------------
\* _listen: one message at a time.
Get ==
  /\ listener = "getting" /\ queue[Processor] # <<>>
  /\ current' = Head(queue[Processor]) /\ Taken(Processor)
  /\ listener' = "inserting"
  /\ UNCHANGED <<collVars, ctl, running, bg, stray, stored, applied, subs>>

\* get_message is outside the try: a Redis error ends the task, and _running
\* stays True.
GetFails ==
  /\ listener = "getting" /\ "redis" \in Faults
  /\ listener' = "dead"
  /\ subs' = subs \ {Processor} /\ queue' = [queue EXCEPT ![Processor] = <<>>]
  /\ UNCHANGED <<collVars, ctl, running, current, bg, stray, stored, applied>>

\* process_event: the row first ...
Insert ==
  /\ listener = "inserting"
  /\ stored' = stored \cup {current}
  /\ listener' = "publishing"
  /\ UNCHANGED <<collVars, ctl, running, current, bg, stray, applied, chanVars>>

\* (mutant) critical updates run in the background, too.
MutUpdate ==
  /\ bg' = bg \cup {current} /\ listener' = "getting" /\ current' = NoEvent
\* ... then the snapshot, awaited if critical, otherwise in a task of its own.
Update ==
  IF Critical(current)
  THEN listener' = "updating" /\ UNCHANGED <<current, bg>>
  ELSE /\ bg' = bg \cup {current} /\ listener' = "getting" /\ current' = NoEvent

\* ... after the signal to the clients of its district, if it has one.
Signal ==
  /\ listener = "publishing"
  /\ Deliver({c \in Clients : ClientDistrict[c] = EventDistrict[current.src]}, current)
  /\ Update
  /\ UNCHANGED <<collVars, ctl, running, stray, stored, applied, subs>>

\* An exception of either is logged, and the rest of process_event skipped.
\* (mutant) the event is forwarded although it could not be stored.
MutProcessFails ==
  /\ listener \in {"inserting", "publishing"} /\ "process" \in Faults
  /\ listener' = "publishing"
  /\ UNCHANGED <<collVars, current, ctl, running, bg, stray, stored, applied, chanVars>>
ProcessFails ==
  /\ listener \in {"inserting", "publishing"} /\ "process" \in Faults
  /\ listener' = "getting" /\ current' = NoEvent
  /\ UNCHANGED <<collVars, ctl, running, bg, stray, stored, applied, chanVars>>

\* _update_typedb: best effort.
Apply(e) ==
  \/ applied' = [applied EXCEPT ![e.src] = e.n]
  \/ "snapshot" \in Faults /\ UNCHANGED applied

\* (mutant) the event is kept.
MutAwaited ==
  /\ listener = "updating"
  /\ Apply(current)
  /\ listener' = "getting"
  /\ UNCHANGED <<collVars, ctl, running, current, bg, stray, stored, chanVars>>
Awaited ==
  /\ listener = "updating"
  /\ Apply(current)
  /\ listener' = "getting" /\ current' = NoEvent
  /\ UNCHANGED <<collVars, ctl, running, bg, stray, stored, chanVars>>

Background(e) ==
  /\ e \in bg
  /\ Apply(e)
  /\ bg' = bg \ {e}
  /\ UNCHANGED <<collVars, ctl, running, listener, current, stray, stored, chanVars>>

Stray(e) ==
  /\ e \in stray
  /\ Apply(e)
  /\ stray' = stray \ {e}
  /\ UNCHANGED <<collVars, ctl, running, listener, current, bg, stored, chanVars>>

-----------------------------------------------------------------------------
ProcessorStep ==
  \/ Started \/ StartFails \/ Gathered
  \/ Get \/ GetFails \/ Insert \/ Signal \/ ProcessFails \/ Awaited
  \/ \E e \in bg : Background(e)
  \/ \E e \in stray : Stray(e)

StreamNext ==
  \/ \E s \in Sources : CollectorStart(s) \/ CollectorStop(s) \/ Publish(s)
  \/ Start \/ Stop \/ StopRaises \/ ProcessorStep

StreamTypeOK ==
  /\ collecting \subseteq Sources
  /\ published \in [Sources -> Nat]
  /\ ctl \in {"idle", "starting", "gathering"}
  /\ running \in BOOLEAN
  /\ listener \in {"none", "getting", "dead"} \cup InProcess
  /\ current \in Events \cup {NoEvent}
  /\ listener \in InProcess <=> current # NoEvent
  /\ bg \subseteq Events /\ stray \subseteq Events
  /\ stored \subseteq Events
  /\ applied \in [Sources -> Nat]
=============================================================================
