------------------------------- MODULE Alerts -------------------------------
(***************************************************************************)
(* monitoring/alert_manager.py: the level of an alert, its channels, and   *)
(* the merging of alerts, which callers may repeat.  Time is in units of   *)
(* half the deduplication window.                                          *)
(***************************************************************************)
EXTENDS Integers, FiniteSets, Folds, Functions

CONSTANTS
  Districts,
  AnomalySets,  \* what a scan may have found: sets of anomalies
  Channels,     \* channels that are configured
  MaxAlerts, MaxClock

ASSUME AlertAssumption == MaxAlerts \in Nat /\ MaxClock \in Nat

VARIABLES
  clock,
  events,  \* AlertEvents: at, district, level, ids, count, sent, failed
  raised,  \* alerts raised so far
  merged   \* deduplicate() was the last thing that happened to events

alertVars == <<clock, events, raised, merged>>

Levels == {"WATCH", "ADVISORY", "WARNING", "CRITICAL"}
ALERT_ROUTING == [WATCH |-> {}, ADVISORY |-> {"slack"}, WARNING |-> {"slack", "kakao"},
                  CRITICAL |-> {"slack", "kakao", "email"}]
WindowUnits == 2

AlertInit == clock = 0 /\ events = {} /\ raised = 0 /\ merged = FALSE

-----------------------------------------------------------------------------
is_warning_level(a) == a.severity = "critical" \/ a.extreme

classify(anomalies, signals) ==
  LET warnings == Cardinality({a \in anomalies : is_warning_level(a)})
      ofDistrict(d) == Cardinality({a \in anomalies : a.district = d})
  IN CASE warnings >= 2 \/ (\E d \in Districts : ofDistrict(d) >= 5) -> "CRITICAL"
       [] warnings = 1 /\ (\A d \in Districts : ofDistrict(d) < 5) -> "WARNING"
       [] warnings = 0 /\ (\A d \in Districts : ofDistrict(d) < 5)
            /\ (Cardinality(anomalies) >= 2 \/ signals) -> "ADVISORY"
       [] OTHER -> "WATCH"

\* An alert of what a scan of the district has found.
Raise(d) ==
  /\ raised < MaxAlerts
  /\ \E anomalies \in AnomalySets, signals \in BOOLEAN :
       events' = events \cup {[at |-> clock, district |-> d, level |-> classify(anomalies, signals),
                               ids |-> {raised + 1}, count |-> 1, sent |-> {}, failed |-> {}]}
  /\ raised' = raised + 1 /\ merged' = FALSE
  /\ UNCHANGED clock

\* send_alert: the channels of the level that are configured; an exception of
\* one is a failure of that one.
Send(e) ==
  /\ e \in events /\ e.sent = {} /\ e.failed = {}
  /\ LET names == ALERT_ROUTING[e.level] \cap Channels IN
     \E ok \in SUBSET names :
       events' = (events \ {e}) \cup {[e EXCEPT !.sent = ok, !.failed = names \ ok]}
  /\ UNCHANGED <<clock, raised, merged>>

-----------------------------------------------------------------------------
\* A later event joins the last cluster of its key, if that began recently.
SameCluster(first, e) ==
  first.district = e.district /\ first.level = e.level /\ e.at - first.at <= WindowUnits

\* (mutant) the event that stays counts as one, whatever was merged into it.
MutMerge(first, e) == [first EXCEPT !.ids = @ \cup e.ids, !.count = 1 + e.count]
Merge(first, e) == [first EXCEPT !.ids = @ \cup e.ids, !.count = @ + e.count]

\* One pass over the events in the order of their times; an open cluster is
\* represented by what it will be merged to.
Absorb(out, e) ==
  IF \E first \in out : SameCluster(first, e)
  THEN LET first == CHOOSE first \in out : SameCluster(first, e) IN (out \ {first}) \cup {Merge(first, e)}
  ELSE out \cup {e}

\* Of the events es, one that no other is after: the last to be absorbed.
Newest(es) == CHOOSE e \in es : \A f \in es : f.at <= e.at

Deduplicated(es) == MapThenFoldSet(LAMBDA e, out : Absorb(out, e), {}, LAMBDA e : e, Newest, es)

Deduplicate ==
  /\ ~merged
  /\ events' = Deduplicated(events)
  /\ merged' = TRUE
  /\ UNCHANGED <<clock, raised>>

AlertTick == clock < MaxClock /\ clock' = clock + 1 /\ UNCHANGED <<events, raised, merged>>

AlertNext ==
  \/ \E d \in Districts : Raise(d)
  \/ \E e \in events : Send(e)
  \/ Deduplicate \/ AlertTick

AlertTypeOK ==
  /\ clock \in 0..MaxClock /\ raised \in 0..MaxAlerts /\ merged \in BOOLEAN
  /\ \A e \in events :
       /\ e.at \in 0..clock /\ e.district \in Districts /\ e.level \in Levels
       /\ e.ids \subseteq 1..raised /\ e.count \in 1..raised
       /\ e.sent \cup e.failed \subseteq Channels

-----------------------------------------------------------------------------
\* However often alerts are merged, each one raised is counted once and its
\* anomalies belong to one event; and after a merge no two events of a district
\* and level lie within a window.
DedupConserves ==
  /\ FoldFunction(+, 0, [e \in events |-> e.count]) = raised
  /\ UNION {e.ids : e \in events} = 1..raised
  /\ \A e, f \in events : e # f =>
       e.ids \cap f.ids = {} /\ (merged => ~(e.at <= f.at /\ SameCluster(e, f)))
=============================================================================
