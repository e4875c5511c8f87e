---------------------------- MODULE Calibration ----------------------------
(***************************************************************************)
(* Calibration proposals and their trail (homepy/verification/calibrator.py*)
(* and improvement_tracker.py, with the approve handler of                 *)
(* api/routers/pipeline.py).  Proposals live in the memory of the API      *)
(* process; the applied values in config/calibration.json; the improvement *)
(* records in the database.  Every await is a point where other requests   *)
(* run.                                                                    *)
(***************************************************************************)
EXTENDS Naturals, FiniteSets

CONSTANTS
  Proposals,     \* proposal ids (uuid4)
  Approvals,     \* POST .../approve requests; each makes at most one record
  Rollbacks,     \* calls of ImprovementTracker.rollback, likewise
  Values,        \* contents of a config section
  Default,       \* what a section without an entry stands for
  NoRow,         \* absence of a row
  MaxRollbacks,  \* bound: rollbacks in progress at the same time
  Faults         \* kinds of failure the environment may cause

ASSUME CalibrationAssumption ==
  /\ Default \notin Values
  /\ Approvals \cap Rollbacks = {}

Sections == {"weights", "thresholds"}
Settings == Values \cup {Default}
Ids      == Approvals \cup Rollbacks

\* CalibrationProposal and ImprovementRecord, as far as the properties go.
ProposalRecords ==
  [status : {"none", "proposed", "applied", "rejected", "gone"},
   section : Sections, current : Settings, proposed : Settings]
Records ==
  [section : Sections, before : Settings, after : Settings,
   trigger : Proposals \cup Ids, possible : BOOLEAN]
ASSUME NoRowAssumption == NoRow \notin Records

VARIABLES
  proposals,   \* AutoCalibrator._proposals
  config,      \* section -> setting in calibration.json
  torn,        \* calibration.json is not valid JSON
  log,         \* record id -> row of ts_calibration_log, or NoRow
  apc, arec,   \* approval -> where it is, and the record it has to store
  bpc, btarget, borig   \* rollback -> where it is, its record_id, the row it read

vars == <<proposals, config, torn, log, apc, arec, bpc, btarget, borig>>
rollbackVars == <<bpc, btarget, borig>>

NoProposal ==
  [status |-> "none", section |-> "weights", current |-> Default, proposed |-> Default]

Init ==
  /\ proposals = [p \in Proposals |-> NoProposal]
  /\ config = [s \in Sections |-> Default]
  /\ torn = FALSE
  /\ log = [i \in Ids |-> NoRow]
  /\ apc = [a \in Approvals |-> "idle"]
  /\ arec = [a \in Approvals |-> NoRow]
  /\ bpc = [b \in Rollbacks |-> "idle"]
  /\ btarget \in [Rollbacks -> Ids]
  /\ borig = [b \in Rollbacks |-> NoRow]

-----------------------------------------------------------------------------
\* (mutant) an unreadable file has no settings at all, not even the defaults.
MutLoadConfig == IF torn THEN [s \in Sections |-> NoRow] ELSE config
\* _load_config: an unreadable file counts as an empty one.
LoadConfig == IF torn THEN [s \in Sections |-> Default] ELSE config

\* propose_weight_update, propose_threshold_update: the awaits come before the
\* current values are read, so the proposal is built and stored in one step.
\* With no positive IC the current values are proposed again.
Propose(p, s, v) ==
  /\ proposals[p].status = "none"
  /\ v = LoadConfig[s] \/ v \in Values
  /\ proposals' = [proposals EXCEPT ![p] =
       [status |-> "proposed", section |-> s, current |-> LoadConfig[s], proposed |-> v]]
  /\ UNCHANGED <<config, torn, log, apc, arec, rollbackVars>>

\* reject_proposal.
Reject(p) ==
  /\ proposals[p].status = "proposed"
  /\ proposals' = [proposals EXCEPT ![p].status = "rejected"]
  /\ UNCHANGED <<config, torn, log, apc, arec, rollbackVars>>

\* _get_open raises KeyError (404) or ValueError (409).
\* (mutant) any proposal that was not rejected is open.
MutIsOpen(p) == proposals[p].status \in {"proposed", "applied"}
IsOpen(p) == proposals[p].status = "proposed"

Refused(a, p) ==
  /\ apc[a] = "idle"
  /\ ~IsOpen(p)
  /\ apc' = [apc EXCEPT ![a] = "refused"]
  /\ UNCHANGED <<proposals, config, torn, log, arec, rollbackVars>>

\* apply_proposal has no await: load the config, replace one section, write the
\* file, mark the proposal, build the record.  before_state is the setting the
\* proposal saw when it was made.
\* (mutant) the file is written from the proposal's section alone.
MutWritten(s, v) == [[t \in Sections |-> Default] EXCEPT ![s] = v]
Written(s, v) == [LoadConfig EXCEPT ![s] = v]

Apply(a, p) ==
  /\ apc[a] = "idle"
  /\ IsOpen(p)
  /\ LET q == proposals[p] IN
     /\ config' = Written(q.section, q.proposed)
     /\ torn' = FALSE
     /\ proposals' = [proposals EXCEPT ![p].status = "applied"]
     /\ arec' = [arec EXCEPT ![a] = [section |-> q.section, before |-> q.current,
                   after |-> q.proposed, trigger |-> p, possible |-> TRUE]]
  /\ apc' = [apc EXCEPT ![a] = "recording"]
  /\ UNCHANGED <<log, rollbackVars>>

\* mkdir or write_text fails: the handler raises before the proposal is marked.
\* Once write_text has truncated the file, what is left of it is unreadable.
WriteFails(a, p) ==
  /\ apc[a] = "idle"
  /\ IsOpen(p)
  /\ "write" \in Faults
  /\ torn' \in {torn, TRUE}
  /\ apc' = [apc EXCEPT ![a] = "failed"]
  /\ UNCHANGED <<proposals, config, log, arec, rollbackVars>>

\* The handler then awaits ImprovementTracker.record (an INSERT).
RecordApplied(a) ==
  /\ apc[a] = "recording"
  /\ log' = [log EXCEPT ![a] = arec[a]]
  /\ apc' = [apc EXCEPT ![a] = "done"]
  /\ UNCHANGED <<proposals, config, torn, arec, rollbackVars>>

RecordFails(a) ==
  /\ apc[a] = "recording"
  /\ "record" \in Faults
  /\ apc' = [apc EXCEPT ![a] = "failed"]
  /\ UNCHANGED <<proposals, config, torn, log, arec, rollbackVars>>

-----------------------------------------------------------------------------
\* rollback(record_id): SELECT, check, UPDATE and INSERT, each awaited.
InProgress == {b \in Rollbacks : bpc[b] \in {"selected", "marked"}}

\* (mutant) rollback_possible is not looked at.
MutRollbackCapable(i) == log[i] # NoRow
RollbackCapable(i) == log[i] # NoRow /\ log[i].possible

Select(b) ==
  /\ bpc[b] = "idle"
  /\ Cardinality(InProgress) < MaxRollbacks
  /\ IF RollbackCapable(btarget[b])
     THEN /\ bpc' = [bpc EXCEPT ![b] = "selected"]
          /\ borig' = [borig EXCEPT ![b] = log[btarget[b]]]
     ELSE /\ bpc' = [bpc EXCEPT ![b] = "refused"]
          /\ UNCHANGED borig
  /\ UNCHANGED <<proposals, config, torn, log, apc, arec, btarget>>

\* (mutant) the original is not marked.
MutMarked(i) == log[i]
Marked(i) == [log[i] EXCEPT !.possible = FALSE]

Mark(b) ==
  /\ bpc[b] = "selected"
  /\ log' = [log EXCEPT ![btarget[b]] = Marked(btarget[b])]
  /\ bpc' = [bpc EXCEPT ![b] = "marked"]
  /\ UNCHANGED <<proposals, config, torn, apc, arec, btarget, borig>>

\* (mutant) the reverse record keeps the record_id of the original.
MutReverseId(b) == btarget[b]
ReverseId(b) == b

RecordReverse(b) ==
  /\ bpc[b] = "marked"
  /\ log' = [log EXCEPT ![ReverseId(b)] =
       [section |-> borig[b].section, before |-> borig[b].after,
        after |-> borig[b].before, trigger |-> btarget[b], possible |-> FALSE]]
  /\ bpc' = [bpc EXCEPT ![b] = "done"]
  /\ UNCHANGED <<proposals, config, torn, apc, arec, btarget, borig>>

\* Any of the three statements may raise; what came before it stays.
RollbackFails(b) ==
  /\ bpc[b] \in {"idle", "selected", "marked"}
  /\ "rollback" \in Faults
  /\ bpc' = [bpc EXCEPT ![b] = "failed"]
  /\ UNCHANGED <<proposals, config, torn, log, apc, arec, btarget, borig>>

-----------------------------------------------------------------------------
\* The API process restarts: proposals and requests in flight are gone, the
\* file and the rows stay.
Restart ==
  /\ "restart" \in Faults
  /\ proposals' = [p \in Proposals |->
       IF proposals[p].status = "none" THEN proposals[p]
       ELSE [proposals[p] EXCEPT !.status = "gone"]]
  /\ apc' = [a \in Approvals |-> IF apc[a] = "recording" THEN "lost" ELSE apc[a]]
  /\ bpc' = [b \in Rollbacks |-> IF b \in InProgress THEN "lost" ELSE bpc[b]]
  /\ UNCHANGED <<config, torn, log, arec, btarget, borig>>

Next ==
  \/ \E p \in Proposals :
       \/ \E s \in Sections, v \in Settings : Propose(p, s, v)
       \/ Reject(p)
       \/ \E a \in Approvals : Refused(a, p) \/ Apply(a, p) \/ WriteFails(a, p)
  \/ \E a \in Approvals : RecordApplied(a) \/ RecordFails(a)
  \/ \E b \in Rollbacks : Select(b) \/ Mark(b) \/ RecordReverse(b) \/ RollbackFails(b)
  \/ Restart

Spec == Init /\ [][Next]_vars

-----------------------------------------------------------------------------
\* Every variable keeps its type.
TypeOK ==
  /\ proposals \in [Proposals -> ProposalRecords]
  /\ config \in [Sections -> Settings]
  /\ torn \in BOOLEAN
  /\ log \in [Ids -> Records \cup {NoRow}]
  /\ apc \in [Approvals -> {"idle", "refused", "recording", "done", "failed", "lost"}]
  /\ arec \in [Approvals -> Records \cup {NoRow}]
  /\ bpc \in [Rollbacks -> {"idle", "refused", "selected", "marked", "done", "failed", "lost"}]
  /\ btarget \in [Rollbacks -> Ids]
  /\ borig \in [Rollbacks -> Records \cup {NoRow}]

Applied(a, p) == arec[a] # NoRow /\ arec[a].trigger = p

\* However many approvals and rejections of a proposal race, and even if the
\* process restarts between them, at most one approval applies it and none does
\* once it was rejected.
DecidedOnce ==
  \A p \in Proposals :
    /\ \A a, x \in Approvals : Applied(a, p) /\ Applied(x, p) => a = x
    /\ proposals[p].status \in {"none", "proposed", "rejected"} =>
         \A a \in Approvals : ~Applied(a, p)

\* Approving a proposal for one section leaves the other section of the file as
\* it was, unless an interrupted write had already destroyed the file.
OtherSectionKept ==
  [][\A s \in Sections : ~torn /\ config'[s] # config[s] =>
       /\ \A t \in Sections \ {s} : config'[t] = config[t]
       /\ \E p \in Proposals : /\ proposals[p].section = s
                               /\ proposals[p].status = "proposed"
                               /\ proposals'[p].status = "applied"]_vars

\* An applied change whose approve request succeeded stays in the improvement
\* log as it was applied, whatever is rolled back later; the log has no record
\* of a change that was not applied.
AnsweredIsLogged ==
  \A a \in Approvals :
    /\ apc[a] = "done" => log[a] # NoRow
    /\ log[a] # NoRow =>
         arec[a] # NoRow /\ log[a] \in {arec[a], [arec[a] EXCEPT !.possible = FALSE]}

Reverses(b, i) == log[b] # NoRow /\ log[b].trigger = i

\* A record is rolled back at most once, whoever asks for it and how often.
RollbackOnce ==
  \A i \in Ids, b, x \in Rollbacks : Reverses(b, i) /\ Reverses(x, i) => b = x

\* A record that was rolled back can not be rolled back again, and one that can
\* not be has its reverse record, unless the rollback that marked it is still
\* between the two statements or stopped there.
MarkedHasReverse ==
  \A i \in Approvals : log[i] # NoRow =>
    /\ (\E b \in Rollbacks : Reverses(b, i)) => ~log[i].possible
    /\ ~log[i].possible =>
         \E b \in Rollbacks :
           \/ Reverses(b, i)
           \/ btarget[b] = i /\ bpc[b] \in {"marked", "failed", "lost"}
=============================================================================
