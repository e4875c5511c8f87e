-------------------------- MODULE CalibrationProofs --------------------------
(***************************************************************************)
(* Calibration proposals, their records in the log and the rollbacks of    *)
(* those, for any number of proposals and requests.                        *)
(***************************************************************************)
EXTENDS Calibration, TLAPS

\* Reading the config file, readable or not, gives a setting for every section.
LEMMA ConfigTypes ==
  ASSUME TypeOK PROVE LoadConfig \in [Sections -> Settings]
  BY DEF TypeOK, LoadConfig, Settings

\* The initial state is well typed.
LEMMA InitTypes == Init => TypeOK
  <1> SUFFICES ASSUME Init PROVE TypeOK
    OBVIOUS
  <1>1. NoProposal \in ProposalRecords
    BY DEF NoProposal, ProposalRecords, Sections, Settings
  <1>2. Default \in Settings
    BY DEF Settings
  <1> QED BY <1>1, <1>2 DEF Init, TypeOK

\* A new proposal records settings of its section.
LEMMA ProposeTypes ==
  ASSUME NEW p \in Proposals, NEW s \in Sections, NEW v \in Settings, TypeOK, Propose(p, s, v)
  PROVE  TypeOK'
  <1>1. LoadConfig[s] \in Settings
    BY ConfigTypes
  <1> QED BY <1>1 DEF TypeOK, Propose, ProposalRecords, rollbackVars

\* Rejecting changes a status only.
LEMMA RejectTypes ==
  ASSUME NEW p \in Proposals, TypeOK, Reject(p) PROVE TypeOK'
  BY DEF TypeOK, Reject, ProposalRecords, rollbackVars

\* The config written and the record built by apply_proposal are well typed.
LEMMA ApplyTypes ==
  ASSUME NEW a \in Approvals, NEW p \in Proposals, TypeOK, Apply(a, p) PROVE TypeOK'
  <1>1. proposals[p] \in ProposalRecords
    BY DEF TypeOK
  <1>2. Written(proposals[p].section, proposals[p].proposed) \in [Sections -> Settings]
    BY <1>1, ConfigTypes DEF Written, ProposalRecords
  <1>4. [section |-> proposals[p].section, before |-> proposals[p].current,
         after |-> proposals[p].proposed, trigger |-> p, possible |-> TRUE] \in Records
    BY <1>1 DEF Records, ProposalRecords
  <1>5. [proposals[p] EXCEPT !.status = "applied"] \in ProposalRecords
    BY <1>1 DEF ProposalRecords
  <1>6. proposals' \in [Proposals -> ProposalRecords]
    BY <1>5 DEF TypeOK, Apply
  <1>7. arec' \in [Approvals -> Records \cup {NoRow}]
    BY <1>4 DEF TypeOK, Apply
  <1>8. config' \in [Sections -> Settings] /\ torn' \in BOOLEAN
    BY <1>2 DEF Apply
  <1> QED BY <1>6, <1>7, <1>8 DEF TypeOK, Apply, rollbackVars

\* The other steps of an approval keep the types.
LEMMA ApprovalTypes ==
  ASSUME NEW a \in Approvals, TypeOK,
         \/ RecordApplied(a) \/ RecordFails(a)
         \/ \E p \in Proposals : Refused(a, p) \/ WriteFails(a, p)
  PROVE  TypeOK'
  BY DEF TypeOK, RecordApplied, RecordFails, Refused, WriteFails, Ids, rollbackVars

\* So do the steps of a rollback that write no row.
LEMMA RollbackTypes ==
  ASSUME NEW b \in Rollbacks, TypeOK, RollbackFails(b) \/ Select(b) PROVE TypeOK'
  BY DEF TypeOK, RollbackFails, Select

\* A restart loses statuses and requests, not types.
LEMMA RestartTypes ==
  ASSUME TypeOK, Restart PROVE TypeOK'
  BY DEF TypeOK, Restart, ProposalRecords

\* An approval that has not applied anything has no record, and one that is
\* about to store its record has one and has not stored it.
Approving ==
  \A a \in Approvals :
    /\ apc[a] = "idle" => arec[a] = NoRow
    /\ apc[a] = "recording" => arec[a] # NoRow
    /\ apc[a] \in {"idle", "recording"} => log[a] = NoRow

\* A rollback in progress works on a stored record.
RollingBack ==
  \A b \in Rollbacks :
    bpc[b] \in {"selected", "marked"} => borig[b] # NoRow /\ log[btarget[b]] # NoRow

StateInv == TypeOK /\ Approving /\ RollingBack

\* Marking a row leaves a row: the rollback that marks it has read it.
LEMMA MarkTypes ==
  ASSUME NEW b \in Rollbacks, StateInv, Mark(b) PROVE TypeOK'
  <1>1. log[btarget[b]] \in Records
    BY DEF StateInv, TypeOK, RollingBack, Mark
  <1>2. Marked(btarget[b]) \in Records
    BY <1>1 DEF Marked, Records
  <1> QED BY <1>2 DEF StateInv, TypeOK, Mark

\* The reverse record is a row: the rollback that stores it has read the original.
LEMMA ReverseTypes ==
  ASSUME NEW b \in Rollbacks, StateInv, RecordReverse(b) PROVE TypeOK'
  <1>1. borig[b] \in Records
    BY DEF StateInv, TypeOK, RollingBack, RecordReverse
  <1>2. [section |-> borig[b].section, before |-> borig[b].after,
         after |-> borig[b].before, trigger |-> btarget[b], possible |-> FALSE] \in Records
    BY <1>1 DEF Records, StateInv, TypeOK
  <1> QED BY <1>2 DEF StateInv, TypeOK, RecordReverse

\* Every step keeps the types.
LEMMA NextTypes == StateInv /\ [Next]_vars => TypeOK'
  <1> SUFFICES ASSUME StateInv, [Next]_vars PROVE TypeOK'
    OBVIOUS
  <1>1. TypeOK
    BY DEF StateInv
  <1>2. ASSUME NEW p \in Proposals,
               \/ \E s \in Sections, v \in Settings : Propose(p, s, v)
               \/ Reject(p)
               \/ \E a \in Approvals : Refused(a, p) \/ Apply(a, p) \/ WriteFails(a, p)
        PROVE  TypeOK'
    BY <1>1, <1>2, ProposeTypes, RejectTypes, ApplyTypes, ApprovalTypes
  <1>3. ASSUME NEW a \in Approvals, RecordApplied(a) \/ RecordFails(a) PROVE TypeOK'
    BY <1>1, <1>3, ApprovalTypes
  <1>4. ASSUME NEW b \in Rollbacks,
               Select(b) \/ Mark(b) \/ RecordReverse(b) \/ RollbackFails(b)
        PROVE  TypeOK'
    BY <1>1, <1>4, RollbackTypes, MarkTypes, ReverseTypes
  <1>5. CASE UNCHANGED vars
    BY <1>1, <1>5 DEF TypeOK, vars
  <1> QED BY <1>1, <1>2, <1>3, <1>4, <1>5, RestartTypes DEF Next

\* Every step keeps an approval's record as its handler needs it.
LEMMA NextApproving == StateInv /\ [Next]_vars => Approving'
  <1> SUFFICES ASSUME StateInv, [Next]_vars PROVE Approving'
    OBVIOUS
  <1> USE DEF StateInv, Approving
  <1>1. ASSUME NEW p \in Proposals,
               \/ \E s \in Sections, v \in Settings : Propose(p, s, v)
               \/ Reject(p)
        PROVE  Approving'
    BY <1>1 DEF Propose, Reject
  <1>2. ASSUME NEW p \in Proposals, NEW a \in Approvals, Refused(a, p) \/ WriteFails(a, p)
        PROVE  Approving'
    <2>1. /\ apc[a] = "idle" /\ arec' = arec /\ log' = log
          /\ \E to \in {"refused", "failed"} : apc' = [apc EXCEPT ![a] = to]
      BY <1>2 DEF Refused, WriteFails
    <2> QED BY <2>1 DEF TypeOK
  <1>3. ASSUME NEW p \in Proposals, NEW a \in Approvals, Apply(a, p)
        PROVE  Approving'
    <2>1. [section |-> proposals[p].section, before |-> proposals[p].current,
           after |-> proposals[p].proposed, trigger |-> p, possible |-> TRUE] \in Records
      BY DEF Records, ProposalRecords, TypeOK
    <2>2. arec'[a] # NoRow
      BY <1>3, <2>1, NoRowAssumption DEF Apply, TypeOK
    <2> QED BY <1>3, <2>2 DEF Apply, TypeOK
  <1>4. ASSUME NEW a \in Approvals, RecordApplied(a) \/ RecordFails(a) PROVE Approving'
    BY <1>4 DEF RecordApplied, RecordFails, TypeOK, Ids
  <1>5. ASSUME NEW b \in Rollbacks, Select(b) \/ RollbackFails(b) PROVE Approving'
    BY <1>5 DEF Select, RollbackFails
  <1>6. ASSUME NEW b \in Rollbacks, Mark(b) PROVE Approving'
    BY <1>6 DEF Mark, RollingBack, TypeOK
  <1>7. ASSUME NEW b \in Rollbacks, RecordReverse(b) PROVE Approving'
    BY <1>7, CalibrationAssumption DEF RecordReverse, ReverseId, TypeOK
  <1>8. CASE Restart
    BY <1>8 DEF Restart, TypeOK
  <1>9. CASE UNCHANGED vars
    BY <1>9 DEF vars
  <1> QED BY <1>1, <1>2, <1>3, <1>4, <1>5, <1>6, <1>7, <1>8, <1>9 DEF Next

\* Every step keeps what a rollback in progress relies on.
LEMMA NextRollingBack == StateInv /\ [Next]_vars => RollingBack'
  <1> SUFFICES ASSUME StateInv, [Next]_vars PROVE RollingBack'
    OBVIOUS
  <1> USE DEF StateInv, RollingBack
  <1>1. ASSUME NEW p \in Proposals,
               \/ \E s \in Sections, v \in Settings : Propose(p, s, v)
               \/ Reject(p)
               \/ \E a \in Approvals : Refused(a, p) \/ Apply(a, p) \/ WriteFails(a, p)
        PROVE  RollingBack'
    BY <1>1 DEF Propose, Reject, Refused, Apply, WriteFails, rollbackVars
  <1>2. ASSUME NEW a \in Approvals, RecordApplied(a) \/ RecordFails(a) PROVE RollingBack'
    BY <1>2 DEF RecordApplied, RecordFails, rollbackVars, Approving, TypeOK
  <1>3. ASSUME NEW b \in Rollbacks, Select(b) \/ RollbackFails(b) PROVE RollingBack'
    BY <1>3 DEF Select, RollbackFails, RollbackCapable, TypeOK
  <1>4. ASSUME NEW b \in Rollbacks, Mark(b) PROVE RollingBack'
    <2>1. Marked(btarget[b]) # NoRow
      <3>1. log[btarget[b]] \in Records
        BY <1>4 DEF Mark, TypeOK
      <3>2. Marked(btarget[b]) \in Records
        BY <3>1 DEF Marked, Records
      <3> QED BY <3>2, NoRowAssumption
    <2> QED BY <1>4, <2>1 DEF Mark, TypeOK
  <1>5. ASSUME NEW b \in Rollbacks, RecordReverse(b) PROVE RollingBack'
    <2>1. log'[b] # NoRow
      <3>1. borig[b] \in Records
        BY <1>5 DEF RecordReverse, TypeOK
      <3>2. [section |-> borig[b].section, before |-> borig[b].after,
             after |-> borig[b].before, trigger |-> btarget[b], possible |-> FALSE] \in Records
        BY <3>1 DEF Records, TypeOK
      <3> QED BY <1>5, <3>2, NoRowAssumption DEF RecordReverse, ReverseId, TypeOK, Ids
    <2> QED BY <1>5, <2>1 DEF RecordReverse, ReverseId, TypeOK
  <1>6. CASE Restart
    BY <1>6 DEF Restart, InProgress, TypeOK
  <1>7. CASE UNCHANGED vars
    BY <1>7 DEF vars
  <1> QED BY <1>1, <1>2, <1>3, <1>4, <1>5, <1>6, <1>7 DEF Next

\* The invariant holds initially.
LEMMA InitState == Init => StateInv
  BY InitTypes DEF Init, StateInv, Approving, RollingBack, Ids

\* Whatever requests interleave, a request in progress has the record it works on.
THEOREM StateInvariant == Spec => []StateInv
  <1>1. StateInv /\ [Next]_vars => StateInv'
    BY NextTypes, NextApproving, NextRollingBack DEF StateInv
  <1> QED BY InitState, <1>1, PTL DEF Spec

\* Every variable keeps its type: in particular an unreadable config file, a
\* lost record or a restart never makes a handler use a missing row.
THEOREM TypeCorrect == Spec => []TypeOK
  <1>1. StateInv => TypeOK
    BY DEF StateInv
  <1> QED BY <1>1, StateInvariant, PTL

-----------------------------------------------------------------------------
\* A proposal some approval applied is applied (or gone with the process), and
\* no other approval applied it.
Deciding ==
  \A p \in Proposals, a \in Approvals : Applied(a, p) =>
    /\ proposals[p].status \in {"applied", "gone"}
    /\ \A x \in Approvals : Applied(x, p) => x = a

\* Every step keeps the link between an applied proposal and its one approval.
LEMMA NextDeciding == StateInv /\ Deciding /\ [Next]_vars => Deciding'
  <1> SUFFICES ASSUME StateInv, Deciding, [Next]_vars PROVE Deciding'
    OBVIOUS
  <1> USE DEF Deciding, Applied
  <1>1. TypeOK
    BY DEF StateInv
  <1>2. ASSUME NEW p \in Proposals, NEW s \in Sections, NEW v \in Settings, Propose(p, s, v)
        PROVE  Deciding'
    <2>1. proposals[p].status = "none" /\ arec' = arec
      BY <1>2 DEF Propose
    <2>2. \A q \in Proposals \ {p} : proposals'[q] = proposals[q]
      BY <1>1, <1>2 DEF Propose, TypeOK
    <2> QED BY <2>1, <2>2
  <1>3. ASSUME NEW p \in Proposals, Reject(p) PROVE Deciding'
    <2>1. proposals[p].status = "proposed" /\ arec' = arec
      BY <1>3 DEF Reject
    <2>2. \A q \in Proposals \ {p} : proposals'[q] = proposals[q]
      BY <1>1, <1>3 DEF Reject, TypeOK
    <2> QED BY <2>1, <2>2
  <1>4. ASSUME NEW p \in Proposals, NEW a \in Approvals, Refused(a, p) \/ WriteFails(a, p)
        PROVE  Deciding'
    BY <1>4, ZenonT(30) DEF Refused, WriteFails
  <1>5. ASSUME NEW p \in Proposals, NEW a \in Approvals, Apply(a, p) PROVE Deciding'
    <2>1. proposals[p].status = "proposed"
      BY <1>5 DEF Apply, IsOpen
    <2>2. /\ proposals'[p].status = "applied"
          /\ \A q \in Proposals \ {p} : proposals'[q] = proposals[q]
      BY <1>1, <1>5 DEF Apply, TypeOK, ProposalRecords
    <2>3. arec[a] = NoRow
      BY <1>5 DEF Apply, StateInv, Approving
    <2>4. arec'[a].trigger = p /\ \A x \in Approvals \ {a} : arec'[x] = arec[x]
      BY <1>1, <1>5 DEF Apply, TypeOK
    <2>5. \A x \in Approvals : ~Applied(x, p)
      BY <2>1
    <2> QED BY <2>2, <2>3, <2>4, <2>5
  <1>6. ASSUME NEW a \in Approvals, RecordApplied(a) \/ RecordFails(a) PROVE Deciding'
    BY <1>6 DEF RecordApplied, RecordFails
  <1>7. ASSUME NEW b \in Rollbacks,
               Select(b) \/ Mark(b) \/ RecordReverse(b) \/ RollbackFails(b)
        PROVE  Deciding'
    BY <1>7 DEF Select, Mark, RecordReverse, RollbackFails
  <1>8. CASE Restart
    <2>1. arec' = arec
      BY <1>8 DEF Restart
    <2>2. \A p \in Proposals : proposals[p].status \in {"applied", "gone"} =>
                                 proposals'[p].status \in {"applied", "gone"}
      BY <1>1, <1>8 DEF Restart, TypeOK, ProposalRecords
    <2> QED BY <2>1, <2>2
  <1>9. CASE UNCHANGED vars
    BY <1>9 DEF vars
  <1> QED BY <1>2, <1>3, <1>4, <1>5, <1>6, <1>7, <1>8, <1>9 DEF Next

\* A proposal is applied by one approval at most, and never once rejected.
THEOREM ProposalDecidedOnce == Spec => []DecidedOnce
  <1>1. Init => Deciding
    BY DEF Init, Deciding, Applied
  <1>2. Deciding => DecidedOnce
    BY DEF Deciding, DecidedOnce
  <1> QED BY <1>1, <1>2, NextDeciding, StateInvariant, PTL DEF Spec

\* Approving a proposal changes one section of a readable config file.
THEOREM OtherSectionUntouched == Spec => OtherSectionKept
  <1> DEFINE Step == \A s \in Sections : ~torn /\ config'[s] # config[s] =>
       /\ \A t \in Sections \ {s} : config'[t] = config[t]
       /\ \E p \in Proposals : /\ proposals[p].section = s
                               /\ proposals[p].status = "proposed"
                               /\ proposals'[p].status = "applied"
  <1>1. TypeOK /\ [Next]_vars => [Step]_vars
    <2> SUFFICES ASSUME TypeOK, Next PROVE Step
      BY DEF vars
    <2>1. ASSUME NEW p \in Proposals, NEW a \in Approvals, Apply(a, p) PROVE Step
      <3>1. config' = [LoadConfig EXCEPT ![proposals[p].section] = proposals[p].proposed]
        BY <2>1 DEF Apply, Written
      <3>2. ~torn => LoadConfig = config
        BY DEF LoadConfig
      <3>3. proposals[p].status = "proposed" /\ proposals'[p].status = "applied"
        BY <2>1 DEF Apply, IsOpen, TypeOK, ProposalRecords
      <3>4. ~torn => \A t \in Sections \ {proposals[p].section} : config'[t] = config[t]
        BY <3>1, <3>2 DEF TypeOK
      <3> QED BY <3>3, <3>4
    <2>2. CASE UNCHANGED config
      BY <2>2
    <2> QED
      BY <2>1, <2>2 DEF Next, Propose, Reject, Refused, WriteFails, RecordApplied, RecordFails,
                        Select, Mark, RecordReverse, RollbackFails, Restart
  <1> QED BY <1>1, TypeCorrect, PTL DEF Spec, OtherSectionKept

-----------------------------------------------------------------------------
\* The trail: what the improvement log keeps, for any number of concurrent
\* requests and rollbacks, any failures and restarts.

\* A rollback that is past its UPDATE, whether or not it has recorded the
\* reverse yet.
Past(b) == bpc[b] \in {"marked", "done"}

\* The row of an approval is the record of an applied change, rolled back or
\* not, and an answered approval has its row.  No change is applied as one that
\* can not be rolled back.
Logging ==
  \A a \in Approvals :
    /\ apc[a] = "done" => log[a] # NoRow
    /\ arec[a] # NoRow => arec[a].possible
    /\ log[a] # NoRow =>
         arec[a] # NoRow /\ log[a] \in {arec[a], [arec[a] EXCEPT !.possible = FALSE]}

\* A marked row is a row that can not be rolled back and is otherwise the same.
LEMMA MarkedRow ==
  ASSUME NEW i \in Ids, TypeOK, log[i] # NoRow
  PROVE  /\ Marked(i) # NoRow
         /\ Marked(i) \in Records
         /\ ~Marked(i).possible
         /\ Marked(i).trigger = log[i].trigger
         /\ Marked(i) = [log[i] EXCEPT !.possible = FALSE]
  <1>1. log[i] \in Records
    BY DEF TypeOK
  <1>2. Marked(i) \in Records /\ ~Marked(i).possible /\ Marked(i).trigger = log[i].trigger
    BY <1>1 DEF Marked, Records
  <1> QED BY <1>2, NoRowAssumption DEF Marked

\* Marking a record twice is marking it once.
LEMMA MarkedTwice ==
  ASSUME NEW x \in Records
  PROVE  [[x EXCEPT !.possible = FALSE] EXCEPT !.possible = FALSE]
           = [x EXCEPT !.possible = FALSE]
  BY DEF Records

\* Every step keeps Logging.
LEMMA NextLogging == StateInv /\ Logging /\ [Next]_vars => Logging'
  <1> SUFFICES ASSUME StateInv, Logging, [Next]_vars PROVE Logging'
    OBVIOUS
  <1> USE DEF Logging
  <1>1. TypeOK /\ Approving /\ RollingBack
    BY DEF StateInv
  <1>2. ASSUME NEW p \in Proposals,
               (\E s \in Sections, v \in Settings : Propose(p, s, v)) \/ Reject(p)
        PROVE  Logging'
    BY <1>2 DEF Propose, Reject
  <1>3. ASSUME NEW p \in Proposals, NEW a \in Approvals, Refused(a, p) \/ WriteFails(a, p)
        PROVE  Logging'
    BY <1>1, <1>3, ZenonT(30) DEF Refused, WriteFails, TypeOK
  <1>4. ASSUME NEW p \in Proposals, NEW a \in Approvals, Apply(a, p) PROVE Logging'
    <2>1. log[a] = NoRow
      BY <1>1, <1>4 DEF Apply, Approving
    <2>2. /\ log' = log /\ apc'[a] = "recording" /\ arec'[a].possible
          /\ \A x \in Approvals \ {a} : arec'[x] = arec[x] /\ apc'[x] = apc[x]
      BY <1>1, <1>4 DEF Apply, TypeOK
    <2> QED BY <2>1, <2>2
  <1>5. ASSUME NEW a \in Approvals, RecordApplied(a) PROVE Logging'
    <2>1. arec[a] # NoRow
      BY <1>1, <1>5 DEF RecordApplied, Approving
    <2>2. /\ arec' = arec /\ log'[a] = arec[a]
          /\ \A x \in Approvals \ {a} : log'[x] = log[x] /\ apc'[x] = apc[x]
      BY <1>1, <1>5 DEF RecordApplied, TypeOK, Ids
    <2> QED BY <2>1, <2>2
  <1>6. ASSUME NEW a \in Approvals, RecordFails(a) PROVE Logging'
    BY <1>1, <1>6 DEF RecordFails, TypeOK
  <1>7. ASSUME NEW b \in Rollbacks, Select(b) \/ RollbackFails(b) PROVE Logging'
    BY <1>7 DEF Select, RollbackFails
  <1>8. ASSUME NEW b \in Rollbacks, Mark(b) PROVE Logging'
    <2>1. btarget[b] \in Ids /\ log[btarget[b]] # NoRow
      BY <1>1, <1>8 DEF Mark, RollingBack, TypeOK
    <2>2. /\ arec' = arec /\ apc' = apc
          /\ log'[btarget[b]] = Marked(btarget[b])
          /\ \A i \in Ids \ {btarget[b]} : log'[i] = log[i]
      BY <1>1, <1>8, <2>1 DEF Mark, TypeOK
    <2>3. ASSUME btarget[b] \in Approvals
          PROVE  /\ log'[btarget[b]] # NoRow /\ arec[btarget[b]] # NoRow
                 /\ log'[btarget[b]] = [arec[btarget[b]] EXCEPT !.possible = FALSE]
      <3>1. arec[btarget[b]] # NoRow /\ arec[btarget[b]] \in Records
        BY <1>1, <2>1, <2>3 DEF TypeOK
      <3>2. Marked(btarget[b]) # NoRow
            /\ Marked(btarget[b]) = [log[btarget[b]] EXCEPT !.possible = FALSE]
        BY <1>1, <2>1, MarkedRow
      <3>3. log[btarget[b]] \in {arec[btarget[b]], [arec[btarget[b]] EXCEPT !.possible = FALSE]}
        BY <2>1, <2>3
      <3> QED BY <2>2, <3>1, <3>2, <3>3, MarkedTwice
    <2> QED BY <2>2, <2>3 DEF Ids
  <1>9. ASSUME NEW b \in Rollbacks, RecordReverse(b) PROVE Logging'
    <2>1. /\ arec' = arec /\ apc' = apc
          /\ \A a \in Approvals : log'[a] = log[a]
      BY <1>1, <1>9, CalibrationAssumption DEF RecordReverse, ReverseId, TypeOK, Ids
    <2> QED BY <2>1
  <1>10. CASE Restart
    <2>1. /\ arec' = arec /\ log' = log
          /\ \A a \in Approvals : apc'[a] = "done" => apc[a] = "done"
      BY <1>1, <1>10 DEF Restart, TypeOK
    <2> QED BY <2>1
  <1>11. CASE UNCHANGED vars
    BY <1>11 DEF vars
  <1> QED
    BY <1>2, <1>3, <1>4, <1>5, <1>6, <1>7, <1>8, <1>9, <1>10, <1>11 DEF Next

\* Initially nothing is applied or logged.
LEMMA InitLogging == Init => Logging
  BY DEF Init, Logging, Ids

\* What an answered approval applied stays in the log as it was applied, and the
\* log has no change that was not applied, whatever else runs or fails.
THEOREM AnsweredStaysLogged == Spec => []AnsweredIsLogged
  <1>1. Logging => AnsweredIsLogged
    BY DEF Logging, AnsweredIsLogged
  <1> QED BY <1>1, InitLogging, NextLogging, StateInvariant, PTL DEF Spec

-----------------------------------------------------------------------------
\* A rollback past its UPDATE left its original not rollback-capable; the row of
\* a rollback is the reverse record of its target and a finished rollback has
\* one; and an approval's row that is not rollback-capable was marked by some
\* rollback that is not waiting to do so.
Trail ==
  /\ \A b \in Rollbacks :
       /\ Past(b) => log[btarget[b]] # NoRow /\ ~log[btarget[b]].possible
       /\ bpc[b] = "done" <=> log[b] # NoRow
       /\ log[b] # NoRow => log[b].trigger = btarget[b] /\ ~log[b].possible
  /\ \A i \in Approvals : log[i] # NoRow /\ ~log[i].possible =>
       \E b \in Rollbacks : /\ btarget[b] = i
                            /\ bpc[b] \in {"marked", "done", "failed", "lost"}

\* A step that leaves the rows alone and moves no rollback into "marked" or
\* "done", or out of a place that accounts for a marked row.
LEMMA TrailUntouched ==
  ASSUME Trail, log' = log, btarget' = btarget,
         \A b \in Rollbacks :
           /\ bpc'[b] \in {"marked", "done"} => bpc'[b] = bpc[b]
           /\ bpc[b] = "done" => bpc'[b] = "done"
           /\ bpc[b] \in {"marked", "failed", "lost"} => bpc'[b] \in {"marked", "failed", "lost"}
  PROVE  Trail'
  <1>1. \A b \in Rollbacks : Past(b)' => Past(b)
    BY DEF Past
  <1>2. ASSUME NEW b \in Rollbacks
        PROVE  /\ Past(b)' => log'[btarget'[b]] # NoRow /\ ~log'[btarget'[b]].possible
               /\ bpc'[b] = "done" <=> log'[b] # NoRow
               /\ log'[b] # NoRow => log'[b].trigger = btarget'[b] /\ ~log'[b].possible
    BY <1>1 DEF Trail
  <1>3. ASSUME NEW i \in Approvals, log'[i] # NoRow, ~log'[i].possible
        PROVE  \E b \in Rollbacks : /\ btarget'[b] = i
                                    /\ bpc'[b] \in {"marked", "done", "failed", "lost"}
    <2>1. PICK b \in Rollbacks : /\ btarget[b] = i
                                 /\ bpc[b] \in {"marked", "done", "failed", "lost"}
      BY <1>3 DEF Trail
    <2> QED BY <2>1
  <1> QED BY <1>2, <1>3 DEF Trail

\* Every step keeps Trail.
LEMMA NextTrail == StateInv /\ Logging /\ Trail /\ [Next]_vars => Trail'
  <1> SUFFICES ASSUME StateInv, Logging, Trail, [Next]_vars PROVE Trail'
    OBVIOUS
  <1>1. TypeOK /\ Approving /\ RollingBack
    BY DEF StateInv
  <1>2. ASSUME NEW p \in Proposals,
               \/ \E s \in Sections, v \in Settings : Propose(p, s, v)
               \/ Reject(p)
               \/ \E a \in Approvals : Refused(a, p) \/ Apply(a, p) \/ WriteFails(a, p)
        PROVE  Trail'
    BY <1>2, TrailUntouched DEF Propose, Reject, Refused, Apply, WriteFails, rollbackVars
  <1>3. ASSUME NEW a \in Approvals, RecordApplied(a) PROVE Trail'
    <2>1. log[a] = NoRow /\ arec[a].possible
      BY <1>1, <1>3 DEF RecordApplied, Approving, Logging
    <2>2. /\ bpc' = bpc /\ btarget' = btarget /\ log'[a] = arec[a]
          /\ \A i \in Ids \ {a} : log'[i] = log[i]
      BY <1>1, <1>3 DEF RecordApplied, rollbackVars, TypeOK, Ids
    <2>3. \A b \in Rollbacks : b # a /\ b \in Ids /\ btarget[b] \in Ids
      BY <1>1, CalibrationAssumption DEF TypeOK, Ids
    <2>4. \A b \in Rollbacks : Past(b) => btarget[b] # a
      BY <2>1 DEF Trail
    <2>5. \A b \in Rollbacks : Past(b)' <=> Past(b)
      BY <2>2 DEF Past
    <2> QED BY <2>1, <2>2, <2>3, <2>4, <2>5 DEF Trail, Ids
  <1>4. ASSUME NEW a \in Approvals, RecordFails(a) PROVE Trail'
    BY <1>4, TrailUntouched DEF RecordFails, rollbackVars
  <1>5. ASSUME NEW b \in Rollbacks, Select(b) \/ RollbackFails(b) PROVE Trail'
    <2>1. /\ log' = log /\ btarget' = btarget
          /\ bpc[b] \in {"idle", "selected", "marked"}
          /\ bpc'[b] \in {"selected", "refused", "failed"}
          /\ bpc[b] = "marked" => bpc'[b] = "failed"
          /\ \A x \in Rollbacks \ {b} : bpc'[x] = bpc[x]
      BY <1>1, <1>5 DEF Select, RollbackFails, TypeOK
    <2> QED BY <2>1, TrailUntouched
  <1>6. ASSUME NEW b \in Rollbacks, Mark(b) PROVE Trail'
    <2> DEFINE i == btarget[b]
    <2>1. i \in Ids /\ log[i] # NoRow /\ bpc[b] = "selected"
      BY <1>1, <1>6 DEF Mark, RollingBack, TypeOK
    <2>2. /\ btarget' = btarget /\ bpc'[b] = "marked"
          /\ \A x \in Rollbacks \ {b} : bpc'[x] = bpc[x]
          /\ log'[i] = Marked(i)
          /\ \A j \in Ids \ {i} : log'[j] = log[j]
      BY <1>1, <1>6, <2>1 DEF Mark, TypeOK
    <2>3. log'[i] # NoRow /\ ~log'[i].possible /\ log'[i].trigger = log[i].trigger
      BY <1>1, <2>1, <2>2, MarkedRow
    <2>4. \A x \in Rollbacks : x \in Ids /\ btarget[x] \in Ids
      BY <1>1 DEF TypeOK, Ids
    <2>5. \A x \in Rollbacks \ {b} : Past(x)' <=> Past(x)
      BY <2>2 DEF Past
    <2>6. ASSUME NEW x \in Rollbacks
          PROVE  /\ Past(x)' => log'[btarget'[x]] # NoRow /\ ~log'[btarget'[x]].possible
                 /\ bpc'[x] = "done" <=> log'[x] # NoRow
                 /\ log'[x] # NoRow => log'[x].trigger = btarget'[x] /\ ~log'[x].possible
      <3>1. Past(x)' => log'[btarget'[x]] # NoRow /\ ~log'[btarget'[x]].possible
        <4>1. CASE x = b
          BY <4>1, <2>2, <2>3
        <4>2. CASE x # b
          BY <4>2, <2>2, <2>3, <2>4, <2>5 DEF Trail
        <4> QED BY <4>1, <4>2
      <3>2. log'[x] # NoRow <=> log[x] # NoRow
        BY <2>1, <2>2, <2>3, <2>4
      <3>3. bpc'[x] = "done" <=> bpc[x] = "done"
        BY <2>1, <2>2
      <3>4. log[x] # NoRow => log'[x].trigger = log[x].trigger
                              /\ (~log[x].possible => ~log'[x].possible)
        BY <2>2, <2>3, <2>4
      <3> QED BY <3>1, <3>2, <3>3, <3>4, <2>2 DEF Trail
    <2>7. ASSUME NEW j \in Approvals, log'[j] # NoRow, ~log'[j].possible
          PROVE  \E x \in Rollbacks : /\ btarget'[x] = j
                                      /\ bpc'[x] \in {"marked", "done", "failed", "lost"}
      <3>1. CASE j = i
        BY <3>1, <2>2
      <3>2. CASE j # i
        <4>1. log'[j] = log[j]
          BY <3>2, <2>2 DEF Ids
        <4>2. PICK x \in Rollbacks : /\ btarget[x] = j
                                     /\ bpc[x] \in {"marked", "done", "failed", "lost"}
          BY <4>1, <2>7 DEF Trail
        <4> QED BY <4>2, <3>2, <2>2
      <3> QED BY <3>1, <3>2
    <2> QED BY <2>6, <2>7 DEF Trail
  <1>7. ASSUME NEW b \in Rollbacks, RecordReverse(b) PROVE Trail'
    <2> DEFINE rev == [section |-> borig[b].section, before |-> borig[b].after,
                       after |-> borig[b].before, trigger |-> btarget[b], possible |-> FALSE]
    <2>1. bpc[b] = "marked" /\ borig[b] \in Records
      BY <1>1, <1>7 DEF RecordReverse, RollingBack, TypeOK
    <2>2. rev # NoRow
      <3>1. rev \in Records
        BY <1>1, <2>1 DEF Records, TypeOK
      <3> QED BY <3>1, NoRowAssumption
    <2>3. /\ btarget' = btarget /\ bpc'[b] = "done"
          /\ \A x \in Rollbacks \ {b} : bpc'[x] = bpc[x]
          /\ log'[b] = rev
          /\ \A j \in Ids \ {b} : log'[j] = log[j]
      BY <1>1, <1>7 DEF RecordReverse, ReverseId, TypeOK, Ids
    <2>4. \A x \in Rollbacks : x \in Ids /\ btarget[x] \in Ids /\ x \notin Approvals
      BY <1>1, CalibrationAssumption DEF TypeOK, Ids
    <2>5. \A x \in Rollbacks : Past(x)' <=> Past(x)
      BY <2>1, <2>3 DEF Past
    <2>6. rev.trigger = btarget[b] /\ ~rev.possible
      OBVIOUS
    <2> HIDE DEF rev
    <2>7. ASSUME NEW x \in Rollbacks
          PROVE  /\ Past(x)' => log'[btarget'[x]] # NoRow /\ ~log'[btarget'[x]].possible
                 /\ bpc'[x] = "done" <=> log'[x] # NoRow
                 /\ log'[x] # NoRow => log'[x].trigger = btarget'[x] /\ ~log'[x].possible
      BY <2>2, <2>3, <2>4, <2>5, <2>6 DEF Trail
    <2>8. ASSUME NEW j \in Approvals, log'[j] # NoRow, ~log'[j].possible
          PROVE  \E x \in Rollbacks : /\ btarget'[x] = j
                                      /\ bpc'[x] \in {"marked", "done", "failed", "lost"}
      <3>1. log'[j] = log[j]
        BY <2>3, <2>4 DEF Ids
      <3>2. PICK x \in Rollbacks : /\ btarget[x] = j
                                   /\ bpc[x] \in {"marked", "done", "failed", "lost"}
        BY <3>1, <2>8 DEF Trail
      <3> QED BY <3>2, <2>3
    <2> QED BY <2>7, <2>8 DEF Trail
  <1>8. CASE Restart
    <2>1. /\ log' = log /\ btarget' = btarget
          /\ \A b \in Rollbacks : bpc'[b] = IF b \in InProgress THEN "lost" ELSE bpc[b]
      BY <1>8 DEF Restart
    <2> QED BY <2>1, TrailUntouched DEF InProgress
  <1>9. CASE UNCHANGED vars
    BY <1>9, TrailUntouched DEF vars, rollbackVars
  <1> QED BY <1>2, <1>3, <1>4, <1>5, <1>6, <1>7, <1>8, <1>9 DEF Next

\* Initially no rollback has started.
LEMMA InitTrail == Init => Trail
  BY DEF Init, Trail, Past, Ids

\* A rolled-back record can not be rolled back again, and one that can not be
\* has its reverse record or was marked by a rollback that stopped half way,
\* however many rollbacks interleave.
THEOREM MarkedIsAccountedFor == Spec => []MarkedHasReverse
  <1>1. Trail => MarkedHasReverse
    <2> SUFFICES ASSUME Trail, NEW i \in Approvals, log[i] # NoRow
                 PROVE  /\ (\E b \in Rollbacks : Reverses(b, i)) => ~log[i].possible
                        /\ ~log[i].possible =>
                             \E b \in Rollbacks :
                               \/ Reverses(b, i)
                               \/ btarget[b] = i /\ bpc[b] \in {"marked", "failed", "lost"}
      BY DEF MarkedHasReverse
    <2>1. ASSUME NEW b \in Rollbacks, Reverses(b, i) PROVE ~log[i].possible
      BY <2>1 DEF Reverses, Trail, Past
    <2>2. ASSUME ~log[i].possible
          PROVE  \E b \in Rollbacks :
                   \/ Reverses(b, i)
                   \/ btarget[b] = i /\ bpc[b] \in {"marked", "failed", "lost"}
      <3>1. PICK b \in Rollbacks : /\ btarget[b] = i
                                   /\ bpc[b] \in {"marked", "done", "failed", "lost"}
        BY <2>2 DEF Trail
      <3>2. bpc[b] = "done" => Reverses(b, i)
        BY <3>1 DEF Trail, Reverses
      <3> QED BY <3>1, <3>2
    <2> QED BY <2>1, <2>2
  <1> QED
    BY <1>1, InitLogging, NextLogging, InitTrail, NextTrail, StateInvariant, PTL DEF Spec
=============================================================================
