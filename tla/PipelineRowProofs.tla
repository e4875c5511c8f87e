-------------------------- MODULE PipelineRowProofs --------------------------
(***************************************************************************)
(* What the hypertables hold: what FlowResult.loaded_rows says of them and *)
(* what the quality gate let through, for any number of overlapping runs,  *)
(* any registry and any failures; and, of runs that do not overlap, which  *)
(* bad data is stored and that the aggregates follow.                      *)
(***************************************************************************)
EXTENDS PipelineProofs, FiniteSetTheorems

NoLoadError(r) == \A e \in errors[r] : e.stage # "load"

\* A primary key holds one row.
KeysUnique ==
  \A a, b \in tables : a.table = b.table /\ a.key = b.key => a = b

\* What a load has inserted and what the run has counted is stored.
Stored == \A r \in Runs : batch[r] \subseteq RowsBy(r) /\ counted[r] \subseteq RowsBy(r)

\* The rows of a run are those it counted and those of the load in progress,
\* unless a load was abandoned.
Accounted ==
  \A r \in Runs : NoLoadError(r) => RowsBy(r) \subseteq counted[r] \cup batch[r]

\* Only a run that is loading has a load in progress.
LoadsInPhase ==
  \A r \in Runs :
    /\ batch[r] # {} => Loading(r) # {}
    /\ Loading(r) # {} => pc[r] \in {"loading", "crashed"}

RowInv == KeysUnique /\ Stored /\ Accounted /\ LoadsInPhase

\* Nothing is stored, counted or being loaded initially.
LEMMA InitRows == Init => RowInv
  BY DEF Init, RowInv, KeysUnique, Stored, Accounted, LoadsInPhase, RowsBy, Loading

\* A step that stores and counts nothing, forgets no error and neither begins
\* nor ends a load keeps the invariant if no run leaves the loading phase with
\* a load in progress.
LEMMA RowsUntouched ==
  ASSUME RowInv, UNCHANGED <<tables, batch, counted>>,
         \A r \in Runs : errors[r] \subseteq errors'[r],
         \A r \in Runs : Loading(r)' = Loading(r),
         \A r \in Runs : Loading(r) # {} => pc'[r] = pc[r] \/ pc'[r] = "crashed"
  PROVE  RowInv'
  <1>1. KeysUnique' /\ Stored'
    BY DEF RowInv, KeysUnique, Stored, RowsBy
  <1>2. Accounted'
    BY DEF RowInv, Accounted, NoLoadError, RowsBy
  <1>3. LoadsInPhase'
    BY DEF RowInv, LoadsInPhase
  <1> QED BY <1>1, <1>2, <1>3 DEF RowInv

\* Reporting an error withdraws none.
LEMMA ReportGrows ==
  ASSUME NEW r \in Runs, TypeOK, NEW es, Report(r, es)
  PROVE  \A x \in Runs : errors[x] \subseteq errors'[x]
  BY DEF TypeOK, Report

\* A step of run r before or after its loading phase touches none of this.
LEMMA GotoRows ==
  ASSUME NEW r \in Runs, NEW from, NEW to, TypeOK, RowInv, Goto(r, from, to),
         from \in {"idle", "collecting", "cleaning", "connecting", "querying", "pushing",
                   "signalling"},
         UNCHANGED <<tables, batch, counted, dstat>>,
         \A x \in Runs : errors[x] \subseteq errors'[x]
  PROVE  RowInv'
  <1>1. \A x \in Runs : Loading(x)' = Loading(x)
    BY DEF Loading
  <1>2. \A x \in Runs : Loading(x) # {} => pc'[x] = pc[x] \/ pc'[x] = "crashed"
    BY DEF Goto, RowInv, LoadsInPhase, TypeOK
  <1> QED BY <1>1, <1>2, RowsUntouched

\* Start keeps the row invariant.
LEMMA StartRows ==
  ASSUME NEW r \in Runs, TypeOK, RowInv, Start(r) PROVE RowInv'
  BY GotoRows DEF Start, loadVars

\* Collect keeps the row invariant.
LEMMA CollectRows ==
  ASSUME NEW r \in Runs, NEW s \in Sources, TypeOK, RowInv,
         CollectOk(r, s) \/ CollectFails(r, s)
  PROVE  RowInv'
  BY RowsUntouched DEF CollectOk, CollectFails, Stay, loadVars, Loading

\* GatherCollected keeps the row invariant.
LEMMA GatherCollectedRows ==
  ASSUME NEW r \in Runs, TypeOK, RowInv, GatherCollected(r) PROVE RowInv'
  BY GotoRows, ReportGrows DEF GatherCollected, loadVars

\* Clean keeps the row invariant.
LEMMA CleanRows ==
  ASSUME NEW r \in Runs, TypeOK, RowInv, Clean(r) \/ CleanRaises(r) PROVE RowInv'
  <1>1. \A x \in Runs : errors[x] \subseteq errors'[x]
    BY ReportGrows DEF Clean, CleanRaises
  <1> QED BY <1>1, RowsUntouched DEF Clean, CleanRaises, Stay, loadVars, Loading

\* FinishCleaning keeps the row invariant.
LEMMA FinishCleaningRows ==
  ASSUME NEW r \in Runs, TypeOK, RowInv, FinishCleaning(r) PROVE RowInv'
  BY GotoRows DEF FinishCleaning, loadVars

\* ConnectFails keeps the row invariant.
LEMMA ConnectFailsRows ==
  ASSUME NEW r \in Runs, TypeOK, RowInv, ConnectFails(r) PROVE RowInv'
  BY GotoRows DEF ConnectFails, loadVars

\* Plan keeps the row invariant.
LEMMA PlanRows ==
  ASSUME NEW r \in Runs, TypeOK, RowInv, Plan(r) PROVE RowInv'
  <1>1. \A x \in Runs : errors[x] \subseteq errors'[x]
    BY ReportGrows DEF Plan
  <1>2. Loading(r) = {}
    BY DEF RowInv, LoadsInPhase, Plan, Goto
  <1>3. Loading(r)' = {}
    BY DEF Loading, Plan, TypeOK
  <1>4. \A x \in Runs \ {r} : Loading(x)' = Loading(x)
    BY DEF Loading, Plan, TypeOK
  <1>5. \A x \in Runs : Loading(x) # {} => pc'[x] = pc[x]
    BY <1>2 DEF Plan, Goto, TypeOK
  <1> QED BY <1>1, <1>2, <1>3, <1>4, <1>5, RowsUntouched DEF Plan, loadVars

\* Transform keeps the row invariant.
LEMMA TransformRows ==
  ASSUME NEW r \in Runs, NEW d \in Domains, TypeOK, RowInv,
         Transform(r, d) \/ TransformFails(r, d)
  PROVE  RowInv'
  <1>1. UNCHANGED <<tables, batch, counted, errors, pc>>
    BY DEF Transform, TransformFails, Stay, loadVars
  <1>2. \A x \in Runs : Loading(x)' = Loading(x)
    <2>1. PICK v \in {"transformed", "unusable"} : dstat' = [dstat EXCEPT ![r][d] = v]
      BY DEF Transform, TransformFails
    <2>2. dstat[r][d] = "planned"
      BY DEF Transform, TransformFails
    <2> QED BY <2>1, <2>2 DEF Loading, TypeOK
  <1> QED BY <1>1, <1>2, RowsUntouched

\* GatherTransformed keeps the row invariant.
LEMMA GatherTransformedRows ==
  ASSUME NEW r \in Runs, TypeOK, RowInv, GatherTransformed(r) PROVE RowInv'
  <1>1. Loading(r) = {}
    BY DEF RowInv, LoadsInPhase, GatherTransformed, Goto
  <1>2. \A x \in Runs : Loading(x)' = Loading(x)
    BY DEF GatherTransformed, Loading
  <1>3. \A x \in Runs : Loading(x) # {} => pc'[x] = pc[x]
    BY <1>1 DEF GatherTransformed, Goto, TypeOK
  <1>4. \A x \in Runs : errors[x] \subseteq errors'[x]
    BY ReportGrows DEF GatherTransformed
  <1> QED BY <1>2, <1>3, <1>4, RowsUntouched DEF GatherTransformed, loadVars

\* The frame is read when no load is in progress, so the batch was empty.
LEMMA ReadFrameRows ==
  ASSUME NEW r \in Runs, TypeOK, RowInv, ReadFrame(r) PROVE RowInv'
  <1>1. batch[r] = {}
    BY DEF ReadFrame, RowInv, LoadsInPhase
  <1>2. UNCHANGED <<tables, counted, errors, pc>> /\ pc[r] = "loading"
    BY DEF ReadFrame, Stay
  <1>3. batch' = batch
    BY <1>1 DEF ReadFrame, TypeOK
  <1>4. PICK d \in Domains : dstat' = [dstat EXCEPT ![r][d] = "loading"]
    BY DEF ReadFrame, NextDomain, FirstOf, ToLoad
  <1>5. \A x \in Runs \ {r} : Loading(x)' = Loading(x)
    BY <1>4 DEF Loading, TypeOK
  <1>6. KeysUnique' /\ Stored' /\ Accounted'
    BY <1>2, <1>3 DEF RowInv, KeysUnique, Stored, RowsBy, Accounted, NoLoadError
  <1>7. LoadsInPhase'
    BY <1>1, <1>2, <1>3, <1>5 DEF RowInv, LoadsInPhase
  <1> QED BY <1>6, <1>7 DEF RowInv

\* ReadFails keeps the row invariant.
LEMMA ReadFailsRows ==
  ASSUME NEW r \in Runs, TypeOK, RowInv, ReadFails(r) PROVE RowInv'
  <1>1. PICK d \in NextDomain(r) : /\ dstat' = [dstat EXCEPT ![r][d] = "unloaded"]
                                   /\ Report(r, {Err("load", d)})
    BY DEF ReadFails
  <1>2. \A x \in Runs : Loading(x)' = Loading(x)
    <2>1. dstat[r][d] = "transformed"
      BY DEF NextDomain, FirstOf, ToLoad
    <2> QED BY <1>1, <2>1 DEF Loading, TypeOK
  <1>3. \A x \in Runs : errors[x] \subseteq errors'[x]
    BY <1>1, ReportGrows
  <1> QED BY <1>2, <1>3, RowsUntouched DEF ReadFails, Stay, loadVars

\* An abandoned load is reported, which excuses the rows it leaves behind.
LEMMA AbandonLoadRows ==
  ASSUME NEW r \in Runs, NEW d \in Loading(r), TypeOK, RowInv, Stay(r, "loading"),
         AbandonLoad(r, d)
  PROVE  RowInv'
  <1>1. UNCHANGED <<tables, counted, pc>> /\ pc[r] = "loading"
    BY DEF AbandonLoad, Stay
  <1>2. batch' = [batch EXCEPT ![r] = {}]
    BY DEF AbandonLoad
  <1>3. ~NoLoadError(r)'
    <2>1. Err("load", d) \in errors'[r]
      BY DEF AbandonLoad, Report, TypeOK
    <2>2. Err("load", d).stage = "load"
      BY DEF Err
    <2> QED BY <2>1, <2>2 DEF NoLoadError
  <1>4. \A x \in Runs \ {r} : NoLoadError(x)' = NoLoadError(x) /\ Loading(x)' = Loading(x)
    BY DEF AbandonLoad, Report, NoLoadError, Loading, TypeOK
  <1>5. KeysUnique' /\ Stored'
    BY <1>1, <1>2 DEF RowInv, KeysUnique, Stored, RowsBy, TypeOK
  <1>6. Accounted'
    BY <1>1, <1>2, <1>3, <1>4 DEF RowInv, Accounted, RowsBy, TypeOK
  <1>7. LoadsInPhase'
    BY <1>1, <1>2, <1>4 DEF RowInv, LoadsInPhase, TypeOK
  <1> QED BY <1>5, <1>6, <1>7 DEF RowInv

\* The rows of a table are stored, and counted with the last table of the
\* domain: none of them has the key of a stored row.
LEMMA LoadTableRows ==
  ASSUME NEW r \in Runs, NEW d \in Domains, TypeInv, RowInv, LoadTable(r, d)
  PROVE  RowInv'
  <1> DEFINE t == DomainTables[d][tbl[r]]
             c == frame[r][t]
             new == NewRows(r, t, c)
  <1>1. Stay(r, "loading") /\ d \in Loading(r)
    BY DEF LoadTable
  <1>2. TypeOK
    BY DEF TypeInv
  <1>3. CASE Conflicts(t, c.keys)
    BY <1>1, <1>2, <1>3, AbandonLoadRows DEF LoadTable
  <1>4. CASE ~Conflicts(t, c.keys)
    <2>1. \A a, b \in new : a.key = b.key => a = b
      BY DEF NewRows
    <2>2. \A a \in new, b \in tables : ~(a.table = b.table /\ a.key = b.key)
      <3>1. \A a \in new : a.table = t /\ a.key \in c.keys
        BY DEF NewRows
      <3>2. \A b \in tables : ~(b.table = t /\ b.key \in c.keys)
        BY <1>4 DEF Conflicts
      <3> HIDE DEF new, t, c
      <3> QED BY <3>1, <3>2, Zenon
    <2>3. tables' = tables \cup new
      BY <1>4 DEF LoadTable
    <2>4. KeysUnique'
      BY <2>1, <2>2, <2>3 DEF KeysUnique, RowInv
    <2>5. \A a \in new : a.by = r
      BY DEF NewRows
    <2>6. UNCHANGED <<errors, pc>> /\ pc[r] = "loading"
      BY <1>1, <1>4 DEF LoadTable, Stay
    <2>7. /\ RowsBy(r)' = RowsBy(r) \cup new
          /\ \A x \in Runs \ {r} : RowsBy(x)' = RowsBy(x)
      BY <2>3, <2>5 DEF RowsBy
    <2> HIDE DEF new
    <2>8. CASE tbl[r] < Len(DomainTables[d])
      <3>1. batch' = [batch EXCEPT ![r] = batch[r] \cup new] /\ UNCHANGED <<counted, dstat>>
        BY <1>4, <2>8 DEF LoadTable, new
      <3>2. Stored'
        BY <2>7, <3>1, <1>2 DEF RowInv, Stored, TypeOK
      <3>3. Accounted'
        BY <2>6, <2>7, <3>1, <1>2 DEF RowInv, Accounted, NoLoadError, TypeOK
      <3>4. LoadsInPhase'
        BY <1>1, <2>6, <3>1, <1>2 DEF RowInv, LoadsInPhase, Loading, TypeOK
      <3> QED BY <2>4, <3>2, <3>3, <3>4 DEF RowInv
    <2>9. CASE ~(tbl[r] < Len(DomainTables[d]))
      <3>1. /\ dstat' = [dstat EXCEPT ![r][d] = "loaded"]
            /\ counted' = [counted EXCEPT ![r] = counted[r] \cup (batch[r] \cup new)]
            /\ batch' = [batch EXCEPT ![r] = {}]
        BY <1>4, <2>9 DEF LoadTable, new
      <3>2. Stored'
        BY <2>7, <3>1, <1>2 DEF RowInv, Stored, TypeOK
      <3>3. Accounted'
        BY <2>6, <2>7, <3>1, <1>2 DEF RowInv, Accounted, NoLoadError, TypeOK
      <3>4. \A x \in Runs \ {r} : Loading(x)' = Loading(x)
        BY <3>1, <1>2 DEF Loading, TypeOK
      <3>5. LoadsInPhase'
        BY <2>6, <3>1, <3>4, <1>2 DEF RowInv, LoadsInPhase, TypeOK
      <3> QED BY <2>4, <3>2, <3>3, <3>5 DEF RowInv
    <2> QED BY <2>8, <2>9
  <1> QED BY <1>3, <1>4

\* A failed insert abandons the load.
LEMMA LoadFailsRows ==
  ASSUME NEW r \in Runs, NEW d \in Domains, TypeOK, RowInv, LoadFails(r, d) PROVE RowInv'
  BY AbandonLoadRows DEF LoadFails

\* When the load loop ends no row is waiting to be counted.
LEMMA FinishLoadingRows ==
  ASSUME NEW r \in Runs, TypeOK, RowInv, FinishLoading(r) PROVE RowInv'
  <1>1. \A x \in Runs : Loading(x)' = Loading(x)
    BY DEF FinishLoading, Loading
  <1>2. \A x \in Runs : Loading(x) # {} => pc'[x] = pc[x]
    BY DEF FinishLoading, Goto, TypeOK
  <1> QED BY <1>1, <1>2, RowsUntouched DEF FinishLoading, loadVars

\* A step of the synchronisation.
LEMMA SyncRows ==
  ASSUME NEW r \in Runs, TypeOK, RowInv,
         \/ QueryAggregate(r) \/ QueryFails(r) \/ PushAggregate(r) \/ PushFails(r)
         \/ SyncRaises(r) \/ InsertSignals(r) \/ SignalsFail(r)
  PROVE  RowInv'
  <1>1. UNCHANGED <<tables, batch, counted, dstat>>
    BY DEF QueryAggregate, QueryFails, PushAggregate, PushFails, SyncRaises, InsertSignals,
           SignalsFail, loadVars
  <1>2. \A x \in Runs : errors[x] \subseteq errors'[x]
    BY ReportGrows DEF QueryAggregate, QueryFails, PushAggregate, PushFails, SyncRaises,
                       InsertSignals, SignalsFail
  <1>3. pc[r] \in {"querying", "pushing", "signalling"} /\ \A x \in Runs \ {r} : pc'[x] = pc[x]
    BY DEF QueryAggregate, QueryFails, PushAggregate, PushFails, SyncRaises, InsertSignals,
           SignalsFail, Goto, AfterMapping, TypeOK
  <1>4. \A x \in Runs : Loading(x)' = Loading(x)
    BY <1>1 DEF Loading
  <1>5. \A x \in Runs : Loading(x) # {} => pc'[x] = pc[x]
    BY <1>3 DEF RowInv, LoadsInPhase
  <1> QED BY <1>1, <1>2, <1>4, <1>5, RowsUntouched

\* A crash changes no row, and its run never reports.
LEMMA CrashRows ==
  ASSUME NEW r \in Runs, TypeOK, RowInv, Crash(r) PROVE RowInv'
  <1>1. \A x \in Runs : Loading(x)' = Loading(x)
    BY DEF Crash, Loading
  <1>2. \A x \in Runs : pc'[x] = pc[x] \/ pc'[x] = "crashed"
    BY DEF Crash, TypeOK
  <1> QED BY <1>1, <1>2, RowsUntouched DEF Crash, loadVars

\* Every step keeps the invariant.
LEMMA NextRows == TypeInv /\ RowInv /\ [Next]_vars => RowInv'
  <1> SUFFICES ASSUME TypeInv, RowInv, [Next]_vars PROVE RowInv'
    OBVIOUS
  <1>1. TypeOK
    BY DEF TypeInv
  <1>2. ASSUME NEW r \in Runs, Start(r) \/ Crash(r) PROVE RowInv'
    BY <1>1, <1>2, StartRows, CrashRows
  <1>3. ASSUME NEW r \in Runs, RunStep(r) PROVE RowInv'
    <2>1. ASSUME NEW s \in Sources, CollectOk(r, s) \/ CollectFails(r, s) PROVE RowInv'
      BY <1>1, <2>1, CollectRows
    <2>2. ASSUME NEW d \in Domains, Transform(r, d) \/ TransformFails(r, d) PROVE RowInv'
      BY <1>1, <2>2, TransformRows
    <2>3. ASSUME NEW d \in Domains, LoadTable(r, d) \/ LoadFails(r, d) PROVE RowInv'
      BY <1>1, <2>3, LoadTableRows, LoadFailsRows
    <2>4. CASE \/ GatherCollected(r) \/ Clean(r) \/ CleanRaises(r) \/ FinishCleaning(r)
               \/ ConnectFails(r) \/ Plan(r)
      BY <1>1, <2>4, GatherCollectedRows, CleanRows, FinishCleaningRows, ConnectFailsRows, PlanRows
    <2>5. CASE \/ GatherTransformed(r) \/ ReadFrame(r) \/ ReadFails(r) \/ FinishLoading(r)
      BY <1>1, <2>5, GatherTransformedRows, ReadFrameRows, ReadFailsRows, FinishLoadingRows
    <2>6. CASE \/ QueryAggregate(r) \/ QueryFails(r) \/ PushAggregate(r) \/ PushFails(r)
               \/ SyncRaises(r) \/ InsertSignals(r) \/ SignalsFail(r)
      BY <1>1, <2>6, SyncRows
    <2> QED BY <1>3, <2>1, <2>2, <2>3, <2>4, <2>5, <2>6 DEF RunStep
  <1>4. CASE UNCHANGED vars
    BY <1>4 DEF RowInv, KeysUnique, Stored, Accounted, LoadsInPhase, RowsBy, NoLoadError,
                Loading, vars, loadVars
  <1>5. ASSUME NEW k \in MayAge, Age(k) PROVE RowInv'
    BY <1>5 DEF RowInv, KeysUnique, Stored, Accounted, LoadsInPhase, RowsBy, NoLoadError,
                Loading, Age, loadVars
  <1> QED BY <1>2, <1>3, <1>4, <1>5 DEF Next

\* Stored rows have distinct keys and are counted, being counted, or excused by a load error.
THEOREM RowsInvariant == Spec => []RowInv
  <1> QED BY InitRows, NextRows, TypesInvariant, PTL DEF Spec

\* The loaded_rows of two runs never both count the row of a primary key.
THEOREM RowsCountedOnce == Spec => []CountedOnce
  <1>1. RowInv => CountedOnce
    BY DEF RowInv, KeysUnique, Stored, CountedOnce, RowsBy
  <1> QED BY <1>1, RowsInvariant, PTL

\* loaded_rows counts stored rows only, and all of them when no load failed.
THEOREM LoadedRowsAreExact == Spec => []LoadedRowsExact
  <1>1. RowInv => LoadedRowsExact
    BY DEF RowInv, Stored, Accounted, LoadsInPhase, NoLoadError, LoadedRowsExact
  <1> QED BY <1>1, RowsInvariant, PTL

-----------------------------------------------------------------------------
\* The quality gate cannot be bypassed within a run: whatever runs overlap and
\* whatever fails, a run stores rows only of domains its own cleaning let through.

Early == {"idle", "collecting", "cleaning", "connecting"}

\* A domain of a run gets a state only when it was admitted, ...
Planned ==
  \A r \in Runs, d \in Domains :
    dstat[r][d] # "none" => d \in DomainsOf(flow[r]) /\ Acceptable(r, d)

\* ... which is after all its sources were collected and cleaned.
NotYetPlanned ==
  \A r \in Runs : pc[r] \in Early => \A d \in Domains : dstat[r][d] = "none"

\* Rows come from the load of an admitted domain.
Sourced ==
  \A row \in tables :
    \E d \in Domains : dstat[row.by][d] # "none" /\ row.table \in TablesOf(d)

GateInv == Planned /\ NotYetPlanned /\ Sourced

\* Nothing is planned or stored initially.
LEMMA InitGate == Init => GateInv
  BY DEF Init, GateInv, Planned, NotYetPlanned, Sourced

\* What a run does before planning concerns domains that have no state yet.
LEMMA BeforePlanning ==
  ASSUME NEW r \in Runs, TypeOK, GateInv, pc[r] \in Early,
         UNCHANGED <<flow, dstat, tables>>,
         \A x \in Runs \ {r} : sstat'[x] = sstat[x] /\ fstat'[x] = fstat[x] /\ pc'[x] = pc[x]
  PROVE  GateInv'
  <1>1. \A d \in Domains : dstat[r][d] = "none"
    BY DEF GateInv, NotYetPlanned
  <1>2. ASSUME NEW x \in Runs, NEW d \in Domains, dstat'[x][d] # "none"
        PROVE  (d \in DomainsOf(flow[x]) /\ Acceptable(x, d))'
    <2>1. x # r
      BY <1>1, <1>2
    <2>2. d \in DomainsOf(flow[x]) /\ Acceptable(x, d)
      BY <1>2 DEF GateInv, Planned
    <2> QED BY <2>1, <2>2 DEF Acceptable
  <1>3. NotYetPlanned'
    BY <1>1 DEF GateInv, NotYetPlanned
  <1>4. Sourced'
    BY DEF GateInv, Sourced
  <1> QED BY <1>2, <1>3, <1>4 DEF GateInv, Planned

\* After planning the outcomes of collecting and cleaning are fixed and domains
\* keep a state.
LEMMA AfterPlanning ==
  ASSUME TypeOK, GateInv, UNCHANGED <<flow, sstat, fstat, tables>>,
         \A x \in Runs : pc'[x] \in Early => pc[x] \in Early,
         \A x \in Runs, d \in Domains : dstat'[x][d] = "none" <=> dstat[x][d] = "none"
  PROVE  GateInv'
  <1>1. Planned'
    BY DEF GateInv, Planned, Acceptable
  <1>2. NotYetPlanned'
    BY DEF GateInv, NotYetPlanned
  <1>3. Sourced'
    BY DEF GateInv, Sourced, TypeOK, Rows
  <1> QED BY <1>1, <1>2, <1>3 DEF GateInv

\* The steps up to connecting to the databases keep the invariant.
LEMMA EarlyGate ==
  ASSUME NEW r \in Runs, TypeOK, GateInv,
         \/ Start(r) \/ GatherCollected(r) \/ Clean(r) \/ CleanRaises(r)
         \/ FinishCleaning(r) \/ ConnectFails(r)
         \/ \E s \in Sources : CollectOk(r, s) \/ CollectFails(r, s)
  PROVE  GateInv'
  <1>1. pc[r] \in Early /\ UNCHANGED <<flow, dstat, tables>>
    BY DEF Early, Start, GatherCollected, Clean, CleanRaises, FinishCleaning, ConnectFails,
           CollectOk, CollectFails, Goto, Stay, runVars
  <1>2. \A x \in Runs \ {r} : pc'[x] = pc[x]
    BY DEF TypeOK, Start, GatherCollected, Clean, CleanRaises, FinishCleaning, ConnectFails,
           CollectOk, CollectFails, Goto, Stay
  <1>3. \A x \in Runs \ {r} : sstat'[x] = sstat[x]
    BY DEF TypeOK, Start, GatherCollected, Clean, CleanRaises, FinishCleaning, ConnectFails,
           CollectOk, CollectFails
  <1>4. \A x \in Runs \ {r} : fstat'[x] = fstat[x]
    BY DEF TypeOK, Start, GatherCollected, Clean, CleanRaises, FinishCleaning, ConnectFails,
           CollectOk, CollectFails
  <1> QED BY <1>1, <1>2, <1>3, <1>4, BeforePlanning

\* The first loop of transform_and_load admits only acceptable domains: a
\* source that feeds an input matches it, so if it was refused it blocks the
\* domain, and the fresh source is one that feeds it.
LEMMA AdmittedAcceptable ==
  ASSUME NEW r \in Runs, TypeOK, NEW d \in Domains, Admitted(r, d)
  PROVE  d \in DomainsOf(flow[r]) /\ Acceptable(r, d)
  <1> DEFINE feeding == {s \in SourcesOf(flow[r]) :
               sstat[r][s] = "ok" /\ \E k \in DomainInputs[flow[r]][d] : Feeds(s, k)}
  <1>1. ASSUME NEW s \in feeding PROVE fstat[r][RawFile[s]] \notin {"gate", "raised"}
    BY DEF Admitted, Blocked, Matches, GateFailed, Collected, Feeds
  <1>2. \E s \in feeding : fstat[r][RawFile[s]] = "clean"
    BY DEF Admitted, Fresh, Matches, CleanedSources, Collected, Feeds
  <1> QED BY <1>1, <1>2 DEF Admitted, Acceptable

\* Planning admits acceptable domains only.
LEMMA PlanGate ==
  ASSUME NEW r \in Runs, TypeOK, GateInv, Plan(r) PROVE GateInv'
  <1>1. UNCHANGED <<flow, sstat, fstat, tables>> /\ pc[r] = "connecting"
    BY DEF Plan, Goto, runVars
  <1>2. pc'[r] = "transforming" /\ \A x \in Runs \ {r} : pc'[x] = pc[x]
    BY DEF Plan, Goto, TypeOK
  <1>3. /\ \A d \in Domains : dstat'[r][d] = (IF Admitted(r, d) THEN "planned" ELSE "none")
        /\ \A x \in Runs \ {r} : dstat'[x] = dstat[x]
    BY DEF Plan, TypeOK
  <1>4. Planned'
    <2>1. ASSUME NEW x \in Runs, NEW d \in Domains, dstat'[x][d] # "none"
          PROVE  d \in DomainsOf(flow[x]) /\ Acceptable(x, d)
      <3>1. CASE x = r
        BY <1>3, <2>1, <3>1, AdmittedAcceptable
      <3>2. CASE x # r
        BY <1>3, <2>1, <3>2 DEF GateInv, Planned
      <3> QED BY <3>1, <3>2
    <2> QED BY <1>1, <2>1 DEF Planned, Acceptable
  <1>5. NotYetPlanned'
    BY <1>2, <1>3 DEF GateInv, NotYetPlanned, Early
  <1>6. Sourced'
    <2>1. \A d \in Domains : dstat[r][d] = "none"
      BY <1>1 DEF GateInv, NotYetPlanned, Early
    <2> QED BY <1>1, <1>3, <2>1 DEF GateInv, Sourced, TypeOK, Rows
  <1> QED BY <1>4, <1>5, <1>6 DEF GateInv

\* Transforming, reading and giving up a domain moves it between states.
LEMMA MovedGate ==
  ASSUME NEW r \in Runs, TypeOK, GateInv, UNCHANGED <<pc, flow, sstat, fstat, tables>>,
         NEW d \in Domains, dstat[r][d] # "none",
         NEW v \in {"transformed", "unusable", "loading", "loaded", "unloaded"},
         dstat' = [dstat EXCEPT ![r][d] = v]
  PROVE  GateInv'
  <1>1. \A x \in Runs, e \in Domains : dstat'[x][e] = "none" <=> dstat[x][e] = "none"
    BY DEF TypeOK
  <1> QED BY <1>1, AfterPlanning

\* Transforming a domain keeps the invariant.
LEMMA TransformGate ==
  ASSUME NEW r \in Runs, NEW d \in Domains, TypeOK, GateInv,
         Transform(r, d) \/ TransformFails(r, d)
  PROVE  GateInv'
  <1>1. /\ UNCHANGED <<pc, flow, sstat, fstat, tables>>
        /\ dstat[r][d] # "none"
    BY DEF Transform, TransformFails, Stay, runVars
  <1>2. PICK v \in {"transformed", "unusable"} : dstat' = [dstat EXCEPT ![r][d] = v]
    BY DEF Transform, TransformFails
  <1> QED BY <1>1, <1>2, MovedGate

\* Reading a transformed file keeps the invariant.
LEMMA ReadGate ==
  ASSUME NEW r \in Runs, TypeOK, GateInv, ReadFrame(r) \/ ReadFails(r) PROVE GateInv'
  <1>1. UNCHANGED <<pc, flow, sstat, fstat, tables>>
    BY DEF ReadFrame, ReadFails, Stay, runVars
  <1>2. PICK d \in NextDomain(r), v \in {"loading", "unloaded"} :
          dstat' = [dstat EXCEPT ![r][d] = v]
    BY DEF ReadFrame, ReadFails
  <1>3. d \in Domains /\ dstat[r][d] # "none"
    BY DEF NextDomain, FirstOf, ToLoad
  <1> QED BY <1>1, <1>2, <1>3, MovedGate

\* Giving up a domain keeps the invariant.
LEMMA AbandonLoadGate ==
  ASSUME NEW r \in Runs, NEW d \in Loading(r), TypeOK, GateInv, AbandonLoad(r, d),
         UNCHANGED <<pc, flow, sstat, fstat>>
  PROVE  GateInv'
  <1>1. d \in Domains /\ dstat[r][d] # "none"
    BY DEF Loading
  <1> QED BY <1>1, MovedGate DEF AbandonLoad

\* The rows inserted belong to the domain being loaded, which was admitted.
LEMMA LoadTableGate ==
  ASSUME NEW r \in Runs, NEW d \in Domains, TypeInv, GateInv, LoadTable(r, d) PROVE GateInv'
  <1> DEFINE t == DomainTables[d][tbl[r]]
             c == frame[r][t]
             new == NewRows(r, t, c)
  <1>1. d \in Loading(r) /\ UNCHANGED <<pc, flow, sstat, fstat>>
    BY DEF LoadTable, Stay, runVars
  <1>2. TypeOK
    BY DEF TypeInv
  <1>3. CASE Conflicts(t, c.keys)
    BY <1>1, <1>2, <1>3, AbandonLoadGate DEF LoadTable
  <1>4. CASE ~Conflicts(t, c.keys)
    <2>1. tables' = tables \cup new
      BY <1>4 DEF LoadTable
    <2>2. \A row \in new : row.by = r /\ row.table = t
      BY DEF NewRows
    <2>3. t \in TablesOf(d)
      <3>1. tbl[r] \in DOMAIN DomainTables[d]
        BY <1>1, TableTypes, RegistryAssumption
      <3> QED BY <3>1 DEF TablesOf
    <2>4. \A x \in Runs, e \in Domains : dstat'[x][e] = "none" <=> dstat[x][e] = "none"
      <3>1. dstat' = dstat \/ dstat' = [dstat EXCEPT ![r][d] = "loaded"]
        BY <1>4 DEF LoadTable
      <3>2. dstat[r][d] = "loading"
        BY <1>1 DEF Loading
      <3>3. CASE dstat' = [dstat EXCEPT ![r][d] = "loaded"]
        BY <1>2, <3>2, <3>3 DEF TypeOK
      <3> QED BY <3>1, <3>3
    <2> HIDE DEF new
    <2>5. Planned'
      BY <1>1, <2>4 DEF GateInv, Planned, Acceptable
    <2>6. NotYetPlanned'
      BY <1>1, <2>4 DEF GateInv, NotYetPlanned
    <2>7. Sourced'
      <3>1. ASSUME NEW row \in new
            PROVE  \E e \in Domains : dstat'[row.by][e] # "none" /\ row.table \in TablesOf(e)
        BY <1>1, <2>2, <2>3, <2>4 DEF Loading
      <3>2. ASSUME NEW row \in tables
            PROVE  \E e \in Domains : dstat'[row.by][e] # "none" /\ row.table \in TablesOf(e)
        BY <1>2, <2>4 DEF GateInv, Sourced, TypeOK, Rows
      <3> QED BY <2>1, <3>1, <3>2 DEF Sourced
    <2> QED BY <2>5, <2>6, <2>7 DEF GateInv
  <1> QED BY <1>3, <1>4

\* The synchronisation, a crash and the other steps store no row.
LEMMA LaterGate ==
  ASSUME NEW r \in Runs, TypeOK, GateInv,
         \/ GatherTransformed(r) \/ FinishLoading(r) \/ QueryAggregate(r) \/ QueryFails(r)
         \/ PushAggregate(r) \/ PushFails(r) \/ SyncRaises(r) \/ InsertSignals(r)
         \/ SignalsFail(r) \/ Crash(r)
  PROVE  GateInv'
  <1> USE DEF GatherTransformed, FinishLoading, QueryAggregate, QueryFails, PushAggregate,
              PushFails, SyncRaises, InsertSignals, SignalsFail, Crash
  <1>1. UNCHANGED <<flow, sstat, fstat, tables, dstat>>
    BY DEF runVars
  <1>2. \A x \in Runs : pc'[x] = pc[x] \/ pc'[x] \notin Early
    BY DEF TypeOK, Goto, AfterMapping, Early
  <1> QED BY <1>1, <1>2, AfterPlanning

\* Every step keeps the invariant.
LEMMA NextGate == TypeInv /\ GateInv /\ [Next]_vars => GateInv'
  <1> SUFFICES ASSUME TypeInv, GateInv, [Next]_vars PROVE GateInv'
    OBVIOUS
  <1>1. TypeOK
    BY DEF TypeInv
  <1>2. ASSUME NEW r \in Runs, Start(r) \/ RunStep(r) \/ Crash(r) PROVE GateInv'
    <2>1. ASSUME NEW s \in Sources, CollectOk(r, s) \/ CollectFails(r, s) PROVE GateInv'
      BY <1>1, <2>1, EarlyGate
    <2>2. CASE \/ Start(r) \/ GatherCollected(r) \/ Clean(r) \/ CleanRaises(r)
               \/ FinishCleaning(r) \/ ConnectFails(r)
      BY <1>1, <2>2, EarlyGate
    <2>3. CASE Plan(r)
      BY <1>1, <2>3, PlanGate
    <2>4. ASSUME NEW d \in Domains, Transform(r, d) \/ TransformFails(r, d) PROVE GateInv'
      BY <1>1, <2>4, TransformGate
    <2>5. CASE ReadFrame(r) \/ ReadFails(r)
      BY <1>1, <2>5, ReadGate
    <2>6. ASSUME NEW d \in Domains, LoadTable(r, d) PROVE GateInv'
      BY <2>6, LoadTableGate
    <2>7. ASSUME NEW d \in Domains, LoadFails(r, d) PROVE GateInv'
      BY <1>1, <2>7, AbandonLoadGate DEF LoadFails, Stay, runVars
    <2>8. CASE \/ GatherTransformed(r) \/ FinishLoading(r) \/ QueryAggregate(r) \/ QueryFails(r)
               \/ PushAggregate(r) \/ PushFails(r) \/ SyncRaises(r) \/ InsertSignals(r)
               \/ SignalsFail(r) \/ Crash(r)
      BY <1>1, <2>8, LaterGate
    <2> QED BY <1>2, <2>1, <2>2, <2>3, <2>4, <2>5, <2>6, <2>7, <2>8 DEF RunStep
  <1>3. CASE UNCHANGED vars
    BY <1>1, <1>3, AfterPlanning DEF vars, runVars
  <1>4. ASSUME NEW k \in MayAge, Age(k) PROVE GateInv'
    BY <1>1, <1>4, AfterPlanning DEF Age, runVars
  <1> QED BY <1>2, <1>3, <1>4 DEF Next

\* A run stores rows only of domains whose inputs its own cleaning accepted.
THEOREM GateNotBypassed == Spec => []GateRespected
  <1>1. TypeOK /\ GateInv => GateRespected
    BY DEF GateInv, Planned, Sourced, GateRespected, TypeOK, Rows
  <1> QED BY <1>1, InitGate, NextGate, TypesInvariant, TypeCorrect, PTL DEF Spec

-----------------------------------------------------------------------------
\* Runs that do not overlap.

AtMostOne == \A r, x \in Runs : pc[r] \in Active /\ pc[x] \in Active => r = x

\* With MaxActive = 1 a run starts when no other is in progress.
LEMMA StartsAlone ==
  ASSUME IsFiniteSet(Runs), MaxActive = 1, NEW r \in Runs, Start(r)
  PROVE  \A x \in Runs : pc[x] \notin Active
  <1> DEFINE busy == {x \in Runs : pc[x] \in Active}
  <1>1. Cardinality(busy) < 1
    BY DEF Start
  <1>2. busy \in SUBSET Runs
    OBVIOUS
  <1>3. busy = {} => \A x \in Runs : pc[x] \notin Active
    OBVIOUS
  <1> HIDE DEF busy
  <1>4. IsFiniteSet(busy)
    BY <1>2, FS_Subset, Zenon
  <1>5. Cardinality(busy) = 0
    BY <1>1, <1>4, FS_CardinalityType
  <1> QED BY <1>3, <1>4, <1>5, FS_EmptySet, Zenon

\* A step moves the run it belongs to, which is starting or in progress.
LEMMA OneMoves ==
  ASSUME TypeOK, NEW r \in Runs, Start(r) \/ RunStep(r) \/ Crash(r)
  PROVE  /\ \A x \in Runs \ {r} : pc'[x] = pc[x]
         /\ Start(r) \/ pc[r] \in Active
         /\ pc'[r] # "idle"
         /\ UNCHANGED runVars
  <1>1. (\A x \in Runs \ {r} : pc'[x] = pc[x]) /\ pc'[r] # "idle"
    BY DEF RunStep, Start, Crash, CollectOk, CollectFails, GatherCollected, Clean, CleanRaises,
           FinishCleaning, ConnectFails, Plan, Transform, TransformFails, GatherTransformed,
           ReadFrame, ReadFails, LoadTable, LoadFails, FinishLoading, QueryAggregate,
           QueryFails, PushAggregate, PushFails, SyncRaises, InsertSignals, SignalsFail,
           AfterMapping, Goto, Stay, TypeOK
  <1>2. Start(r) \/ pc[r] \in Active
    BY DEF RunStep, Crash, CollectOk, CollectFails, GatherCollected, Clean, CleanRaises,
           FinishCleaning, ConnectFails, Plan, Transform, TransformFails, GatherTransformed,
           ReadFrame, ReadFails, LoadTable, LoadFails, FinishLoading, QueryAggregate,
           QueryFails, PushAggregate, PushFails, SyncRaises, InsertSignals, SignalsFail,
           Goto, Stay, Active
  <1>3. UNCHANGED runVars
    BY DEF RunStep, Start, Crash, CollectOk, CollectFails, GatherCollected, Clean, CleanRaises,
           FinishCleaning, ConnectFails, Plan, Transform, TransformFails, GatherTransformed,
           ReadFrame, ReadFails, LoadTable, LoadFails, FinishLoading, QueryAggregate,
           QueryFails, PushAggregate, PushFails, SyncRaises, InsertSignals, SignalsFail
  <1> QED BY <1>1, <1>2, <1>3

\* Steps keep one run in progress at most.
LEMMA NextAlone ==
  ASSUME IsFiniteSet(Runs), MaxActive = 1
  PROVE  TypeOK /\ AtMostOne /\ [Next]_vars => AtMostOne'
  <1> SUFFICES ASSUME TypeOK, AtMostOne, [Next]_vars PROVE AtMostOne'
    OBVIOUS
  <1>1. ASSUME NEW r \in Runs, Start(r) \/ RunStep(r) \/ Crash(r) PROVE AtMostOne'
    <2>1. \A x \in Runs : pc[x] \in Active => x = r
      BY <1>1, OneMoves, StartsAlone DEF AtMostOne
    <2> QED BY <1>1, <2>1, OneMoves DEF AtMostOne
  <1>2. CASE UNCHANGED vars
    BY <1>2 DEF vars, AtMostOne
  <1>3. ASSUME NEW k \in MayAge, Age(k) PROVE AtMostOne'
    BY <1>3 DEF Age, AtMostOne
  <1> QED BY <1>1, <1>2, <1>3 DEF Next

-----------------------------------------------------------------------------
\* The data stored by runs that do not overlap is good, unless a domain was
\* given a file of an earlier run.

\* A domain was given files of its run only.
FreshOnly(r, d) == \A p \in inputs[r][d] : ~Stale(r, p)

\* Every collected source has been cleaned when a run plans its domains.
AllCleaned == \A r \in Runs : pc[r] = "connecting" => ToClean(r) = {}

\* A domain without a state has no inputs.
NoInputs == \A r \in Runs, d \in Domains : dstat[r][d] = "none" => inputs[r][d] = {}

\* While a run is in progress the files it found clean are as it wrote them, ...
CleanIsGood ==
  \A r \in Runs, f \in Files :
    /\ pc[r] = "idle" => fstat[r][f] = "none"
    /\ pc[r] \in Active /\ fstat[r][f] = "clean" =>
         cleaned[Path(r, f)] # NoFile /\ cleaned[Path(r, f)].good

\* ... its domains are given those files, or stale ones, ...
InputsFresh ==
  \A r \in Runs, d \in Domains : \A p \in inputs[r][d] :
    /\ p.key \in DomainInputs[flow[r]][d]
    /\ Stale(r, p) \/ \E f \in Files : fstat[r][f] = "clean" /\ p.path = Path(r, f)

\* ... and what it transforms and reads of fresh files is made of good ones.
AllGood(file) == \A t \in Tables : file[t].good

FramesGood ==
  \A r \in Runs, d \in Domains : FreshOnly(r, d) =>
    /\ dstat[r][d] = "loading" => AllGood(frame[r])
    /\ pc[r] \in Active /\ dstat[r][d] = "transformed" =>
         \A x \in OutDate(inputs[r][d]) :
           transformed[<<d, x>>] # NoFile => AllGood(transformed[<<d, x>>])

GoodInv ==
  AllCleaned /\ NoInputs /\ CleanIsGood /\ InputsFresh /\ FramesGood /\ BadRowsAreStale

LEMMA InitGood == Init => GoodInv
  BY DEF Init, GoodInv, AllCleaned, NoInputs, CleanIsGood, InputsFresh, FramesGood,
         BadRowsAreStale, Active

\* A run that has not planned yet has no inputs, and no row is of it.
LEMMA NothingYet ==
  ASSUME TypeOK, GateInv, NoInputs, NEW r \in Runs, pc[r] \in Early
  PROVE  /\ \A d \in Domains : dstat[r][d] = "none" /\ inputs[r][d] = {}
         /\ \A row \in tables : row.by # r
  <1>1. \A d \in Domains : dstat[r][d] = "none"
    BY DEF GateInv, NotYetPlanned
  <1>2. \A row \in tables : row.by # r
    BY <1>1 DEF GateInv, Sourced
  <1> QED BY <1>1, <1>2 DEF NoInputs

\* What is stale stays so, once the run has planned: its collecting is over.
LEMMA StaleKept ==
  ASSUME NEW r \in Runs, flow'[r] = flow[r], sstat'[r] = sstat[r], inputs'[r] = inputs[r]
  PROVE  /\ \A p : Stale(r, p)' <=> Stale(r, p)
         /\ \A d : FreshOnly(r, d)' <=> FreshOnly(r, d)
  BY DEF Stale, Collected, FreshOnly

\* Steps that write no cleaned or transformed file and no row.
LEMMA QuietGood ==
  ASSUME TypeOK, GateInv, GoodInv, UNCHANGED <<runVars, inputs, cleaned, transformed, tables>>,
         \A x \in Runs : sstat'[x] = sstat[x] \/ pc[x] \in Early,
         \A x \in Runs, f \in Files : fstat'[x][f] = "clean" <=> fstat[x][f] = "clean",
         \A x \in Runs : pc'[x] = "idle" => pc[x] = "idle" /\ fstat'[x] = fstat[x],
         \A x \in Runs : pc'[x] = "connecting" => ToClean(x)' = {},
         \A x \in Runs : pc'[x] \in Active => pc[x] \in Active \cup {"idle"},
         \A x \in Runs, d \in Domains :
           /\ dstat'[x][d] = "loading" /\ FreshOnly(x, d) => AllGood(frame'[x])
           /\ dstat'[x][d] = "transformed" => dstat[x][d] = "transformed"
           /\ dstat'[x][d] = "none" => dstat[x][d] = "none"
  PROVE  GoodInv'
  <1>1. CleanIsGood' /\ AllCleaned' /\ NoInputs'
    BY DEF GoodInv, CleanIsGood, AllCleaned, NoInputs, Path, runVars
  <1>2. ASSUME NEW x \in Runs, pc[x] \in Early
        PROVE  (\A d \in Domains : inputs[x][d] = {}) /\ \A row \in tables : row.by # x
    BY <1>2, NothingYet DEF GoodInv
  <1>3. ASSUME NEW x \in Runs, pc[x] \notin Early
        PROVE  \A p : Stale(x, p)' <=> Stale(x, p)
    BY <1>3, StaleKept DEF runVars
  <1>4. ASSUME NEW x \in Runs, NEW d \in Domains PROVE FreshOnly(x, d)' => FreshOnly(x, d)
    BY <1>2, <1>3 DEF FreshOnly
  <1>5. InputsFresh'
    BY <1>2, <1>3 DEF GoodInv, InputsFresh, Path, runVars
  <1>6. FramesGood'
    <2>1. ASSUME NEW x \in Runs, NEW d \in Domains, FreshOnly(x, d)'
          PROVE  /\ dstat'[x][d] = "loading" => AllGood(frame'[x])
                 /\ pc'[x] \in Active /\ dstat'[x][d] = "transformed" =>
                      \A y \in OutDate(inputs[x][d]) :
                        transformed[<<d, y>>] # NoFile => AllGood(transformed[<<d, y>>])
      <3>1. FreshOnly(x, d)
        BY <1>4, <2>1
      <3>2. dstat'[x][d] = "transformed" => dstat[x][d] = "transformed" /\ pc[x] \notin Early
        BY DEF GateInv, NotYetPlanned
      <3>3. pc'[x] \in Active /\ dstat'[x][d] = "transformed" => pc[x] \in Active
        BY <3>2 DEF Early
      <3> QED BY <3>1, <3>2, <3>3 DEF GoodInv, FramesGood
    <2> QED BY <2>1 DEF FramesGood
  <1>7. BadRowsAreStale'
    <2>1. \A row \in tables : row.by \in Runs /\ pc[row.by] \notin Early
      BY <1>2 DEF TypeOK, Rows
    <2> QED BY <1>3, <2>1 DEF GoodInv, BadRowsAreStale, runVars
  <1> QED BY <1>1, <1>5, <1>6, <1>7 DEF GoodInv

\* A frame is kept or dropped with its load, ...
LEMMA FramesStayGood ==
  ASSUME NEW r \in Runs, TypeOK, GoodInv,
         UNCHANGED frame \/ frame' = [frame EXCEPT ![r] = NoFrame],
         \A x \in Runs, d \in Domains : dstat'[x][d] = "loading" => dstat[x][d] = "loading"
  PROVE  \A x \in Runs, d \in Domains :
           dstat'[x][d] = "loading" /\ FreshOnly(x, d) => AllGood(frame'[x])
  <1>1. AllGood(NoFrame)
    BY DEF AllGood, NoFrame, Empty
  <1>2. ASSUME NEW x \in Runs PROVE frame'[x] \in {frame[x], NoFrame}
    BY DEF TypeOK
  <1>3. \A x \in Runs, d \in Domains :
          dstat'[x][d] = "loading" /\ FreshOnly(x, d) => AllGood(frame[x])
    BY DEF GoodInv, FramesGood
  <1> QED BY <1>1, <1>2, <1>3

\* ... and no domain becomes transformed, or stateless, by being read, loaded or
\* given up.
LEMMA NoneTransformed ==
  ASSUME NEW r \in Runs, TypeOK,
         \/ UNCHANGED dstat
         \/ \E d : \E v \in {"unusable", "loading", "loaded", "unloaded"} :
              dstat' = [dstat EXCEPT ![r][d] = v]
  PROVE  \A x \in Runs, e \in Domains :
           /\ dstat'[x][e] = "transformed" => dstat[x][e] = "transformed"
           /\ dstat'[x][e] = "none" => dstat[x][e] = "none"
  <1>1. CASE \E d : \E v \in {"unusable", "loading", "loaded", "unloaded"} :
              dstat' = [dstat EXCEPT ![r][d] = v]
    <2>0. PICK d : \E v \in {"unusable", "loading", "loaded", "unloaded"} :
            dstat' = [dstat EXCEPT ![r][d] = v]
      BY <1>1
    <2>1. PICK v \in {"unusable", "loading", "loaded", "unloaded"} :
            dstat' = [dstat EXCEPT ![r][d] = v]
      BY <2>0
    <2>2. ASSUME NEW x \in Runs, NEW e \in Domains
          PROVE  dstat'[x][e] \in {dstat[x][e], v}
      BY <2>1 DEF TypeOK
    <2> QED BY <2>2
  <1> QED BY <1>1

\* Nor does it begin to be loaded by being loaded or given up.
LEMMA NoneLoading ==
  ASSUME NEW r \in Runs, TypeOK,
         \/ UNCHANGED dstat
         \/ \E d : \E v \in {"unusable", "loaded", "unloaded"} :
              dstat' = [dstat EXCEPT ![r][d] = v]
  PROVE  \A x \in Runs, e \in Domains : dstat'[x][e] = "loading" => dstat[x][e] = "loading"
  <1>1. CASE \E d : \E v \in {"unusable", "loaded", "unloaded"} :
              dstat' = [dstat EXCEPT ![r][d] = v]
    <2>0. PICK d : \E v \in {"unusable", "loaded", "unloaded"} :
            dstat' = [dstat EXCEPT ![r][d] = v]
      BY <1>1
    <2>1. PICK v \in {"unusable", "loaded", "unloaded"} : dstat' = [dstat EXCEPT ![r][d] = v]
      BY <2>0
    <2>2. ASSUME NEW x \in Runs, NEW e \in Domains
          PROVE  dstat'[x][e] \in {dstat[x][e], v}
      BY <2>1 DEF TypeOK
    <2> QED BY <2>2
  <1> QED BY <1>1

\* The file a run reads is the one it has transformed.
LEMMA ReadGood ==
  ASSUME NEW r \in Runs, TypeOK, GoodInv, ReadFrame(r)
  PROVE  \A x \in Runs, d \in Domains :
           dstat'[x][d] = "loading" /\ FreshOnly(x, d) => AllGood(frame'[x])
  <1>1. PICK d \in NextDomain(r) : \E x \in OutDate(inputs[r][d]) :
          /\ transformed[<<d, x>>] # NoFile
          /\ frame' = [frame EXCEPT ![r] = transformed[<<d, x>>]]
          /\ dstat' = [dstat EXCEPT ![r][d] = "loading"]
    BY DEF ReadFrame
  <1>2. d \in Domains /\ dstat[r][d] = "transformed"
    BY DEF NextDomain, FirstOf, ToLoad
  <1>3. pc[r] \in Active /\ Loading(r) = {}
    BY DEF ReadFrame, Stay, Active
  <1>4. FreshOnly(r, d) => AllGood(frame'[r])
    <2>1. PICK x \in OutDate(inputs[r][d]) :
            transformed[<<d, x>>] # NoFile /\ frame' = [frame EXCEPT ![r] = transformed[<<d, x>>]]
      BY <1>1
    <2>2. frame'[r] = transformed[<<d, x>>]
      BY <2>1 DEF TypeOK
    <2> QED BY <1>2, <1>3, <2>1, <2>2 DEF GoodInv, FramesGood
  <1>5. \A e \in Domains : dstat'[r][e] = "loading" => e = d
    BY <1>1, <1>3 DEF Loading, TypeOK
  <1>6. \A x \in Runs \ {r} : dstat'[x] = dstat[x] /\ frame'[x] = frame[x]
    BY <1>1 DEF TypeOK
  <1> QED BY <1>4, <1>5, <1>6 DEF GoodInv, FramesGood

\* Most steps are of that kind.
LEMMA OtherStepsGood ==
  ASSUME NEW r \in Runs, TypeOK, GateInv, GoodInv,
         \/ Start(r) \/ GatherCollected(r) \/ CleanRaises(r) \/ FinishCleaning(r)
         \/ ConnectFails(r) \/ GatherTransformed(r) \/ ReadFrame(r) \/ ReadFails(r)
         \/ FinishLoading(r) \/ QueryAggregate(r) \/ QueryFails(r) \/ PushAggregate(r)
         \/ PushFails(r) \/ SyncRaises(r) \/ InsertSignals(r) \/ SignalsFail(r) \/ Crash(r)
         \/ \E s \in Sources : CollectOk(r, s) \/ CollectFails(r, s)
         \/ \E d \in Domains : TransformFails(r, d) \/ LoadFails(r, d)
  PROVE  GoodInv'
  <1>1. UNCHANGED <<runVars, inputs, cleaned, transformed, tables>>
    BY DEF Start, Crash, CollectOk, CollectFails, GatherCollected, CleanRaises,
           FinishCleaning, ConnectFails, TransformFails, GatherTransformed,
           ReadFrame, ReadFails, LoadFails, AbandonLoad, FinishLoading, QueryAggregate,
           QueryFails, PushAggregate, PushFails, SyncRaises, InsertSignals, SignalsFail, fileVars
  <1>2. /\ \A x \in Runs, f \in Files : fstat'[x][f] = "clean" <=> fstat[x][f] = "clean"
        /\ \A x \in Runs \ {r} : fstat'[x] = fstat[x]
    <2>1. CASE CleanRaises(r)
      <3>1. PICK s \in NextSource(r) : fstat' = [fstat EXCEPT ![r][RawFile[s]] = "raised"]
        BY <2>1 DEF CleanRaises
      <3>2. fstat[r][RawFile[s]] = "none"
        BY DEF NextSource, FirstOf, ToClean
      <3> QED BY <3>1, <3>2 DEF TypeOK
    <2>2. CASE ~CleanRaises(r)
      BY <2>2 DEF Start, Crash, CollectOk, CollectFails, GatherCollected,
             FinishCleaning, ConnectFails, TransformFails, GatherTransformed,
             ReadFrame, ReadFails, LoadFails, FinishLoading, QueryAggregate,
             QueryFails, PushAggregate, PushFails, SyncRaises, InsertSignals, SignalsFail
    <2> QED BY <2>1, <2>2
  <1>3. Start(r) \/ RunStep(r) \/ Crash(r)
    BY DEF RunStep
  <1>4. /\ \A x \in Runs : pc'[x] = "idle" => pc[x] = "idle" /\ x # r
        /\ \A x \in Runs : pc'[x] \in Active => pc[x] \in Active \cup {"idle"}
    <2>1. pc[r] \in Active \cup {"idle"}
      BY <1>3, OneMoves DEF Start, Goto
    <2> QED BY <1>3, <2>1, OneMoves
  <1>5. \A x \in Runs : sstat'[x] = sstat[x] \/ (x = r /\ pc[x] = "collecting")
    <2>1. CASE \E s \in Sources : CollectOk(r, s) \/ CollectFails(r, s)
      BY <2>1 DEF CollectOk, CollectFails, Stay, TypeOK
    <2>2. CASE ~\E s \in Sources : CollectOk(r, s) \/ CollectFails(r, s)
      BY <2>2 DEF Start, Crash, GatherCollected, CleanRaises,
             FinishCleaning, ConnectFails, TransformFails, GatherTransformed,
             ReadFrame, ReadFails, LoadFails, FinishLoading, QueryAggregate,
             QueryFails, PushAggregate, PushFails, SyncRaises, InsertSignals, SignalsFail
    <2> QED BY <2>1, <2>2
  <1>6. \A x \in Runs : pc'[x] = "connecting" => ToClean(x)' = {}
    <2>1. CASE FinishCleaning(r)
      <3>1. ToClean(r) = {} /\ UNCHANGED <<flow, sstat, fstat>>
        BY <2>1 DEF FinishCleaning, runVars
      <3>2. \A x \in Runs : pc'[x] = "connecting" => x = r \/ pc[x] = "connecting"
        BY <1>3, OneMoves
      <3> QED BY <3>1, <3>2 DEF ToClean, Collected, GoodInv, AllCleaned
    <2>2. CASE ~FinishCleaning(r)
      <3>1. pc'[r] # "connecting"
        BY <2>2 DEF Start, Crash, CollectOk, CollectFails, GatherCollected, CleanRaises,
             ConnectFails, TransformFails, GatherTransformed, ReadFrame, ReadFails, LoadFails,
             FinishLoading, QueryAggregate, QueryFails, PushAggregate, PushFails, SyncRaises,
             InsertSignals, SignalsFail, AfterMapping, Goto, Stay, TypeOK
      <3>2. ASSUME NEW x \in Runs, pc'[x] = "connecting"
            PROVE  /\ pc[x] = "connecting" /\ sstat'[x] = sstat[x] /\ fstat'[x] = fstat[x]
                   /\ flow'[x] = flow[x]
        BY <1>1, <1>2, <1>3, <1>5, <3>1, <3>2, OneMoves DEF runVars
      <3> QED BY <3>2 DEF ToClean, Collected, GoodInv, AllCleaned
    <2> QED BY <2>1, <2>2
  <1>7. \/ UNCHANGED dstat
        \/ \E d : \E v \in {"unusable", "loading", "unloaded"} : dstat' = [dstat EXCEPT ![r][d] = v]
    BY DEF Start, Crash, CollectOk, CollectFails, GatherCollected, CleanRaises,
           FinishCleaning, ConnectFails, TransformFails, GatherTransformed,
           ReadFrame, ReadFails, LoadFails, AbandonLoad, FinishLoading, QueryAggregate,
           QueryFails, PushAggregate, PushFails, SyncRaises, InsertSignals, SignalsFail
  <1>8. \A x \in Runs, d \in Domains :
          dstat'[x][d] = "loading" /\ FreshOnly(x, d) => AllGood(frame'[x])
    <2>1. CASE ReadFrame(r)
      BY <2>1, ReadGood
    <2>2. CASE ~ReadFrame(r)
      <3>1. UNCHANGED frame \/ frame' = [frame EXCEPT ![r] = NoFrame]
        BY <2>2 DEF Start, Crash, CollectOk, CollectFails, GatherCollected, CleanRaises,
             FinishCleaning, ConnectFails, TransformFails, GatherTransformed,
             ReadFails, LoadFails, AbandonLoad, FinishLoading, QueryAggregate,
             QueryFails, PushAggregate, PushFails, SyncRaises, InsertSignals, SignalsFail,
             loadVars
      <3>2. \/ UNCHANGED dstat
            \/ \E d : \E v \in {"unusable", "unloaded"} : dstat' = [dstat EXCEPT ![r][d] = v]
        BY <2>2 DEF Start, Crash, CollectOk, CollectFails, GatherCollected, CleanRaises,
             FinishCleaning, ConnectFails, TransformFails, GatherTransformed,
             ReadFails, LoadFails, AbandonLoad, FinishLoading, QueryAggregate,
             QueryFails, PushAggregate, PushFails, SyncRaises, InsertSignals, SignalsFail
      <3> QED BY <3>1, <3>2, FramesStayGood, NoneLoading
    <2> QED BY <2>1, <2>2
  <1>9. \A x \in Runs, d \in Domains :
          /\ dstat'[x][d] = "transformed" => dstat[x][d] = "transformed"
          /\ dstat'[x][d] = "none" => dstat[x][d] = "none"
    BY <1>7, NoneTransformed
  <1> QED BY <1>1, <1>2, <1>4, <1>5, <1>6, <1>8, <1>9, QuietGood DEF Early

\* A file is cleaned over what earlier runs left, and no run in progress needs that.
LEMMA CleanGood ==
  ASSUME NEW r \in Runs, TypeOK, AtMostOne, GoodInv, Clean(r) PROVE GoodInv'
  <1>1. PICK s \in NextSource(r) :
          LET c == raw[Path(r, RawFile[s])] IN
          /\ c # NoFile
          /\ cleaned' = [cleaned EXCEPT ![Path(r, RawFile[s])] = c]
          /\ fstat' = [fstat EXCEPT ![r][RawFile[s]] = IF c.good THEN "clean" ELSE "gate"]
    BY DEF Clean
  <1>2. /\ UNCHANGED <<pc, runVars, sstat, inputs, dstat, frame, transformed, tables>>
        /\ pc[r] = "cleaning"
    BY DEF Clean, Stay, loadVars
  <1>3. RawFile[s] \in Files /\ fstat[r][RawFile[s]] = "none"
    BY NamesDeclared, RegistryAssumption
       DEF NextSource, FirstOf, ToClean, Collected, TypeOK
  <1>4. \A x \in Runs \ {r} : pc[x] \notin Active /\ fstat'[x] = fstat[x]
    BY <1>1, <1>2 DEF AtMostOne, Active, TypeOK
  <1>5. \A f \in Files : Path(r, f) \in Paths /\ (f # RawFile[s] => Path(r, f) # Path(r, RawFile[s]))
    BY PathTypes DEF Path
  <1>6. \A f \in Files : Path(r, f)' = Path(r, f)
    BY <1>2 DEF Path, runVars
  <1>7. ASSUME NEW f \in Files, fstat'[r][f] = "clean"
        PROVE  cleaned'[Path(r, f)] # NoFile /\ cleaned'[Path(r, f)].good
    <2>1. CASE f = RawFile[s]
      BY <1>1, <1>3, <1>5, <1>7, <2>1 DEF TypeOK
    <2>2. CASE f # RawFile[s]
      BY <1>1, <1>2, <1>3, <1>5, <1>7, <2>2 DEF TypeOK, GoodInv, CleanIsGood, Active
    <2> QED BY <2>1, <2>2
  <1>8. CleanIsGood'
    BY <1>2, <1>4, <1>6, <1>7 DEF GoodInv, CleanIsGood
  <1>9. \A x \in Runs, f \in Files : fstat[x][f] = "clean" => fstat'[x][f] = "clean"
    BY <1>1, <1>3 DEF TypeOK
  <1>10. \A x \in Runs : /\ \A p : Stale(x, p)' <=> Stale(x, p)
                         /\ \A d : FreshOnly(x, d)' <=> FreshOnly(x, d)
    BY <1>2, StaleKept DEF runVars
  <1>11. InputsFresh'
    BY <1>2, <1>9, <1>10 DEF GoodInv, InputsFresh, Path, runVars
  <1>12. FramesGood'
    BY <1>2, <1>10 DEF GoodInv, FramesGood
  <1>13. BadRowsAreStale'
    BY <1>2, <1>10 DEF GoodInv, BadRowsAreStale, runVars, TypeOK, Rows
  <1>14. AllCleaned' /\ NoInputs'
    BY <1>2, <1>4 DEF GoodInv, AllCleaned, NoInputs, ToClean, Collected, runVars
  <1> QED BY <1>8, <1>11, <1>12, <1>13, <1>14 DEF GoodInv

\* A domain is admitted with files of the run itself, and older ones of inputs
\* the run collected nothing for: what it did collect was cleaned or blocks it.
LEMMA PlanGood ==
  ASSUME NEW r \in Runs, TypeOK, GateInv, GoodInv, Plan(r) PROVE GoodInv'
  <1>1. /\ UNCHANGED <<runVars, sstat, fstat, frame, cleaned, transformed, tables>>
        /\ pc[r] = "connecting" /\ pc' = [pc EXCEPT ![r] = "transforming"]
        /\ inputs' = [inputs EXCEPT ![r] =
                        [d \in Domains |-> IF Admitted(r, d) THEN InputsOf(r, d) ELSE {}]]
        /\ dstat' = [dstat EXCEPT ![r] =
                       [d \in Domains |-> IF Admitted(r, d) THEN "planned" ELSE "none"]]
    BY DEF Plan, Goto, loadVars, fileVars
  <1>2. ASSUME NEW d \in Domains, Admitted(r, d), NEW p \in InputsOf(r, d)
        PROVE  /\ p.key \in DomainInputs[flow[r]][d]
               /\ Stale(r, p) \/ \E f \in Files : fstat[r][f] = "clean" /\ p.path = Path(r, f)
    <2>1. PICK k \in DomainInputs[flow[r]][d] : p \in PathFor(r, k)
      BY DEF InputsOf
    <2>2. \E path : p = [key |-> k, path |-> path]
      <3>1. CASE Matches(k, CleanedSources(r)) # {}
        BY <2>1, <3>1 DEF PathFor
      <3>2. CASE Matches(k, CleanedSources(r)) = {}
        <4>1. p \in LatestCleaned(k)
          BY <2>1, <3>2, Zenon DEF PathFor
        <4>2. \A y \in LatestCleaned(k) : \E path : y = [key |-> k, path |-> path]
          BY Zenon DEF LatestCleaned
        <4> QED BY <4>1, <4>2
      <3> QED BY <3>1, <3>2
    <2>3. CASE Matches(k, CleanedSources(r)) # {}
      <3>1. PICK s \in FirstOf(SourceNames[flow[r]], Matches(k, CleanedSources(r))) :
              p = [key |-> k, path |-> Path(r, RawFile[s])]
        BY <2>1, <2>3 DEF PathFor
      <3>2. s \in SourcesOf(flow[r]) /\ fstat[r][RawFile[s]] = "clean"
        BY <3>1 DEF FirstOf, Matches, CleanedSources, Collected
      <3>3. RawFile[s] \in Files
        BY <3>2, NamesDeclared, RegistryAssumption DEF TypeOK
      <3> QED BY <2>2, <3>1, <3>2, <3>3
    <2>4. CASE Matches(k, CleanedSources(r)) = {}
      <3>1. ToClean(r) = {}
        BY <1>1 DEF GoodInv, AllCleaned
      <3>2. Matches(k, GateFailed(r)) = {}
        BY <1>2 DEF Admitted, Blocked
      <3>3. ASSUME NEW s \in Collected(r), Feeds(s, k) PROVE FALSE
        <4>1. RawFile[s] \in Files
          BY NamesDeclared, RegistryAssumption DEF Collected, TypeOK
        <4>2. fstat[r][RawFile[s]] \in {"clean", "gate", "raised"}
          BY <3>1, <4>1 DEF ToClean, TypeOK
        <4>3. s \in CleanedSources(r) \/ s \in GateFailed(r)
          BY <4>2 DEF CleanedSources, GateFailed
        <4> QED BY <2>4, <3>2, <3>3, <4>3 DEF Matches, Feeds
      <3> QED BY <2>2, <3>3 DEF Stale
    <2> QED BY <2>3, <2>4
  <1>3. \A x \in Runs : \A p : Stale(x, p)' <=> Stale(x, p)
    BY <1>1 DEF Stale, Collected, runVars
  <1>4. InputsFresh'
    <2>1. ASSUME NEW x \in Runs, NEW d \in Domains, NEW p \in inputs'[x][d]
          PROVE  /\ p.key \in DomainInputs[flow[x]][d]
                 /\ Stale(x, p) \/ \E f \in Files : fstat[x][f] = "clean" /\ p.path = Path(x, f)
      <3>1. CASE x = r
        <4>1. Admitted(r, d) /\ p \in InputsOf(r, d)
          BY <1>1, <2>1, <3>1 DEF TypeOK
        <4> QED BY <1>2, <3>1, <4>1
      <3>2. CASE x # r
        BY <1>1, <2>1, <3>2 DEF TypeOK, GoodInv, InputsFresh
      <3> QED BY <3>1, <3>2
    <2> QED BY <1>1, <1>3, <2>1 DEF InputsFresh, Path, runVars
  <1>5. \A x \in Runs \ {r} : /\ pc'[x] = pc[x] /\ inputs'[x] = inputs[x]
                              /\ dstat'[x] = dstat[x]
    BY <1>1 DEF TypeOK
  <1>6. CleanIsGood'
    BY <1>1 DEF GoodInv, CleanIsGood, Path, runVars, TypeOK, Active
  <1>7. AllCleaned' /\ NoInputs'
    <2>1. pc'[r] # "connecting"
      BY <1>1 DEF TypeOK
    <2>2. \A d \in Domains : dstat'[r][d] = "none" => inputs'[r][d] = {}
      BY <1>1 DEF TypeOK
    <2>3. \A x \in Runs : ToClean(x)' = ToClean(x)
      BY <1>1 DEF ToClean, Collected, runVars
    <2> QED BY <1>5, <2>1, <2>2, <2>3 DEF GoodInv, AllCleaned, NoInputs
  <1>8. FramesGood'
    <2>1. \A d \in Domains : dstat'[r][d] \in {"planned", "none"}
      BY <1>1 DEF TypeOK
    <2>2. \A x \in Runs \ {r} : \A d : FreshOnly(x, d)' <=> FreshOnly(x, d)
      BY <1>3, <1>5 DEF FreshOnly
    <2>3. ASSUME NEW x \in Runs, NEW d \in Domains, FreshOnly(x, d)'
          PROVE  /\ dstat'[x][d] = "loading" => AllGood(frame'[x])
                 /\ pc'[x] \in Active /\ dstat'[x][d] = "transformed" =>
                      \A y \in OutDate(inputs'[x][d]) :
                        transformed'[<<d, y>>] # NoFile => AllGood(transformed'[<<d, y>>])
      <3>1. CASE x = r
        BY <2>1, <3>1
      <3>2. CASE x # r
        <4>1. FreshOnly(x, d)
          BY <2>2, <2>3, <3>2
        <4> QED BY <1>1, <1>5, <3>2, <4>1 DEF GoodInv, FramesGood
      <3> QED BY <3>1, <3>2
    <2> QED BY <2>3 DEF FramesGood
  <1>9. BadRowsAreStale'
    <2>1. \A row \in tables : row.by \in Runs \ {r}
      BY <1>1, NothingYet DEF GoodInv, Early, TypeOK, Rows
    <2> QED BY <1>1, <1>3, <1>5, <2>1 DEF GoodInv, BadRowsAreStale, runVars
  <1> QED BY <1>4, <1>6, <1>7, <1>8, <1>9 DEF GoodInv

\* What transform_domain makes of good files is good.
LEMMA TransformGood ==
  ASSUME NEW r \in Runs, NEW d \in Domains, TypeOK, AtMostOne, GoodInv, Transform(r, d)
  PROVE  GoodInv'
  <1> DEFINE made == Transformed(d, inputs[r][d])
  <1>1. PICK x \in OutDate(inputs[r][d]) : transformed' = [transformed EXCEPT ![<<d, x>>] = made]
    BY DEF Transform
  <1>2. /\ UNCHANGED <<pc, runVars, sstat, fstat, inputs, frame, cleaned, tables>>
        /\ pc[r] = "transforming"
        /\ dstat[r][d] = "planned"
        /\ dstat' = [dstat EXCEPT ![r][d] = "transformed"]
        /\ Readable(d, inputs[r][d])
    BY DEF Transform, Stay, loadVars
  <1>3. FreshOnly(r, d) => \A p \in inputs[r][d] : cleaned[p.path].good
    BY <1>2 DEF GoodInv, InputsFresh, CleanIsGood, Active, FreshOnly
  <1>4. FreshOnly(r, d) => AllGood(made)
    <2>1. ASSUME FreshOnly(r, d), NEW t \in Tables PROVE made[t].good
      <3>1. CASE t \in TablesOf(d) /\ \E p \in inputs[r][d] : p.key = Carrier[t]
        <4>1. /\ (CHOOSE p \in inputs[r][d] : p.key = Carrier[t]) \in inputs[r][d]
              /\ (CHOOSE p \in inputs[r][d] : p.key = Primary[d]) \in inputs[r][d]
          BY <1>2, <3>1 DEF Readable
        <4>2. made[t].good = (cleaned[(CHOOSE p \in inputs[r][d] : p.key = Primary[d]).path].good
                           /\ cleaned[(CHOOSE p \in inputs[r][d] : p.key = Carrier[t]).path].good)
          BY <3>1 DEF Transformed
        <4> QED BY <1>3, <2>1, <4>1, <4>2
      <3>2. CASE ~(t \in TablesOf(d) /\ \E p \in inputs[r][d] : p.key = Carrier[t])
        BY <3>2 DEF Transformed, Empty
      <3> QED BY <3>1, <3>2
    <2> QED BY <2>1 DEF AllGood
  <1>5. x \in Dates /\ \A y \in OutDate(inputs[r][d]) : y = x
    <2>1. \A y \in OutDate(inputs[r][d]) : y \in Dates
      BY DEF OutDate, Latest, TypeOK, Paths
    <2>2. \A y \in OutDate(inputs[r][d]) : y <= x /\ x <= y
      BY DEF OutDate, Latest
    <2>3. \A y \in OutDate(inputs[r][d]) : y \in Nat /\ x \in Nat
      BY <2>1, RegistryAssumption
    <2> QED BY <2>1, <2>2, <2>3
  <1>6. \A z \in Runs : /\ \A p : Stale(z, p)' <=> Stale(z, p)
                        /\ \A e : FreshOnly(z, e)' <=> FreshOnly(z, e)
    BY <1>2, StaleKept DEF runVars
  <1>7. \A z \in Runs, e \in Domains :
          FreshOnly(z, e) /\ dstat'[z][e] = "loading" => AllGood(frame[z])
    BY <1>2 DEF GoodInv, FramesGood, TypeOK
  <1>8. FramesGood'
    <2>1. ASSUME NEW z \in Runs, NEW e \in Domains, FreshOnly(z, e), pc'[z] \in Active,
                 dstat'[z][e] = "transformed", NEW y \in OutDate(inputs[z][e]),
                 transformed'[<<e, y>>] # NoFile
          PROVE  AllGood(transformed'[<<e, y>>])
      <3>1. z = r
        BY <1>2, <2>1 DEF AtMostOne, Active
      <3>2. CASE e = d
        BY <1>1, <1>4, <1>5, <2>1, <3>1, <3>2 DEF TypeOK
      <3>3. CASE e # d
        <4>1. transformed'[<<e, y>>] = transformed[<<e, y>>]
          <5>1. y \in Dates
            BY DEF OutDate, Latest, TypeOK, Paths
          <5> QED BY <1>1, <1>5, <3>3, <5>1 DEF TypeOK
        <4>2. dstat[z][e] = "transformed"
          BY <1>2, <2>1, <3>3 DEF TypeOK
        <4> QED BY <1>2, <2>1, <4>1, <4>2 DEF GoodInv, FramesGood
      <3> QED BY <3>2, <3>3
    <2> QED BY <1>2, <1>6, <1>7, <2>1 DEF FramesGood
  <1>9. CleanIsGood' /\ InputsFresh'
    BY <1>2, <1>6 DEF GoodInv, CleanIsGood, InputsFresh, Path, runVars
  <1>10. AllCleaned' /\ NoInputs'
    <2>1. \A z \in Runs, e \in Domains : dstat'[z][e] = "none" => dstat[z][e] = "none"
      BY <1>2 DEF TypeOK
    <2> QED BY <1>2, <2>1 DEF GoodInv, AllCleaned, NoInputs, ToClean, Collected, runVars
  <1>11. BadRowsAreStale'
    BY <1>2, <1>6 DEF GoodInv, BadRowsAreStale, runVars, TypeOK, Rows
  <1> QED BY <1>8, <1>9, <1>10, <1>11 DEF GoodInv

\* The rows of a good frame are good, and those of a domain with a stale input
\* are excused.
LEMMA LoadTableGood ==
  ASSUME NEW r \in Runs, NEW d \in Domains, TypeInv, GateInv, GoodInv, LoadTable(r, d)
  PROVE  GoodInv'
  <1>1. TypeOK
    BY DEF TypeInv
  <1>2. /\ UNCHANGED <<pc, runVars, sstat, fstat, inputs, cleaned, transformed>>
        /\ d \in Loading(r)
    BY DEF LoadTable, Stay, fileVars
  <1>3. \/ UNCHANGED dstat
        \/ \E v \in {"loaded", "unloaded"} : dstat' = [dstat EXCEPT ![r][d] = v]
    BY DEF LoadTable, AbandonLoad
  <1>4. \A x \in Runs, e \in Domains :
          /\ dstat'[x][e] = "transformed" => dstat[x][e] = "transformed"
          /\ dstat'[x][e] = "none" => dstat[x][e] = "none"
    BY <1>1, <1>3, NoneTransformed
  <1>5. \A x \in Runs, e \in Domains :
          dstat'[x][e] = "loading" /\ FreshOnly(x, e) => AllGood(frame'[x])
    <2>1. UNCHANGED frame \/ frame' = [frame EXCEPT ![r] = NoFrame]
      BY DEF LoadTable, AbandonLoad
    <2>2. \A x \in Runs, e \in Domains : dstat'[x][e] = "loading" => dstat[x][e] = "loading"
      BY <1>1, <1>3, NoneLoading
    <2> QED BY <1>1, <2>1, <2>2, FramesStayGood
  <1>6. \A x \in Runs : /\ \A p : Stale(x, p)' <=> Stale(x, p)
                        /\ \A e : FreshOnly(x, e)' <=> FreshOnly(x, e)
    BY <1>2, StaleKept DEF runVars
  <1>7. BadRowsAreStale'
    <2> DEFINE t == DomainTables[d][tbl[r]]
               Excused(row) == \E e \in DomainsOf(flow[row.by]) :
                                 /\ row.table \in TablesOf(e)
                                 /\ \E p \in inputs[row.by][e] : Stale(row.by, p)
    <2>1. UNCHANGED tables \/ tables' = tables \cup NewRows(r, t, frame[r][t])
      BY DEF LoadTable, AbandonLoad
    <2>2. d \in DomainsOf(flow[r]) /\ dstat[r][d] = "loading"
      BY <1>2 DEF GateInv, Planned, Loading
    <2>3. t \in Tables /\ t \in TablesOf(d)
      <3>1. tbl[r] \in DOMAIN DomainTables[d]
        BY <1>2, TableTypes, RegistryAssumption
      <3> QED BY <1>2, <3>1, TableTypes DEF TablesOf
    <2>4. ASSUME NEW row \in NewRows(r, t, frame[r][t]) PROVE row.good \/ Excused(row)
      <3>1. row.by = r /\ row.table = t /\ row.good = frame[r][t].good
        BY DEF NewRows
      <3>2. CASE FreshOnly(r, d)
        <4>1. AllGood(frame[r])
          BY <2>2, <3>2 DEF GoodInv, FramesGood
        <4> QED BY <2>3, <3>1, <4>1 DEF AllGood
      <3>3. CASE ~FreshOnly(r, d)
        BY <2>2, <2>3, <3>1, <3>3 DEF FreshOnly
      <3> QED BY <3>2, <3>3
    <2>5. \A row \in tables : row.good \/ Excused(row)
      BY DEF GoodInv, BadRowsAreStale
    <2>6. \A row \in tables' : row.by \in Runs /\ (row.good \/ Excused(row))
      <3>1. \A row \in NewRows(r, t, frame[r][t]) : row.by \in Runs
        BY DEF NewRows
      <3>2. \A row \in tables : row.by \in Runs
        BY <1>1 DEF TypeOK, Rows
      <3> HIDE DEF Excused, t
      <3> QED BY <2>1, <2>4, <2>5, <3>1, <3>2
    <2> QED BY <1>2, <1>6, <2>6 DEF BadRowsAreStale, runVars
  <1>8. CleanIsGood' /\ InputsFresh'
    BY <1>2, <1>6 DEF GoodInv, CleanIsGood, InputsFresh, Path, runVars
  <1>9. AllCleaned' /\ NoInputs'
    BY <1>2, <1>4 DEF GoodInv, AllCleaned, NoInputs, ToClean, Collected, runVars
  <1>10. FramesGood'
    BY <1>2, <1>4, <1>5, <1>6 DEF GoodInv, FramesGood
  <1> QED BY <1>7, <1>8, <1>9, <1>10 DEF GoodInv

\* Every step keeps the data so.
LEMMA NextGood == TypeInv /\ GateInv /\ AtMostOne /\ GoodInv /\ [Next]_vars => GoodInv'
  <1> SUFFICES ASSUME TypeInv, GateInv, AtMostOne, GoodInv, [Next]_vars PROVE GoodInv'
    OBVIOUS
  <1>1. TypeOK
    BY DEF TypeInv
  <1>2. ASSUME NEW r \in Runs, Start(r) \/ RunStep(r) \/ Crash(r) PROVE GoodInv'
    <2>1. CASE Clean(r)
      BY <1>1, <2>1, CleanGood
    <2>2. CASE Plan(r)
      BY <1>1, <2>2, PlanGood
    <2>3. ASSUME NEW d \in Domains, Transform(r, d) PROVE GoodInv'
      BY <1>1, <2>3, TransformGood
    <2>4. ASSUME NEW d \in Domains, LoadTable(r, d) PROVE GoodInv'
      BY <2>4, LoadTableGood
    <2> QED BY <1>1, <1>2, <2>1, <2>2, <2>3, <2>4, OtherStepsGood DEF RunStep
  <1>3. ASSUME UNCHANGED <<pc, runVars, sstat, fstat, inputs, dstat, frame, cleaned,
                           transformed, tables>>
        PROVE  GoodInv'
    <2>1. \A x \in Runs : pc'[x] = "connecting" => ToClean(x)' = {}
      BY <1>3 DEF GoodInv, AllCleaned, ToClean, Collected, runVars
    <2>2. \A x \in Runs, d \in Domains :
            dstat'[x][d] = "loading" /\ FreshOnly(x, d) => AllGood(frame'[x])
      BY <1>3 DEF GoodInv, FramesGood
    <2> QED BY <1>1, <1>3, <2>1, <2>2, QuietGood
  <1>4. ASSUME NEW k \in MayAge, Age(k) PROVE GoodInv'
    BY <1>3, <1>4 DEF Age, loadVars, fileVars
  <1>5. CASE UNCHANGED vars
    BY <1>3, <1>5 DEF vars, loadVars, fileVars
  <1> QED BY <1>2, <1>4, <1>5 DEF Next

\* Of runs that do not overlap, this holds always.
THEOREM SerialGoodInv ==
  ASSUME IsFiniteSet(Runs), MaxActive = 1
  PROVE  Spec => [](TypeOK /\ GateInv /\ GoodInv)
  <1>1. Init => AtMostOne
    BY DEF Init, AtMostOne, Active
  <1>2. Init => GateInv /\ GoodInv
    BY InitGate, InitGood
  <1>3. TypeOK /\ AtMostOne /\ [Next]_vars => AtMostOne'
    BY NextAlone
  <1>4. TypeInv => TypeOK
    BY DEF TypeInv
  <1> QED BY <1>1, <1>2, <1>3, <1>4, NextGood, NextGate, TypesInvariant, PTL DEF Spec

\* When runs do not overlap the fallback to older cleaned files is the only way
\* for data that failed the gate into the hypertables.
THEOREM SerialBadRowsAreStale ==
  ASSUME IsFiniteSet(Runs), MaxActive = 1
  PROVE  Spec => []BadRowsAreStale
  <1>1. GoodInv => BadRowsAreStale
    BY DEF GoodInv
  <1> QED BY <1>1, SerialGoodInv, PTL

\* Every domain has one input, as those of the daily flow do.
OneInput ==
  \A f \in Flows, d \in Domains : \A k, q \in DomainInputs[f][d] : k = q

\* "QualityGate FAIL: keep the previous good data" holds of runs that do not
\* overlap and whose domains have one input: a domain with a stale input has no
\* fresh one, and is not admitted.
THEOREM SerialRunsStoreGood ==
  ASSUME IsFiniteSet(Runs), MaxActive = 1, OneInput
  PROVE  Spec => []OnlyGoodRows
  <1>1. TypeOK /\ GateInv /\ GoodInv => OnlyGoodRows
    <2> SUFFICES ASSUME TypeOK, GateInv, GoodInv, NEW row \in tables, ~row.good
                 PROVE  FALSE
      BY DEF OnlyGoodRows
    <2> DEFINE r == row.by
    <2>1. r \in Runs
      BY DEF TypeOK, Rows
    <2>2. PICK d \in DomainsOf(flow[r]) : \E p \in inputs[r][d] : Stale(r, p)
      BY DEF GoodInv, BadRowsAreStale
    <2>3. PICK p \in inputs[r][d] : Stale(r, p)
      BY <2>2
    <2>4. flow[r] \in Flows /\ d \in Domains
      BY <2>1, <2>2, NamesDeclared DEF TypeOK
    <2>5. dstat[r][d] # "none"
      BY <2>1, <2>3, <2>4 DEF GoodInv, NoInputs
    <2>6. Acceptable(r, d)
      BY <2>1, <2>4, <2>5 DEF GateInv, Planned
    <2>7. PICK s \in SourcesOf(flow[r]) :
            sstat[r][s] = "ok" /\ \E k \in DomainInputs[flow[r]][d] : Feeds(s, k)
      BY <2>6 DEF Acceptable
    <2>8. p.key \in DomainInputs[flow[r]][d]
      BY <2>1, <2>3, <2>4 DEF GoodInv, InputsFresh
    <2>9. Feeds(s, p.key)
      BY <2>4, <2>7, <2>8 DEF OneInput
    <2> QED BY <2>3, <2>7, <2>9 DEF Stale, Collected
  <1> QED BY <1>1, SerialGoodInv, PTL

-----------------------------------------------------------------------------
\* The aggregates of runs that do not overlap.

Syncing == {"querying", "pushing", "signalling"}

\* A run that is synchronising has brought the mappings before mapIx up to date,
\* unless it reports one, and what it has queried still stands.
PushedBy(r) ==
  /\ pc[r] \notin Syncing \cup Final => mapIx[r] = 1
  /\ pc[r] = "signalling" => mapIx[r] = Len(MappingSeq) + 1
  /\ pc[r] \in Syncing /\ reportErrs[r] = {} =>
       \A i \in 1..Len(MappingSeq) :
         i < mapIx[r] => \A e \in Known : Current(MappingSeq[i], e)
  /\ pc[r] = "pushing" =>
       \A e \in Known : LET q == Query(MappingSeq[mapIx[r]])[e] IN
                        q # {} => snap[r][e] \ aged = q

Pushed == \A r \in Runs : PushedBy(r)

LEMMA InitSync == Init => Pushed
  BY DEF Init, Pushed, PushedBy, Syncing

\* The answers depend on the rows and their age.
LEMMA SameAnswers ==
  ASSUME UNCHANGED <<tables, aged>>
  PROVE  /\ \A m : Query(m)' = Query(m)
         /\ typedb' = typedb => \A m, e : Current(m, e)' <=> Current(m, e)
  BY DEF Query, KeysFor, Current

\* A run that the step is not of, or that is not synchronising, keeps its part.
LEMMA UntouchedPushed ==
  ASSUME NEW r \in Runs, PushedBy(r),
         UNCHANGED <<tables, aged, typedb>>,
         pc'[r] = pc[r], mapIx'[r] = mapIx[r], snap'[r] = snap[r],
         reportErrs'[r] = reportErrs[r]
  PROVE  PushedBy(r)'
  BY SameAnswers DEF PushedBy

\* Of a run that is not synchronising only the count of mappings is known.
LEMMA OutsidePushed ==
  ASSUME NEW r \in Runs, pc'[r] \notin {"pushing", "signalling"},
         pc'[r] \notin Final => mapIx'[r] = 1,
         mapIx'[r] \in Nat
  PROVE  PushedBy(r)'
  <1>1. pc'[r] \in Syncing => pc'[r] \notin Final
    BY DEF Syncing, Final
  <1>2. \A i \in 1..Len(MappingSeq) : ~(i < 1)
    BY RegistryAssumption
  <1> QED BY <1>1, <1>2 DEF PushedBy

\* Up to the end of its loads a run leaves the aggregates alone, and no other
\* run is synchronising while it loads.
LEMMA BeforeSync ==
  ASSUME NEW r \in Runs, TypeOK, AtMostOne, Pushed,
         UNCHANGED <<aged, typedb, mapIx, snap, reportErrs>>,
         \A x \in Runs \ {r} : pc'[x] = pc[x],
         pc[r] \notin Syncing \cup Final,
         UNCHANGED tables \/ pc[r] \in Active,
         pc'[r] \notin {"pushing", "signalling"}
  PROVE  Pushed'
  <1>1. PushedBy(r)'
    <2>1. mapIx'[r] = 1 /\ mapIx'[r] \in Nat
      BY DEF Pushed, PushedBy
    <2> QED BY <2>1, OutsidePushed
  <1>2. ASSUME NEW x \in Runs \ {r} PROVE PushedBy(x)'
    <2>1. CASE UNCHANGED tables
      BY <2>1, UntouchedPushed DEF Pushed
    <2>2. CASE pc[r] \in Active
      <3>1. pc'[x] \notin Syncing
        BY <2>2 DEF AtMostOne, Active, Syncing
      <3>2. (pc'[x] \notin Final => mapIx'[x] = 1) /\ mapIx'[x] \in Nat
        BY <3>1 DEF Pushed, PushedBy, TypeOK
      <3> QED BY <3>1, <3>2, OutsidePushed DEF Syncing
    <2> QED BY <2>1, <2>2
  <1> QED BY <1>1, <1>2 DEF Pushed

\* The next mapping's turn: the one before is up to date or reported.
LEMMA MappingSync ==
  ASSUME NEW r \in Runs, TypeInv, AtMostOne, Pushed, pc[r] \in {"querying", "pushing"},
         AfterMapping(r), UNCHANGED <<tables, aged>>,
         NEW m, m = MappingSeq[mapIx[r]],
         reportErrs'[r] = {} =>
           /\ reportErrs[r] = {} /\ \A e \in Known : Current(m, e)'
           /\ \A i \in 1..Len(MappingSeq) :
                MappingSeq[i] = m \/ typedb'[MappingSeq[i]] = typedb[MappingSeq[i]]
  PROVE  Pushed'
  <1>1. /\ pc' = [pc EXCEPT ![r] = IF mapIx[r] < Len(MappingSeq) THEN "querying" ELSE "signalling"]
        /\ mapIx' = [mapIx EXCEPT ![r] = @ + 1]
    BY DEF AfterMapping
  <1>2. mapIx[r] \in 1..Len(MappingSeq) /\ Len(MappingSeq) \in Nat
    BY RegistryAssumption DEF TypeInv, IndexesOK, BeforeSignals, Active
  <1>3. /\ pc'[r] = IF mapIx[r] < Len(MappingSeq) THEN "querying" ELSE "signalling"
        /\ mapIx'[r] = mapIx[r] + 1
        /\ \A x \in Runs \ {r} : pc'[x] = pc[x] /\ mapIx'[x] = mapIx[x]
    BY <1>1 DEF TypeInv, TypeOK
  <1>4. ASSUME reportErrs'[r] = {}, NEW i \in 1..Len(MappingSeq), i < mapIx'[r], NEW e \in Known
        PROVE  Current(MappingSeq[i], e)'
    <2>1. CASE MappingSeq[i] = m
      BY <1>4, <2>1
    <2>2. CASE i < mapIx[r] /\ MappingSeq[i] # m
      <3>1. Current(MappingSeq[i], e)
        BY <1>4, <2>2 DEF Pushed, PushedBy, Syncing
      <3>2. typedb'[MappingSeq[i]] = typedb[MappingSeq[i]]
        BY <1>4, <2>2
      <3> QED BY <3>1, <3>2, SameAnswers DEF Current
    <2> QED BY <1>2, <1>3, <1>4, <2>1, <2>2
  <1>5. PushedBy(r)'
    <2>1. pc'[r] = "signalling" => mapIx'[r] = Len(MappingSeq) + 1
      BY <1>2, <1>3
    <2>2. pc'[r] \in Syncing /\ pc'[r] # "pushing"
      BY <1>3 DEF Syncing
    <2> QED BY <1>4, <2>1, <2>2 DEF PushedBy
  <1>6. ASSUME NEW x \in Runs \ {r} PROVE PushedBy(x)'
    <2>1. pc'[x] \notin Syncing
      BY <1>3 DEF AtMostOne, Active, Syncing
    <2>2. (pc'[x] \notin Final => mapIx'[x] = 1) /\ mapIx'[x] \in Nat
      BY <1>3, <2>1 DEF Pushed, PushedBy, TypeInv, TypeOK
    <2> QED BY <2>1, <2>2, OutsidePushed DEF Syncing
  <1> QED BY <1>5, <1>6 DEF Pushed

\* A mapping whose batches were all written is up to date.
LEMMA WrittenCurrent ==
  ASSUME NEW r \in Runs, TypeInv, Pushed, PushAggregate(r),
         NEW m \in Mappings, m = MappingSeq[mapIx[r]], NEW e \in Known
  PROVE  Current(m, e)'
  <1>1. pc[r] = "pushing" /\ typedb' = Upsert(m, snap[r], Entities) /\ UNCHANGED <<tables, aged>>
    BY DEF PushAggregate
  <1>2. typedb'[m][e] = IF snap[r][e] # {} THEN snap[r][e] ELSE typedb[m][e]
    BY <1>1, RegistryAssumption DEF Upsert, TypeInv, TypeOK, Averaged
  <1>3. Query(m)[e] # {} => snap[r][e] \ aged = Query(m)[e]
    BY <1>1 DEF Pushed, PushedBy
  <1>4. Query(m)[e] # {} => snap[r][e] # {}
    BY <1>3
  <1>5. Query(m)'[e] = Query(m)[e] /\ aged' = aged
    BY <1>1, SameAnswers
  <1> QED BY <1>2, <1>3, <1>4, <1>5 DEF Current

\* The steps of the synchronisation.
LEMMA SyncStepSync ==
  ASSUME NEW r \in Runs, TypeInv, AtMostOne, Pushed,
         \/ QueryAggregate(r) \/ QueryFails(r) \/ PushAggregate(r) \/ PushFails(r)
         \/ SyncRaises(r) \/ InsertSignals(r) \/ SignalsFail(r)
  PROVE  Pushed'
  <1>1. TypeOK /\ MappingSeq \in Seq(Mappings)
    BY RegistryAssumption DEF TypeInv
  <1>2. pc[r] \in {"querying", "pushing"} =>
          mapIx[r] \in 1..Len(MappingSeq) /\ MappingSeq[mapIx[r]] \in Mappings
    BY <1>1 DEF TypeInv, IndexesOK, BeforeSignals, Active
  <1>3. CASE QueryAggregate(r)
    <2>1. /\ pc[r] = "querying" /\ pc' = [pc EXCEPT ![r] = "pushing"]
          /\ snap' = [snap EXCEPT ![r] = Query(MappingSeq[mapIx[r]])]
          /\ UNCHANGED <<tables, aged, typedb, mapIx, reportErrs>>
      BY <1>3 DEF QueryAggregate, Goto
    <2>2. \A x \in Runs \ {r} : pc'[x] = pc[x] /\ snap'[x] = snap[x]
      BY <1>1, <2>1 DEF TypeOK
    <2>3. pc'[r] = "pushing" /\ snap'[r] = Query(MappingSeq[mapIx[r]])
      BY <1>1, <2>1 DEF TypeOK
    <2>4. PushedBy(r)'
      <3>1. \A e \in Known : LET q == Query(MappingSeq[mapIx[r]])[e] IN
                             q # {} => q \ aged = q
        BY RegistryAssumption DEF Query
      <3>2. reportErrs[r] = {} => \A i \in 1..Len(MappingSeq) :
              i < mapIx[r] => \A e \in Known : Current(MappingSeq[i], e)
        BY <2>1 DEF Pushed, PushedBy, Syncing
      <3>3. mapIx'[r] = mapIx[r] /\ reportErrs'[r] = reportErrs[r] /\ aged' = aged
        BY <2>1
      <3>4. /\ \A i, e : Current(i, e)' <=> Current(i, e)
            /\ \A i : Query(i)' = Query(i)
        BY <2>1, SameAnswers
      <3> QED BY <2>3, <3>1, <3>2, <3>3, <3>4 DEF PushedBy, Syncing
    <2>5. \A x \in Runs \ {r} : PushedBy(x)'
      BY <2>1, <2>2, UntouchedPushed DEF Pushed
    <2> QED BY <2>4, <2>5 DEF Pushed
  <1>4. CASE QueryFails(r)
    <2>1. /\ pc[r] = "querying" /\ AfterMapping(r) /\ UNCHANGED <<tables, aged>>
          /\ reportErrs'[r] # {}
      BY <1>1, <1>4 DEF QueryFails, TypeOK
    <2> QED BY <2>1, MappingSync
  <1>5. CASE PushAggregate(r)
    <2>0. PICK m \in Mappings : m = MappingSeq[mapIx[r]]
      BY <1>2, <1>5 DEF PushAggregate
    <2>1. /\ pc[r] = "pushing" /\ AfterMapping(r) /\ UNCHANGED <<tables, aged, reportErrs>>
          /\ typedb' = Upsert(m, snap[r], Entities)
      BY <1>5, <2>0 DEF PushAggregate
    <2>2. \A e \in Known : Current(m, e)'
      BY <1>5, <2>0, WrittenCurrent
    <2>3. ASSUME NEW i \in 1..Len(MappingSeq), MappingSeq[i] # m
          PROVE  typedb'[MappingSeq[i]] = typedb[MappingSeq[i]]
      <3>1. MappingSeq[i] \in Mappings
        BY <1>1
      <3> QED BY <1>1, <2>1, <2>3, <3>1 DEF TypeOK, Upsert
    <2> QED BY <2>0, <2>1, <2>2, <2>3, MappingSync
  <1>6. CASE PushFails(r)
    <2>1. /\ pc[r] = "pushing" /\ AfterMapping(r) /\ UNCHANGED <<tables, aged>>
          /\ reportErrs'[r] # {}
      BY <1>1, <1>6 DEF PushFails, TypeOK
    <2> QED BY <2>1, MappingSync
  <1>7. CASE SyncRaises(r) \/ InsertSignals(r) \/ SignalsFail(r)
    <2>1. /\ pc[r] \in Syncing /\ pc' = [pc EXCEPT ![r] = "done"]
          /\ UNCHANGED <<tables, aged, mapIx>>
      BY <1>7 DEF SyncRaises, InsertSignals, SignalsFail, Goto, Syncing, syncVars
    <2>2. (\A x \in Runs \ {r} : pc'[x] = pc[x]) /\ pc'[r] = "done" /\ mapIx'[r] \in Nat
      BY <1>1, <2>1 DEF TypeOK
    <2>3. PushedBy(r)'
      BY <2>2, OutsidePushed DEF Final
    <2>4. ASSUME NEW x \in Runs \ {r} PROVE PushedBy(x)'
      <3>1. pc'[x] \notin Syncing
        BY <2>1, <2>2 DEF AtMostOne, Active, Syncing
      <3>2. (pc'[x] \notin Final => mapIx'[x] = 1) /\ mapIx'[x] \in Nat
        BY <1>1, <2>1, <2>2, <3>1 DEF Pushed, PushedBy, TypeOK
      <3> QED BY <3>1, <3>2, OutsidePushed DEF Syncing
    <2> QED BY <2>3, <2>4 DEF Pushed
  <1> QED BY <1>3, <1>4, <1>5, <1>6, <1>7

\* A crash leaves the rows and the aggregates as they are.
LEMMA CrashSync ==
  ASSUME NEW r \in Runs, TypeOK, Pushed, Crash(r) PROVE Pushed'
  <1>1. /\ pc' = [pc EXCEPT ![r] = "crashed"]
        /\ UNCHANGED <<tables, aged, typedb, mapIx, snap, reportErrs>>
    BY DEF Crash, syncVars
  <1>2. (\A x \in Runs \ {r} : pc'[x] = pc[x]) /\ pc'[r] = "crashed" /\ mapIx'[r] \in Nat
    BY <1>1 DEF TypeOK
  <1>3. PushedBy(r)'
    BY <1>2, OutsidePushed DEF Final
  <1>4. \A x \in Runs \ {r} : PushedBy(x)'
    BY <1>1, <1>2, UntouchedPushed DEF Pushed
  <1> QED BY <1>3, <1>4 DEF Pushed

\* A row that becomes older than 12 months leaves the answers, and is no longer
\* looked at in the attributes.
LEMMA AgeSync ==
  ASSUME NEW k \in MayAge, TypeInv, Pushed, Age(k) PROVE Pushed'
  <1>1. UNCHANGED <<pc, tables, typedb, mapIx, snap, reportErrs>> /\ aged' = aged \cup {k}
    BY DEF Age
  <1>2. ASSUME NEW m, NEW e \in Entities PROVE Query(m)'[e] = Query(m)[e] \ {k}
    <2>1. KeysFor(m)' = KeysFor(m)
      BY <1>1 DEF KeysFor
    <2> QED BY <1>1, <2>1 DEF Query
  <1>3. Known \subseteq Entities
    BY RegistryAssumption
  <1>4. ASSUME NEW m, NEW e \in Known, Current(m, e) PROVE Current(m, e)'
    <2>1. Query(m)'[e] = Query(m)[e] \ {k}
      BY <1>2, <1>3
    <2>2. Query(m)[e] # {} => typedb[m][e] \ aged = Query(m)[e]
      BY <1>4 DEF Current
    <2> QED BY <1>1, <2>1, <2>2 DEF Current
  <1>5. ASSUME NEW r \in Runs PROVE PushedBy(r)'
    <2>1. PushedBy(r)
      BY DEF Pushed
    <2>2. pc[r] = "pushing" =>
            \A e \in Known : LET q == Query(MappingSeq[mapIx[r]])'[e] IN
                             q # {} => snap[r][e] \ aged' = q
      <3> SUFFICES ASSUME pc[r] = "pushing", NEW e \in Known, NEW m,
                          m = MappingSeq[mapIx[r]], Query(m)'[e] # {}
                   PROVE  snap[r][e] \ aged' = Query(m)'[e]
        BY <1>1
      <3>1. Query(m)'[e] = Query(m)[e] \ {k}
        BY <1>2, <1>3
      <3>2. Query(m)[e] # {} => snap[r][e] \ aged = Query(m)[e]
        BY <2>1 DEF PushedBy
      <3> QED BY <1>1, <3>1, <3>2
    <2> QED BY <1>1, <1>4, <2>1, <2>2 DEF PushedBy
  <1> QED BY <1>5 DEF Pushed

\* Every step keeps the aggregates so.
LEMMA NextSync == TypeInv /\ AtMostOne /\ Pushed /\ [Next]_vars => Pushed'
  <1> SUFFICES ASSUME TypeInv, AtMostOne, Pushed, [Next]_vars PROVE Pushed'
    OBVIOUS
  <1>1. TypeOK
    BY DEF TypeInv
  <1>2. ASSUME NEW r \in Runs, Start(r) \/ RunStep(r) \/ Crash(r) PROVE Pushed'
    <2>1. CASE \/ Start(r) \/ GatherCollected(r) \/ Clean(r) \/ CleanRaises(r)
               \/ FinishCleaning(r) \/ ConnectFails(r) \/ Plan(r) \/ GatherTransformed(r)
               \/ \E s \in Sources : CollectOk(r, s) \/ CollectFails(r, s)
               \/ \E d \in Domains : Transform(r, d) \/ TransformFails(r, d)
      <3> USE DEF Start, CollectOk, CollectFails, GatherCollected, Clean, CleanRaises,
                  FinishCleaning, ConnectFails, Plan, Transform, TransformFails, GatherTransformed
      <3>1. UNCHANGED <<tables, aged, typedb, mapIx, snap, reportErrs>>
        BY <2>1 DEF syncVars
      <3>2. \A x \in Runs \ {r} : pc'[x] = pc[x]
        BY <1>1, <2>1 DEF Goto, Stay, TypeOK
      <3>3. pc[r] \notin Syncing \cup Final /\ pc'[r] \notin {"pushing", "signalling"}
        BY <1>1, <2>1 DEF Goto, Stay, TypeOK, Syncing, Final
      <3> QED BY <1>1, <3>1, <3>2, <3>3, BeforeSync
    <2>2. CASE \/ ReadFrame(r) \/ ReadFails(r) \/ FinishLoading(r)
               \/ \E d \in Domains : LoadTable(r, d) \/ LoadFails(r, d)
      <3>1. /\ pc[r] = "loading" /\ UNCHANGED <<aged, typedb, mapIx, snap, reportErrs>>
            /\ \A x \in Runs \ {r} : pc'[x] = pc[x]
            /\ pc'[r] \in {"loading", "querying"}
        BY <1>1, <2>2 DEF ReadFrame, ReadFails, FinishLoading, LoadTable, LoadFails, Goto, Stay,
                          TypeOK, syncVars
      <3>2. pc[r] \notin Syncing \cup Final /\ pc[r] \in Active
        BY <3>1 DEF Syncing, Final, Active
      <3> QED BY <1>1, <3>1, <3>2, BeforeSync
    <2>3. CASE \/ QueryAggregate(r) \/ QueryFails(r) \/ PushAggregate(r) \/ PushFails(r)
               \/ SyncRaises(r) \/ InsertSignals(r) \/ SignalsFail(r)
      BY <2>3, SyncStepSync
    <2>4. CASE Crash(r)
      BY <1>1, <2>4, CrashSync
    <2> QED BY <1>2, <2>1, <2>2, <2>3, <2>4 DEF RunStep
  <1>3. ASSUME NEW k \in MayAge, Age(k) PROVE Pushed'
    BY <1>3, AgeSync
  <1>4. CASE UNCHANGED vars
    BY <1>4, UntouchedPushed DEF vars, syncVars, Pushed
  <1> QED BY <1>2, <1>3, <1>4 DEF Next

\* The signals of a run whose SyncReport has no error are inferred from current
\* aggregates, if no two runs overlap.
THEOREM SerialAggregatesCurrent ==
  ASSUME IsFiniteSet(Runs), MaxActive = 1
  PROVE  Spec => []AggregatesCurrent
  <1>1. Init => AtMostOne /\ Pushed
    BY InitSync DEF Init, AtMostOne, Active
  <1>2. TypeOK /\ AtMostOne /\ [Next]_vars => AtMostOne'
    BY NextAlone
  <1>3. TypeInv => TypeOK
    BY DEF TypeInv
  <1>4. Pushed => AggregatesCurrent
    <2> SUFFICES ASSUME Pushed, NEW r \in Runs, pc[r] = "signalling", reportErrs[r] = {},
                        NEW m \in Mappings, NEW e \in Known
                 PROVE  Current(m, e)
      BY DEF AggregatesCurrent
    <2>1. PICK i \in DOMAIN MappingSeq : MappingSeq[i] = m
      BY MappingsAssumption
    <2>2. i \in 1..Len(MappingSeq) /\ Len(MappingSeq) \in Nat
      BY RegistryAssumption
    <2>3. mapIx[r] = Len(MappingSeq) + 1
      BY DEF Pushed, PushedBy
    <2>4. i < mapIx[r]
      BY <2>2, <2>3
    <2> QED BY <2>1, <2>2, <2>4 DEF Pushed, PushedBy, Syncing
  <1> QED BY <1>1, <1>2, <1>3, <1>4, NextSync, TypesInvariant, PTL DEF Spec
=============================================================================
