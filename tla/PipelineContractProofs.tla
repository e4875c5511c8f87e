----------------------- MODULE PipelineContractProofs -----------------------
(***************************************************************************)
(* What the caller of a scheduled run can rely on, for any registry, any   *)
(* number of overlapping runs and any failures: no outcome is silent in    *)
(* the FlowResult, and the runs implement RunContract.                     *)
(***************************************************************************)
EXTENDS PipelineRowProofs, PipelineContract

\* The phases of run_scheduled that come after each of its stages.
PastLoading      == {"querying", "pushing", "signalling", "done"}
PastTransforming == PastLoading \cup {"loading"}
PastPlanning     == PastTransforming \cup {"transforming"}
PastCleaning     == PastPlanning \cup {"connecting"}
PastCollecting   == PastCleaning \cup {"cleaning"}

\* A source was collected or its failure reported.
SourcesSettled(r) ==
  pc[r] \in PastCollecting =>
    \A s \in SourcesOf(flow[r]) :
      sstat[r][s] = "ok" \/ Err("collect", s) \in errors[r]

\* The failure of a file at a stage is in errors under the clean key of a source
\* that writes it.
Named(r, stage, f) ==
  \E s \in Sources : RawFile[s] = f /\ Err(stage, CleanKey[s]) \in errors[r]

\* A collected source's file has been cleaned or its failure reported.
FilesSettled(r) ==
  /\ \A f \in Files : /\ fstat[r][f] = "gate" => Named(r, "quality_gate", f)
                      /\ fstat[r][f] = "raised" => Named(r, "clean", f)
  /\ pc[r] \in PastCleaning =>
       \A s \in SourcesOf(flow[r]) : sstat[r][s] = "ok" => fstat[r][RawFile[s]] # "none"

\* A domain goes through its states in the order of the phases, and reports
\* what stops it.
DomainsSettled(r) ==
  /\ pc[r] \in PastPlanning =>
       \A d \in DomainsOf(flow[r]) : dstat[r][d] = "none" => Err("transform", d) \in errors[r]
  /\ pc[r] \in PastTransforming =>
       \A d \in DomainsOf(flow[r]) : /\ dstat[r][d] # "planned"
                                     /\ dstat[r][d] = "unusable" => Err("transform", d) \in errors[r]
  /\ \A d \in DomainsOf(flow[r]) : dstat[r][d] = "unloaded" => Err("load", d) \in errors[r]
  /\ pc[r] \in PastLoading =>
       \A d \in DomainsOf(flow[r]) : dstat[r][d] \notin {"transformed", "loading"}

\* The signals follow the last mapping, and a run that ends without them says so.
SyncSettled(r) ==
  /\ pc[r] = "signalling" => mapIx[r] = Len(MappingSeq) + 1
  /\ pc[r] = "done" => errors[r] # {} \/ (mapIx[r] = Len(MappingSeq) + 1 /\ r \in signals)

Settled(r) == SourcesSettled(r) /\ FilesSettled(r) /\ DomainsSettled(r) /\ SyncSettled(r)

ReportInv == \A r \in Runs : Settled(r)

-----------------------------------------------------------------------------
\* No error is withdrawn.
LEMMA NamedKept ==
  ASSUME NEW r \in Runs, errors[r] \subseteq errors'[r]
  PROVE  \A stage, f : Named(r, stage, f) => Named(r, stage, f)'
  BY DEF Named

\* A step keeps what a run has settled if it moves it to no other phase, forgets
\* no error and leaves its outcomes alone.
LEMMA SettledKept ==
  ASSUME NEW r \in Runs, Settled(r),
         pc'[r] = pc[r] \/ pc'[r] \in {"raised", "crashed", "collecting"},
         flow'[r] = flow[r], sstat'[r] = sstat[r], fstat'[r] = fstat[r], dstat'[r] = dstat[r],
         mapIx'[r] = mapIx[r], errors[r] \subseteq errors'[r], signals \subseteq signals'
  PROVE  Settled(r)'
  <1>1. SourcesSettled(r)'
    BY DEF Settled, SourcesSettled, PastCollecting, PastCleaning, PastPlanning,
           PastTransforming, PastLoading
  <1>2. FilesSettled(r)'
    BY NamedKept DEF Settled, FilesSettled, PastCleaning, PastPlanning, PastTransforming, PastLoading
  <1>3. DomainsSettled(r)'
    BY DEF Settled, DomainsSettled, PastPlanning, PastTransforming, PastLoading
  <1>4. SyncSettled(r)'
    BY DEF Settled, SyncSettled
  <1> QED BY <1>1, <1>2, <1>3, <1>4 DEF Settled

\* A run's step is its own: it changes nothing another run has settled.
LEMMA OthersKept ==
  ASSUME NEW r \in Runs, NEW x \in Runs \ {r}, TypeOK, Settled(x),
         Start(r) \/ RunStep(r) \/ Crash(r)
  PROVE  Settled(x)'
  <1>1. UNCHANGED runVars
    BY DEF RunStep, Start, Crash, CollectOk, CollectFails, GatherCollected, Clean, CleanRaises,
           FinishCleaning, ConnectFails, Plan, Transform, TransformFails, GatherTransformed,
           ReadFrame, ReadFails, LoadTable, LoadFails, FinishLoading, QueryAggregate,
           QueryFails, PushAggregate, PushFails, SyncRaises, InsertSignals, SignalsFail
  <1>2. pc'[x] = pc[x]
    BY DEF RunStep, Start, Crash, CollectOk, CollectFails, GatherCollected, Clean, CleanRaises,
           FinishCleaning, ConnectFails, Plan, Transform, TransformFails, GatherTransformed,
           ReadFrame, ReadFails, LoadTable, LoadFails, FinishLoading, QueryAggregate,
           QueryFails, PushAggregate, PushFails, SyncRaises, InsertSignals, SignalsFail,
           AfterMapping, Goto, Stay, TypeOK
  <1>3. sstat'[x] = sstat[x] /\ fstat'[x] = fstat[x]
    <2>1. CASE Clean(r) \/ CleanRaises(r)
      <3>1. PICK file : \E outcome : fstat' = [fstat EXCEPT ![r][file] = outcome]
        BY <2>1 DEF Clean, CleanRaises
      <3> QED BY <2>1, <3>1 DEF Clean, CleanRaises, TypeOK
    <2>2. CASE ~(Clean(r) \/ CleanRaises(r))
      BY <2>2 DEF RunStep, Start, Crash, CollectOk, CollectFails, GatherCollected, Clean, CleanRaises,
             FinishCleaning, ConnectFails, Plan, Transform, TransformFails, GatherTransformed,
             ReadFrame, ReadFails, LoadTable, LoadFails, FinishLoading, QueryAggregate,
             QueryFails, PushAggregate, PushFails, SyncRaises, InsertSignals, SignalsFail, TypeOK
    <2> QED BY <2>1, <2>2
  <1>4. dstat'[x] = dstat[x]
    <2>1. CASE Plan(r)
      <3>1. PICK e : dstat' = [dstat EXCEPT ![r] = e]
        BY <2>1 DEF Plan
      <3> QED BY <3>1 DEF TypeOK
    <2>2. CASE ReadFrame(r) \/ ReadFails(r)
      <3>1. PICK d : \E e : dstat' = [dstat EXCEPT ![r][d] = e]
        BY <2>2 DEF ReadFrame, ReadFails
      <3> QED BY <3>1 DEF TypeOK
    <2>3. CASE \E d \in Domains : LoadTable(r, d) \/ LoadFails(r, d)
      <3>1. UNCHANGED dstat \/ \E d, e : dstat' = [dstat EXCEPT ![r][d] = e]
        BY <2>3 DEF LoadTable, LoadFails, AbandonLoad
      <3> QED BY <3>1 DEF TypeOK
    <2>4. CASE \E d \in Domains : Transform(r, d) \/ TransformFails(r, d)
      BY <2>4 DEF Transform, TransformFails, TypeOK
    <2>5. CASE UNCHANGED dstat
      BY <2>5
    <2> QED BY <2>1, <2>2, <2>3, <2>4, <2>5
         DEF RunStep, Start, Crash, CollectOk, CollectFails, GatherCollected, Clean, CleanRaises,
             FinishCleaning, ConnectFails, GatherTransformed, FinishLoading, QueryAggregate,
             QueryFails, PushAggregate, PushFails, SyncRaises, InsertSignals, SignalsFail
  <1>5. errors'[x] = errors[x]
    BY ZenonT(30) DEF RunStep, Start, Crash, CollectOk, CollectFails, GatherCollected, Clean, CleanRaises,
           FinishCleaning, ConnectFails, Plan, Transform, TransformFails, GatherTransformed,
           ReadFrame, ReadFails, LoadTable, LoadFails, AbandonLoad, FinishLoading,
           QueryAggregate, QueryFails, PushAggregate, PushFails, SyncRaises, InsertSignals,
           SignalsFail, Report, TypeOK
  <1>6. mapIx'[x] = mapIx[x] /\ signals \subseteq signals'
    BY DEF RunStep, Start, Crash, CollectOk, CollectFails, GatherCollected, Clean, CleanRaises,
           FinishCleaning, ConnectFails, Plan, Transform, TransformFails, GatherTransformed,
           ReadFrame, ReadFails, LoadTable, LoadFails, FinishLoading, QueryAggregate,
           QueryFails, PushAggregate, PushFails, SyncRaises, InsertSignals, SignalsFail,
           AfterMapping, syncVars, TypeOK
  <1> QED BY <1>1, <1>2, <1>3, <1>4, <1>5, <1>6, SettledKept DEF runVars

-----------------------------------------------------------------------------
\* Starting, collecting and ending early settle nothing and unsettle nothing.
LEMMA EarlySettled ==
  ASSUME NEW r \in Runs, TypeOK, Settled(r),
         \/ Start(r) \/ ConnectFails(r) \/ Crash(r)
         \/ \E s \in Sources : CollectOk(r, s) \/ CollectFails(r, s)
  PROVE  Settled(r)'
  <1>1. CASE Start(r) \/ ConnectFails(r) \/ Crash(r)
    BY <1>1, SettledKept DEF Start, ConnectFails, Crash, Goto, runVars, syncVars, TypeOK
  <1>2. CASE \E s \in Sources : CollectOk(r, s) \/ CollectFails(r, s)
    <2>1. pc[r] = "collecting" /\ UNCHANGED <<pc, flow, fstat, dstat, mapIx, errors, signals>>
      BY <1>2 DEF CollectOk, CollectFails, Stay, runVars, syncVars
    <2> QED BY <2>1, NamedKept DEF Settled, SourcesSettled, FilesSettled, DomainsSettled, SyncSettled,
                        PastCollecting, PastCleaning, PastPlanning, PastTransforming,
                        PastLoading
  <1> QED BY <1>1, <1>2

\* The gather waits for every collector and reports those that failed.
LEMMA GatherSettled ==
  ASSUME NEW r \in Runs, TypeOK, Settled(r), GatherCollected(r)
  PROVE  Settled(r)'
  <1>1. /\ pc[r] = "collecting" /\ pc'[r] = "cleaning"
        /\ UNCHANGED <<flow, sstat, fstat, dstat, mapIx, signals>>
        /\ errors'[r] = errors[r] \cup CollectErrors(r)
    BY DEF GatherCollected, Goto, Report, runVars, syncVars, TypeOK
  <1>2. ASSUME NEW s \in SourcesOf(flow[r]), sstat[r][s] # "ok"
        PROVE  Err("collect", s) \in errors'[r]
    <2>1. sstat[r][s] = "failed"
      BY <1>2, NamesDeclared DEF GatherCollected, TypeOK
    <2> QED BY <1>1, <2>1 DEF CollectErrors
  <1>3. SourcesSettled(r)'
    BY <1>1, <1>2 DEF SourcesSettled
  <1>4. FilesSettled(r)' /\ DomainsSettled(r)' /\ SyncSettled(r)'
    BY <1>1, NamedKept DEF Settled, FilesSettled, DomainsSettled, SyncSettled, PastCleaning,
                PastPlanning, PastTransforming, PastLoading
  <1> QED BY <1>3, <1>4 DEF Settled

\* A file that is not clean is reported.
LEMMA CleanSettled ==
  ASSUME NEW r \in Runs, TypeOK, Settled(r), Clean(r) \/ CleanRaises(r)
  PROVE  Settled(r)'
  <1>1. /\ pc[r] = "cleaning" /\ UNCHANGED <<pc, flow, sstat, dstat, mapIx, signals>>
    BY DEF Clean, CleanRaises, Stay, runVars, syncVars
  <1>2. PICK s \in NextSource(r), outcome \in {"clean", "gate", "raised"} :
          /\ fstat' = [fstat EXCEPT ![r][RawFile[s]] = outcome]
          /\ outcome = "gate" => Report(r, {Err("quality_gate", CleanKey[s])})
          /\ outcome = "raised" => Report(r, {Err("clean", CleanKey[s])})
          /\ \E es : Report(r, es)
    <2>1. CASE Clean(r)
      <3>1. PICK s \in NextSource(r) : LET c == raw[Path(r, RawFile[s])] IN
              /\ fstat' = [fstat EXCEPT ![r][RawFile[s]] = IF c.good THEN "clean" ELSE "gate"]
              /\ Report(r, IF c.good THEN {} ELSE {Err("quality_gate", CleanKey[s])})
        BY <2>1 DEF Clean
      <3>2. CASE raw[Path(r, RawFile[s])].good
        <4>1. fstat' = [fstat EXCEPT ![r][RawFile[s]] = "clean"] /\ Report(r, {})
          BY <3>1, <3>2
        <4> QED BY <4>1
      <3>3. CASE ~raw[Path(r, RawFile[s])].good
        <4>1. /\ fstat' = [fstat EXCEPT ![r][RawFile[s]] = "gate"]
              /\ Report(r, {Err("quality_gate", CleanKey[s])})
          BY <3>1, <3>3
        <4> QED BY <4>1
      <3> QED BY <3>2, <3>3
    <2>2. CASE CleanRaises(r)
      <3>1. PICK s \in NextSource(r) : /\ fstat' = [fstat EXCEPT ![r][RawFile[s]] = "raised"]
                                      /\ Report(r, {Err("clean", CleanKey[s])})
        BY <2>2 DEF CleanRaises
      <3> QED BY <3>1
    <2> QED BY <2>1, <2>2
  <1>3. errors[r] \subseteq errors'[r]
    BY <1>2 DEF Report, TypeOK
  <1>4. ASSUME NEW f \in Files
        PROVE  /\ fstat'[r][f] = "gate" => Named(r, "quality_gate", f)'
               /\ fstat'[r][f] = "raised" => Named(r, "clean", f)'
    <2>1. CASE f = RawFile[s]
      <3>1. fstat'[r][f] = outcome
        BY <1>2, <2>1 DEF TypeOK
      <3>2. s \in Sources
        BY NamesDeclared DEF NextSource, FirstOf, ToClean, Collected, TypeOK
      <3>3. /\ outcome = "gate" => Err("quality_gate", CleanKey[s]) \in errors'[r]
            /\ outcome = "raised" => Err("clean", CleanKey[s]) \in errors'[r]
        BY <1>2 DEF Report, TypeOK
      <3> QED BY <2>1, <3>1, <3>2, <3>3 DEF Named
    <2>2. CASE f # RawFile[s]
      <3>1. fstat'[r][f] = fstat[r][f]
        BY <1>2, <2>2 DEF TypeOK
      <3> QED BY <1>3, <3>1, NamedKept DEF Settled, FilesSettled
    <2> QED BY <2>1, <2>2
  <1>5. FilesSettled(r)'
    BY <1>1, <1>4 DEF FilesSettled, PastCleaning, PastPlanning, PastTransforming, PastLoading
  <1>6. SourcesSettled(r)' /\ DomainsSettled(r)' /\ SyncSettled(r)'
    BY <1>1, <1>3 DEF Settled, SourcesSettled, DomainsSettled, SyncSettled
  <1> QED BY <1>5, <1>6 DEF Settled

\* The clean loop ends when no collected source is left.
LEMMA FinishCleaningSettled ==
  ASSUME NEW r \in Runs, TypeOK, Settled(r), FinishCleaning(r)
  PROVE  Settled(r)'
  <1>1. /\ pc[r] = "cleaning" /\ pc'[r] = "connecting"
        /\ UNCHANGED <<flow, sstat, fstat, dstat, mapIx, errors, signals>>
    BY DEF FinishCleaning, Goto, runVars, syncVars, TypeOK
  <1>2. \A s \in SourcesOf(flow[r]) : sstat[r][s] = "ok" => fstat[r][RawFile[s]] # "none"
    BY DEF FinishCleaning, ToClean, Collected
  <1>3. FilesSettled(r)'
    BY <1>1, <1>2, NamedKept DEF Settled, FilesSettled
  <1>4. SourcesSettled(r)' /\ DomainsSettled(r)' /\ SyncSettled(r)'
    BY <1>1 DEF Settled, SourcesSettled, DomainsSettled, SyncSettled, PastCollecting,
                PastCleaning, PastPlanning, PastTransforming, PastLoading
  <1> QED BY <1>3, <1>4 DEF Settled

\* A domain that is not admitted is reported.
LEMMA PlanSettled ==
  ASSUME NEW r \in Runs, TypeOK, Settled(r), Plan(r)
  PROVE  Settled(r)'
  <1> DEFINE new == {Err("transform", d) : d \in {x \in DomainsOf(flow[r]) : ~Admitted(r, x)}}
  <1>1. /\ pc[r] = "connecting" /\ pc'[r] = "transforming"
        /\ UNCHANGED <<flow, sstat, fstat, mapIx, signals>>
        /\ errors'[r] = errors[r] \cup new
    BY DEF Plan, Goto, Report, runVars, syncVars, TypeOK
  <1>2. dstat'[r] = [d \in Domains |-> IF Admitted(r, d) THEN "planned" ELSE "none"]
    BY DEF Plan, TypeOK
  <1>3. ASSUME NEW d \in DomainsOf(flow[r])
        PROVE  dstat'[r][d] \in {"planned", "none"}
               /\ (dstat'[r][d] = "none" => Err("transform", d) \in errors'[r])
    <2>1. d \in Domains
      BY NamesDeclared DEF TypeOK
    <2>2. CASE Admitted(r, d)
      BY <1>2, <2>1, <2>2
    <2>3. CASE ~Admitted(r, d)
      BY <1>1, <1>2, <2>1, <2>3
    <2> QED BY <2>2, <2>3
  <1>4. DomainsSettled(r)'
    BY <1>1, <1>3 DEF DomainsSettled, PastTransforming, PastLoading
  <1>5. SourcesSettled(r)' /\ FilesSettled(r)' /\ SyncSettled(r)'
    BY <1>1, NamedKept DEF Settled, SourcesSettled, FilesSettled, SyncSettled, PastCollecting,
                PastCleaning, PastPlanning
  <1> QED BY <1>4, <1>5 DEF Settled

\* A transform settles a domain while the gather waits for the others.
LEMMA TransformSettled ==
  ASSUME NEW r \in Runs, NEW d \in Domains, TypeOK, Settled(r),
         Transform(r, d) \/ TransformFails(r, d)
  PROVE  Settled(r)'
  <1>1. pc[r] = "transforming" /\ UNCHANGED <<pc, flow, sstat, fstat, mapIx, errors, signals>>
    BY DEF Transform, TransformFails, Stay, runVars, syncVars
  <1>2. PICK v \in {"transformed", "unusable"} : dstat' = [dstat EXCEPT ![r][d] = v]
    BY DEF Transform, TransformFails
  <1>3. DomainsSettled(r)'
    BY <1>1, <1>2 DEF Settled, DomainsSettled, PastTransforming, PastLoading, TypeOK
  <1>4. SourcesSettled(r)' /\ FilesSettled(r)' /\ SyncSettled(r)'
    BY <1>1, NamedKept DEF Settled, SourcesSettled, FilesSettled, SyncSettled
  <1> QED BY <1>3, <1>4 DEF Settled

\* The gather reports the transforms that failed.
LEMMA GatherTransformedSettled ==
  ASSUME NEW r \in Runs, TypeOK, Settled(r), GatherTransformed(r)
  PROVE  Settled(r)'
  <1>1. /\ pc[r] = "transforming" /\ pc'[r] = "loading"
        /\ UNCHANGED <<flow, sstat, fstat, dstat, mapIx, signals>>
        /\ errors'[r] = errors[r] \cup TransformErrors(r)
    BY DEF GatherTransformed, Goto, Report, runVars, syncVars, TypeOK
  <1>2. ASSUME NEW d \in DomainsOf(flow[r])
        PROVE  /\ dstat[r][d] # "planned"
               /\ dstat[r][d] = "unusable" => Err("transform", d) \in errors'[r]
    BY <1>1, NamesDeclared DEF GatherTransformed, TransformErrors, TypeOK
  <1>3. DomainsSettled(r)'
    BY <1>1, <1>2 DEF Settled, DomainsSettled, PastPlanning, PastTransforming, PastLoading
  <1>4. SourcesSettled(r)' /\ FilesSettled(r)' /\ SyncSettled(r)'
    BY <1>1, NamedKept DEF Settled, SourcesSettled, FilesSettled, SyncSettled, PastCollecting,
                PastCleaning, PastPlanning, PastTransforming
  <1> QED BY <1>3, <1>4 DEF Settled

\* A step of the load loop moves one domain on; one it gives up is reported.
LEMMA DomainSettled ==
  ASSUME NEW r \in Runs, TypeOK, Settled(r), NEW d, NEW v \in {"loading", "loaded", "unloaded"},
         Stay(r, "loading"), UNCHANGED <<flow, sstat, fstat, mapIx, signals>>,
         dstat' = [dstat EXCEPT ![r][d] = v] \/ UNCHANGED dstat,
         errors[r] \subseteq errors'[r],
         v = "unloaded" => Err("load", d) \in errors'[r]
  PROVE  Settled(r)'
  <1>1. pc[r] = "loading" /\ UNCHANGED pc
    BY DEF Stay
  <1>2. ASSUME NEW e \in DomainsOf(flow[r])
        PROVE  \/ dstat'[r][e] = dstat[r][e]
               \/ dstat'[r][e] \in {"loading", "loaded"}
               \/ dstat'[r][e] = "unloaded" /\ Err("load", e) \in errors'[r]
    <2>1. e \in Domains
      BY NamesDeclared DEF TypeOK
    <2>2. CASE e = d
      BY <2>1, <2>2 DEF TypeOK
    <2>3. CASE e # d
      BY <2>1, <2>3 DEF TypeOK
    <2> QED BY <2>2, <2>3
  <1>3. DomainsSettled(r)'
    BY <1>1, <1>2 DEF Settled, DomainsSettled, PastPlanning, PastTransforming, PastLoading
  <1>4. SourcesSettled(r)' /\ FilesSettled(r)' /\ SyncSettled(r)'
    BY <1>1, NamedKept DEF Settled, SourcesSettled, FilesSettled, SyncSettled
  <1> QED BY <1>3, <1>4 DEF Settled

\* The load loop.
LEMMA LoadSettled ==
  ASSUME NEW r \in Runs, TypeOK, Settled(r),
         \/ ReadFrame(r) \/ ReadFails(r)
         \/ \E d \in Domains : LoadTable(r, d) \/ LoadFails(r, d)
  PROVE  Settled(r)'
  <1>1. CASE ReadFrame(r)
    <2>1. PICK d \in NextDomain(r) : dstat' = [dstat EXCEPT ![r][d] = "loading"]
      BY <1>1 DEF ReadFrame
    <2> QED BY <1>1, <2>1, DomainSettled DEF ReadFrame, runVars, syncVars
  <1>2. CASE ReadFails(r)
    <2>1. PICK d \in NextDomain(r) : /\ dstat' = [dstat EXCEPT ![r][d] = "unloaded"]
                                     /\ Report(r, {Err("load", d)})
      BY <1>2 DEF ReadFails
    <2>2. errors'[r] = errors[r] \cup {Err("load", d)}
      BY <2>1 DEF Report, TypeOK
    <2> QED BY <1>2, <2>1, <2>2, DomainSettled DEF ReadFails, runVars, syncVars
  <1>3. ASSUME NEW d \in Domains, LoadTable(r, d) \/ LoadFails(r, d)
        PROVE  Settled(r)'
    <2>1. Stay(r, "loading") /\ UNCHANGED <<flow, sstat, fstat, mapIx, signals>>
      BY <1>3 DEF LoadTable, LoadFails, runVars, syncVars
    <2>2. CASE AbandonLoad(r, d)
      <3>1. errors'[r] = errors[r] \cup {Err("load", d)}
        BY <2>2 DEF AbandonLoad, Report, TypeOK
      <3> QED BY <2>1, <2>2, <3>1, DomainSettled DEF AbandonLoad
    <2>3. CASE ~AbandonLoad(r, d)
      <3>1. UNCHANGED errors
        BY <1>3, <2>3 DEF LoadTable, LoadFails
      <3>2. dstat' = [dstat EXCEPT ![r][d] = "loaded"] \/ UNCHANGED dstat
        BY <1>3, <2>3 DEF LoadTable, LoadFails
      <3> QED BY <2>1, <3>1, <3>2, DomainSettled
    <2> QED BY <2>2, <2>3
  <1> QED BY <1>1, <1>2, <1>3

\* The load loop ends when no domain is left.
LEMMA FinishLoadingSettled ==
  ASSUME NEW r \in Runs, TypeOK, Settled(r), FinishLoading(r)
  PROVE  Settled(r)'
  <1>1. /\ pc[r] = "loading" /\ pc'[r] = "querying"
        /\ UNCHANGED <<flow, sstat, fstat, dstat, mapIx, errors, signals>>
    BY DEF FinishLoading, Goto, runVars, syncVars, TypeOK
  <1>2. \A d \in DomainsOf(flow[r]) : dstat[r][d] \notin {"transformed", "loading"}
    BY NamesDeclared DEF FinishLoading, Loading, ToLoad, TypeOK
  <1>3. DomainsSettled(r)'
    BY <1>1, <1>2 DEF Settled, DomainsSettled, PastPlanning, PastTransforming
  <1>4. SourcesSettled(r)' /\ FilesSettled(r)' /\ SyncSettled(r)'
    BY <1>1, NamedKept DEF Settled, SourcesSettled, FilesSettled, SyncSettled, PastCollecting,
                PastCleaning, PastPlanning, PastTransforming
  <1> QED BY <1>3, <1>4 DEF Settled

\* The synchronisation settles nothing of the stages before it.
LEMMA SyncSettles ==
  ASSUME NEW r \in Runs, TypeInv, Settled(r),
         \/ QueryAggregate(r) \/ QueryFails(r) \/ PushAggregate(r) \/ PushFails(r)
         \/ SyncRaises(r) \/ InsertSignals(r) \/ SignalsFail(r)
  PROVE  Settled(r)'
  <1>1. TypeOK
    BY DEF TypeInv
  <1>2. UNCHANGED <<flow, sstat, fstat, dstat>>
    BY DEF QueryAggregate, QueryFails, PushAggregate, PushFails, SyncRaises, InsertSignals,
           SignalsFail, runVars
  <1>3. errors[r] \subseteq errors'[r]
    BY <1>1 DEF QueryAggregate, QueryFails, PushAggregate, PushFails, SyncRaises, InsertSignals,
           SignalsFail, Report, TypeOK
  <1>4. pc[r] \in PastLoading /\ pc'[r] \in PastLoading
    BY <1>1 DEF QueryAggregate, QueryFails, PushAggregate, PushFails, SyncRaises, InsertSignals,
           SignalsFail, AfterMapping, Goto, PastLoading, TypeOK
  <1>5. SourcesSettled(r)' /\ FilesSettled(r)' /\ DomainsSettled(r)'
    BY <1>2, <1>3, <1>4, NamedKept DEF Settled, SourcesSettled, FilesSettled, DomainsSettled,
       PastCollecting, PastCleaning, PastPlanning, PastTransforming
  <1>6. SyncSettled(r)'
    <2>1. CASE QueryAggregate(r)
      BY <1>1, <2>1 DEF QueryAggregate, Goto, SyncSettled, TypeOK
    <2>2. CASE QueryFails(r) \/ PushAggregate(r) \/ PushFails(r)
      <3>1. AfterMapping(r) /\ pc[r] \in BeforeSignals
        BY <2>2 DEF QueryFails, PushAggregate, PushFails, BeforeSignals, Active
      <3>2. mapIx[r] \in 1..Len(MappingSeq)
        BY <3>1 DEF TypeInv, IndexesOK
      <3>3. Len(MappingSeq) \in Nat
        BY RegistryAssumption
      <3>4. /\ mapIx'[r] = mapIx[r] + 1
            /\ pc'[r] = IF mapIx[r] < Len(MappingSeq) THEN "querying" ELSE "signalling"
        BY <1>1, <3>1 DEF AfterMapping, TypeOK
      <3> QED BY <3>2, <3>3, <3>4 DEF SyncSettled
    <2>3. CASE SyncRaises(r)
      <3>1. errors'[r] # {} /\ pc'[r] = "done"
        BY <1>1, <2>3 DEF SyncRaises, Report, Goto, TypeOK
      <3> QED BY <3>1 DEF SyncSettled
    <2>4. CASE InsertSignals(r)
      <3>1. pc[r] = "signalling" /\ pc'[r] = "done" /\ r \in signals' /\ UNCHANGED mapIx
        BY <1>1, <2>4 DEF InsertSignals, Goto, TypeOK
      <3> QED BY <3>1 DEF Settled, SyncSettled
    <2>5. CASE SignalsFail(r)
      <3>1. errors'[r] # {} /\ pc'[r] = "done"
        BY <1>1, <2>5 DEF SignalsFail, Report, Goto, TypeOK
      <3> QED BY <3>1 DEF SyncSettled
    <2> QED BY <2>1, <2>2, <2>3, <2>4, <2>5
  <1> QED BY <1>5, <1>6 DEF Settled

-----------------------------------------------------------------------------
\* Nothing is settled initially.
LEMMA InitReport == Init => ReportInv
  <1> SUFFICES ASSUME Init, NEW r \in Runs PROVE Settled(r)
    BY DEF ReportInv
  <1>1. /\ pc[r] = "idle"
        /\ \A f \in Files : fstat[r][f] = "none"
        /\ \A d \in Domains : dstat[r][d] = "none"
        /\ flow[r] \in Flows
    BY DEF Init
  <1>2. DomainsOf(flow[r]) \subseteq Domains
    BY <1>1, NamesDeclared
  <1> QED BY <1>1, <1>2 DEF Settled, SourcesSettled, FilesSettled, DomainsSettled, SyncSettled,
         PastCollecting, PastCleaning, PastPlanning, PastTransforming, PastLoading

\* Every step keeps the invariant.
LEMMA NextReport == TypeInv /\ ReportInv /\ [Next]_vars => ReportInv'
  <1> SUFFICES ASSUME TypeInv, ReportInv, [Next]_vars PROVE ReportInv'
    OBVIOUS
  <1>1. TypeOK
    BY DEF TypeInv
  <1>2. ASSUME NEW r \in Runs, Start(r) \/ RunStep(r) \/ Crash(r) PROVE ReportInv'
    <2>1. Settled(r)
      BY DEF ReportInv
    <2>2. Settled(r)'
      <3>1. CASE \/ Start(r) \/ ConnectFails(r) \/ Crash(r)
                 \/ \E s \in Sources : CollectOk(r, s) \/ CollectFails(r, s)
        BY <1>1, <2>1, <3>1, EarlySettled
      <3>2. CASE GatherCollected(r) \/ Clean(r) \/ CleanRaises(r) \/ FinishCleaning(r)
        BY <1>1, <2>1, <3>2, GatherSettled, CleanSettled, FinishCleaningSettled
      <3>3. CASE Plan(r) \/ GatherTransformed(r) \/ FinishLoading(r)
        BY <1>1, <2>1, <3>3, PlanSettled, GatherTransformedSettled, FinishLoadingSettled
      <3>4. CASE \E d \in Domains : Transform(r, d) \/ TransformFails(r, d)
        BY <1>1, <2>1, <3>4, TransformSettled
      <3>5. CASE \/ ReadFrame(r) \/ ReadFails(r)
                 \/ \E d \in Domains : LoadTable(r, d) \/ LoadFails(r, d)
        BY <1>1, <2>1, <3>5, LoadSettled
      <3>6. CASE \/ QueryAggregate(r) \/ QueryFails(r) \/ PushAggregate(r) \/ PushFails(r)
                 \/ SyncRaises(r) \/ InsertSignals(r) \/ SignalsFail(r)
        BY <2>1, <3>6, SyncSettles
      <3> QED BY <1>2, <3>1, <3>2, <3>3, <3>4, <3>5, <3>6 DEF RunStep
    <2>3. \A x \in Runs \ {r} : Settled(x)'
      BY <1>1, <1>2, OthersKept DEF ReportInv
    <2> QED BY <2>2, <2>3 DEF ReportInv
  <1>3. ASSUME UNCHANGED <<pc, runVars, sstat, fstat, dstat, mapIx, errors, signals>>
        PROVE  ReportInv'
    BY <1>3, SettledKept DEF ReportInv, runVars
  <1>4. ASSUME NEW k \in MayAge, Age(k) PROVE ReportInv'
    BY <1>3, <1>4 DEF Age
  <1>5. CASE UNCHANGED vars
    BY <1>3, <1>5 DEF vars, syncVars
  <1> QED BY <1>2, <1>4, <1>5 DEF Next

\* Whatever a run has behind it is done or in its errors.
THEOREM ReportInvariant == Spec => []ReportInv
  <1> QED BY InitReport, NextReport, TypesInvariant, PTL DEF Spec

\* When a run returns, its errors name every source not collected, the clean key
\* of every source not cleaned and every domain not loaded.
THEOREM ReportsAreComplete == Spec => []ReportComplete
  <1>1. TypeInv /\ ReportInv => ReportComplete
    <2> SUFFICES ASSUME TypeInv, ReportInv, NEW r \in Runs, pc[r] = "done"
                 PROVE  /\ \A s \in SourcesOf(flow[r]) :
                             \/ sstat[r][s] = "ok" /\ fstat[r][RawFile[s]] = "clean"
                             \/ Err("collect", s) \in errors[r]
                             \/ \E stage \in {"clean", "quality_gate"} :
                                   Err(stage, CleanKey[s]) \in errors[r]
                        /\ \A d \in DomainsOf(flow[r]) :
                             \/ dstat[r][d] = "loaded"
                             \/ \E stage \in {"transform", "load"} : Err(stage, d) \in errors[r]
      BY DEF ReportComplete
    <2>1. Settled(r) /\ TypeOK
      BY DEF ReportInv, TypeInv
    <2>2. ASSUME NEW s \in SourcesOf(flow[r])
          PROVE  \/ sstat[r][s] = "ok" /\ fstat[r][RawFile[s]] = "clean"
                 \/ Err("collect", s) \in errors[r]
                 \/ \E stage \in {"clean", "quality_gate"} : Err(stage, CleanKey[s]) \in errors[r]
      <3>1. RawFile[s] \in Files
        BY <2>1, NamesDeclared, RegistryAssumption DEF TypeOK
      <3>2. fstat[r][RawFile[s]] \in {"none", "clean", "gate", "raised"}
        BY <2>1, <3>1 DEF TypeOK
      <3>3. s \in Sources
        BY <2>1, NamesDeclared DEF TypeOK
      <3>4. \A stage : Named(r, stage, RawFile[s]) => Err(stage, CleanKey[s]) \in errors[r]
        BY <3>3, RegistryAssumption DEF Named
      <3> QED BY <2>1, <3>1, <3>2, <3>4 DEF Settled, SourcesSettled, FilesSettled, PastCollecting,
                 PastCleaning, PastPlanning, PastTransforming, PastLoading
    <2>3. ASSUME NEW d \in DomainsOf(flow[r])
          PROVE  dstat[r][d] = "loaded" \/ \E stage \in {"transform", "load"} :
                                             Err(stage, d) \in errors[r]
      <3>1. d \in Domains
        BY <2>1, NamesDeclared DEF TypeOK
      <3>2. dstat[r][d] \in {"none", "planned", "transformed", "unusable", "loading", "loaded",
                             "unloaded"}
        BY <2>1, <3>1 DEF TypeOK
      <3> QED BY <2>1, <3>2 DEF Settled, DomainsSettled, PastPlanning, PastTransforming,
                 PastLoading
    <2> QED BY <2>2, <2>3
  <1> QED BY <1>1, ReportInvariant, TypesInvariant, PTL

\* A FlowResult without errors means the whole run took effect.
THEOREM SuccessIsSynced == Spec => []SuccessMeansSynced
  <1>1. ReportInv /\ ReportComplete => SuccessMeansSynced
    BY DEF ReportInv, Settled, SyncSettled, ReportComplete, SuccessMeansSynced
  <1> QED BY <1>1, ReportInvariant, ReportsAreComplete, PTL

-----------------------------------------------------------------------------
\* The places of a run, as its caller tells them apart.
LEMMA PhaseOf ==
  /\ Phase("idle") = "idle"
  /\ \A at \in Active : Phase(at) = "running"
  /\ Phase("done") = "answered"
  /\ Phase("raised") = "lost" /\ Phase("crashed") = "lost"
  BY DEF Phase, Active

\* What RunContract calls the rows stored by a run are its rows here.
LEMMA SameRows == \A r \in Runs : Contract!StoredBy(r) = RowsBy(r)
  BY DEF Contract!StoredBy, RowsBy

\* A step inside a run that stores, counts and reports no load failure can not
\* be seen from outside.
LEMMA Unseen ==
  ASSUME UNCHANGED <<tables, counted>>,
         \A x \in Runs : Phase(pc'[x]) = Phase(pc[x]),
         \A x \in Runs : LoadFailed(x)' = LoadFailed(x)
  PROVE  UNCHANGED Contract!vars
  BY DEF Contract!vars

\* Errors of other stages leave the load failures as they are.
LEMMA OtherErrors ==
  ASSUME NEW r \in Runs, TypeOK, NEW es, \A e \in es : e.stage # "load", Report(r, es)
  PROVE  \A x \in Runs : LoadFailed(x)' = LoadFailed(x)
  BY DEF Report, LoadFailed, TypeOK

\* Nor does a step that reports nothing.
LEMMA NoErrors ==
  ASSUME UNCHANGED errors
  PROVE  \A x \in Runs : LoadFailed(x)' = LoadFailed(x)
  BY DEF LoadFailed

\* A run that moves on among its own phases looks the same.
LEMMA MovesOn ==
  ASSUME NEW r \in Runs, TypeOK, NEW to \in Active, pc[r] \in Active,
         pc' = [pc EXCEPT ![r] = to]
  PROVE  \A x \in Runs : Phase(pc'[x]) = Phase(pc[x])
  BY PhaseOf DEF TypeOK

\* A run that changes its phase changes nobody else's.
LEMMA TurnOf ==
  ASSUME NEW r \in Runs, TypeOK, NEW to, pc' = [pc EXCEPT ![r] = to],
         NEW phase, Phase(to) = phase
  PROVE  [x \in Runs |-> Phase(pc'[x])] = [[x \in Runs |-> Phase(pc[x])] EXCEPT ![r] = phase]
  BY DEF TypeOK

-----------------------------------------------------------------------------
\* A failed load is reported once and for all.
LEMMA LoadReported ==
  ASSUME NEW r \in Runs, TypeOK, NEW d, Stay(r, "loading"), Report(r, {Err("load", d)}),
         UNCHANGED <<tables, counted>>
  PROVE  Contract!Fail(r)
  <1>1. Phase(pc[r]) = "running"
    BY PhaseOf DEF Stay, Active
  <1>2. LoadFailed(r)'
    <2>1. Err("load", d) \in errors'[r]
      BY DEF Report, TypeOK
    <2>2. Err("load", d).stage = "load"
      BY DEF Err
    <2> QED BY <2>1, <2>2 DEF LoadFailed
  <1>3. \A x \in Runs \ {r} : LoadFailed(x)' = LoadFailed(x)
    BY DEF Report, LoadFailed, TypeOK
  <1>4. [x \in Runs |-> LoadFailed(x)'] = [[x \in Runs |-> LoadFailed(x)] EXCEPT ![r] = TRUE]
    BY <1>2, <1>3
  <1> QED BY <1>1, <1>4 DEF Contract!Fail, Stay

\* A run answers with all its rows counted, or with a load failure.
LEMMA Answers ==
  ASSUME NEW r \in Runs, TypeOK, RowInv, NEW from \in {"pushing", "signalling"},
         Goto(r, from, "done"), UNCHANGED <<tables, counted>>,
         \A x \in Runs : LoadFailed(x)' = LoadFailed(x)
  PROVE  Contract!Answer(r)
  <1>1. LoadFailed(r) \/ counted[r] = Contract!StoredBy(r)
    <2>1. batch[r] = {}
      BY DEF RowInv, LoadsInPhase, Goto
    <2>2. LoadFailed(r) \/ NoLoadError(r)
      BY DEF LoadFailed, NoLoadError
    <2>3. NoLoadError(r) => counted[r] = RowsBy(r)
      BY <2>1 DEF RowInv, Stored, Accounted
    <2> QED BY <2>2, <2>3, SameRows
  <1>2. Phase(pc[r]) = "running"
    BY PhaseOf DEF Goto, Active
  <1>3. [x \in Runs |-> Phase(pc'[x])]
          = [[x \in Runs |-> Phase(pc[x])] EXCEPT ![r] = "answered"]
    <2>1. pc' = [pc EXCEPT ![r] = "done"] /\ Phase("done") = "answered"
      BY PhaseOf DEF Goto
    <2> QED BY <2>1, TurnOf
  <1> QED BY <1>1, <1>2, <1>3 DEF Contract!Answer, Contract!Turn

\* A table is inserted: its rows are new under their keys and the run's own.
LEMMA Inserts ==
  ASSUME NEW r \in Runs, NEW d \in Domains, TypeInv, RowInv, RowInv', LoadTable(r, d)
  PROVE  Contract!Store(r) \/ Contract!Fail(r)
  <1> DEFINE t == DomainTables[d][tbl[r]]
             c == frame[r][t]
             new == NewRows(r, t, c)
  <1>1. Stay(r, "loading") /\ TypeOK
    BY DEF LoadTable, TypeInv
  <1>2. CASE Conflicts(t, c.keys)
    BY <1>1, <1>2, LoadReported DEF LoadTable, AbandonLoad
  <1>3. CASE ~Conflicts(t, c.keys)
    <2>1. tables' = tables \cup new /\ UNCHANGED errors
      BY <1>3 DEF LoadTable
    <2>2. \A row \in new : row.by = r /\ \A old \in tables : ~Contract!SameKey(row, old)
      <3>1. \A row \in new : row.by = r /\ row.table = t /\ row.key \in c.keys
        BY DEF NewRows
      <3>2. \A old \in tables : ~(old.table = t /\ old.key \in c.keys)
        BY <1>3 DEF Conflicts
      <3> HIDE DEF new, t, c
      <3> QED BY <3>1, <3>2, Zenon DEF Contract!SameKey
    <2>3. PICK more : counted' = [counted EXCEPT ![r] = @ \cup more]
      <3>1. CASE tbl[r] < Len(DomainTables[d])
        <4>1. counted' = [counted EXCEPT ![r] = @ \cup {}]
          BY <1>1, <1>3, <3>1 DEF LoadTable, TypeOK
        <4> QED BY <4>1
      <3>2. CASE ~(tbl[r] < Len(DomainTables[d]))
        BY <1>3, <3>2 DEF LoadTable
      <3> QED BY <3>1, <3>2
    <2> HIDE DEF new
    <2>4. counted[r] \subseteq counted'[r] /\ counted' = [counted EXCEPT ![r] = counted'[r]]
      BY <1>1, <2>3 DEF TypeOK
    <2>5. \A row \in counted'[r] : row \in tables' /\ row.by = r
      BY DEF RowInv, Stored, RowsBy
    <2>6. Phase(pc[r]) = "running" /\ UNCHANGED pc
      BY <1>1, PhaseOf DEF Stay, Active
    <2>7. \A x \in Runs : LoadFailed(x)' = LoadFailed(x)
      BY <2>1, NoErrors
    <2> QED BY <2>1, <2>2, <2>4, <2>5, <2>6, <2>7 DEF Contract!Store
  <1> QED BY <1>2, <1>3

-----------------------------------------------------------------------------
\* Initially nobody runs and nothing is stored.
LEMMA InitContract == Init => Contract!Init
  BY PhaseOf DEF Init, Contract!Init, LoadFailed

\* The steps before and after the loads.
LEMMA StagesUnseen ==
  ASSUME NEW r \in Runs, TypeOK,
         \/ \E s \in Sources : CollectOk(r, s) \/ CollectFails(r, s)
         \/ GatherCollected(r) \/ Clean(r) \/ CleanRaises(r) \/ FinishCleaning(r)
         \/ Plan(r) \/ \E d \in Domains : Transform(r, d) \/ TransformFails(r, d)
         \/ GatherTransformed(r) \/ ReadFrame(r) \/ FinishLoading(r)
         \/ QueryAggregate(r) \/ QueryFails(r) \/ PushAggregate(r) \/ PushFails(r)
  PROVE  UNCHANGED Contract!vars
  <1>1. UNCHANGED <<tables, counted>>
    BY DEF CollectOk, CollectFails, GatherCollected, Clean, CleanRaises, FinishCleaning, Plan,
           Transform, TransformFails, GatherTransformed, ReadFrame, FinishLoading,
           QueryAggregate, QueryFails, PushAggregate, PushFails, loadVars
  <1>2. \A x \in Runs : Phase(pc'[x]) = Phase(pc[x])
    <2>1. CASE \/ \E s \in Sources : CollectOk(r, s) \/ CollectFails(r, s)
               \/ Clean(r) \/ CleanRaises(r) \/ ReadFrame(r)
               \/ \E d \in Domains : Transform(r, d) \/ TransformFails(r, d)
      BY <2>1 DEF CollectOk, CollectFails, Clean, CleanRaises, ReadFrame, Transform,
                  TransformFails, Stay
    <2>2. CASE \/ GatherCollected(r) \/ FinishCleaning(r) \/ Plan(r) \/ GatherTransformed(r)
               \/ FinishLoading(r) \/ QueryAggregate(r)
      <3>1. PICK to \in Active : pc[r] \in Active /\ pc' = [pc EXCEPT ![r] = to]
        BY <2>2 DEF GatherCollected, FinishCleaning, Plan, GatherTransformed, FinishLoading,
                    QueryAggregate, Goto, Active
      <3> QED BY <3>1, MovesOn
    <2>3. CASE QueryFails(r) \/ PushAggregate(r) \/ PushFails(r)
      <3>1. AfterMapping(r) /\ pc[r] \in Active
        BY <2>3 DEF QueryFails, PushAggregate, PushFails, Active
      <3>2. CASE mapIx[r] < Len(MappingSeq)
        BY <3>1, <3>2, MovesOn DEF AfterMapping, Active
      <3>3. CASE ~(mapIx[r] < Len(MappingSeq))
        BY <3>1, <3>3, MovesOn DEF AfterMapping, Active
      <3> QED BY <3>2, <3>3
    <2> QED BY <2>1, <2>2, <2>3
  <1>3. \A x \in Runs : LoadFailed(x)' = LoadFailed(x)
    <2>1. CASE UNCHANGED errors
      BY <2>1, NoErrors
    <2>2. CASE GatherCollected(r)
      BY <2>2, OtherErrors DEF GatherCollected, CollectErrors, Err
    <2>3. CASE Clean(r) \/ CleanRaises(r)
      <3>1. CASE Clean(r)
        <4>1. PICK s \in NextSource(r) : LET c == raw[Path(r, RawFile[s])] IN
                Report(r, IF c.good THEN {} ELSE {Err("quality_gate", CleanKey[s])})
          BY <3>1 DEF Clean
        <4> QED BY <4>1, OtherErrors DEF Err
      <3>2. CASE CleanRaises(r)
        BY <3>2, OtherErrors DEF CleanRaises, Err
      <3> QED BY <2>3, <3>1, <3>2
    <2>4. CASE Plan(r)
      BY <2>4, OtherErrors DEF Plan, Err
    <2>5. CASE GatherTransformed(r)
      BY <2>5, OtherErrors DEF GatherTransformed, TransformErrors, Err
    <2> QED BY <2>1, <2>2, <2>3, <2>4, <2>5
         DEF CollectOk, CollectFails, FinishCleaning, Transform, TransformFails, ReadFrame,
             FinishLoading, QueryAggregate, QueryFails, PushAggregate, PushFails
  <1> QED BY <1>1, <1>2, <1>3, Unseen

\* The steps a caller sees.
LEMMA StepsSeen ==
  ASSUME NEW r \in Runs, TypeOK, RowInv,
         \/ Start(r) \/ ConnectFails(r) \/ Crash(r) \/ ReadFails(r)
         \/ \E d \in Domains : LoadFails(r, d)
         \/ SyncRaises(r) \/ InsertSignals(r) \/ SignalsFail(r)
  PROVE  Contract!Begin(r) \/ Contract!Lose(r) \/ Contract!Fail(r) \/ Contract!Answer(r)
  <1>1. CASE Start(r)
    <2>1. \A x \in Runs : LoadFailed(x)' = LoadFailed(x)
      BY <1>1, NoErrors DEF Start
    <2>2. [x \in Runs |-> Phase(pc'[x])]
            = [[x \in Runs |-> Phase(pc[x])] EXCEPT ![r] = "running"]
      <3>1. pc' = [pc EXCEPT ![r] = "collecting"]
        BY <1>1 DEF Start, Goto
      <3>2. Phase("collecting") = "running"
        BY PhaseOf DEF Active
      <3> QED BY <3>1, <3>2, TurnOf
    <2> QED BY <1>1, <2>1, <2>2, PhaseOf DEF Start, Goto, loadVars, Contract!Begin, Contract!Turn
  <1>2. CASE ConnectFails(r) \/ Crash(r)
    <2>1. \A x \in Runs : LoadFailed(x)' = LoadFailed(x)
      BY <1>2, NoErrors DEF ConnectFails, Crash
    <2>2. PICK to \in {"raised", "crashed"} : pc[r] \in Active /\ pc' = [pc EXCEPT ![r] = to]
      BY <1>2 DEF ConnectFails, Crash, Goto, Active
    <2>3. [x \in Runs |-> Phase(pc'[x])]
            = [[x \in Runs |-> Phase(pc[x])] EXCEPT ![r] = "lost"]
      <3>1. Phase(to) = "lost"
        BY PhaseOf
      <3> QED BY <2>2, <3>1, TurnOf
    <2>4. Phase(pc[r]) = "running" /\ UNCHANGED <<tables, counted>>
      BY <1>2, <2>2, PhaseOf DEF ConnectFails, Crash, loadVars
    <2> QED BY <2>1, <2>3, <2>4 DEF Contract!Lose, Contract!Turn
  <1>3. CASE ReadFails(r)
    <2>1. PICK d \in NextDomain(r) : Report(r, {Err("load", d)})
      BY <1>3 DEF ReadFails
    <2> QED BY <1>3, <2>1, LoadReported DEF ReadFails, loadVars
  <1>4. CASE \E d \in Domains : LoadFails(r, d)
    BY <1>4, LoadReported DEF LoadFails, AbandonLoad
  <1>5. CASE SyncRaises(r)
    <2>1. \A x \in Runs : LoadFailed(x)' = LoadFailed(x)
      BY <1>5, OtherErrors DEF SyncRaises, Err
    <2> QED BY <1>5, <2>1, Answers DEF SyncRaises, loadVars
  <1>6. CASE InsertSignals(r) \/ SignalsFail(r)
    <2>1. \A x \in Runs : LoadFailed(x)' = LoadFailed(x)
      BY <1>6, OtherErrors, NoErrors DEF InsertSignals, SignalsFail, Err
    <2> QED BY <1>6, <2>1, Answers DEF InsertSignals, SignalsFail, loadVars
  <1> QED BY <1>1, <1>2, <1>3, <1>4, <1>5, <1>6

\* Every step is a step of the contract or none.
LEMMA NextContract ==
  TypeInv /\ RowInv /\ RowInv' /\ [Next]_vars => [Contract!Next]_Contract!vars
  <1> SUFFICES ASSUME TypeInv, RowInv, RowInv', [Next]_vars
               PROVE  Contract!Next \/ UNCHANGED Contract!vars
    OBVIOUS
  <1>1. TypeOK
    BY DEF TypeInv
  <1>2. CASE UNCHANGED vars
    <2>1. \A x \in Runs : LoadFailed(x)' = LoadFailed(x)
      BY <1>2, NoErrors DEF vars
    <2> QED BY <1>2, <2>1, Unseen DEF vars, loadVars
  <1>3. ASSUME NEW r \in Runs, Start(r) \/ RunStep(r) \/ Crash(r)
        PROVE  Contract!Next \/ UNCHANGED Contract!vars
    <2>1. CASE \/ \E s \in Sources : CollectOk(r, s) \/ CollectFails(r, s)
               \/ GatherCollected(r) \/ Clean(r) \/ CleanRaises(r) \/ FinishCleaning(r)
               \/ Plan(r) \/ \E d \in Domains : Transform(r, d) \/ TransformFails(r, d)
               \/ GatherTransformed(r) \/ ReadFrame(r) \/ FinishLoading(r)
               \/ QueryAggregate(r) \/ QueryFails(r) \/ PushAggregate(r) \/ PushFails(r)
      BY <1>1, <2>1, StagesUnseen
    <2>2. CASE \/ Start(r) \/ ConnectFails(r) \/ Crash(r) \/ ReadFails(r)
               \/ \E d \in Domains : LoadFails(r, d)
               \/ SyncRaises(r) \/ InsertSignals(r) \/ SignalsFail(r)
      BY <1>1, <2>2, StepsSeen DEF Contract!Next
    <2>3. CASE \E d \in Domains : LoadTable(r, d)
      BY <2>3, Inserts DEF Contract!Next
    <2> QED BY <1>3, <2>1, <2>2, <2>3 DEF RunStep
  <1>4. ASSUME NEW k \in MayAge, Age(k) PROVE UNCHANGED Contract!vars
    <2>1. \A x \in Runs : LoadFailed(x)' = LoadFailed(x)
      BY <1>4, NoErrors DEF Age
    <2> QED BY <1>4, <2>1, Unseen DEF Age, loadVars
  <1> QED BY <1>2, <1>3, <1>4 DEF Next

\* However runs overlap and whichever of their steps fail, what they store and
\* report is what the transactions of RunContract allow.
THEOREM ContractIsKept == Spec => ContractKept
  <1> QED BY InitContract, NextContract, TypesInvariant, RowsInvariant, PTL
       DEF Spec, ContractKept, Contract!Spec
=============================================================================
