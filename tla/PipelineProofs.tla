--------------------------- MODULE PipelineProofs ---------------------------
(***************************************************************************)
(* Invariants of the scheduled ETL runs, for any registry, any number of   *)
(* runs and any failures.                                                  *)
(***************************************************************************)
EXTENDS Pipeline, TLAPS

BeforeSignals == {"idle"} \cup (Active \ {"signalling"})

\* The two indices stay inside their sequences while they are used, and a run
\* loads one domain at a time (they share tbl, frame and batch).
IndexesOK ==
  \A r \in Runs :
    /\ pc[r] \in BeforeSignals => mapIx[r] \in 1..Len(MappingSeq)
    /\ \A d \in Domains : dstat[r][d] = "loading" => tbl[r] \in 1..Len(DomainTables[d])
    /\ \A d, e \in Domains : dstat[r][d] = "loading" /\ dstat[r][e] = "loading" => d = e

TypeInv == TypeOK /\ IndexesOK

\* The names a flow or a domain lists are declared ones.
LEMMA NamesDeclared ==
  /\ \A f \in Flows : SourcesOf(f) \subseteq Sources /\ DomainsOf(f) \subseteq Domains
  /\ \A d \in Domains : TablesOf(d) \subseteq Tables
  BY RegistryAssumption DEF SourcesOf, DomainsOf, TablesOf

\* Reporting errors of the declared kinds keeps the type of errors.
LEMMA ReportTypes ==
  ASSUME NEW r \in Runs, TypeOK, NEW es \in SUBSET Errs, Report(r, es)
  PROVE  errors' \in [Runs -> SUBSET Errs]
  BY DEF TypeOK, Report

\* A run's file has a path.
LEMMA PathTypes ==
  ASSUME NEW r \in Runs, TypeOK, NEW file \in Files
  PROVE  Path(r, file) \in Paths
  <1>1. DirDate[file] \in [Dates -> Dates] /\ date[r] \in Dates
    BY RegistryAssumption DEF TypeOK
  <1>2. DirDate[file][date[r]] \in Dates
    BY <1>1
  <1> QED BY <1>2 DEF Path, Paths

\* transform_domain is given paths of declared inputs.
LEMMA InputsTypes ==
  ASSUME NEW r \in Runs, TypeOK, NEW d \in Domains
  PROVE  InputsOf(r, d) \subseteq [key : Inputs, path : Paths]
  <1>1. DomainInputs[flow[r]][d] \subseteq Inputs
    BY RegistryAssumption DEF TypeOK
  <1>2. ASSUME NEW k \in Inputs PROVE PathFor(r, k) \subseteq [key : Inputs, path : Paths]
    <2>1. LatestCleaned(k) \subseteq [key : Inputs, path : Paths]
      <3> DEFINE ds == {x \in Dates : <<k, x>> \in Paths /\ cleaned[<<k, x>>] # NoFile}
      <3>1. \A x \in Latest(ds) : [key |-> k, path |-> <<k, x>>] \in [key : Inputs, path : Paths]
        BY DEF Latest
      <3> QED BY <3>1 DEF LatestCleaned
    <2>2. ASSUME NEW s \in Matches(k, CleanedSources(r))
          PROVE  [key |-> k, path |-> Path(r, RawFile[s])] \in [key : Inputs, path : Paths]
      <3>1. s \in Sources
        BY NamesDeclared DEF Matches, CleanedSources, Collected, TypeOK
      <3> QED BY <3>1, PathTypes, RegistryAssumption
    <2> QED BY <2>1, <2>2 DEF PathFor, FirstOf
  <1> QED BY <1>1, <1>2 DEF InputsOf

\* A domain whose inputs can be read is transformed to a frame.
LEMMA TransformedTypes ==
  ASSUME NEW r \in Runs, TypeOK, NEW d \in Domains, Readable(d, inputs[r][d])
  PROVE  Transformed(d, inputs[r][d]) \in Frames
  <1> DEFINE paths == inputs[r][d]
             file(k) == cleaned[(CHOOSE p \in paths : p.key = k).path]
             given(k) == \E p \in paths : p.key = k
  <1>1. ASSUME NEW k, given(k) PROVE file(k) \in Contents
    <2>1. (CHOOSE p \in paths : p.key = k) \in paths
      BY <1>1
    <2>2. paths \subseteq [key : Inputs, path : Paths]
      BY DEF TypeOK
    <2>3. \A p \in paths : p.path \in Paths /\ cleaned[p.path] # NoFile
      BY <2>2 DEF Readable
    <2>4. \A p \in paths : cleaned[p.path] \in Contents
      BY <2>3 DEF TypeOK
    <2> QED BY <2>1, <2>4
  <1>2. file(Primary[d]) \in Contents
    BY <1>1 DEF Readable
  <1>3. \A c, e \in Contents : [keys |-> c.keys \cap e.keys, good |-> c.good /\ e.good] \in Contents
    BY DEF Contents
  <1>4. Empty \in Contents
    BY DEF Empty, Contents
  <1> HIDE DEF file, given
  <1>5. ASSUME NEW t \in Tables
        PROVE  (IF t \in TablesOf(d) /\ given(Carrier[t])
                THEN [keys |-> file(Primary[d]).keys \cap file(Carrier[t]).keys,
                      good |-> file(Primary[d]).good /\ file(Carrier[t]).good]
                ELSE Empty) \in Contents
    BY <1>1, <1>2, <1>3, <1>4
  <1>6. [t \in Tables |->
          IF t \in TablesOf(d) /\ given(Carrier[t])
          THEN [keys |-> file(Primary[d]).keys \cap file(Carrier[t]).keys,
                good |-> file(Primary[d]).good /\ file(Carrier[t]).good]
          ELSE Empty] \in [Tables -> Contents]
    BY <1>5
  <1> QED BY <1>6 DEF Transformed, Frames, file, given

\* The table being loaded is declared, and its rows are rows of the run.
LEMMA TableTypes ==
  ASSUME NEW r \in Runs, TypeInv, NEW d \in Loading(r)
  PROVE  /\ d \in Domains
         /\ tbl[r] \in 1..Len(DomainTables[d])
         /\ DomainTables[d][tbl[r]] \in Tables
         /\ frame[r][DomainTables[d][tbl[r]]] \in Contents
  BY RegistryAssumption DEF TypeInv, TypeOK, IndexesOK, Loading, Frames

\* The rows of a frame are rows of the run.
LEMMA NewRowsTypes ==
  ASSUME NEW r \in Runs, NEW t \in Tables, NEW c \in Contents
  PROVE  NewRows(r, t, c) \subseteq Rows
  BY DEF NewRows, Rows, Contents

\* The initial state is well typed.
LEMMA InitTypes == Init => TypeInv
  <1> SUFFICES ASSUME Init PROVE TypeInv
    OBVIOUS
  <1> USE RegistryAssumption
  <1>1. TypeOK
    BY DEF Init, TypeOK, Active, Final, NoFrame, Frames, Empty, Contents, NoRows, Averaged
  <1>2. IndexesOK
    BY DEF Init, IndexesOK, BeforeSignals
  <1> QED BY <1>1, <1>2 DEF TypeInv

\* Start keeps the types and the indexes.
LEMMA StartTypes ==
  ASSUME NEW r \in Runs, TypeInv, Start(r) PROVE TypeInv'
  <1> USE DEF Start, Goto, runVars, loadVars, syncVars, fileVars
  <1>1. TypeOK'
    BY DEF TypeInv, TypeOK, Active
  <1>2. IndexesOK'
    BY DEF TypeInv, TypeOK, IndexesOK, BeforeSignals, Active
  <1> QED BY <1>1, <1>2 DEF TypeInv

\* CollectOk keeps the types and the indexes.
LEMMA CollectOkTypes ==
  ASSUME NEW r \in Runs, NEW s \in Sources, TypeInv, CollectOk(r, s) PROVE TypeInv'
  <1> USE DEF CollectOk, Stay, runVars, loadVars, syncVars
  <1>1. TypeOK'
    BY ZenonT(30) DEF TypeInv, TypeOK
  <1>2. IndexesOK'
    BY DEF TypeInv, TypeOK, IndexesOK
  <1> QED BY <1>1, <1>2 DEF TypeInv

\* CollectFails keeps the types and the indexes.
LEMMA CollectFailsTypes ==
  ASSUME NEW r \in Runs, NEW s \in Sources, TypeInv, CollectFails(r, s) PROVE TypeInv'
  <1> USE DEF CollectFails, Stay, runVars, loadVars, syncVars, fileVars
  <1>1. TypeOK'
    BY DEF TypeInv, TypeOK
  <1>2. IndexesOK'
    BY DEF TypeInv, TypeOK, IndexesOK
  <1> QED BY <1>1, <1>2 DEF TypeInv

\* GatherCollected keeps the types and the indexes.
LEMMA GatherCollectedTypes ==
  ASSUME NEW r \in Runs, TypeInv, GatherCollected(r) PROVE TypeInv'
  <1> USE RegistryAssumption DEF GatherCollected, Goto, runVars, loadVars, syncVars, fileVars
  <1>1. CollectErrors(r) \in SUBSET Errs
    BY NamesDeclared DEF TypeInv, TypeOK, CollectErrors, Err, Errs
  <1>2. errors' \in [Runs -> SUBSET Errs]
    BY <1>1, ReportTypes DEF TypeInv
  <1>3. TypeOK'
    BY <1>2 DEF TypeInv, TypeOK, Active
  <1>4. IndexesOK'
    BY DEF TypeInv, TypeOK, IndexesOK, BeforeSignals, Active, Final
  <1> QED BY <1>3, <1>4 DEF TypeInv

\* The source whose turn it is to be cleaned has a file and a clean key.
LEMMA NextSourceTypes ==
  ASSUME NEW r \in Runs, TypeOK, NEW s \in NextSource(r)
  PROVE  /\ s \in Sources /\ RawFile[s] \in Files
         /\ \A stage \in {"clean", "quality_gate"} : {Err(stage, CleanKey[s])} \in SUBSET Errs
  <1>1. s \in Sources
    BY NamesDeclared DEF NextSource, FirstOf, ToClean, Collected, TypeOK
  <1>2. RawFile[s] \in Files /\ CleanKey[s] \in Inputs
    BY <1>1, RegistryAssumption
  <1> QED BY <1>1, <1>2 DEF Err, Errs

\* Clean keeps the types and the indexes.
LEMMA CleanTypes ==
  ASSUME NEW r \in Runs, TypeInv, Clean(r) PROVE TypeInv'
  <1> USE DEF Clean, Stay, runVars, loadVars, syncVars
  <1>1. PICK s \in NextSource(r) :
          LET c == raw[Path(r, RawFile[s])]
          IN  /\ c # NoFile
              /\ cleaned' = [cleaned EXCEPT ![Path(r, RawFile[s])] = c]
              /\ fstat' = [fstat EXCEPT ![r][RawFile[s]] = IF c.good THEN "clean" ELSE "gate"]
              /\ Report(r, IF c.good THEN {} ELSE {Err("quality_gate", CleanKey[s])})
    OBVIOUS
  <1>2. RawFile[s] \in Files
    BY NextSourceTypes DEF TypeInv
  <1>3. raw[Path(r, RawFile[s])] \in Contents
    BY <1>1, <1>2, PathTypes DEF TypeInv, TypeOK
  <1>4. errors' \in [Runs -> SUBSET Errs]
    <2>1. (IF raw[Path(r, RawFile[s])].good THEN {} ELSE {Err("quality_gate", CleanKey[s])})
            \in SUBSET Errs
      BY NextSourceTypes DEF TypeInv
    <2> QED BY <1>1, <2>1, ReportTypes DEF TypeInv
  <1>5. cleaned' \in [Paths -> Contents \cup {NoFile}]
    BY <1>1, <1>3 DEF TypeInv, TypeOK
  <1>6. fstat' \in [Runs -> [Files -> {"none", "clean", "gate", "raised"}]]
    BY <1>1, <1>2 DEF TypeInv, TypeOK
  <1>7. TypeOK'
    BY <1>4, <1>5, <1>6 DEF TypeInv, TypeOK
  <1>8. IndexesOK'
    BY DEF TypeInv, TypeOK, IndexesOK
  <1> QED BY <1>7, <1>8 DEF TypeInv

\* CleanRaises keeps the types and the indexes.
LEMMA CleanRaisesTypes ==
  ASSUME NEW r \in Runs, TypeInv, CleanRaises(r) PROVE TypeInv'
  <1> USE DEF CleanRaises, Stay, runVars, loadVars, syncVars, fileVars
  <1>1. PICK s \in NextSource(r) : /\ fstat' = [fstat EXCEPT ![r][RawFile[s]] = "raised"]
                                   /\ Report(r, {Err("clean", CleanKey[s])})
    OBVIOUS
  <1>2. RawFile[s] \in Files /\ {Err("clean", CleanKey[s])} \in SUBSET Errs
    BY NextSourceTypes DEF TypeInv
  <1>3. errors' \in [Runs -> SUBSET Errs]
    BY <1>1, <1>2, ReportTypes DEF TypeInv
  <1>4. fstat' \in [Runs -> [Files -> {"none", "clean", "gate", "raised"}]]
    BY <1>1, <1>2 DEF TypeInv, TypeOK
  <1>5. TypeOK'
    BY <1>3, <1>4 DEF TypeInv, TypeOK
  <1>6. IndexesOK'
    BY DEF TypeInv, TypeOK, IndexesOK
  <1> QED BY <1>5, <1>6 DEF TypeInv

\* FinishCleaning keeps the types and the indexes.
LEMMA FinishCleaningTypes ==
  ASSUME NEW r \in Runs, TypeInv, FinishCleaning(r) PROVE TypeInv'
  <1> USE DEF FinishCleaning, Goto, runVars, loadVars, syncVars, fileVars
  <1>1. TypeOK'
    BY DEF TypeInv, TypeOK, Active
  <1>2. IndexesOK'
    BY DEF TypeInv, TypeOK, IndexesOK, BeforeSignals, Active
  <1> QED BY <1>1, <1>2 DEF TypeInv

\* ConnectFails keeps the types and the indexes.
LEMMA ConnectFailsTypes ==
  ASSUME NEW r \in Runs, TypeInv, ConnectFails(r) PROVE TypeInv'
  <1> USE DEF ConnectFails, Goto, runVars, loadVars, syncVars, fileVars
  <1>1. TypeOK'
    BY DEF TypeInv, TypeOK, Active, Final
  <1>2. IndexesOK'
    BY DEF TypeInv, TypeOK, IndexesOK, BeforeSignals, Active
  <1> QED BY <1>1, <1>2 DEF TypeInv

\* Plan keeps the types and the indexes.
LEMMA PlanTypes ==
  ASSUME NEW r \in Runs, TypeInv, Plan(r) PROVE TypeInv'
  <1> USE DEF Plan, Goto, runVars, loadVars, syncVars, fileVars
  <1>1. \A d \in Domains : (IF Admitted(r, d) THEN InputsOf(r, d) ELSE {})
                             \in SUBSET [key : Inputs, path : Paths]
    BY InputsTypes DEF TypeInv
  <1>2. inputs' \in [Runs -> [Domains -> SUBSET [key : Inputs, path : Paths]]]
    BY <1>1 DEF TypeInv, TypeOK
  <1>3. dstat' \in [Runs -> [Domains -> {"none", "planned", "transformed", "unusable",
                                        "loading", "loaded", "unloaded"}]]
    BY DEF TypeInv, TypeOK
  <1>4. errors' \in [Runs -> SUBSET Errs]
    <2>1. {Err("transform", d) : d \in {x \in DomainsOf(flow[r]) : ~Admitted(r, x)}} \in SUBSET Errs
      BY NamesDeclared DEF TypeInv, TypeOK, Err, Errs
    <2> QED BY <2>1, ReportTypes DEF TypeInv
  <1>5. TypeOK'
    BY <1>2, <1>3, <1>4 DEF TypeInv, TypeOK, Active
  <1>6. IndexesOK'
    BY DEF TypeInv, TypeOK, IndexesOK, BeforeSignals, Active
  <1> QED BY <1>5, <1>6 DEF TypeInv

\* Transform keeps the types and the indexes.
LEMMA TransformTypes ==
  ASSUME NEW r \in Runs, NEW d \in Domains, TypeInv, Transform(r, d) PROVE TypeInv'
  <1> USE DEF Transform, Stay, runVars, loadVars, syncVars
  <1>1. Transformed(d, inputs[r][d]) \in Frames
    BY TransformedTypes DEF TypeInv
  <1>2. transformed' \in [Domains \X Dates -> Frames \cup {NoFile}]
    BY <1>1 DEF TypeInv, TypeOK
  <1>3. dstat' \in [Runs -> [Domains -> {"none", "planned", "transformed", "unusable",
                                        "loading", "loaded", "unloaded"}]]
    BY DEF TypeInv, TypeOK
  <1>4. TypeOK'
    BY <1>2, <1>3 DEF TypeInv, TypeOK
  <1>5. IndexesOK'
    BY DEF TypeInv, TypeOK, IndexesOK
  <1> QED BY <1>4, <1>5 DEF TypeInv

\* TransformFails keeps the types and the indexes.
LEMMA TransformFailsTypes ==
  ASSUME NEW r \in Runs, NEW d \in Domains, TypeInv, TransformFails(r, d) PROVE TypeInv'
  <1> USE DEF TransformFails, Stay, runVars, loadVars, syncVars, fileVars
  <1>1. TypeOK'
    BY DEF TypeInv, TypeOK
  <1>2. IndexesOK'
    BY DEF TypeInv, TypeOK, IndexesOK
  <1> QED BY <1>1, <1>2 DEF TypeInv

\* GatherTransformed keeps the types and the indexes.
LEMMA GatherTransformedTypes ==
  ASSUME NEW r \in Runs, TypeInv, GatherTransformed(r) PROVE TypeInv'
  <1> USE DEF GatherTransformed, Goto, Report, TransformErrors, Err, Errs, runVars, loadVars, syncVars, fileVars
  <1>1. TypeOK'
    BY DEF TypeInv, TypeOK, Active
  <1>2. IndexesOK'
    BY DEF TypeInv, TypeOK, IndexesOK, BeforeSignals, Active
  <1> QED BY <1>1, <1>2 DEF TypeInv

\* ReadFrame keeps the types and the indexes.
LEMMA ReadFrameTypes ==
  ASSUME NEW r \in Runs, TypeInv, ReadFrame(r) PROVE TypeInv'
  <1> USE DEF ReadFrame, Stay, runVars, syncVars, fileVars
  <1>1. PICK d \in NextDomain(r) : \E x \in OutDate(inputs[r][d]) :
          /\ transformed[<<d, x>>] # NoFile
          /\ frame' = [frame EXCEPT ![r] = transformed[<<d, x>>]]
          /\ dstat' = [dstat EXCEPT ![r][d] = "loading"]
    OBVIOUS
  <1>2. PICK x \in OutDate(inputs[r][d]) :
          /\ transformed[<<d, x>>] # NoFile
          /\ frame' = [frame EXCEPT ![r] = transformed[<<d, x>>]]
          /\ dstat' = [dstat EXCEPT ![r][d] = "loading"]
    BY <1>1
  <1>3. d \in Domains
    BY DEF NextDomain, FirstOf, ToLoad
  <1>4. x \in Dates
    <2>1. inputs[r][d] \subseteq [key : Inputs, path : Paths]
      BY <1>3 DEF TypeInv, TypeOK
    <2> QED BY <2>1 DEF OutDate, Latest, Paths
  <1>5. transformed[<<d, x>>] \in Frames
    BY <1>2, <1>3, <1>4 DEF TypeInv, TypeOK
  <1>6. TypeOK'
    <2>1. frame' \in [Runs -> Frames]
      BY <1>2, <1>5 DEF TypeInv, TypeOK
    <2>2. dstat' \in [Runs -> [Domains -> {"none", "planned", "transformed", "unusable",
                                          "loading", "loaded", "unloaded"}]]
      BY <1>2, <1>3 DEF TypeInv, TypeOK
    <2>3. tbl' \in [Runs -> Nat] /\ batch' \in [Runs -> SUBSET Rows]
      BY DEF TypeInv, TypeOK
    <2> QED BY <2>1, <2>2, <2>3 DEF TypeInv, TypeOK
  <1>7. IndexesOK'
    BY <1>2, <1>3, RegistryAssumption DEF TypeInv, TypeOK, IndexesOK, Loading
  <1> QED BY <1>6, <1>7 DEF TypeInv

\* ReadFails keeps the types and the indexes.
LEMMA ReadFailsTypes ==
  ASSUME NEW r \in Runs, TypeInv, ReadFails(r) PROVE TypeInv'
  <1> USE DEF ReadFails, Stay, Report, Err, Errs, NextDomain, FirstOf, ToLoad, Loading, runVars, loadVars, syncVars, fileVars
  <1>1. TypeOK'
    BY DEF TypeInv, TypeOK
  <1>2. IndexesOK'
    BY DEF TypeInv, TypeOK, IndexesOK
  <1> QED BY <1>1, <1>2 DEF TypeInv

\* AbandonLoad keeps the types and the indexes.
LEMMA AbandonLoadTypes ==
  ASSUME NEW r \in Runs, NEW d \in Domains, TypeInv, AbandonLoad(r, d), Stay(r, "loading"),
         UNCHANGED <<runVars, sstat, fstat, inputs, syncVars, fileVars>>
  PROVE  TypeInv'
  <1> USE DEF AbandonLoad, Stay, runVars, syncVars, fileVars
  <1>1. errors' \in [Runs -> SUBSET Errs]
    <2>1. {Err("load", d)} \in SUBSET Errs
      BY DEF Err, Errs
    <2> QED BY <2>1, ReportTypes DEF TypeInv
  <1>2. NoFrame \in Frames
    BY DEF NoFrame, Frames, Empty, Contents
  <1>3. TypeOK'
    BY <1>1, <1>2 DEF TypeInv, TypeOK
  <1>4. IndexesOK'
    BY DEF TypeInv, TypeOK, IndexesOK
  <1> QED BY <1>3, <1>4 DEF TypeInv

\* LoadTable keeps the types and the indexes.
LEMMA LoadTableTypes ==
  ASSUME NEW r \in Runs, NEW d \in Domains, TypeInv, LoadTable(r, d) PROVE TypeInv'
  <1> DEFINE t == DomainTables[d][tbl[r]]
             c == frame[r][t]
             new == NewRows(r, t, c)
  <1>1. /\ Stay(r, "loading")
        /\ d \in Loading(r)
        /\ UNCHANGED <<runVars, sstat, fstat, inputs, syncVars, fileVars>>
    BY DEF LoadTable
  <1>2. tbl[r] \in 1..Len(DomainTables[d]) /\ t \in Tables /\ c \in Contents
    BY <1>1, TableTypes
  <1>3. new \subseteq Rows
    BY <1>2, NewRowsTypes
  <1>4. NoFrame \in Frames
    BY DEF NoFrame, Frames, Empty, Contents
  <1>5. Len(DomainTables[d]) \in Nat
    BY RegistryAssumption
  <1> USE <1>1 DEF Stay, runVars, syncVars, fileVars
  <1> HIDE DEF new
  <1>6. CASE Conflicts(t, c.keys)
    BY <1>1, <1>6, AbandonLoadTypes DEF LoadTable
  <1>7. CASE ~Conflicts(t, c.keys) /\ tbl[r] < Len(DomainTables[d])
    <2>1. /\ tables' = tables \cup new
          /\ tbl' = [tbl EXCEPT ![r] = @ + 1]
          /\ batch' = [batch EXCEPT ![r] = batch[r] \cup new]
          /\ UNCHANGED <<dstat, frame, counted, errors>>
      BY <1>7 DEF LoadTable, new
    <2>2. TypeOK'
      BY <2>1, <1>3 DEF TypeInv, TypeOK
    <2>3. IndexesOK'
      BY <2>1, <1>2, <1>5, <1>7 DEF TypeInv, TypeOK, IndexesOK, Loading
    <2> QED BY <2>2, <2>3 DEF TypeInv
  <1>8. CASE ~Conflicts(t, c.keys) /\ ~(tbl[r] < Len(DomainTables[d]))
    <2>1. /\ tables' = tables \cup new
          /\ dstat' = [dstat EXCEPT ![r][d] = "loaded"]
          /\ counted' = [counted EXCEPT ![r] = counted[r] \cup (batch[r] \cup new)]
          /\ batch' = [batch EXCEPT ![r] = {}]
          /\ frame' = [frame EXCEPT ![r] = NoFrame]
          /\ UNCHANGED <<tbl, errors>>
      BY <1>8 DEF LoadTable, new
    <2>2. TypeOK'
      BY <2>1, <1>3, <1>4 DEF TypeInv, TypeOK
    <2>3. IndexesOK'
      BY <2>1 DEF TypeInv, TypeOK, IndexesOK
    <2> QED BY <2>2, <2>3 DEF TypeInv
  <1> QED BY <1>6, <1>7, <1>8

\* LoadFails keeps the types and the indexes.
LEMMA LoadFailsTypes ==
  ASSUME NEW r \in Runs, NEW d \in Domains, TypeInv, LoadFails(r, d) PROVE TypeInv'
  BY AbandonLoadTypes DEF LoadFails

\* FinishLoading keeps the types and the indexes.
LEMMA FinishLoadingTypes ==
  ASSUME NEW r \in Runs, TypeInv, FinishLoading(r) PROVE TypeInv'
  <1> USE DEF FinishLoading, Goto, runVars, loadVars, syncVars, fileVars
  <1>1. TypeOK'
    BY DEF TypeInv, TypeOK, Active
  <1>2. IndexesOK'
    BY DEF TypeInv, TypeOK, IndexesOK, BeforeSignals, Active
  <1> QED BY <1>1, <1>2 DEF TypeInv

\* A query answers, and an upsert writes, a set of rows for every entity.
LEMMA QueryTypes ==
  ASSUME TypeOK, NEW m \in Mappings PROVE Query(m) \in Averaged
  <1>1. Averages[m] \in [Entities -> SUBSET Keys]
    BY RegistryAssumption DEF Averaged
  <1> QED BY <1>1 DEF Query, Averaged

LEMMA UpsertTypes ==
  ASSUME TypeOK, NEW m \in Mappings, NEW answer \in Averaged, NEW es
  PROVE  Upsert(m, answer, es) \in [Mappings -> Averaged]
  <1> DEFINE value == [e \in Entities |->
               IF e \in es \cap Known /\ answer[e] # {} THEN answer[e] ELSE typedb[m][e]]
  <1>1. value \in Averaged
    BY DEF TypeOK, Averaged
  <1>2. typedb \in [Mappings -> Averaged]
    BY DEF TypeOK
  <1>3. Upsert(m, answer, es) = [typedb EXCEPT ![m] = value]
    BY DEF Upsert
  <1> HIDE DEF value
  <1> QED BY <1>1, <1>2, <1>3

\* The mapping that is being synchronised.
LEMMA MappingTypes ==
  ASSUME NEW r \in Runs, TypeInv, pc[r] \in {"querying", "pushing"}
  PROVE  MappingSeq[mapIx[r]] \in Mappings
  <1>1. mapIx[r] \in 1..Len(MappingSeq)
    BY DEF TypeInv, IndexesOK, BeforeSignals, Active
  <1> QED BY <1>1, RegistryAssumption

\* QueryAggregate keeps the types and the indexes.
LEMMA QueryAggregateTypes ==
  ASSUME NEW r \in Runs, TypeInv, QueryAggregate(r) PROVE TypeInv'
  <1> USE DEF QueryAggregate, Goto, runVars, loadVars, fileVars
  <1>1. Query(MappingSeq[mapIx[r]]) \in Averaged
    BY QueryTypes, MappingTypes DEF TypeInv
  <1>2. TypeOK'
    BY <1>1 DEF TypeInv, TypeOK, Active
  <1>3. IndexesOK'
    BY DEF TypeInv, TypeOK, IndexesOK, BeforeSignals, Active
  <1> QED BY <1>2, <1>3 DEF TypeInv

\* QueryFails keeps the types and the indexes.
LEMMA QueryFailsTypes ==
  ASSUME NEW r \in Runs, TypeInv, QueryFails(r) PROVE TypeInv'
  <1> USE DEF QueryFails, AfterMapping, runVars, loadVars, syncVars, fileVars
  <1>1. MappingSeq[mapIx[r]] \in Mappings
    BY MappingTypes
  <1>2. TypeOK'
    BY <1>1 DEF TypeInv, TypeOK, Active
  <1>3. IndexesOK'
    BY RegistryAssumption DEF TypeInv, TypeOK, IndexesOK, BeforeSignals, Active
  <1> QED BY <1>2, <1>3 DEF TypeInv

\* A push, whole or in part, keeps the types and the indexes.
LEMMA PushTypes ==
  ASSUME NEW r \in Runs, TypeInv, PushAggregate(r) \/ PushFails(r) PROVE TypeInv'
  <1>1. MappingSeq[mapIx[r]] \in Mappings
    BY MappingTypes DEF PushAggregate, PushFails
  <1>2. PICK es : typedb' = Upsert(MappingSeq[mapIx[r]], snap[r], es)
    BY DEF PushAggregate, PushFails
  <1>3. typedb' \in [Mappings -> Averaged] /\ snap' \in [Runs -> Averaged]
    <2>1. TypeOK /\ snap \in [Runs -> Averaged]
      BY DEF TypeInv, TypeOK
    <2>2. typedb' \in [Mappings -> Averaged]
      BY <1>1, <1>2, <2>1, UpsertTypes
    <2>3. NoRows \in Averaged
      BY DEF NoRows, Averaged
    <2>4. snap' = [snap EXCEPT ![r] = NoRows]
      BY Zenon DEF PushAggregate, PushFails
    <2>5. snap' \in [Runs -> Averaged]
      BY <2>1, <2>3, <2>4
    <2> QED BY <2>2, <2>5
  <1>4. reportErrs' \in [Runs -> SUBSET Mappings]
    <2>1. \/ reportErrs' = reportErrs
          \/ reportErrs' = [reportErrs EXCEPT ![r] = @ \cup {MappingSeq[mapIx[r]]}]
      BY Zenon DEF PushAggregate, PushFails
    <2>2. reportErrs \in [Runs -> SUBSET Mappings]
      BY DEF TypeInv, TypeOK
    <2>3. reportErrs[r] \cup {MappingSeq[mapIx[r]]} \in SUBSET Mappings
      BY <1>1, <2>2
    <2> QED BY <2>1, <2>2, <2>3
  <1>5. pc' \in [Runs -> Active \cup Final \cup {"idle"}] /\ mapIx' \in [Runs -> Nat]
    <2>1. AfterMapping(r)
      BY Zenon DEF PushAggregate, PushFails
    <2> QED BY <2>1 DEF TypeInv, TypeOK, AfterMapping, Active
  <1>6. UNCHANGED <<runVars, sstat, fstat, inputs, dstat, loadVars, errors, aged, signals,
                    fileVars, tables>>
    BY DEF PushAggregate, PushFails
  <1>7. TypeOK'
    BY <1>3, <1>4, <1>5, <1>6 DEF TypeInv, TypeOK, runVars, loadVars, fileVars
  <1>8. AfterMapping(r) /\ pc[r] = "pushing"
    BY DEF PushAggregate, PushFails
  <1>9. IndexesOK'
    BY <1>6, <1>8, RegistryAssumption
       DEF TypeInv, TypeOK, IndexesOK, AfterMapping, BeforeSignals, Active, loadVars
  <1> QED BY <1>7, <1>9 DEF TypeInv

\* SyncRaises keeps the types and the indexes.
LEMMA SyncRaisesTypes ==
  ASSUME NEW r \in Runs, TypeInv, SyncRaises(r) PROVE TypeInv'
  <1>1. PICK es : typedb' = Upsert(MappingSeq[mapIx[r]], snap[r], es)
    BY DEF SyncRaises
  <1>2. typedb' \in [Mappings -> Averaged]
    BY <1>1, MappingTypes, UpsertTypes DEF SyncRaises, Goto, TypeInv, TypeOK
  <1>3. NoRows \in Averaged
    BY DEF NoRows, Averaged
  <1>4. errors' \in [Runs -> SUBSET Errs]
    <2>1. {Err("sync_aggregates", "homepy")} \in SUBSET Errs
      BY DEF Err, Errs
    <2> QED BY <2>1, ReportTypes DEF SyncRaises, TypeInv
  <1>5. TypeOK'
    BY <1>2, <1>3, <1>4
       DEF SyncRaises, Goto, runVars, loadVars, fileVars, TypeInv, TypeOK, Active, Final
  <1>6. IndexesOK'
    BY DEF SyncRaises, Goto, loadVars, TypeInv, TypeOK, IndexesOK, BeforeSignals, Active
  <1> QED BY <1>5, <1>6 DEF TypeInv

\* InsertSignals keeps the types and the indexes.
LEMMA InsertSignalsTypes ==
  ASSUME NEW r \in Runs, TypeInv, InsertSignals(r) PROVE TypeInv'
  <1> USE DEF InsertSignals, Goto, runVars, loadVars, syncVars, fileVars
  <1>1. TypeOK'
    BY DEF TypeInv, TypeOK, Active, Final
  <1>2. IndexesOK'
    BY DEF TypeInv, TypeOK, IndexesOK, BeforeSignals, Active
  <1> QED BY <1>1, <1>2 DEF TypeInv

\* SignalsFail keeps the types and the indexes.
LEMMA SignalsFailTypes ==
  ASSUME NEW r \in Runs, TypeInv, SignalsFail(r) PROVE TypeInv'
  <1> USE DEF SignalsFail, Goto, Report, Err, Errs, runVars, loadVars, syncVars, fileVars
  <1>1. TypeOK'
    BY DEF TypeInv, TypeOK, Active, Final
  <1>2. IndexesOK'
    BY DEF TypeInv, TypeOK, IndexesOK, BeforeSignals, Active
  <1> QED BY <1>1, <1>2 DEF TypeInv

\* Crash keeps the types and the indexes.
LEMMA CrashTypes ==
  ASSUME NEW r \in Runs, TypeInv, Crash(r) PROVE TypeInv'
  <1> USE DEF Crash, runVars, loadVars, syncVars, fileVars
  <1>1. TypeOK'
    BY DEF TypeInv, TypeOK, Active, Final
  <1>2. IndexesOK'
    BY DEF TypeInv, TypeOK, IndexesOK, BeforeSignals, Active
  <1> QED BY <1>1, <1>2 DEF TypeInv

\* The passing of time changes none of them but aged.
LEMMA AgeTypes ==
  ASSUME NEW k \in MayAge, TypeInv, Age(k) PROVE TypeInv'
  <1> USE DEF Age, runVars, loadVars, fileVars
  <1>1. TypeOK'
    BY RegistryAssumption DEF TypeInv, TypeOK
  <1>2. IndexesOK'
    BY DEF TypeInv, IndexesOK
  <1> QED BY <1>1, <1>2 DEF TypeInv

\* RunStep keeps the types and the indexes.
LEMMA RunStepTypes ==
  ASSUME NEW r \in Runs, TypeInv, RunStep(r) PROVE TypeInv'
  <1>1. ASSUME NEW s \in Sources, CollectOk(r, s) \/ CollectFails(r, s) PROVE TypeInv'
    BY <1>1, CollectOkTypes, CollectFailsTypes
  <1>2. ASSUME NEW d \in Domains,
               \/ Transform(r, d) \/ TransformFails(r, d) \/ LoadTable(r, d) \/ LoadFails(r, d)
        PROVE  TypeInv'
    BY <1>2, TransformTypes, TransformFailsTypes, LoadTableTypes, LoadFailsTypes
  <1>3. CASE \/ GatherCollected(r) \/ Clean(r) \/ CleanRaises(r) \/ FinishCleaning(r)
             \/ ConnectFails(r) \/ Plan(r)
    BY <1>3, GatherCollectedTypes, CleanTypes, CleanRaisesTypes, FinishCleaningTypes,
       ConnectFailsTypes, PlanTypes
  <1>4. CASE \/ GatherTransformed(r) \/ ReadFrame(r) \/ ReadFails(r) \/ FinishLoading(r)
    BY <1>4, GatherTransformedTypes, ReadFrameTypes, ReadFailsTypes, FinishLoadingTypes
  <1>5. CASE \/ QueryAggregate(r) \/ QueryFails(r) \/ PushAggregate(r) \/ PushFails(r)
             \/ SyncRaises(r) \/ InsertSignals(r) \/ SignalsFail(r)
    BY <1>5, QueryAggregateTypes, QueryFailsTypes, PushTypes, SyncRaisesTypes,
       InsertSignalsTypes, SignalsFailTypes
  <1> QED BY <1>1, <1>2, <1>3, <1>4, <1>5 DEF RunStep

\* Every step keeps the types and the indexes.
LEMMA NextTypes == TypeInv /\ [Next]_vars => TypeInv'
  <1> SUFFICES ASSUME TypeInv, [Next]_vars PROVE TypeInv'
    OBVIOUS
  <1>1. ASSUME NEW r \in Runs, Start(r) \/ RunStep(r) \/ Crash(r) PROVE TypeInv'
    BY <1>1, StartTypes, RunStepTypes, CrashTypes
  <1>3. ASSUME NEW k \in MayAge, Age(k) PROVE TypeInv'
    BY <1>3, AgeTypes
  <1>2. CASE UNCHANGED vars
    BY <1>2 DEF TypeInv, TypeOK, IndexesOK, vars, runVars, loadVars, syncVars, fileVars
  <1> QED BY <1>1, <1>2, <1>3 DEF Next

\* In every reachable state each variable has its type and the indices used to
\* walk MAPPINGS and DOMAIN_TABLES lie inside them, so no run_scheduled indexes
\* past the last mapping or table.
THEOREM TypesInvariant == Spec => []TypeInv
  <1> QED BY InitTypes, NextTypes, PTL DEF Spec

\* Every variable keeps its type.
THEOREM TypeCorrect == Spec => []TypeOK
  <1>1. TypeInv => TypeOK
    BY DEF TypeInv
  <1> QED BY <1>1, TypesInvariant, PTL
=============================================================================
