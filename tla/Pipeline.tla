------------------------------ MODULE Pipeline ------------------------------
(***************************************************************************)
(* The scheduled ETL runs of homepy/pipelines/flows: collect, clean behind *)
(* the quality gate, transform, load into TimescaleDB, synchronise with    *)
(* TypeDB.  A run is one call of daily_pipeline, weekly_pipeline or        *)
(* monthly_pipeline (run_scheduled in _common.py); runs share the parquet  *)
(* files under data/, the hypertables and the TypeDB attributes, and may   *)
(* overlap because each flow is a deployment of its own.                   *)
(*                                                                         *)
(* A file is abstracted to a content: the primary keys of the rows it      *)
(* yields and whether it would pass QualityGate.check.                     *)
(***************************************************************************)
EXTENDS Naturals, Sequences, FiniteSets

CONSTANTS
  Runs,         \* identities of the flow runs
  Flows,        \* "daily", "weekly", "monthly"
  Dates,        \* end dates a run may be started for
  Keys,         \* primary keys of time-series rows
  Sources,      \* flow-level source names (keys of SOURCES)
  Files,        \* raw files: a clean key, or one file of a shared clean key
  Domains, Inputs, Tables, Mappings,
  NoFile,       \* what a path holds before anything is written to it
  SourceNames,  \* flow -> sequence of sources          (SOURCE_NAMES)
  CleanKey,     \* source -> clean key                  (SOURCES[n].clean_key)
  RawFile,      \* source -> raw file its collector writes
  DirDate,      \* file, end date -> date of the directory it is written to
  Window,       \* flow, end date -> row keys its collectors may return
  DomainNames,  \* flow -> sequence of domains          (keys of DOMAINS)
  DomainInputs, \* flow, domain -> inputs               (values of DOMAINS)
  Primary,      \* domain -> input transform_domain requires
  DomainTables, \* domain -> sequence of tables         (DOMAIN_TABLES)
  Carrier,      \* table -> input whose columns it takes
  MappingSeq,   \* the order of MAPPINGS
  AggSource,    \* mapping -> table its query reads
  Entities,     \* the complexes that rows are of
  Known,        \* those TypeDB has: nothing in the pipeline creates one
  Lists,        \* mapping, entity -> rows for which the query returns the entity
  Averages,     \* mapping, entity -> rows its WHERE clause admits for the entity
  MayAge,       \* bound: rows that can become older than 12 months
  MaxActive,    \* bound: runs in progress at the same time
  Faults        \* kinds of failure the environment may cause

VARIABLES
  pc,           \* run -> where in run_scheduled it is
  flow, date,   \* run -> its flow and end date
  sstat,        \* run, source -> outcome of the collect task
  fstat,        \* run, file -> memo `outcomes` of clean_sources
  inputs,       \* run, domain -> the paths transform_domain is given
  dstat,        \* run, domain -> progress through transform_and_load
  frame,        \* run -> the transformed file load_to_timescale has read
  tbl,          \* run -> index of the next table of load_to_timescale
  batch,        \* run -> rows inserted by the load in progress (`total`)
  counted,      \* run -> rows FlowResult.loaded_rows counts
  errors,       \* run -> FlowResult.errors
  mapIx, snap,  \* run -> mapping being synchronised and its query result
  reportErrs,   \* run -> SyncReport.errors
  raw, cleaned, transformed,   \* the parquet files, by path
  tables,       \* the rows of the hypertables
  aged,         \* the rows that are older than 12 months by now
  typedb,       \* mapping, entity -> rows averaged by its attribute, {} for none
  signals       \* runs whose sync_signals returned (its rows are in ts_signals)

runVars  == <<flow, date>>
fileVars == <<raw, cleaned, transformed>>
loadVars == <<frame, tbl, batch, counted>>
syncVars == <<mapIx, snap, reportErrs, aged, typedb, signals>>
vars == <<pc, runVars, sstat, fstat, inputs, dstat, loadVars, errors,
          syncVars, fileVars, tables>>

-----------------------------------------------------------------------------
Contents == [keys : SUBSET Keys, good : BOOLEAN]
Empty    == [keys |-> {}, good |-> TRUE]
Frames   == [Tables -> Contents]
NoFrame  == [t \in Tables |-> Empty]
Rows     == [table : Tables, key : Keys, good : BOOLEAN, by : Runs]
Paths    == Files \X Dates
Errs     == [stage : {"collect", "clean", "quality_gate", "transform", "load",
                      "sync_aggregates", "sync_signals"},
             of : Sources \cup Inputs \cup Domains \cup {"homepy"}]
Averaged == [Entities -> SUBSET Keys]
NoRows   == [e \in Entities |-> {}]
Err(stage, of) == [stage |-> stage, of |-> of]

SourcesOf(f) == {SourceNames[f][i] : i \in DOMAIN SourceNames[f]}
DomainsOf(f) == {DomainNames[f][i] : i \in DOMAIN DomainNames[f]}
TablesOf(d)  == {DomainTables[d][i] : i \in DOMAIN DomainTables[d]}

\* The registries are well formed: the static tables of the flows mention
\* only declared names, and no path is mistaken for a written file.
ASSUME RegistryAssumption ==
  /\ Dates \subseteq Nat
  /\ SourceNames \in [Flows -> Seq(Sources)]
  /\ CleanKey \in [Sources -> Inputs]
  /\ RawFile \in [Sources -> Files]
  /\ \A s, x \in Sources : RawFile[s] = RawFile[x] => CleanKey[s] = CleanKey[x]
  /\ DirDate \in [Files -> [Dates -> Dates]]
  /\ Window \in [Flows -> [Dates -> SUBSET Keys]]
  /\ DomainNames \in [Flows -> Seq(Domains)]
  /\ DomainInputs \in [Flows -> [Domains -> SUBSET Inputs]]
  /\ Primary \in [Domains -> Inputs]
  /\ DomainTables \in [Domains -> Seq(Tables)]
  /\ \A d \in Domains : DomainTables[d] # <<>>
  /\ MappingSeq \in Seq(Mappings) /\ MappingSeq # <<>>
  /\ AggSource \in [Mappings -> Tables]
  /\ Known \subseteq Entities /\ MayAge \subseteq Keys
  /\ Lists \in [Mappings -> Averaged]
  /\ Averages \in [Mappings -> Averaged]
  /\ NoFile \notin Contents

\* MAPPINGS lists all mappings there are.
ASSUME MappingsAssumption == \A m \in Mappings : \E i \in DOMAIN MappingSeq : MappingSeq[i] = m

Active == {"collecting", "cleaning", "connecting", "transforming", "loading",
           "querying", "pushing", "signalling"}
Final  == {"done", "raised", "crashed"}

-----------------------------------------------------------------------------
\* What run_scheduled can see of its own progress.

Collected(r) == {s \in SourcesOf(flow[r]) : sstat[r][s] = "ok"}
Path(r, file) == <<file, DirDate[file][date[r]]>>

\* The two results of clean_sources, keyed by source name.  Sources that share
\* a raw file share the outcome of cleaning it.
CleanedSources(r) == {s \in Collected(r) : fstat[r][RawFile[s]] = "clean"}
GateFailed(r)     == {s \in Collected(r) : fstat[r][RawFile[s]] \in {"gate", "raised"}}

\* matches(k, names) of transform_and_load.
Matches(k, names) == {n \in names : n = k \/ CleanKey[n] = k}

\* The first of names in the order of seq, as a set: no element if there is none.
FirstOf(seq, names) ==
  {n \in names : \E i \in DOMAIN seq :
                    seq[i] = n /\ \A j \in 1..(i - 1) : seq[j] \notin names}

\* The latest date, likewise.
Latest(ds) == {x \in ds : \A y \in ds : y <= x}

\* _latest_cleaned: the last of the sorted paths under cleaned/<k>.
LatestCleaned(k) ==
  LET ds == {x \in Dates : <<k, x>> \in Paths /\ cleaned[<<k, x>>] # NoFile}
  IN  {[key |-> k, path |-> <<k, x>>] : x \in Latest(ds)}

\* hit[0] if a source of this run matches, otherwise the latest cleaned file.
PathFor(r, k) ==
  LET hit == Matches(k, CleanedSources(r)) IN
  IF hit # {}
  THEN {[key |-> k, path |-> Path(r, RawFile[s])] : s \in FirstOf(SourceNames[flow[r]], hit)}
  ELSE LatestCleaned(k)

InputsOf(r, d) == UNION {PathFor(r, k) : k \in DomainInputs[flow[r]][d]}

\* (mutant) gate_failed looked up by the input's own name only.
MutBlocked(r, d) == \E k \in DomainInputs[flow[r]][d] : k \in GateFailed(r)
Blocked(r, d) ==
  \E k \in DomainInputs[flow[r]][d] : Matches(k, GateFailed(r)) # {}
\* (mutant) a stale cleaned file is enough to go on.
MutFresh(r, d) == \E k \in DomainInputs[flow[r]][d] : PathFor(r, k) # {}
Fresh(r, d) ==
  \E k \in DomainInputs[flow[r]][d] : Matches(k, CleanedSources(r)) # {}
Admitted(r, d) == d \in DomainsOf(flow[r]) /\ ~Blocked(r, d) /\ Fresh(r, d)

\* The file transform_domain writes: for every table of the domain the rows
\* whose columns the inputs carry, keyed by the rows of the primary input (the
\* other inputs are joined onto it).
Transformed(d, paths) ==
  LET file(k) == cleaned[(CHOOSE p \in paths : p.key = k).path]
      given(k) == \E p \in paths : p.key = k
  IN  [t \in Tables |->
        IF t \in TablesOf(d) /\ given(Carrier[t])
        THEN [keys |-> file(Primary[d]).keys \cap file(Carrier[t]).keys,
              good |-> file(Primary[d]).good /\ file(Carrier[t]).good]
        ELSE Empty]

\* transform_domain's output directory carries the latest input's date.
OutDate(paths) == Latest({p.path[2] : p \in paths})

\* (mutant) the COPY tolerates rows that are already there.
MutConflicts(t, ks) == FALSE
\* PRIMARY KEY of the hypertables: COPY has no ON CONFLICT clause.
Conflicts(t, ks) == \E row \in tables : row.table = t /\ row.key \in ks

NewRows(r, t, c) == {[table |-> t, key |-> k, good |-> c.good, by |-> r] : k \in c.keys}

\* The SQL of a mapping: for every entity it lists, the rows it averages.  Of
\* the stored rows the WHERE clause drops cancelled trades, those without an
\* area and those older than 12 months; an entity left with none is not
\* returned or has a null value, which the sync drops.
KeysFor(m) == {row.key : row \in {x \in tables : x.table = AggSource[m]}}
Query(m) ==
  [e \in Entities |-> IF Lists[m][e] \cap KeysFor(m) # {}
                      THEN (Averages[m][e] \cap KeysFor(m)) \ aged ELSE {}]

\* The delete and insert statements of a mapping, for the entities es: they
\* match nothing for an entity TypeDB does not have, and one that the query did
\* not return keeps its value.
Upsert(m, answer, es) ==
  [typedb EXCEPT ![m] = [e \in Entities |->
     IF e \in es \cap Known /\ answer[e] # {} THEN answer[e] ELSE typedb[m][e]]]

-----------------------------------------------------------------------------
Init ==
  /\ pc = [r \in Runs |-> "idle"]
  /\ flow \in [Runs -> Flows]
  /\ date \in [Runs -> Dates]
  /\ sstat = [r \in Runs |-> [s \in Sources |-> "pending"]]
  /\ fstat = [r \in Runs |-> [f \in Files |-> "none"]]
  /\ inputs = [r \in Runs |-> [d \in Domains |-> {}]]
  /\ dstat = [r \in Runs |-> [d \in Domains |-> "none"]]
  /\ frame = [r \in Runs |-> NoFrame]
  /\ tbl = [r \in Runs |-> 1]
  /\ batch = [r \in Runs |-> {}]
  /\ counted = [r \in Runs |-> {}]
  /\ errors = [r \in Runs |-> {}]
  /\ mapIx = [r \in Runs |-> 1]
  /\ snap = [r \in Runs |-> NoRows]
  /\ reportErrs = [r \in Runs |-> {}]
  /\ raw = [p \in Paths |-> NoFile]
  /\ cleaned = [p \in Paths |-> NoFile]
  /\ transformed = [p \in Domains \X Dates |-> NoFile]
  /\ tables = {}
  /\ aged = {}
  /\ typedb = [m \in Mappings |-> NoRows]
  /\ signals = {}

Goto(r, from, to) == pc[r] = from /\ pc' = [pc EXCEPT ![r] = to]
Stay(r, at)       == pc[r] = at /\ UNCHANGED pc
Report(r, es)     == errors' = [errors EXCEPT ![r] = @ \cup es]

-----------------------------------------------------------------------------
\* The scheduler calls a flow; MaxActive bounds how many run at once.
Start(r) ==
  /\ Goto(r, "idle", "collecting")
  /\ Cardinality({x \in Runs : pc[x] \in Active}) < MaxActive
  /\ UNCHANGED <<runVars, sstat, fstat, inputs, dstat, loadVars, errors,
                 syncVars, fileVars, tables>>

\* A collector (one of those gathered in parallel) saves its raw file, over
\* whatever another source or another run left at the same path.
CollectOk(r, s) ==
  /\ Stay(r, "collecting")
  /\ s \in SourcesOf(flow[r])
  /\ sstat[r][s] = "pending"
  /\ \E c \in Contents :
       /\ c.keys \subseteq Window[flow[r]][date[r]]
       /\ c.keys = {} => c.good    \* an empty frame passes every gate rule
       /\ ~c.good => "gate" \in Faults
       /\ raw' = [raw EXCEPT ![Path(r, RawFile[s])] = c]
  /\ sstat' = [sstat EXCEPT ![r][s] = "ok"]
  /\ UNCHANGED <<runVars, fstat, inputs, dstat, loadVars, errors, syncVars,
                 cleaned, transformed, tables>>

CollectFails(r, s) ==
  /\ Stay(r, "collecting")
  /\ "collect" \in Faults
  /\ s \in SourcesOf(flow[r])
  /\ sstat[r][s] = "pending"
  /\ sstat' = [sstat EXCEPT ![r][s] = "failed"]
  /\ UNCHANGED <<runVars, fstat, inputs, dstat, loadVars, errors, syncVars,
                 fileVars, tables>>

\* (mutant) the error of a source is dropped when another source delivered the file.
MutCollectErrors(r) ==
  {Err("collect", s) : s \in {x \in SourcesOf(flow[r]) :
     sstat[r][x] = "failed" /\ RawFile[x] \notin {RawFile[y] : y \in Collected(r)}}}
CollectErrors(r) ==
  {Err("collect", s) : s \in {x \in SourcesOf(flow[r]) : sstat[r][x] = "failed"}}

\* (mutant) the gather waits for every collector to deliver.
MutGatherCollected(r) ==
  /\ Goto(r, "collecting", "cleaning")
  /\ \A s \in SourcesOf(flow[r]) : sstat[r][s] = "ok"
  /\ UNCHANGED <<runVars, sstat, fstat, inputs, dstat, loadVars, errors, syncVars,
                 fileVars, tables>>
\* gather(return_exceptions=True) returns once every collector has settled.
GatherCollected(r) ==
  /\ Goto(r, "collecting", "cleaning")
  /\ \A s \in SourcesOf(flow[r]) : sstat[r][s] # "pending"
  /\ Report(r, CollectErrors(r))
  /\ UNCHANGED <<runVars, sstat, fstat, inputs, dstat, loadVars, syncVars,
                 fileVars, tables>>

-----------------------------------------------------------------------------
\* clean_sources takes the collected sources in order, one clean_task at a
\* time, and skips a raw path whose outcome it already has.
ToClean(r) == {s \in Collected(r) : fstat[r][RawFile[s]] = "none"}

NextSource(r) == FirstOf(SourceNames[flow[r]], ToClean(r))

\* What is recorded is the clean key, which sources with other files may share.
Clean(r) ==
  /\ Stay(r, "cleaning")
  /\ \E s \in NextSource(r) : LET c == raw[Path(r, RawFile[s])] IN
       /\ c # NoFile
       /\ cleaned' = [cleaned EXCEPT ![Path(r, RawFile[s])] = c]  \* written even if the gate fails
       /\ fstat' = [fstat EXCEPT ![r][RawFile[s]] = IF c.good THEN "clean" ELSE "gate"]
       /\ Report(r, IF c.good THEN {} ELSE {Err("quality_gate", CleanKey[s])})
  /\ UNCHANGED <<runVars, sstat, inputs, dstat, loadVars, syncVars, raw,
                 transformed, tables>>

CleanRaises(r) ==
  /\ Stay(r, "cleaning")
  /\ \E s \in NextSource(r) :
       /\ "clean" \in Faults \/ raw[Path(r, RawFile[s])] = NoFile
       /\ fstat' = [fstat EXCEPT ![r][RawFile[s]] = "raised"]
       /\ Report(r, {Err("clean", CleanKey[s])})
  /\ UNCHANGED <<runVars, sstat, inputs, dstat, loadVars, syncVars, fileVars,
                 tables>>

FinishCleaning(r) ==
  /\ Goto(r, "cleaning", "connecting")
  /\ ToClean(r) = {}
  /\ UNCHANGED <<runVars, sstat, fstat, inputs, dstat, loadVars, errors,
                 syncVars, fileVars, tables>>

-----------------------------------------------------------------------------
\* _Services.__aenter__ cannot connect: the exception leaves run_scheduled and
\* the FlowResult is lost.
ConnectFails(r) ==
  /\ Goto(r, "connecting", "raised")
  /\ "connect" \in Faults
  /\ UNCHANGED <<runVars, sstat, fstat, inputs, dstat, loadVars, errors,
                 syncVars, fileVars, tables>>

\* Connected: the first loop of transform_and_load admits or skips each domain
\* and fixes its input paths.  It has no await, so it is one step.
Plan(r) ==
  /\ Goto(r, "connecting", "transforming")
  /\ inputs' = [inputs EXCEPT ![r] =
                  [d \in Domains |-> IF Admitted(r, d) THEN InputsOf(r, d) ELSE {}]]
  /\ dstat' = [dstat EXCEPT ![r] =
                  [d \in Domains |-> IF Admitted(r, d) THEN "planned" ELSE "none"]]
  /\ Report(r, {Err("transform", d) : d \in {x \in DomainsOf(flow[r]) : ~Admitted(r, x)}})
  /\ UNCHANGED <<runVars, sstat, fstat, loadVars, syncVars, fileVars, tables>>

\* transform_task runs in a worker thread, in parallel with the run's others.
Readable(d, paths) ==
  /\ \E p \in paths : p.key = Primary[d]
  /\ \A p \in paths : cleaned[p.path] # NoFile

Transform(r, d) ==
  /\ Stay(r, "transforming")
  /\ dstat[r][d] = "planned"
  /\ Readable(d, inputs[r][d])
  /\ \E x \in OutDate(inputs[r][d]) :
       transformed' = [transformed EXCEPT ![<<d, x>>] = Transformed(d, inputs[r][d])]
  /\ dstat' = [dstat EXCEPT ![r][d] = "transformed"]
  /\ UNCHANGED <<runVars, sstat, fstat, inputs, loadVars, errors, syncVars,
                 raw, cleaned, tables>>

TransformFails(r, d) ==
  /\ Stay(r, "transforming")
  /\ dstat[r][d] = "planned"
  /\ "transform" \in Faults \/ ~Readable(d, inputs[r][d])
  /\ dstat' = [dstat EXCEPT ![r][d] = "unusable"]
  /\ UNCHANGED <<runVars, sstat, fstat, inputs, loadVars, errors, syncVars,
                 fileVars, tables>>

TransformErrors(r) ==
  {Err("transform", d) : d \in {x \in Domains : dstat[r][x] = "unusable"}}

GatherTransformed(r) ==
  /\ Goto(r, "transforming", "loading")
  /\ \A d \in Domains : dstat[r][d] # "planned"
  /\ Report(r, TransformErrors(r))
  /\ UNCHANGED <<runVars, sstat, fstat, inputs, dstat, loadVars, syncVars,
                 fileVars, tables>>

-----------------------------------------------------------------------------
\* The load loop of transform_and_load: one domain at a time, in order, one
\* insert_batch (a transaction of its own) for each table of the domain.
Loading(r) == {d \in Domains : dstat[r][d] = "loading"}
ToLoad(r)  == {d \in Domains : dstat[r][d] = "transformed"}

NextDomain(r) == FirstOf(DomainNames[flow[r]], ToLoad(r))

\* load_to_timescale reads the transformed file (as it is now).
ReadFrame(r) ==
  /\ Stay(r, "loading")
  /\ Loading(r) = {}
  /\ \E d \in NextDomain(r) : \E x \in OutDate(inputs[r][d]) :
       /\ transformed[<<d, x>>] # NoFile
       /\ frame' = [frame EXCEPT ![r] = transformed[<<d, x>>]]
       /\ dstat' = [dstat EXCEPT ![r][d] = "loading"]
  /\ tbl' = [tbl EXCEPT ![r] = 1]
  /\ batch' = [batch EXCEPT ![r] = {}]
  /\ UNCHANGED <<runVars, sstat, fstat, inputs, counted, errors, syncVars,
                 fileVars, tables>>

ReadFails(r) ==
  /\ Stay(r, "loading")
  /\ Loading(r) = {}
  /\ "load" \in Faults
  /\ \E d \in NextDomain(r) :
       /\ dstat' = [dstat EXCEPT ![r][d] = "unloaded"]
       /\ Report(r, {Err("load", d)})
  /\ UNCHANGED <<runVars, sstat, fstat, inputs, loadVars, syncVars, fileVars,
                 tables>>

\* (mutant) the failure is logged and not reported.
MutAbandonLoad(r, d) ==
  /\ dstat' = [dstat EXCEPT ![r][d] = "unloaded"]
  /\ frame' = [frame EXCEPT ![r] = NoFrame]
  /\ batch' = [batch EXCEPT ![r] = {}]
  /\ UNCHANGED <<tbl, counted, tables, errors>>
\* (mutant) the failure is reported for the table instead of the domain.
MutReportTable(r, d) ==
  /\ dstat' = [dstat EXCEPT ![r][d] = "unloaded"]
  /\ Report(r, {Err("load", DomainTables[d][tbl[r]])})
  /\ frame' = [frame EXCEPT ![r] = NoFrame]
  /\ batch' = [batch EXCEPT ![r] = {}]
  /\ UNCHANGED <<tbl, counted, tables>>
\* (mutant) the rows of the failed table count as loaded.
MutCountFailed(r, d) ==
  /\ dstat' = [dstat EXCEPT ![r][d] = "unloaded"]
  /\ Report(r, {Err("load", d)})
  /\ counted' = [counted EXCEPT ![r] =
       @ \cup LET t == DomainTables[d][tbl[r]] IN NewRows(r, t, frame[r][t])]
  /\ frame' = [frame EXCEPT ![r] = NoFrame]
  /\ batch' = [batch EXCEPT ![r] = {}]
  /\ UNCHANGED <<tbl, tables>>
\* The exception leaves load_to_timescale, its total and the later tables; the
\* tables already inserted stay.
AbandonLoad(r, d) ==
  /\ dstat' = [dstat EXCEPT ![r][d] = "unloaded"]
  /\ Report(r, {Err("load", d)})
  /\ frame' = [frame EXCEPT ![r] = NoFrame]
  /\ batch' = [batch EXCEPT ![r] = {}]
  /\ UNCHANGED <<tbl, counted, tables>>

\* insert_batch on the next table; a table without records is skipped.  After
\* the last one the total is returned and added to loaded_rows.
LoadTable(r, d) ==
  /\ Stay(r, "loading")
  /\ d \in Loading(r)
  /\ LET t == DomainTables[d][tbl[r]]
         c == frame[r][t]
         sofar == batch[r] \cup NewRows(r, t, c)
     IN  IF Conflicts(t, c.keys)
         THEN AbandonLoad(r, d)
         ELSE /\ tables' = tables \cup NewRows(r, t, c)
              /\ IF tbl[r] < Len(DomainTables[d])
                 THEN /\ tbl' = [tbl EXCEPT ![r] = @ + 1]
                      /\ batch' = [batch EXCEPT ![r] = sofar]
                      /\ UNCHANGED <<dstat, frame, counted>>
                 ELSE /\ dstat' = [dstat EXCEPT ![r][d] = "loaded"]
                      /\ counted' = [counted EXCEPT ![r] = @ \cup sofar]
                      /\ batch' = [batch EXCEPT ![r] = {}]
                      /\ frame' = [frame EXCEPT ![r] = NoFrame]
                      /\ UNCHANGED tbl
              /\ UNCHANGED errors
  /\ UNCHANGED <<runVars, sstat, fstat, inputs, syncVars, fileVars>>

LoadFails(r, d) ==
  /\ Stay(r, "loading")
  /\ d \in Loading(r)
  /\ "load" \in Faults
  /\ frame[r][DomainTables[d][tbl[r]]].keys # {}
  /\ AbandonLoad(r, d)
  /\ UNCHANGED <<runVars, sstat, fstat, inputs, syncVars, fileVars>>

FinishLoading(r) ==
  /\ Goto(r, "loading", "querying")
  /\ Loading(r) = {} /\ ToLoad(r) = {}
  /\ UNCHANGED <<runVars, sstat, fstat, inputs, dstat, loadVars, errors,
                 syncVars, fileVars, tables>>

-----------------------------------------------------------------------------
\* run_syncs.  sync_aggregates_to_typedb takes each mapping in turn: it awaits
\* the aggregate query and then writes what the query returned.
\* (mutant) the first mapping returns instead of continuing.
MutAfterMapping(r) ==
  /\ mapIx' = [mapIx EXCEPT ![r] = @ + 1]
  /\ pc' = [pc EXCEPT ![r] = "signalling"]
AfterMapping(r) ==
  /\ mapIx' = [mapIx EXCEPT ![r] = @ + 1]
  /\ pc' = [pc EXCEPT ![r] = IF mapIx[r] < Len(MappingSeq) THEN "querying" ELSE "signalling"]

QueryAggregate(r) ==
  /\ Goto(r, "querying", "pushing")
  /\ snap' = [snap EXCEPT ![r] = Query(MappingSeq[mapIx[r]])]
  /\ UNCHANGED <<runVars, sstat, fstat, inputs, dstat, loadVars, errors, mapIx,
                 reportErrs, aged, typedb, signals, fileVars, tables>>

QueryFails(r) ==
  /\ pc[r] = "querying"
  /\ "query" \in Faults
  /\ reportErrs' = [reportErrs EXCEPT ![r] = @ \cup {MappingSeq[mapIx[r]]}]
  /\ AfterMapping(r)
  /\ UNCHANGED <<runVars, sstat, fstat, inputs, dstat, loadVars, errors, snap,
                 aged, typedb, signals, fileVars, tables>>

\* Every batch of the mapping is written.
PushAggregate(r) ==
  /\ pc[r] = "pushing"
  /\ typedb' = Upsert(MappingSeq[mapIx[r]], snap[r], Entities)
  /\ snap' = [snap EXCEPT ![r] = NoRows]
  /\ AfterMapping(r)
  /\ UNCHANGED <<runVars, sstat, fstat, inputs, dstat, loadVars, errors,
                 reportErrs, aged, signals, fileVars, tables>>

\* Some batches of the mapping fail: their entities keep the old value.
PushFails(r) ==
  /\ pc[r] = "pushing"
  /\ "push" \in Faults
  /\ \E failed \in SUBSET {e \in Entities : snap[r][e] # {}} :
       /\ failed # {}
       /\ typedb' = Upsert(MappingSeq[mapIx[r]], snap[r], Entities \ failed)
  /\ reportErrs' = [reportErrs EXCEPT ![r] = @ \cup {MappingSeq[mapIx[r]]}]
  /\ snap' = [snap EXCEPT ![r] = NoRows]
  /\ AfterMapping(r)
  /\ UNCHANGED <<runVars, sstat, fstat, inputs, dstat, loadVars, errors,
                 aged, signals, fileVars, tables>>

\* (mutant) the exception is swallowed.
MutSyncRaises(r) ==
  /\ Goto(r, "pushing", "done")
  /\ "sync" \in Faults
  /\ snap' = [snap EXCEPT ![r] = NoRows]
  /\ UNCHANGED <<runVars, sstat, fstat, inputs, dstat, loadVars, errors, mapIx,
                 reportErrs, aged, typedb, signals, fileVars, tables>>
\* An exception outside the two inner handlers (building the statements of a
\* batch, when earlier ones may be written) ends run_syncs before the signals.
SyncRaises(r) ==
  /\ Goto(r, "pushing", "done")
  /\ "sync" \in Faults
  /\ \E built \in SUBSET {e \in Entities : snap[r][e] # {}} :
       typedb' = Upsert(MappingSeq[mapIx[r]], snap[r], built)
  /\ Report(r, {Err("sync_aggregates", "homepy")})
  /\ snap' = [snap EXCEPT ![r] = NoRows]
  /\ UNCHANGED <<runVars, sstat, fstat, inputs, dstat, loadVars, mapIx,
                 reportErrs, aged, signals, fileVars, tables>>

InsertSignals(r) ==
  /\ Goto(r, "signalling", "done")
  /\ signals' = signals \cup {r}
  /\ UNCHANGED <<runVars, sstat, fstat, inputs, dstat, loadVars, errors, mapIx,
                 snap, reportErrs, aged, typedb, fileVars, tables>>

SignalsFail(r) ==
  /\ Goto(r, "signalling", "done")
  /\ "signals" \in Faults
  /\ Report(r, {Err("sync_signals", "homepy")})
  /\ UNCHANGED <<runVars, sstat, fstat, inputs, dstat, loadVars, syncVars,
                 fileVars, tables>>

\* The worker dies: files and committed rows stay, everything else is lost.
Crash(r) ==
  /\ pc[r] \in Active
  /\ "crash" \in Faults
  /\ pc' = [pc EXCEPT ![r] = "crashed"]
  /\ UNCHANGED <<runVars, sstat, fstat, inputs, dstat, loadVars, errors,
                 syncVars, fileVars, tables>>

\* The clock: a stored row becomes older than the 12 months of the queries.
Age(k) ==
  /\ k \in MayAge \ aged
  /\ \E row \in tables : row.key = k
  /\ aged' = aged \cup {k}
  /\ UNCHANGED <<pc, runVars, sstat, fstat, inputs, dstat, loadVars, errors, mapIx,
                 snap, reportErrs, typedb, signals, fileVars, tables>>

-----------------------------------------------------------------------------
\* What the event loop does of itself once the run has started.
RunStep(r) ==
  \/ \E s \in Sources : CollectOk(r, s) \/ CollectFails(r, s)
  \/ GatherCollected(r) \/ Clean(r) \/ CleanRaises(r) \/ FinishCleaning(r)
  \/ ConnectFails(r) \/ Plan(r)
  \/ \E d \in Domains : Transform(r, d) \/ TransformFails(r, d)
  \/ GatherTransformed(r) \/ ReadFrame(r) \/ ReadFails(r)
  \/ \E d \in Domains : LoadTable(r, d) \/ LoadFails(r, d)
  \/ FinishLoading(r)
  \/ QueryAggregate(r) \/ QueryFails(r) \/ PushAggregate(r) \/ PushFails(r)
  \/ SyncRaises(r) \/ InsertSignals(r) \/ SignalsFail(r)

Next ==
  \/ \E r \in Runs : Start(r) \/ RunStep(r) \/ Crash(r)
  \/ \E k \in MayAge : Age(k)

Spec == Init /\ [][Next]_vars

\* Every await of a run returns: collectors time out and give up after
\* MAX_ATTEMPTS, and the drivers answer or raise.
FairSpec == Spec /\ \A r \in Runs : WF_vars(RunStep(r))

-----------------------------------------------------------------------------
\* Every variable keeps its type.
TypeOK ==
  /\ pc \in [Runs -> Active \cup Final \cup {"idle"}]
  /\ flow \in [Runs -> Flows]
  /\ date \in [Runs -> Dates]
  /\ sstat \in [Runs -> [Sources -> {"pending", "ok", "failed"}]]
  /\ fstat \in [Runs -> [Files -> {"none", "clean", "gate", "raised"}]]
  /\ inputs \in [Runs -> [Domains -> SUBSET [key : Inputs, path : Paths]]]
  /\ dstat \in [Runs -> [Domains -> {"none", "planned", "transformed", "unusable",
                                    "loading", "loaded", "unloaded"}]]
  /\ frame \in [Runs -> Frames]
  /\ tbl \in [Runs -> Nat]
  /\ batch \in [Runs -> SUBSET Rows]
  /\ counted \in [Runs -> SUBSET Rows]
  /\ errors \in [Runs -> SUBSET Errs]
  /\ mapIx \in [Runs -> Nat]
  /\ snap \in [Runs -> Averaged]
  /\ reportErrs \in [Runs -> SUBSET Mappings]
  /\ raw \in [Paths -> Contents \cup {NoFile}]
  /\ cleaned \in [Paths -> Contents \cup {NoFile}]
  /\ transformed \in [Domains \X Dates -> Frames \cup {NoFile}]
  /\ tables \subseteq Rows
  /\ aged \subseteq Keys
  /\ typedb \in [Mappings -> Averaged]
  /\ signals \subseteq Runs

\* A source of run r feeds an input of a domain when it is that input or has it
\* as its clean key.
Feeds(s, k) == s = k \/ CleanKey[s] = k

\* Run r has a freshly cleaned source for domain d, and none of its sources for
\* d was refused by the quality gate or failed to clean.
Acceptable(r, d) ==
  LET feeding == {s \in SourcesOf(flow[r]) :
                    sstat[r][s] = "ok" /\ \E k \in DomainInputs[flow[r]][d] : Feeds(s, k)}
  IN  /\ \E s \in feeding : fstat[r][RawFile[s]] = "clean"
      /\ \A s \in feeding : fstat[r][RawFile[s]] \notin {"gate", "raised"}

\* A run inserts rows only for domains whose inputs the gate let through in that
\* run, whatever other runs do to the shared files meanwhile: the block in
\* transform_and_load cannot be bypassed by a shared raw file, a shared clean
\* key or the fallback to an older cleaned file.
GateRespected ==
  \A row \in tables :
    \E d \in DomainsOf(flow[row.by]) :
      row.table \in TablesOf(d) /\ Acceptable(row.by, d)

\* No outcome is silent: when run_scheduled returns, each source was collected
\* or its failure is in errors, each collected source was cleaned or its failure
\* is in errors under its clean key (which of the sources sharing the key it
\* was is not recorded), and each domain was loaded or has an error.
ReportComplete ==
  \A r \in Runs : pc[r] = "done" =>
    /\ \A s \in SourcesOf(flow[r]) :
         \/ sstat[r][s] = "ok" /\ fstat[r][RawFile[s]] = "clean"
         \/ Err("collect", s) \in errors[r]
         \/ \E stage \in {"clean", "quality_gate"} : Err(stage, CleanKey[s]) \in errors[r]
    /\ \A d \in DomainsOf(flow[r]) :
         \/ dstat[r][d] = "loaded"
         \/ \E stage \in {"transform", "load"} : Err(stage, d) \in errors[r]

\* A FlowResult with no errors means the whole run took effect: every domain
\* loaded, every aggregate pushed unless SyncReport says otherwise, and the
\* signals inferred afterwards inserted.
SuccessMeansSynced ==
  \A r \in Runs : pc[r] = "done" /\ errors[r] = {} =>
    /\ \A d \in DomainsOf(flow[r]) : dstat[r][d] = "loaded"
    /\ mapIx[r] = Len(MappingSeq) + 1
    /\ r \in signals

RowsBy(r) == {row \in tables : row.by = r}

\* loaded_rows never counts a row that is not stored, and a run that reports no
\* load error has counted every row it stored: rows of a domain whose load
\* stopped half way are the only ones stored and not counted.
LoadedRowsExact ==
  \A r \in Runs :
    /\ counted[r] \subseteq RowsBy(r)
    /\ pc[r] = "done" /\ (\A e \in errors[r] : e.stage # "load") => counted[r] = RowsBy(r)

\* Two runs never both count the same row of a table, so the sum of the
\* loaded_rows of all runs never exceeds what the tables hold.
CountedOnce ==
  \A r, x \in Runs : r # x =>
    \A a \in counted[r], b \in counted[x] : <<a.table, a.key>> # <<b.table, b.key>>

\* Every row in the hypertables comes from data that passed the quality gate
\* ("QualityGate FAIL: keep the previous good data", design 10.6).
OnlyGoodRows == \A row \in tables : row.good

\* An input a run was given and collected nothing for: the fallback's.
Stale(r, p) == \A s \in Collected(r) : ~Feeds(s, p.key)

\* The fallback is the only way for bad data into the hypertables: a row that
\* did not pass the gate is of a domain of its run for which that run read an
\* older file of an input it had collected no source for.  A file that failed
\* the gate in a run, and stays under cleaned/ for the next ones, is otherwise
\* never loaded.
BadRowsAreStale ==
  \A row \in tables : row.good \/
    \E d \in DomainsOf(flow[row.by]) :
      row.table \in TablesOf(d) /\ \E p \in inputs[row.by][d] : Stale(row.by, p)

\* An attribute averages the rows its query would, but for rows that have passed
\* the 12 months since; an entity the query no longer returns keeps what it had.
Current(m, e) == Query(m)[e] # {} => typedb[m][e] \ aged = Query(m)[e]

\* The signals of a run are inferred from current aggregates (design 4.5: after
\* every load attribute sync, then inference, then signals), whatever earlier
\* runs failed to push, unless its SyncReport has an error or another run is
\* still in progress.
AggregatesCurrent ==
  \A r \in Runs :
    /\ pc[r] = "signalling" /\ reportErrs[r] = {}
    /\ \A x \in Runs \ {r} : pc[x] \notin Active
    => \A m \in Mappings, e \in Known : Current(m, e)

\* A run that starts ends: no collector, gate or load failure leaves it stuck
\* in a gather or a loop.
RunsEnd == \A r \in Runs : pc[r] = "collecting" ~> pc[r] \in Final
=============================================================================
