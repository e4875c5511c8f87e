# HOMEPY in TLA+

HOMEPY collects Korean housing-market data, cleans and loads it into
TimescaleDB, derives aggregates and signals through TypeDB, and serves scores,
verdicts, alerts and answers from an API and a Streamlit UI. This directory
models the parts of it whose correctness depends on the order of events or on
boundaries of rules: what TLC checks on small instances and what TLAPS proves
for all of them.

Paths below are relative to `src/homepy/` unless they start with `docs` or
`tests`. Run everything from this directory:

    tlc -workers 2 -config DailyOverlap.cfg MCPipeline.tla
    tlapm PipelineContractProofs.tla

## 1. Inventory

| Component | State | Operations | Interacts with | What is hard | What must hold |
|---|---|---|---|---|---|
| Scheduled flows (`pipelines/flows`) | `FlowResult`, the memo of `clean_sources`, the maps of `transform_and_load` | `daily/weekly/monthly_pipeline`, `run_scheduled` and its five helpers | stages, collectors, sync; a Prefect deployment per flow, so runs overlap | parallel tasks, partial failure, shared files, stale fallback | every outcome reported, gate not bypassed, run ends |
| Stages, gate (`pipelines/stages`, `pipelines/quality`) | parquet files under `data/{raw,cleaned,transformed}` | `clean_source`, `transform_domain`, `load_to_timescale`, `QualityGate.check` | threads of several runs, the same paths | files written before the verdict, files replaced by another run | only accepted data is loaded, counts are exact |
| Transformers (`pipelines/transformers`) | - | one frame function per domain | stages | rows of many districts in one frame, gaps | a district's numbers are its own |
| Storage (`storage`) | connection pool, driver | `insert_batch`, `execute_write_many`, ... | TimescaleDB and TypeDB | COPY per table, primary keys, batches | a row is stored once |
| Synchronisation (`sync`) | `SyncReport` | `sync_aggregates_to_typedb`, `sync_signals_to_timescale` | both databases | query and write separated by an await, failed batches, entities TypeDB does not have | signals are inferred from what the queries return |
| Batch collectors (`collectors`) | raw files | `collect`, retry, paging | public HTTP APIs | timeouts, retries, several sources behind one path | a result is complete or an error |
| Calibration, improvement log (`verification/calibrator.py`, `improvement_tracker.py`, `api/routers/pipeline.py`) | proposals in memory, `config/calibration.json`, `ts_calibration_log` | propose, approve, reject, record, roll back | scoring reads the config | racing requests, interrupted write, restart, failed INSERT | one decision per proposal, complete trail |
| Self healer (`verification/self_healer.py`) | locks, cooldowns, recovery log | `handle_failure`, retry, archive | monitors, databases | concurrent failures, cooldown, exceptions, restart | recoveries spaced, silence justified, calls logged and ended |
| Realtime (`realtime`) | running flags, tasks, connection table, busy set | collectors' loop, `start`, `stop`, `process_event`, `signal_stream`, `_send`, `broadcast` | Redis channels, TimescaleDB, TypeDB, WebSockets | reordering, slow and vanished clients, listener death | history before signals, no leaked client |
| Backups, standby (`ha`) | backup files, `last_export.json` | export, dump, rotate, promote | databases, disk | rotation against promotion, overlapping exports | the named snapshot exists (it is the last to finish, not the latest) |
| Agents (`agents`) | sliding window, debate rounds | `acquire`, analyse, rebut, vote, tally | language model | limiter under concurrency, failing agents | at most `max_calls` per period, dissent kept |
| Inference (`inference`) | a request's score, scenarios, biases | `score`, `simulate`, `detect`, `build` | TypeDB, config | missing data, loads between awaits, boundaries | scenarios consistent with the score, verdict consistent with its evidence |
| Alerts (`monitoring`) | - | detectors, `scan`, classify, route, `deduplicate` | four channels | window edges, repeated merging | a jump is found, no event lost by merging |
| Backtester (`verification/backtester.py`, `calibrator.py`) | - | outcomes of verdicts, training and validation samples | verdict and trade tables | horizons, midnight, missing columns | the samples miss no verdict, outcomes are realized |
| Taxes and policies (`api/services/tax_engine.py`, `simulation`, `api/routers/simulation.py`) | - | three taxes, four policy changes | TypeDB for rates | brackets, deductions, rounding | more is never taxed less |
| Event flow, monitors, auth, REST API, ML, text analysis, reports, UI, deployment | mostly none | request handlers, computations | all of the above | - | - |

`PROJECT.json` lists the components with their status and, under `hazards`,
every place we know where this code is hard to test, with the property that
watches it or the reason why none does.

## 2. Modules

The modules form four groups; `MC...` modules instantiate a group for TLC.

| Group | Modules | Contents |
|---|---|---|
| Pipeline | `Registry`, `Pipeline`, `RunContract`, `PipelineContract`, `MCPipeline` | the static tables of the flows; the scheduled runs from collecting to the signals; what a run promises; the refinement |
| Calibration | `Calibration`, `MCCalibration` | proposals, the config file, improvement records, rollbacks |
| Realtime | `Channels`, `EventStream`, `WsServer`, `Realtime`, `MCRealtime` | Redis Pub/Sub, the producing half, the WebSocket half, their composition |
| Services | `Clock`, `SelfHealer`, `Backups`, `RateLimiter`, `Debate`, `Services`, `MCServices` | the processes beside the pipeline |
| Insights | `Scorer`, `Simulator`, `BiasDetector`, `Verdict`, `Anomalies`, `Alerts`, `Backtest`, `Rounding`, `TaxEngine`, `PolicySimulator`, `Advice`, `PriceTransformer`, `Insights`, `MCInsights` | what computes on the data to advise |
| Proofs | `PipelineProofs`, `PipelineRowProofs`, `PipelineContractProofs`, `CalibrationProofs`, `RealtimeProofs`, `ServicesProofs`, `VerdictProofs`, `InsightsProofs` | section 5 |

An action is the code between two awaits, with every state change of it. `Mut...`
operators beside the definitions they replace are plausible bugs, one for every
property of a passing run, with which TLC finds that property violated.

### Pipeline

A run `r` is one call of a flow. `pc[r]` is its place in `run_scheduled`:

    idle -> collecting -> cleaning -> connecting -> transforming -> loading
         -> (querying -> pushing)* -> signalling -> done        | raised | crashed

Tasks of one `gather` (collectors, transform threads) are separate actions in any
order. The clean loop and the load loop go through sources and domains in the
order of the lists. `Plan` is the first loop of `transform_and_load`, which has
no await: block by the gate, fresh files, fallback to `_latest_cleaned`.
`LoadTable` is one `insert_batch`.

Data is abstracted to what the properties tell apart. A file is a *content*: the
primary keys of the rows it yields and whether it would pass the gate. A row is
a table, a key, the verdict on its origin and the run that inserted it. `typedb`
holds, for each mapping and entity, the keys of the rows its attribute averages.
`Query` is the SQL of a mapping: `Lists` says for which rows it returns an entity and
`Averages` which rows its `WHERE` clause admits for it (cancelled trades and those
without an area are not among them), `aged` are the rows that have become older than
12 months. `Upsert` is the deletes and inserts: nothing is written for an entity that
TypeDB does not have (`Known`), and one the query did not return keeps its value.
Dates are numbers; 1 and 2 lie in one month, 3 in the next. Row keys are months,
since the collectors ask for and return whole months.

What runs share is modelled as the code shares it:
* raw files: a collector writes `raw/{source}/{date}/{file}`; sources with one
  clean key (`interest_rate`, `exchange_rate`) write the same file, the KOSIS
  series one file each, the MOLIT ones date the directory by month;
* cleaned files are written *before* the verdict is looked at, and are read by
  other runs through the fallback;
* the hypertables: COPY without ON CONFLICT, so a batch with a stored key fails;
* the TypeDB attributes, which a run overwrites with what it queried earlier.

MOLIT raw file names also carry the first and last month; that part of the path
is left out, because with the dates used two runs share a directory exactly when
they share the name. The KOSIS statistic ids are taken as configured, one for each source.

The environment's failures are the constant `Faults`: `collect`, `gate` (bad
data), `clean`, `connect`, `transform`, `load`, `query`, `push` (some of a
mapping's batches), `sync`, `signals`, `crash`. A failure is where the code has
a handler or a raise for it.

`RunContract` is what the reader of a `FlowResult` may rely on, with four
variables and five actions: rows are stored under keys of their own and stay,
`loaded_rows` claims stored rows only, nothing moves once the run has answered, and
an answer without a load failure has claimed every row the run stored.
`PipelineContract` maps `pc` to the caller's view (idle, running, answered,
lost), `tables` to the stored rows, `counted` to the claimed ones.

### Calibration

Proposals live in the memory of one API process, the applied values in
`calibration.json`, the records in the database (kept by record id). An approval
is two steps because of the await between them: `Apply` (status check, load,
write, mark, build the record; no await in the code) and `RecordApplied`. A
rollback is three: `Select`, `Mark`, `RecordReverse`. `Restart` loses the
proposals and the requests in flight. `torn` stands for a file that
`write_text` truncated and did not finish, which `_load_config` reads as empty.
Handlers of requests that fail early (`Refused`) are actions too. Faults: `write`,
`record`, `rollback`, `restart`. The columns of `ts_calibration_log` are taken as
`improvement_tracker.py` uses them (see section 6: `schema.sql` has others).

### Realtime

`Channels` is Redis Pub/Sub as the code uses it (external): a message reaches the
subscriptions that exist when it is published. `EventStream` has the collectors'
loop with its flag, and `EventProcessor`: `start` and `stop` with their awaits, the
listener's `get_message`, and `process_event` as insert, publish, snapshot.
Critical events update the snapshot before the next one is taken, others in a
background task; `stop()` cancels, but a thread that runs already goes on (`Stray`). A
Redis error at `get_message` is outside the `try` and kills the listener while
`running` stays true (`GetFails`); the next `stop` raises (`StopRaises`).

`WsServer` has one handler per socket (accept, connect, subscribe, pump, clean up) and
`ConnectionManager._send`, which marks a client busy, sends with a timeout, and clears
the mark or closes the client. A broadcast captures its targets and goes through them
later, when some may be gone. The end of a handler is three steps: the tasks are
cancelled (`Cancel`), the client is disconnected with its mark (`Leave`), and the
socket is closed once the subscription is (`End`); between the last two the socket is
open and unlisted, and an old broadcast list may begin a second write to it. The locks
of the districts are never held across an await, so they do not appear.

### Services

`SelfHealer` is `handle_failure`: wait for the component's lock, look up the
cooldown, escalate or recover with retries, log, release. Exceptions other than the
expected ones escape (`Escapes`); `Restart` forgets locks and cooldowns and may
leave a torn line in the log. `Backups` has exports and dumps that take time,
rotation by age when one ends, `last_export.json`, and promotions that import the
file it names. A day is one tick, so on the last day of its retention a file may be
rotated or not. `RateLimiter` is the sliding window behind an asyncio lock whose
holder sleeps; `Debate` is the four rounds over it, where one agent that raises ends
the debate while the other tasks of its gather run on.

### Insights

`Scorer` normalises and weighs the fourteen factors (tenths of points, integers),
`Simulator` perturbs the variables, `BiasDetector` has the nine checks, `Verdict` the
request that calls them in turn, each reading the data of its own moment while loads
go on. `Anomalies` has the detectors on one series, with the floor `_safe_std` puts
under the deviation of a flat one, and the scan over the metrics (the isolation forest
is a choice); `Alerts` classification, routing and deduplication; `Backtest` the
outcomes of verdicts and the two samples of a proposal, around midnight. `TaxEngine`
has the three taxes with the tables of the code, `PolicySimulator` the four policy
changes, `Advice` the two endpoints, `PriceTransformer` the cleaning, grouping, moving
average and yearly change of price rows. The components do not share state; a
behaviour of `Services` or `Insights` has one of them in `focus`.

## 3. Runs

`CHECK_DEADLOCK FALSE` throughout: a configuration has finitely many runs,
requests, events or rows, and the system rightly stops when they are over.

| Run | Instance | Distinct states | Properties |
|---|---|---|---|
| `DailyOverlap` | 2 overlapping daily runs of domain macro, whose two sources share a file; all faults; fairness | 358 k | `CountedOnce`, `ReportComplete`, `SuccessMeansSynced`, `ContractKept`, `RunsEnd` |
| `SerialRuns` | 2 runs in sequence, daily or monthly, over 2 months; trades, population, supply; a domain with two tables; two mappings, one row that can age; faults collect, gate, clean, load, push | 1.35 M | `GateRespected`, `LoadedRowsExact`, `BadRowsAreStale`, `AggregatesCurrent` |
| `CalibrationAll` | 2 proposals, 2 approvals, 2 rollbacks one at a time, 2 values; all faults | 526 k | `DecidedOnce`, `AnsweredIsLogged`, `RollbackOnce`, `MarkedHasReverse`, `OtherSectionKept` |
| `Streaming` | a critical and another collector, 2 events each, 1 client, 2 broadcasts, 3 messages in all; all faults; fairness | 761 k | `SignalsAreStored`, `BusyMeansSending`, `TableIsLive`, `CriticalInOrder`, `UnlistedLeave` |
| `Operations` | 3 failures of a component under 2 policies, 1 restart; 2 exports, a dump, a promotion; 4 agents, 3 calls per 2 time units; retention 1 day; fairness | 266 k | `RecoveriesSpaced`, `SilenceIsCovered`, `ReturnedIsLogged`, `NamedIsImportable`, `WindowRespected`, `DissentPreserved`, `FailuresEnd`, `DebateEnds` |
| `Insights` | 30 datasets, a load during a verdict; series of up to 5 points; 3 alerts in 3 time units; 4 months; both sides of all tax brackets; 4 sales in 2 districts | 541 k | `ScenariosBracket`, `BuyNamesADrag`, `JumpsReported`, `DedupConserves`, `SamplesMeet`, `AnswersRise`, `DistrictsIsolated` |

A run of each group also checks `TypeOK`. Runs that end in a violation, each a
disagreement between the code and what the repository says of it (quoted in
`PROJECT.json`, `findings`):

| Run | Property | Scenario |
|---|---|---|
| `StaleGateLoad` | `OnlyGoodRows` | a weekly run's price index fails the gate; its cleaned file stays, and the monthly run, which does not collect that source, falls back to it and loads it |
| `OverlappingSync` | `AggregatesCurrent` | a run queries an average, another loads, queries and writes the new one, the first writes the old one over it, and the second infers its signals from that |
| `DoubleRollback` | `RollbackOnce` | two rollbacks read the record before either marks it |
| `LostRecovery` | `RecoveriesLogged` | the retry of a recovery raises an exception `_safe_retry` does not expect: the call has no line in the recovery log |
| `PromotesOlder` | `NamedIsLatest` | an export that began a day earlier ends last and is the one a promotion imports |
| `BacktestOutcomes` | `OutcomesRealized` | the price query does not select `ts`, so no matured verdict has an outcome |

The passing runs say what is left of these promises. `RollbackOnce` holds in
`CalibrationAll`, where one rollback is in progress at a time; nothing in the code sees to
that. `AggregatesCurrent` holds in `SerialRuns`, where runs do not overlap.
`OnlyGoodRows` does not, but `BadRowsAreStale` does: bad data is loaded only through the
fallback to an older file of an input the run has collected nothing for.
`ReturnedIsLogged` is what the log does keep, the calls that returned, and
`NamedIsImportable` what a promotion can rely on although the snapshot may be an older
one. The restrictions are constants of the instances (`MaxActive`, `MaxRollbacks`).

**What each property is about.** `AnsweredIsLogged`: what an answered approval changed
stays in the log. `MarkedHasReverse`: a record marked as rolled back has its reverse,
unless that rollback was interrupted. `CriticalInOrder`: the snapshot of a critical
source goes back only by an update that `stop()` cut off. `SilenceIsCovered`: a failure
that was answered "cooldown active" is covered by a recovery of the component within the
cooldown. `AggregatesCurrent`: when a run that synchronised without an error infers its
signals, every attribute is what its query returns (a row that aged since apart),
whatever earlier runs failed to push; an entity the query no longer returns is outside,
since the code leaves its old value. `BuyNamesADrag`: a "buy" on scores that are not all
neutral names a factor that speaks against it. `JumpsReported`: a jump out of a flat
series, by more than the deviation `_safe_std` gives such a series times the width of
the band, is reported whatever other detectors do. `SamplesMeet`: every verdict of the
rolling window is in one of the two samples, but for days by which the clock moved the
start of the second one when it was read again at midnight; both hold the verdicts of
the day where they meet. `AnswersRise`: along the endpoints, a dearer sale or holding is
not taxed less (the purchase price is part of the question, and fixed) and a stricter
policy does not move the answer the other way. `DistrictsIsolated`: transforming a
district with others gives the prices, averages and changes it gives alone (the day of a
row may be that of another district's trade). `BusyMeansSending`: a client that is
marked busy is being written to, and one that is listed by one sender at a time; a
client that was disconnected may be written to by two. `TableIsLive`: a client is listed
while its handler runs, or after its subscription failed (which the code leaves so).

**Bounds.** Pipeline: two runs are enough for every conflict between a run and the
files, rows or attributes of another. One or two keys suffice because a conflict, an
abandoned load and a stale aggregate each need one row that is there and one that is
not. `Sources`, `Domains`, `Tables` are sub-registries chosen to contain each kind of
sharing. `MaxActive` bounds the runs in progress. Calibration: two proposals and two
approvals give every race for one proposal and for one section. Realtime: two events
of a source can overtake each other, one client can vanish at every await, two
broadcasts hold old lists of targets beside its pump. `MaxMessages` lets three of
these messages happen in a run, in any mix of events and broadcasts. Services: a third
failure meets the lock, the cooldown and a restart of two earlier ones; two exports
overlap; `MaxTime` 2 is the longest cooldown; three calls per period make four agents
wait. Insights: blocks of factors reach every decision and confidence, `MaxPoints` is
window and lookback plus a jump, `MeanParts = 4` stands for the code's 10^6 parts of
the mean, so that series of small numbers have jumps on both sides of the floor, taxes
are taken at, below and above each bound with `Man = 1` (the code's 10,000 won) to
stay within TLC's integers. Runs and requests are symmetric where no liveness is
checked.

**Fairness.** `RunsEnd` assumes weak fairness of each run's own steps: every await of
`run_scheduled` returns. Collectors give up after `MAX_ATTEMPTS` requests with a 30 s
timeout (`collectors/base.py:33-50`), worker threads run bounded computations, and the
drivers answer or raise. `UnlistedLeave` assumes that each handler's step happens
(sends have a timeout, `get_message` one second); `FailuresEnd` and `DebateEnds` that
retries, the model's calls and sleeps end. Nothing is assumed about the scheduler: a
run or failure that never starts need not end; crashes, restarts, stops and clients
that hang up are not fair, and failures are not assumed to stop.

## 4. Refinement

`ContractKept` is checked by TLC in `DailyOverlap` and proved for every instance.
Loading a table is the contract's `Store`, whether its rows are counted then or
with the last table of the domain; a table that fails is `Fail`; all steps before,
between and after are stutters; `raised` and `crashed` are `Lose`.

## 5. Proofs

Every invariant and action property of the passing runs but `RollbackOnce` is a
theorem, for all values of the constants that satisfy the named assumptions of its
group, which TLC evaluates in every run of that group:

| Group | Assumptions | What they say |
|---|---|---|
| Pipeline | `RegistryAssumption`, `MappingsAssumption` | the tables of the flows mention declared names only; each mapping is in the list |
| Calibration | `CalibrationAssumption`, `NoRowAssumption` | ids of approvals and rollbacks differ, the default is not a value one applies |
| Realtime | `ChannelAssumption`, `BroadcastAssumption` | processor, clients, pump and broadcasters have names of their own |
| Services | `ClockAssumption`, `PolicyAssumption`, `BackupAssumption`, `WindowAssumption`, `AgentsAssumption` | retries, cooldowns, ages are naturals; a period admits at least one call |
| Insights | `RowsAssumption`, `DetectorAssumption`, `AlertAssumption`, `WindowsAssumption`, `CasesAssumption`, `TransformAssumption`, `ManAssumption`, `UnknownAssumption` | rows have numbers in the factors' ranges; windows have points; the validation window is shorter than the training window, which starts before it |

| Theorem | States |
|---|---|
| `PipelineProofs!TypeCorrect` | `Spec => []TypeOK` |
| `PipelineRowProofs!RowsCountedOnce` | `Spec => []CountedOnce` |
| `PipelineRowProofs!LoadedRowsAreExact` | `Spec => []LoadedRowsExact` |
| `PipelineRowProofs!GateNotBypassed` | `Spec => []GateRespected` |
| `PipelineRowProofs!SerialBadRowsAreStale` | `Spec => []BadRowsAreStale` for finitely many runs and `MaxActive = 1` |
| `PipelineRowProofs!SerialRunsStoreGood` | `Spec => []OnlyGoodRows` for finitely many runs, `MaxActive = 1` and domains with one input |
| `PipelineRowProofs!SerialAggregatesCurrent` | `Spec => []AggregatesCurrent` for finitely many runs and `MaxActive = 1` |
| `PipelineContractProofs!ReportsAreComplete` | `Spec => []ReportComplete` |
| `PipelineContractProofs!SuccessIsSynced` | `Spec => []SuccessMeansSynced` |
| `PipelineContractProofs!ContractIsKept` | `Spec => ContractKept`: `Pipeline` implements `RunContract` |
| `CalibrationProofs!TypeCorrect` | `Spec => []TypeOK` |
| `CalibrationProofs!ProposalDecidedOnce` | `Spec => []DecidedOnce` |
| `CalibrationProofs!OtherSectionUntouched` | `Spec => OtherSectionKept` |
| `CalibrationProofs!AnsweredStaysLogged` | `Spec => []AnsweredIsLogged` |
| `CalibrationProofs!MarkedIsAccountedFor` | `Spec => []MarkedHasReverse` |
| `RealtimeProofs!TypeCorrect` | `Spec => []TypeOK` |
| `RealtimeProofs!HistoryFirst` | `Spec => []SignalsAreStored` |
| `RealtimeProofs!MarksHold` | `Spec => []BusyMeansSending` |
| `RealtimeProofs!TableHolds` | `Spec => []TableIsLive` |
| `RealtimeProofs!SnapshotsInOrder` | `Spec => CriticalInOrder` |
| `ServicesProofs!TypeCorrect` | `Spec => []TypeOK` |
| `ServicesProofs!CooldownsHold` | `Spec => []RecoveriesSpaced` |
| `ServicesProofs!NoSilentFailure` | `Spec => []SilenceIsCovered` |
| `ServicesProofs!LogTellsReturned` | `Spec => []ReturnedIsLogged` |
| `ServicesProofs!PromotionHasSource` | `Spec => []NamedIsImportable` |
| `ServicesProofs!WindowKept` | `Spec => []WindowRespected` |
| `ServicesProofs!DissentKept` | `Spec => []DissentPreserved` |
| `VerdictProofs!ScenariosHold` | `Spec => []ScenariosBracket` |
| `VerdictProofs!BuysHaveADrag` | `Spec => []BuyNamesADrag` |
| `InsightsProofs!TypeCorrect` | `Spec => []TypeOK` |
| `InsightsProofs!SamplesAreOneWindow` | `Spec => []SamplesMeet` |
| `InsightsProofs!AnswersInOrder` | `Spec => []AnswersRise` |
| `InsightsProofs!JumpsAreReported` | `Spec => []JumpsReported` |
| `InsightsProofs!MergesConserve` | `Spec => []DedupConserves` |
| `InsightsProofs!DistrictsAreIsolated` | `Spec => []DistrictsIsolated` |
| `InsightsProofs!CapitalGainsTaxRises`, `ComprehensiveTaxRises`, `AcquisitionTaxRises` | a higher price or value is never taxed less |
| `InsightsProofs!SaleLeavesGain` | after two years the tax on a sale is at most its gain |

The inductive invariants behind them are theorems too: `TypesInvariant`, `RowsInvariant`,
`ReportInvariant`, `StateInvariant`, `RealtimeInvariant`, `HealInvariant`,
`BackupInvariant`, `DebateInvariant`.

**Types of the pipeline.** `TypeOK` is not inductive: the loops index sequences.
`TypeInv` adds `IndexesOK`, that a run that is synchronising has a mapping left
and a run that is loading a domain has a table left. One lemma per action.

**Rows.** `CountedOnce` and `LoadedRowsExact` follow from `RowInv`, four parts:
stored rows have distinct keys (`KeysUnique`, by the conflict check of COPY);
what a run counts or holds in its batch is stored and its own (`Stored`); every
row of a run is counted, in the batch, or excused by a load error it reports
(`Accounted`); a load is in progress in the loading phase only, and a batch only
while there is one (`LoadsInPhase`). Two runs that counted one key would have two
stored rows with it. At `done` the batch is empty, so without a load error all
rows of the run are counted.

**Contract.** The refinement rests on `RowInv` too. Each step is shown to be unseen
(`StagesUnseen`) or one of the contract's actions: `Inserts` for a table,
`LoadReported` for a failure, `Answers` for the end of a run, whose guard is
`Accounted` with an empty batch.

**Gate.** `GateRespected` speaks of the run's verdicts at any later time, so
`GateInv` keeps them: a domain in progress was admitted with acceptable inputs
(`Planned`), no domain has a state before planning (`NotYetPlanned`), which is when
verdicts still change, and every stored row belongs to an acceptable domain of its
run (`Sourced`). The heart is `AdmittedAcceptable`: the name matching of
`transform_and_load` blocks a domain whenever one of the sources that feed it was
refused. This is a statement about any registry, not only the one of today.

**Runs that do not overlap.** `AtMostOne` turns `MaxActive = 1` into the fact that any
two runs in progress are one. `GoodInv` follows the data: a file the run found clean is
as the run wrote it (`CleanIsGood`); a domain given no older file of an input without a
collected source (`FreshOnly`) has good files (`InputsFresh`), so good frames
(`FramesGood`) and good rows. With domains of one input (`OneInput`) there is no such
file, since a domain without a fresh one is skipped: `SerialRunsStoreGood`. One of
several inputs reads what lies in the directory, as `StaleGateLoad` shows. For the
aggregates, `Pushed` says that each mapping the run in progress has gone through has the
attributes its query returns, unless the run reports an error, and that what it has
queried and not written yet still stands: no other run can load in between. Rows that
age meanwhile are taken out on both sides. What earlier runs left does not matter,
because every run goes through all mappings and all entities.

**Report.** `ReportComplete` and `SuccessMeansSynced` speak of the end of a run;
`ReportInv` says what is settled after each phase: sources after the first gather,
files after the clean loop, domains by planning, the second gather and the load
loop, the signals after the last mapping. A step changes the run it belongs to only
(`OthersKept`), and for that run one lemma for each stage.

**Calibration.** `StateInv` adds to the types that an approval in progress has a
record (`Approving`) and a rollback in progress has read a row that is still there
(`RollingBack`). `DecidedOnce` needs that an applied record's proposal is no longer
open (`Deciding`). The other two hold for any number of rollbacks at once:
`AnsweredIsLogged` follows from `Logging` (a row of an approval is its record,
marked or not), `MarkedHasReverse` from `Trail` (every marked row has a rollback
that marked it and is past doing so, and the row of a finished rollback is the
reverse of its target). `RollbackOnce` is left to TLC: it needs rollbacks one at a time,
which the code does not arrange.

**Realtime.** `History` follows a signal backwards: what a client got, what is being
sent to it and what waits in its queue is `Rightful` (stored, of its district), since
`process_event` publishes after the insert. `Sequencing` orders the events of a
critical source over all the places they wait in: each event in the processor's queue,
or at hand, is newer than the snapshot and than every thread that `stop()` left
behind (`Latest`), the queue is sorted (`Ordered`), and no critical update runs in the
background (`Awaiting`). `Managed` has the other half: a send to a listed client is marked
(`Marked`), so it is the only one, and a client without a handler is nowhere
(`Strangers`). A disconnected client is not listed again, so what disconnect() does to its
mark, with sends still under way, can not touch a listed one.
`MarksHold` covers what the run does not: any number of broadcasts beside the pump.

**Self healer.** `Queues` and `Stages` say what the lock of a component holds: its
calls under way, each once, of which the first only recovers. `Latest` makes
`last_recovery` the end of the newest finished recovery, `Covered` gives it a call that
succeeded, was escalated or raised. `RecoveriesSpaced` and `SilenceIsCovered` are kept
because the cooldown is looked up under the lock. `ReturnedIsLogged` counts lines, so
its invariant (`LogInv`) does: the returned calls without a line (`Lost`) are no more
than the spoilt lines.

**Backups.** `last_export.json` names an export that ended well and is complete
(`Naming`); an import under way reads such an export or one that
a later one replaced (`Importing`). Rotation keeps `Naming` because snapshots are
rotated only in the step that names a new one, which is newer than any retention of at
least a day: with a retention of 0 days the code would delete the snapshot it has just
named, so `BackupAssumption` excludes that.

**Limiter and debate.** `recent` in `WindowRespected` is a ghost: the calls admitted in
the last period. `WindowInv` says that the deque is those, behind entries that have
reached the period, and no longer than `MaxCalls`; the popping loop then finds exactly
the expired ones. `Lined` and `Rounds` say that all tasks of the rounds before have
answered and none of the rounds after has begun, so the tally is of final verdicts.

**Verdict.** The weights sum to one hundred and totals rise with their terms, whatever
the order of the addition: so bear, base and bull keep their order, and a score of 65
has a factor above neutral. That the worst of the contributions then drags needs
`LastMin`, the last of the least. These are facts about folds over finite sets. The
library's induction theorems can not be used, so `VerdictProofs` has its own:
a property of the subsets of a finite set *is* the set of the subsets that have it
(`SubsetInduction`), and a fold is the unique function that satisfies its recursion
(`SubsetRecursion`). `VerdictInv` says what each request has read so far.

**Samples.** A sample is the verdicts of its window on the day it was taken, and no
verdict dated before that day is added later (`Taken`). The training sample is taken
first, so its end is not after the start of the other one on the same clock, and the days
between the two are those the clock moved.

**Answers.** A progressive tax is not monotone by its shape: a wrong deduction makes a
cliff at a bound. The lemmas `GainBracketBest` and `HoldingBracketBest` show, with
the numbers of the code's tables, that the line of the bracket an amount falls into
is the greatest of all lines there; the greatest of rising lines rises. Rounding and
the taxes on top keep the order (`RoundOrder`, `LocalTaxOrder`, `RuralTaxOrder`).
`SaleLeavesGain` needs the two years: before, the short-term rate of 70 %, the
surcharge of 30 % and the local tax on top can take 110 % of the taxable gain.
`AdviceInv` ties every answer to its question, so that the order of the taxes and of
the policy's moves is that of the answers.

**Scan and alerts.** `ScanInv`: what the scan has read of each metric so far has its
Bollinger findings in the result; in a flat window the spread is zero, and the
departure is compared with the floor, a part of the mean (`FlatSpread`, `Scaled`).
`AlertInv` counts: the events' counts add up to the alerts raised, their ids are
disjoint and all. `Passed` is what a pass of `deduplicate` has made of the events so
far, shown by induction on their set, the latest event last.

**Districts.** The row of a month in a district's series is the one whose month has its
rank. Ranks of different months differ (`RanksAreOneToOne`), and the months of a
district are the same beside others and alone, so both series agree in every position
but for the day; averages and yearly changes look at positions only.

**Model-checked only.** The four liveness properties, `RunsEnd`, `UnlistedLeave`,
`FailuresEnd` and `DebateEnds`: the prover does not handle fairness. `RollbackOnce`,
and the properties that runs show to be violated; `OnlyGoodRows` and
`AggregatesCurrent` are theorems where hypotheses exclude the violating scenario
(domains of one input, runs that do not overlap). What a theorem states beyond its run
is said by its hypotheses: the run shows it for one instance.

## 6. What reading the code showed besides

Divergences that no run states, because no property of the modelled system
depends on them or the text is not about behaviour:

* `verification/improvement_tracker.py:19` inserts `record_id` and `component`, which
  the `ts_calibration_log` of `storage/timescale/schema.sql` does not have.
* A daily run collects the whole month again and COPY has no conflict handling, so the
  second fault-free run of a month fails with `load:<domain>` on the primary key, where
  `tests/pipelines/test_flows.py:63` expects no errors of a fault-free run.
* An entity that drops out of an aggregate query (all its trades older than 12 months, or
  cancelled) keeps its old attribute in TypeDB: the sync only upserts what is returned.
* The aggregate that `OverlappingSync` shows to be lost stays so until the next run; any
  flow can do that to any other, since every one synchronises all mappings.
* The two samples of a weight proposal share the verdicts of the day where they meet,
  although `verification/calibrator.py:3` and `:100-101` split the window 30/6 with the
  last six months excluded from the training sample: both queries include their bound.
* The simulator normalises the raw value of every factor again, and that of a factor
  without data is 0.0: `transport_access` becomes 100 and `price_momentum` 40 where the
  score took the neutral 50, so the base scenario can differ from the score, while
  `inference/simulator.py:198` says "All key variables stay at their current values".
* After `disconnect()` has cleared the mark of a client whose socket is still open (a send
  that timed out and is closing, a handler that is unsubscribing), a broadcast that listed
  the client before can start a second write beside one that is under way, although
  `realtime/ws_server.py:23` says "a client whose previous send is still in flight has the
  new message dropped".
* If `subscribe` fails in `signal_stream`, the client stays in the connection table.
* An approval whose INSERT fails leaves a change in the file that no record names; the
  `before_state` of a proposal may be outdated when it is applied; a rollback only
  writes log rows. Nothing restores a state from the log.
* `realtime/event_processor.py` updates snapshots with `update_snapshot`, which the shipped
  `TypeDBService` does not have: that part of the model is about a service that provides it.
* Errors of single mappings go to `SyncReport.errors` and never to `FlowResult.errors`.
* The freshness check of `verification/data_monitor.py` gives an advisory where the
  design gives a warning two hours after schedule, and reads `ts_collection_log`,
  which nothing writes.
* `simulation/policy_simulator.py:55` counts a rise to the present acquisition rate as
  another lever.
* The yearly change of `price_transformer.py:82` compares with the twelfth row before,
  so a month without trades shifts it.
* A dead realtime listener stays `running`; nothing starts it again.

## 7. Not modelled

* The contents of data frames, except in `PriceTransformer`: schemas, HP filter,
  z-scores, outlier flags. The gate's verdict is a property of the file.
* Reading and writing a parquet file in place is one step; an overlap of a reader
  and a writer of a path is not seen.
* Floating point: scores, taxes and prices are integers in small units; roundings
  are modelled where the code calls `round`.
* Backup file names: two exports begun in the same second write one path; in the model
  each has a file of its own. The schema and the data of an export are one file, and a
  retention is at least a day (the defaults are 30, 7 and 365 days).
* The loan of the sale endpoint (an annuity on reals) and the policy backtest (a placeholder).
* The retries of an HTTP request, the parsing of each API, Prefect's retries, the
  pool's life cycle, several API processes.
* Event flow: the stages of `Pipeline` in a row with one callback that holds or lets
  pass. Monitors: single queries. Authentication: a library around a key cache. Machine
  learning: numeric libraries, out of TLC's reach. Text analysis, reports, UI,
  deployment: no protocol of their own.

## 8. Plan

1. The collector's retries and paging, composed with the collect step; the gate's rules.
2. A parquet write as two steps, with readers in between.
3. Several API processes over one calibration file.
4. The event flow as a fourth flow of `Pipeline`.
5. Proofs: reference definitions of the pure algorithms (the accuracy a sample
   reports, the decision table of the verdict, routing of alerts), action properties
   of the services, the counts of `SyncReport`.
