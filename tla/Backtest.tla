------------------------------ MODULE Backtest ------------------------------
(***************************************************************************)
(* verification/backtester.py: verdicts judged by the prices realised      *)
(* since, and the two samples from which the calibrator takes the IC of    *)
(* the factors.  A date is <<month, day>>; months, windows and horizons    *)
(* have the sizes the constants give them.                                 *)
(***************************************************************************)
EXTENDS Integers, Sequences, FiniteSets, FiniteSetsExt

CONSTANTS
  MonthLength(_),         \* month -> its days
  Horizons,               \* months after which a verdict is judged: 3, 6, 12
  Judged,                 \* the horizon that counts: 3
  ROLLING_WINDOW_MONTHS, VALIDATION_MONTHS,
  Prices, Predictions, ScenarioSets, HOLD_BAND_PCT,
  FirstMonth, LastMonth, MaxVerdicts, MaxTrades,
  Absent                  \* None of the code

ASSUME WindowsAssumption ==
  /\ Judged \in Horizons /\ Horizons \subseteq Nat \ {0}
  /\ VALIDATION_MONTHS \in Nat /\ ROLLING_WINDOW_MONTHS \in Nat
  /\ 0 < VALIDATION_MONTHS /\ VALIDATION_MONTHS < ROLLING_WINDOW_MONTHS
  /\ FirstMonth \in Int /\ LastMonth \in Int /\ FirstMonth <= LastMonth /\ MaxTrades \in Nat
  /\ \A m \in FirstMonth - ROLLING_WINDOW_MONTHS .. LastMonth : MonthLength(m) \in Nat \ {0}

VARIABLES
  today,
  verdicts, \* ts_signals: verdicts with their date, prediction and scenarios
  trades,   \* ts_real_trade: [date, n, price, cancelled]
  train, validation  \* the samples: [on, records], Absent before

backtestVars == <<today, verdicts, trades, train, validation>>
samples == <<train, validation>>

AddMonths(d, k) == <<d[1] + k, Min({d[2], MonthLength(d[1] + k)})>>
Until(d, e) == d[1] < e[1] \/ (d[1] = e[1] /\ d[2] <= e[2])

BacktestInit ==
  /\ today = <<FirstMonth, 1>> /\ verdicts = {} /\ trades = {}
  /\ train = Absent /\ validation = Absent

-----------------------------------------------------------------------------
\* Midnight.
NextDay ==
  /\ today # <<LastMonth, MonthLength(LastMonth)>>
  /\ today' = IF today[2] < MonthLength(today[1]) THEN <<today[1], today[2] + 1>>
              ELSE <<today[1] + 1, 1>>
  /\ UNCHANGED <<verdicts, trades, samples>>

RecordVerdict ==
  /\ Cardinality(verdicts) < MaxVerdicts
  /\ \E p \in Predictions, s \in ScenarioSets :
       verdicts' = verdicts \cup {[date |-> today, prediction |-> p, scenarios |-> s]}
  /\ UNCHANGED <<today, trades, samples>>

\* A trade enters the table on its day; it may be cancelled later.
Trade ==
  /\ Cardinality(trades) < MaxTrades
  /\ \E p \in Prices :
       trades' = trades \cup {[date |-> today, n |-> Cardinality(trades) + 1, price |-> p, cancelled |-> FALSE]}
  /\ UNCHANGED <<today, verdicts, samples>>

Cancel ==
  /\ \E t \in {u \in trades : ~u.cancelled} : trades' = (trades \ {t}) \cup {[t EXCEPT !.cancelled = TRUE]}
  /\ UNCHANGED <<today, verdicts, samples>>

-----------------------------------------------------------------------------
\* The row _PRICE_AS_OF finds: the latest trade until the end of the day.  Its
\* only column is the price, so the time of the trade is Absent.
PriceAsOf(d) ==
  LET past == {t \in trades : ~t.cancelled /\ Until(t.date, d)}
      last == CHOOSE t \in past : \A u \in past : u.n <= t.n
  IN IF ~Until(d, today) \/ past = {} THEN [price |-> Absent, ts |-> Absent]
     ELSE [price |-> last.price, ts |-> Absent]

\* The change of the price in percent after h months.
Change(v, h) ==
  LET base == PriceAsOf(v.date)
      later == PriceAsOf(AddMonths(v.date, h))
  IN IF base.price = Absent \/ later.price = Absent \/ later.ts = Absent \/ later.ts = base.ts
     THEN Absent
     ELSE (100 * (later.price - base.price)) \div base.price

DirectionCorrect(prediction, change) ==
  CASE prediction = "buy"  -> change > 0
    [] prediction = "sell" -> change < 0
    [] OTHER -> change <= HOLD_BAND_PCT /\ -change <= HOLD_BAND_PCT

ScenarioHit(scenarios, change) ==
  IF Cardinality(scenarios) < 2 THEN Absent
  ELSE Min(scenarios) <= change /\ change <= Max(scenarios)

\* BacktestRecord.
Record(v) ==
  LET actual == Change(v, Judged) IN
  [verdict |-> v, changes |-> [h \in Horizons |-> Change(v, h)],
   correct |-> IF actual = Absent THEN Absent ELSE DirectionCorrect(v.prediction, actual),
   hit     |-> IF actual = Absent THEN Absent ELSE ScenarioHit(v.scenarios, actual)]

\* _evaluate_window.
Sample(months, skip) ==
  LET start == AddMonths(today, -months)
      end == AddMonths(today, -skip)
  IN [on |-> today,
      records |-> {Record(v) : v \in {u \in verdicts : Until(start, u.date) /\ Until(u.date, end)}}]

\* propose_weight_update asks for the IC of the training sample, then for that
\* of the validation sample.
\* (mutant) the training sample ends a month early.
MutTrainSample == Sample(ROLLING_WINDOW_MONTHS, VALIDATION_MONTHS + 1)
TrainSample == Sample(ROLLING_WINDOW_MONTHS, VALIDATION_MONTHS)

ReadTrain ==
  /\ train = Absent /\ verdicts # {}
  /\ train' = TrainSample
  /\ UNCHANGED <<today, verdicts, trades, validation>>

ReadValidation ==
  /\ train # Absent /\ validation = Absent
  /\ validation' = Sample(VALIDATION_MONTHS, 0)
  /\ UNCHANGED <<today, verdicts, trades, train>>

BacktestNext ==
  \/ NextDay \/ RecordVerdict \/ Trade \/ Cancel \/ ReadTrain \/ ReadValidation

Days == UNION {{<<m, d>> : d \in 1..MonthLength(m)} : m \in FirstMonth..LastMonth}
BacktestTypeOK ==
  /\ today \in Days
  /\ verdicts \subseteq [date : Days, prediction : Predictions, scenarios : ScenarioSets]
  /\ trades \subseteq [date : Days, n : 1..MaxTrades, price : Prices, cancelled : BOOLEAN]
  /\ \A s \in {train, validation} \ {Absent} : s.on \in Days /\ {r.verdict : r \in s.records} \subseteq verdicts

-----------------------------------------------------------------------------
Sampled(s) == {r.verdict : r \in s.records}

\* The two samples of a proposal miss nothing between them: every verdict of the
\* rolling window, until the day before, is in one of them, but for the days by
\* which the clock moved the start of the validation sample away from the end of
\* the training sample, when it was read again.  (That a verdict is in one of them
\* only does not hold: both take the day where they meet.)
SamplesMeet ==
  train # Absent /\ validation # Absent =>
    LET trained == AddMonths(train.on, -VALIDATION_MONTHS)
        validated == AddMonths(validation.on, -VALIDATION_MONTHS)
    IN \A v \in verdicts :
         /\ Until(AddMonths(train.on, -ROLLING_WINDOW_MONTHS), v.date)
         /\ ~Until(train.on, v.date)
         /\ Until(v.date, trained) \/ Until(validated, v.date)
         => v \in Sampled(train) \cup Sampled(validation)

\* A verdict whose horizon has passed, with a trade before it and another one
\* within the horizon, has an outcome: "realized outcomes are read as the latest
\* trade ts <= verdict_date + horizon" (backtester.py).
OutcomesRealized ==
  validation # Absent =>
    \A r \in validation.records : LET due == AddMonths(r.verdict.date, Judged) IN
      (/\ ~Until(validation.on, due) /\ \A t \in trades : ~t.cancelled
       /\ \E t \in trades : Until(t.date, r.verdict.date)
       /\ \E t \in trades : Until(t.date, due) /\ ~Until(t.date, r.verdict.date)) => r.changes[Judged] # Absent
=============================================================================
