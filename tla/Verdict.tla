------------------------------- MODULE Verdict -------------------------------
(***************************************************************************)
(* inference/verdict.py: a request for a verdict.  The score and the       *)
(* scenarios are read in one gather, each from the database of its moment, *)
(* then the biases; meanwhile a load may replace the row of a factor.  One *)
(* load changes one row, so that a scoring, whose queries are a gather     *)
(* too, sees the rows before or after it.                                  *)
(***************************************************************************)
EXTENDS Simulator, BiasDetector

CONSTANTS
  Datasets,    \* what the rows of the factors may be at first
  NewRows(_),  \* factor -> what a load may make of its row
  SigmaRows,   \* what the deviations of the variables may be
  UserContexts, BiasRows,
  MaxLoads,
  Raised

\* What the queries of the factors and of the deviations return.
Number == Int \cup {Missing}
RowOf(f) ==
  CASE f = "valuation_gap"       -> [price : Number, avg : Nat \cup {Missing}]
    [] f \in {"development_upside", "regulation_impact"} -> Seq(Number)
    [] f = "supply_demand_gap"   -> [demand : Number, supply : Number]
    [] f = "cycle_position"      -> STRING \cup {Missing}
    [] f = "sentiment_composite" -> [DOMAIN SENTIMENT_PARTS -> Number]
    [] OTHER -> Number

ASSUME RowsAssumption ==
  /\ \A d \in Datasets : DOMAIN d = Factors /\ \A f \in Factors : d[f] \in RowOf(f)
  /\ \A f \in Factors : NewRows(f) \subseteq RowOf(f)
  /\ \A s \in SigmaRows, v \in DEFAULT_VARIABLES : s[v] \in Number
  /\ MaxLoads \in Nat /\ Missing \notin Int /\ Raised # Missing

VARIABLES
  rows,      \* factor -> its row in the database
  loads,
  score,     \* InvestmentScore of build(), Missing before
  scenarios, \* ScenarioResult, Missing before
  biases,    \* warnings by check, Missing before
  verdict    \* InvestmentVerdict, Missing before, Raised if build() raises

verdictVars == <<rows, loads, score, scenarios, biases, verdict>>
request == <<score, scenarios, biases, verdict>>

BUY == "buy"
HOLD == "hold"
SELL == "sell"
DEFER == "defer"

VerdictInit ==
  /\ rows \in Datasets /\ loads = 0
  /\ score = Missing /\ scenarios = Missing /\ biases = Missing /\ verdict = Missing

-----------------------------------------------------------------------------
Contribution(factors, f) == (factors[f].norm - NEUTRAL) * FACTOR_WEIGHTS[f]

\* Among the factors fs, one for which key is largest: the first or the last.
FirstMax(fs, key) == CHOOSE f \in fs : \A g \in fs \ {f} :
  key[f] > key[g] \/ (key[f] = key[g] /\ Position(f) < Position(g))
LastMin(fs, key) == CHOOSE f \in fs : \A g \in fs \ {f} :
  key[f] < key[g] \/ (key[f] = key[g] /\ Position(f) > Position(g))

Confidence(missing) ==
  IF Cardinality(missing) >= 5 THEN "Low" ELSE IF Cardinality(missing) >= 2 THEN "Medium" ELSE "High"

HighBias(bs) == \E b \in DOMAIN bs : bs[b] = "high"

Decision(total, bs, confidence) ==
  CASE total >= Points(65) /\ ~HighBias(bs) /\ confidence # "Low" -> BUY
    [] total < Points(35) -> SELL
    [] total >= Points(35) /\ (HighBias(bs) \/ confidence = "Low") -> DEFER
    [] OTHER -> HOLD

\* How far the perturbations of a variable move the score.
Impact(sensitivity, v) == Max({Abs(sensitivity[v][k]) : k \in PERTURBATION_SIGMAS})

Built ==
  LET factors == score.factors
      missing == {f \in Factors : factors[f].missing}
      known == IF missing = Factors THEN Factors ELSE Factors \ missing
      contribution == [f \in Factors |-> Contribution(factors, f)]
      closeness == [f \in Factors |-> -Abs(factors[f].norm - NEUTRAL)]
      impact(v) == Impact(scenarios.sensitivity, v)
  IN [verdict    |-> Decision(score.total, biases, Confidence(missing)),
      confidence |-> Confidence(missing),
      best       |-> FirstMax(known, contribution),
      worst      |-> LastMin(known, contribution),
      hidden     |-> IF missing # {} THEN FirstMax(missing, FACTOR_WEIGHTS) ELSE FirstMax(Factors, closeness),
      kill       |-> {v \in DEFAULT_VARIABLES : \A u \in DEFAULT_VARIABLES : impact(v) >= impact(u)}]

-----------------------------------------------------------------------------
\* A load between two awaits of the request.
LoadRow(f) ==
  /\ loads < MaxLoads /\ verdict = Missing
  /\ \E r \in NewRows(f) : r # rows[f] /\ rows' = [rows EXCEPT ![f] = r]
  /\ loads' = loads + 1
  /\ UNCHANGED request

ReadScore ==
  /\ verdict = Missing /\ score = Missing
  /\ score' = Score(rows)
  /\ UNCHANGED <<rows, loads, scenarios, biases, verdict>>

\* The simulator scores the complex itself.
ReadScenarios ==
  /\ verdict = Missing /\ scenarios = Missing
  /\ \E sigmas \in SigmaRows : scenarios' = Simulate(rows, sigmas)
  /\ UNCHANGED <<rows, loads, score, biases, verdict>>

\* A query of a factor raises: neither gather catches it.
ReadFails ==
  /\ verdict = Missing /\ (score = Missing \/ scenarios = Missing)
  /\ verdict' = Raised
  /\ UNCHANGED <<rows, loads, score, scenarios, biases>>

DetectBiases ==
  /\ verdict = Missing /\ score # Missing /\ scenarios # Missing /\ biases = Missing
  /\ \E ctx \in UserContexts, row \in BiasRows : biases' = Detect(score, ctx, row)
  /\ UNCHANGED <<rows, loads, score, scenarios, verdict>>

Build ==
  /\ verdict = Missing /\ biases # Missing
  /\ verdict' = Built
  /\ UNCHANGED <<rows, loads, score, scenarios, biases>>

VerdictNext ==
  \/ \E f \in Factors : LoadRow(f)
  \/ ReadScore \/ ReadScenarios \/ ReadFails \/ DetectBiases \/ Build

FactorScores == [raw : Int, norm : 0..Full, missing : BOOLEAN]
Grades == {"A", "B", "C", "D", "F"}
VerdictTypeOK ==
  /\ loads \in 0..MaxLoads
  /\ score # Missing => /\ score.factors \in [Factors -> FactorScores]
                        /\ score.total \in 0..Points(100) /\ score.grade \in Grades
  /\ biases # Missing => \A b \in DOMAIN biases : biases[b] \in {None, "low", "medium", "high"}
  /\ verdict \notin {Missing, Raised} => verdict.verdict \in {BUY, HOLD, SELL, DEFER}

-----------------------------------------------------------------------------
\* Clamping and inverted ranges never turn a scenario round: bear is at most
\* base and base at most bull, and moving a variable in its favour never lowers
\* the score.
ScenariosBracket ==
  scenarios # Missing =>
    /\ scenarios.scenarios.bear.total <= scenarios.scenarios.base.total
    /\ scenarios.scenarios.base.total <= scenarios.scenarios.bull.total
    /\ \A v \in DEFAULT_VARIABLES, j, k \in PERTURBATION_SIGMAS :
         FAVORABLE_SIGN(v) * j <= FAVORABLE_SIGN(v) * k =>
           scenarios.sensitivity[v][j] <= scenarios.sensitivity[v][k]

\* A "buy" always comes with a real counter-argument: the bear case it names is
\* a factor with data that drags the score down (unanimity is a high bias), and
\* it rests on at least ten factors with data.
BuyNamesADrag ==
  verdict \notin {Missing, Raised} =>
    (verdict.verdict = BUY =>
       /\ Contribution(score.factors, verdict.worst) < 0
       /\ ~score.factors[verdict.worst].missing
       /\ Cardinality({f \in Factors : ~score.factors[f].missing}) >= 10)
=============================================================================
