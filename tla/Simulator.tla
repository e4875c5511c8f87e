----------------------------- MODULE Simulator -----------------------------
(***************************************************************************)
(* inference/simulator.py: bull, base and bear scenarios and the           *)
(* sensitivity of a score to each of the simulated variables.              *)
(***************************************************************************)
EXTENDS Scorer

DEFAULT_VARIABLES == {"supply_demand_gap", "valuation_gap", "interest_rate_cycle",
                      "transport_access", "price_momentum"}
PERTURBATION_SIGMAS == -2..2
DEFAULT_SIGMAS == [supply_demand_gap |-> 12, valuation_gap |-> 8,
                   interest_rate_cycle |-> 30, transport_access |-> 200, price_momentum |-> 5]

\* (mutant) every increase is favourable.
MutFavorableSign(f) == 1
FAVORABLE_SIGN(f) == IF FACTOR_RANGES[f][3] THEN -1 ELSE 1

\* The deviation of the last 36 months, if there is a usable one.
Sigma(v, row) == IF row = Missing THEN DEFAULT_SIGMAS[v] ELSE IF row <= 0 THEN DEFAULT_SIGMAS[v] ELSE row

\* The factors named by shifts are normalised anew; the others keep their value.
ApplyShift(base, shifts) ==
  Scored([f \in Factors |->
    LET b == base.factors[f] IN
    IF f \notin DOMAIN shifts THEN b
    ELSE [b EXCEPT !.raw = @ + shifts[f], !.norm = Normalized(f, b.raw + shifts[f])]])

Directions == [bull |-> 1, base |-> 0, bear |-> -1]

\* The total and grade of each scenario.
BuildScenarios(base, sigmas) ==
  [s \in DOMAIN Directions |->
     LET scored == ApplyShift(base, [v \in DOMAIN sigmas |-> Directions[s] * FAVORABLE_SIGN(v) * sigmas[v]])
     IN [total |-> scored.total, grade |-> scored.grade]]

\* variable -> deviations -> change of the total.
Sensitivity(base, sigmas) ==
  [v \in DOMAIN sigmas |->
     [k \in PERTURBATION_SIGMAS |-> ApplyShift(base, [u \in {v} |-> k * sigmas[v]]).total - base.total]]

Simulate(rows, sigmaRows) ==
  LET base == Score(rows)
      sigmas == [v \in DEFAULT_VARIABLES |-> Sigma(v, sigmaRows[v])]
  IN [base |-> base.total, scenarios |-> BuildScenarios(base, sigmas),
      sensitivity |-> Sensitivity(base, sigmas)]
=============================================================================
