------------------------------- MODULE Scorer -------------------------------
(***************************************************************************)
(* inference/scorer.py: the weighted score of a complex.  A row is what    *)
(* the query of a factor returns, with Missing for a field that is absent  *)
(* or not a number, and for "no row".  Weights are percents; a normalised  *)
(* value runs from 0 to Full, which all ranges divide; a total is the sum  *)
(* of weight times value, so that a point of the code is 12 * 100 units.   *)
(***************************************************************************)
EXTENDS Integers, Sequences, FiniteSets, FiniteSetsExt, Functions, TLC

CONSTANT Missing

FACTOR_WEIGHTS == [
  valuation_gap |-> 10, price_momentum |-> 8, jeonse_ratio_trend |-> 7,
  interest_rate_cycle |-> 8, liquidity_trend |-> 7, supply_demand_gap |-> 10,
  unsold_risk |-> 5, migration_momentum |-> 5, transport_access |-> 8,
  development_upside |-> 7, regulation_impact |-> 5, tax_burden |-> 5,
  cycle_position |-> 5, sentiment_composite |-> 10]

FACTOR_RANGES == [
  valuation_gap |-> <<-30, 30, FALSE>>, price_momentum |-> <<-10, 15, FALSE>>,
  jeonse_ratio_trend |-> <<-10, 10, FALSE>>, interest_rate_cycle |-> <<-100, 100, TRUE>>,
  liquidity_trend |-> <<-50, 50, FALSE>>, supply_demand_gap |-> <<-50, 50, FALSE>>,
  unsold_risk |-> <<0, 10, TRUE>>, migration_momentum |-> <<-1, 1, FALSE>>,
  transport_access |-> <<300, 1500, TRUE>>, development_upside |-> <<0, 3, FALSE>>,
  regulation_impact |-> <<0, 6, TRUE>>, tax_burden |-> <<0, 15, TRUE>>]

CYCLE_PHASE_SCORES == [recovery |-> 85, expansion |-> 70, peak |-> 35,
                       slowdown |-> 25, contraction |-> 10, trough |-> 55]

Factors == DOMAIN FACTOR_WEIGHTS
\* The order of the dictionary, which breaks ties.
Position(f) == CHOOSE i \in 1..14 : f = <<
  "valuation_gap", "price_momentum", "jeonse_ratio_trend", "interest_rate_cycle",
  "liquidity_trend", "supply_demand_gap", "unsold_risk", "migration_momentum",
  "transport_access", "development_upside", "regulation_impact", "tax_burden",
  "cycle_position", "sentiment_composite">>[i]
Full == 1200
NEUTRAL == Full \div 2
Points(p) == 12 * 100 * p

Clamp(x, lo, hi) == IF x < lo THEN lo ELSE IF x > hi THEN hi ELSE x

minmax(v, lo, hi, invert) ==
  LET x == Clamp(((v - lo) * Full) \div (hi - lo), 0, Full) IN
  IF hi = lo THEN NEUTRAL ELSE IF invert THEN Full - x ELSE x

Normalized(f, raw) == minmax(raw, FACTOR_RANGES[f][1], FACTOR_RANGES[f][2], FACTOR_RANGES[f][3])

GRADE_BOUNDARIES == <<<<80, "A">>, <<65, "B">>, <<50, "C">>, <<35, "D">>>>
grade_for(total) ==
  LET met == {i \in DOMAIN GRADE_BOUNDARIES : total >= Points(GRADE_BOUNDARIES[i][1])} IN
  IF met = {} THEN "F" ELSE GRADE_BOUNDARIES[Min(met)][2]

-----------------------------------------------------------------------------
\* What a _calc_ method returns.  A factor without data is neutral.
NoData == [raw |-> 0, norm |-> NEUTRAL, missing |-> TRUE]
Made(raw, norm) == [raw |-> raw, norm |-> Clamp(norm, 0, Full), missing |-> FALSE]
Ranged(f, raw) == Made(raw, Normalized(f, raw))

\* A number that is absent, or zero where the code tests its truth.
Falsy(v) == v \in {Missing, 0}
Known(list) == {i \in DOMAIN list : list[i] # Missing}
SumOf(f) == FoldFunction(+, 0, f)

calc_valuation_gap(r) ==
  IF Falsy(r.price) \/ Falsy(r.avg) THEN NoData
  ELSE Ranged("valuation_gap", ((r.avg - r.price) * 100) \div r.avg)

\* Factors whose row is one number, which is the raw value.
calc_number(f, v) == IF v = Missing THEN NoData ELSE Ranged(f, v)
calc_transport_access(nearest_station_m) == calc_number("transport_access", nearest_station_m)
calc_unsold_or_migration(f, v) == calc_number(f, v)

\* Factors with a row for each project or regulation: the known ones are added.
calc_development_upside(stage_weights) ==
  IF Known(stage_weights) = {} THEN NoData
  ELSE Ranged("development_upside", SumOf([i \in Known(stage_weights) |-> stage_weights[i]]))
calc_regulation_impact(severities) ==
  IF Known(severities) = {} THEN NoData
  ELSE Ranged("regulation_impact", SumOf([i \in Known(severities) |-> severities[i]]))

calc_supply_demand_gap(r) ==
  IF r.demand = Missing \/ r.supply = Missing THEN NoData
  ELSE IF r.demand <= 0 THEN NoData
  ELSE Ranged("supply_demand_gap", ((r.demand - r.supply) * 100) \div r.demand)

calc_cycle_position(phase) ==
  IF phase \notin DOMAIN CYCLE_PHASE_SCORES THEN NoData
  ELSE LET s == CYCLE_PHASE_SCORES[phase] IN Made(s, 12 * s)

\* The parts that are present share the weight.
SENTIMENT_PARTS == [divergence |-> <<5, -1, 1>>, fear_greed |-> <<3, 0, 100>>, search |-> <<2, -50, 50>>]
calc_sentiment_composite(r) ==
  LET parts == {p \in DOMAIN SENTIMENT_PARTS : r[p] # Missing}
      w(p) == SENTIMENT_PARTS[p][1]
      tw == SumOf([p \in parts |-> w(p)])
      norm(p) == minmax(r[p], SENTIMENT_PARTS[p][2], SENTIMENT_PARTS[p][3], FALSE)
  IN IF parts = {} THEN NoData
     ELSE Made(SumOf([p \in parts |-> w(p) * r[p]]) \div tw,
               SumOf([p \in parts |-> w(p) * norm(p)]) \div tw)

Calc(f, row) ==
  CASE f = "valuation_gap"       -> calc_valuation_gap(row)
    [] f = "transport_access"    -> calc_transport_access(row)
    [] f = "development_upside"  -> calc_development_upside(row)
    [] f = "regulation_impact"   -> calc_regulation_impact(row)
    [] f = "supply_demand_gap"   -> calc_supply_demand_gap(row)
    [] f = "cycle_position"      -> calc_cycle_position(row)
    [] f = "sentiment_composite" -> calc_sentiment_composite(row)
    [] f \in {"unsold_risk", "migration_momentum"} -> calc_unsold_or_migration(f, row)
    [] OTHER -> calc_number(f, row)

-----------------------------------------------------------------------------
\* InvestmentScore.
TotalOf(factors) == SumOf([f \in Factors |-> FACTOR_WEIGHTS[f] * factors[f].norm])
Scored(factors) == [factors |-> factors, total |-> TotalOf(factors), grade |-> grade_for(TotalOf(factors))]
Score(rows) == Scored([f \in Factors |-> Calc(f, rows[f])])
=============================================================================
