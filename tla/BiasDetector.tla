---------------------------- MODULE BiasDetector ----------------------------
(***************************************************************************)
(* inference/bias_detector.py: nine checks of a score, of stored rows      *)
(* (Missing when the query fails or finds nothing) and of what the caller  *)
(* says of the user.  A check gives a severity or None.                    *)
(***************************************************************************)
EXTENDS Scorer

None == "none"
CONFIRMATION_RATIO == 3

Abs(x) == IF x < 0 THEN -x ELSE x

\* (mutant) no warning when nothing speaks against the complex.
MutConfirmationSeverity(pos, neg) == IF neg > 0 /\ pos >= 5 * neg THEN "high" ELSE "medium"
ConfirmationSeverity(pos, neg) == IF neg = 0 \/ pos >= 5 * neg THEN "high" ELSE "medium"

check_confirmation(score) ==
  LET pos == Cardinality({f \in Factors : score.factors[f].norm > NEUTRAL})
      neg == Cardinality({f \in Factors : score.factors[f].norm < NEUTRAL})
  IN IF pos < CONFIRMATION_RATIO * neg \/ pos = 0 THEN None
     ELSE ConfirmationSeverity(pos, neg)

\* Divergences are compared in percent of the fair value.
check_anchoring(ctx, row) ==
  IF Falsy(ctx.reference_price) \/ Falsy(row.fair_value) THEN None
  ELSE IF row.fair_value < 0 THEN None
  ELSE LET div == 100 * Abs(ctx.reference_price - row.fair_value) IN
       IF div < 20 * row.fair_value THEN None
       ELSE IF div >= 40 * row.fair_value THEN "high" ELSE "medium"

check_recency(row) ==
  IF Falsy(row.change_3m) \/ Falsy(row.change_36m) THEN None
  ELSE IF (row.change_3m > 0) <=> (row.change_36m > 0) THEN None ELSE "medium"

check_survivorship(row) ==
  IF row.declining_ratio_pct = Missing THEN None
  ELSE IF row.declining_ratio_pct >= 30 THEN None ELSE "medium"

check_availability(row) ==
  IF row.search_volume_percentile = Missing THEN None
  ELSE IF row.search_volume_percentile < 90 THEN None ELSE "low"

check_loss_aversion(ctx) ==
  IF Falsy(ctx.peak_price) \/ ctx.current_price = Missing \/ ~ctx.holding THEN None
  ELSE IF 100 * ctx.current_price > 85 * ctx.peak_price THEN None ELSE "medium"

check_overconfidence(ctx) ==
  IF ctx.confidence # "high" \/ ctx.evidence_count = Missing THEN None
  ELSE IF ctx.evidence_count >= 3 THEN None ELSE "high"

check_base_rate_neglect(ctx, row) ==
  IF ctx.expected_return = Missing \/ Falsy(row.avg_return) THEN None
  ELSE IF row.avg_return < 0 \/ ctx.expected_return <= 2 * row.avg_return THEN None ELSE "medium"

check_sunk_cost(ctx) ==
  IF ctx.expired_signals = Missing THEN None
  ELSE IF ctx.expired_signals < 2 THEN None ELSE "medium"

\* The warnings, by check.
Detect(score, ctx, row) == [
  confirmation_bias |-> check_confirmation(score), anchoring |-> check_anchoring(ctx, row),
  recency_bias |-> check_recency(row), survivorship_bias |-> check_survivorship(row),
  availability_heuristic |-> check_availability(row), loss_aversion |-> check_loss_aversion(ctx),
  overconfidence |-> check_overconfidence(ctx), base_rate_neglect |-> check_base_rate_neglect(ctx, row),
  sunk_cost |-> check_sunk_cost(ctx)]
=============================================================================
