--------------------------- MODULE PolicySimulator ---------------------------
(***************************************************************************)
(* simulation/policy_simulator.py: what a policy does to the score of a    *)
(* scope.  A score is in units of a 2000th of a point, which every         *)
(* sensitivity and every rate in basis points fits.                        *)
(***************************************************************************)
EXTENDS Rounding, Sequences

Point == 2000
DEFAULT_ACQ_TAX_RATE == 300
DEFAULT_RATE == 350

\* The acquisition tax rate named in the changes, or the present one; and
\* whether the changes name anything.
TaxDelta(rate, changes) ==
  LET raw == (DEFAULT_ACQ_TAX_RATE - rate) * ((3 * Point) \div 100) IN
  IF raw = 0 /\ changes THEN -(Point \div 2) ELSE raw

RegulationDelta(action) == IF action = "designate" THEN -6 * Point ELSE 5 * Point
RateDelta(path) == (DEFAULT_RATE - path[Len(path)]) * ((4 * Point) \div 100)
SupplyDelta(units) == -(units * ((3 * Point) \div 2000))

clamp(x) == IF x < 0 THEN 0 ELSE IF x > 100 * Point THEN 100 * Point ELSE x

\* _build: rounded to hundredths of a point.
PolicyImpact(before, raw) ==
  LET after == clamp(before + raw)
      cents(x) == Round(x, Point \div 100)
  IN [before |-> cents(before), after |-> cents(after), delta |-> cents(after - before)]
=============================================================================
