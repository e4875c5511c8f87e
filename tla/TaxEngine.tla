------------------------------ MODULE TaxEngine ------------------------------
(***************************************************************************)
(* api/services/tax_engine.py: the taxes of a purchase, a sale and a       *)
(* holding.  Amounts are whole won.  The tables are in units of 10,000     *)
(* won, which TLC takes as Man = 1 to stay within its integers.  Rates are *)
(* per cent, those of the comprehensive tax and the surtax per mille; the  *)
(* rounding of floats that is not a call of round is left out.             *)
(***************************************************************************)
EXTENDS Rounding, Sequences

CONSTANTS
  Man,     \* won in a unit of the tables: 10,000
  Unknown  \* no rate in TypeDB

ASSUME ManAssumption == Man \in Nat \ {0}
ASSUME UnknownAssumption == Unknown \notin Int

DEFAULT_ACQ_RATE == <<1, 8, 12>>
SURTAX_RATE == 2
LONG_TERM_DEDUCTION_PER_YEAR == 2
LONG_TERM_DEDUCTION_CAP == 30
BASIC_DEDUCTION == 250 * Man
COMP_EXEMPTION == 90000 * Man

\* The upper bounds of all brackets but the last, which has none.
CGT_UPPER == <<1400, 5000, 8800, 15000, 30000, 50000, 100000>>
CGT_RATE == <<6, 15, 24, 35, 38, 40, 42, 45>>
CGT_DEDUCTION == <<0, 126, 576, 1544, 1994, 2594, 3594, 6594>>
COMP_UPPER == <<30000, 60000, 120000, 250000, 500000, 940000>>
COMP_RATE == <<5, 7, 10, 13, 20, 27, 30>>
COMP_DEDUCTION == <<0, 60, 240, 600, 2350, 5850, 8670>>

\* The first bracket that reaches the amount, which is in parts of a won.
Bracket(amount, parts, upper) ==
  CHOOSE i \in 1..Len(upper) + 1 :
    /\ i <= Len(upper) => amount <= parts * Man * upper[i]
    /\ \A j \in 1..i - 1 : amount > parts * Man * upper[j]

\* _rate_lookup: the first row with a rate, if the query succeeds.
Usable(rows) == {i \in DOMAIN rows : rows[i] # Unknown}
RateLookup(rows) ==
  IF Usable(rows) = {} THEN Unknown
  ELSE rows[CHOOSE i \in Usable(rows) : \A j \in Usable(rows) : i <= j]

-----------------------------------------------------------------------------
RateKey(corporate, owners, regulated) ==
  CASE corporate                     -> 3
    [] ~corporate /\ owners <= 1     -> 1
    [] ~corporate /\ owners = 2      -> IF regulated THEN 2 ELSE 1
    [] OTHER                         -> IF regulated \/ owners >= 4 THEN 3 ELSE 2

calc_acquisition_tax(price, corporate, owners, regulated, rows) ==
  LET found == RateLookup(rows)
      rate == IF found = Unknown THEN DEFAULT_ACQ_RATE[RateKey(corporate, owners, regulated)] ELSE found
  IN Round(price * rate, 100) + Round(price * SURTAX_RATE, 1000)

-----------------------------------------------------------------------------
\* The holding in whole years: each of the code's comparisons is with one.
LongTermDeduction(years, owners) ==
  IF owners > 1 \/ years < 3 THEN 0
  ELSE IF years * LONG_TERM_DEDUCTION_PER_YEAR > LONG_TERM_DEDUCTION_CAP THEN LONG_TERM_DEDUCTION_CAP
  ELSE years * LONG_TERM_DEDUCTION_PER_YEAR

HeavySurcharge(owners, regulated) ==
  IF ~regulated \/ owners < 2 THEN 0 ELSE IF owners = 2 THEN 20 ELSE 30

\* In hundredths of a won.
TaxableGain(gain, deduction) == NotNegative(gain * (100 - deduction) - 100 * BASIC_DEDUCTION)

ShortTermRate(years, rows) ==
  LET found == RateLookup(rows) IN
  IF found # Unknown THEN found ELSE IF years < 1 THEN 70 ELSE 60

\* The tax on hundredths of a won, in ten-thousandths.
ShortTerm(taxable, years, surcharge, rows) == taxable * (ShortTermRate(years, rows) + surcharge)

\* (mutant) the deduction of the bracket after.
MutProgressiveGain(taxable, surcharge) ==
  LET i == Bracket(taxable, 100, CGT_UPPER) IN
  taxable * (CGT_RATE[i] + surcharge) - 10000 * Man * CGT_DEDUCTION[IF i < 8 THEN i + 1 ELSE i]
ProgressiveGain(taxable, surcharge) ==
  LET i == Bracket(taxable, 100, CGT_UPPER) IN
  taxable * (CGT_RATE[i] + surcharge) - 10000 * Man * CGT_DEDUCTION[i]

WithLocalTax(tax) == tax + Round(tax, 10)

calc_capital_gains_tax(purchase, sale, years, regulated, owners, rows) ==
  LET taxable == TaxableGain(sale - purchase, LongTermDeduction(years, owners))
      surcharge == HeavySurcharge(owners, regulated)
      due == IF years < 2 THEN ShortTerm(taxable, years, surcharge, rows)
             ELSE ProgressiveGain(taxable, surcharge)
  IN IF sale <= purchase THEN 0 ELSE WithLocalTax(NotNegative(Round(due, 10000)))

-----------------------------------------------------------------------------
\* In fifths of a won: the fair market ratio is 60 %.
CompBase(assessed) == NotNegative((assessed - COMP_EXEMPTION) * 3)

\* In five-thousandths of a won.
ProgressiveHolding(base) ==
  LET i == Bracket(base, 5, COMP_UPPER) IN
  base * COMP_RATE[i] - 5000 * Man * COMP_DEDUCTION[i]

WithRuralTax(tax) == tax + Round(tax * 2, 10)

calc_comprehensive_tax(assessed) ==
  IF CompBase(assessed) = 0 THEN 0
  ELSE WithRuralTax(NotNegative(Round(ProgressiveHolding(CompBase(assessed)), 5000)))
=============================================================================
