------------------------------- MODULE Advice -------------------------------
(***************************************************************************)
(* api/routers/simulation.py: a user asks what taxes or a policy would do, *)
(* and asks again with another amount.                                     *)
(***************************************************************************)
EXTENDS TaxEngine, PolicySimulator, FiniteSets

CONSTANTS
  TaxCases,    \* [price, years, owners, corporate, regulated, acqRows, cgtRows]
  Sales(_), Assessed,  \* what may vary: prices of a sale after a price, sums of values
  PolicyCases,         \* [kind, before]
  Moves(_)             \* of a kind: rates in basis points, units, 0 or 1 for an action

ASSUME CasesAssumption ==
  /\ \A c \in TaxCases :
       /\ {c.price, c.years, c.owners} \subseteq Nat /\ {c.corporate, c.regulated} \subseteq BOOLEAN
       /\ c.acqRows \in Seq(Nat \cup {Unknown}) /\ c.cgtRows \in Seq(Nat \cup {Unknown})
       /\ Sales(c.price) \subseteq Nat
  /\ Assessed \subseteq Nat
  /\ \A c \in PolicyCases :
       /\ c.before \in 0..100 * Point
       /\ Moves(c.kind) \subseteq IF c.kind = "regulation" THEN {0, 1} ELSE Int
  /\ TaxCases \cap PolicyCases = {}

VARIABLE answers

AdviceInit == answers = {}

-----------------------------------------------------------------------------
\* POST /tax.  A tax that was not asked for is none.
TotalTax(c, sale, assessed) ==
  calc_acquisition_tax(c.price, c.corporate, c.owners, c.regulated, c.acqRows)
    + calc_capital_gains_tax(c.price, sale, c.years, c.regulated, c.owners, c.cgtRows)
    + calc_comprehensive_tax(assessed)

AskTax(c, sale, assessed) ==
  answers' = answers \cup {[about |-> c, amount |-> <<sale, assessed>>, result |-> TotalTax(c, sale, assessed)]}

\* POST /policy.  A change by name of the present acquisition tax rate counts as
\* some other lever.
Delta(kind, n) ==
  CASE kind = "tax" -> TaxDelta(n, TRUE)
    [] kind = "interest_rate" -> RateDelta(<<DEFAULT_RATE, n>>)
    [] kind = "regulation" -> RegulationDelta(IF n = 1 THEN "designate" ELSE "release")
    [] OTHER -> SupplyDelta(n)

AskPolicy(c, n) ==
  answers' = answers \cup {[about |-> c, amount |-> <<n, n>>, result |-> PolicyImpact(c.before, Delta(c.kind, n))]}

\* The second question is a variation of the first.
AdviceNext ==
  /\ Cardinality(answers) < 2
  /\ \/ \E c \in TaxCases, assessed \in Assessed : \E sale \in Sales(c.price) :
          (\A a \in answers : a.about = c) /\ AskTax(c, sale, assessed)
     \/ \E c \in PolicyCases : \E n \in Moves(c.kind) :
          (\A a \in answers : a.about = c) /\ AskPolicy(c, n)

MaxCents == 10000 \* the hundredths of points of the best score
AdviceTypeOK ==
  \A a \in answers :
    \/ a.about \in TaxCases /\ a.result \in Nat
    \/ /\ a.about \in PolicyCases
       /\ a.result.before \in 0..MaxCents /\ a.result.after \in 0..MaxCents
       /\ a.result.delta \in -MaxCents..MaxCents

-----------------------------------------------------------------------------
\* A sale for more, or a dearer holding, never lowers the taxes of otherwise the
\* same question; a stricter policy never raises the score, whatever the clamping
\* (apart from the one rate that counts as another lever).
AnswersRise ==
  \A a, b \in answers :
    a.about = b.about /\ a.amount[1] <= b.amount[1] /\ a.amount[2] <= b.amount[2] =>
      IF a.about \in TaxCases THEN a.result <= b.result
      ELSE (a.about.kind = "tax" /\ DEFAULT_ACQ_TAX_RATE \in {a.amount[1], b.amount[1]})
             \/ a.result.after >= b.result.after
=============================================================================
