--------------------------- MODULE PriceTransformer ---------------------------
(***************************************************************************)
(* pipelines/transformers/price_transformer.py: trades to monthly prices   *)
(* per square metre with averages and changes, district by district.  A    *)
(* frame is a set of trades; means are those of prices they divide.        *)
(***************************************************************************)
EXTENDS Integers, FiniteSets, FiniteSetsExt, SequencesExt

CONSTANTS
  Places, Months, DaysOfMonth,
  Quotes,     \* <<price, area>>
  MaxSold,
  MA_WINDOWS, YearRows,  \* (3, 6, 12) and 12 in the code
  NaN

ASSUME TransformAssumption ==
  /\ Months \subseteq Int /\ MaxSold \in Nat
  /\ MA_WINDOWS \subseteq Nat \ {0} /\ YearRows \in Nat \ {0}

VARIABLE sold

TransformInit == sold = {}

-----------------------------------------------------------------------------
PricePerSqm(t) == IF t.area > 0 THEN t.price \div t.area ELSE NaN

\* A mean leaves NaN out.
Mean(values) ==
  LET known == SelectSeq(values, LAMBDA v : v # NaN) IN
  IF known = <<>> THEN NaN ELSE FoldLeft(LAMBDA x, y : x + y, 0, known) \div Len(known)

\* _aggregate_monthly.  Unless some month of some district has two trades, the
\* rows keep their days.
Duplicated(trades) ==
  \E t, u \in trades : t # u /\ t.place = u.place /\ t.month = u.month
MonthRow(trades, p, m) ==
  LET here == {t \in trades : t.place = p /\ t.month = m} IN
  [place |-> p, month |-> m, day |-> IF Duplicated(trades) THEN 1 ELSE (CHOOSE t \in here : TRUE).day,
   value |-> Mean([i \in 1..Cardinality(here) |-> PricePerSqm(SetToSeq(here)[i])])]
Monthly(trades) == {MonthRow(trades, t.place, t.month) : t \in trades}

\* (mutant) no groups: the frame is rolled over as a whole.
MutSeriesOf(rows, p) ==
  SetToSortSeq(rows, LAMBDA r, q : r.month < q.month)
\* The rows a row of a district is computed with, by time: its group.  Row i is
\* the one that i rows of the group are not after.
SeriesOf(rows, p) ==
  LET group == {r \in rows : r.place = p}
      NotAfter(r) == {q \in group : q.month <= r.month}
  IN [i \in 1..Cardinality(group) |-> CHOOSE r \in group : Cardinality(NotAfter(r)) = i]

MovingAverage(s, i, w) ==
  LET window == [k \in 1..w |-> s[i - w + k].value] IN
  IF i < w \/ \E k \in 1..w : window[k] = NaN THEN NaN ELSE Mean(window)

PctChange(s, i, n) ==
  IF i <= n THEN NaN
  ELSE LET prev == s[i - n].value IN
       IF prev \in {NaN, 0} \/ s[i].value = NaN THEN NaN ELSE ((s[i].value - prev) * 100) \div prev

transform(trades) ==
  UNION {LET s == SeriesOf(Monthly(trades), p) IN
         {[row |-> s[i], ma |-> [w \in MA_WINDOWS |-> MovingAverage(s, i, w)],
           mom |-> PctChange(s, i, 1), yoy |-> PctChange(s, i, YearRows)] : i \in DOMAIN s} : p \in Places}

-----------------------------------------------------------------------------
\* Another trade is in the file of the run.
Sell ==
  /\ Cardinality(sold) < MaxSold
  /\ \E p \in Places, m \in Months, d \in DaysOfMonth, q \in Quotes :
       sold' = sold \cup {[place |-> p, month |-> m, day |-> d, price |-> q[1], area |-> q[2]]}

TransformTypeOK == Cardinality(sold) <= MaxSold

-----------------------------------------------------------------------------
\* What a district gets does not depend on the trades of others: not its prices,
\* averages and changes, though the trades of others may take its rows' days.
DistrictsIsolated ==
  LET dayless(rows) == {[r EXCEPT !.row.day = 1] : r \in rows} IN
  \A p \in Places :
    dayless({r \in transform(sold) : r.row.place = p}) = dayless(transform({t \in sold : t.place = p}))
=============================================================================
