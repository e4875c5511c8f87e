--------------------------- MODULE InsightsProofs ---------------------------
(***************************************************************************)
(* Theorems about what advises.  The taxes have no cliff: a progressive    *)
(* tax is the greatest of the lines its brackets define, because they meet *)
(* at the bounds and get steeper, so that two answers to one question are  *)
(* in the order of their amounts.  The samples of a proposal are those of  *)
(* one window, a scan reports every jump, merging loses no alert, and a    *)
(* district's prices are its own, for data of any size.                    *)
(***************************************************************************)
EXTENDS VerdictProofs, SequenceTheorems

\* Rounding keeps the order, whatever it rounds to.
LEMMA RoundOrder ==
  ASSUME NEW d \in Nat \ {0}, NEW m \in Int, NEW n \in Int, m <= n
  PROVE  Round(m, d) \in Int /\ Round(n, d) \in Int /\ Round(m, d) <= Round(n, d)
PROOF
<1> DEFINE p == m \div d  q == n \div d  r == m % d  s == n % d
<1>1. /\ p \in Int /\ q \in Int /\ r \in 0..d - 1 /\ s \in 0..d - 1
      /\ m = d * p + r /\ n = d * q + s
  BY SMT
<1>2. p <= q
  <2>1. SUFFICES ASSUME p >= q + 1 PROVE FALSE
    BY <1>1, SMT
  <2>2. d * p >= d * q + d
    <3>1. d * (p - (q + 1)) >= 0
      BY <1>1, <2>1, SMT
    <3> QED BY <1>1, <3>1, SMT
  <2> QED BY <1>1, <2>2, SMT
<1>3. p = q => r <= s
  BY <1>1, SMT
<1>4. /\ Round(m, d) \in {p, p + 1} /\ Round(n, d) \in {q, q + 1}
      /\ p = q => Round(m, d) <= Round(n, d)
  BY <1>1, <1>3, SMT DEF Round
<1> QED BY <1>1, <1>2, <1>4, SMT

\* Nothing positive is rounded below zero.
LEMMA RoundNat ==
  ASSUME NEW d \in Nat \ {0}, NEW n \in Nat
  PROVE  Round(n, d) \in Nat
BY SMT DEF Round

\* A tax due is rounded and never negative; both keep the order.
LEMMA RoundedOrder ==
  ASSUME NEW d \in Nat \ {0}, NEW m \in Int, NEW n \in Int, m <= n
  PROVE  /\ NotNegative(Round(m, d)) \in Nat /\ NotNegative(Round(n, d)) \in Nat
         /\ NotNegative(Round(m, d)) <= NotNegative(Round(n, d))
PROOF
<1>1. Round(m, d) \in Int /\ Round(n, d) \in Int /\ Round(m, d) <= Round(n, d)
  BY RoundOrder, Zenon
<1> QED BY <1>1, SMT DEF NotNegative

\* The case of ten-thousandths of a won.
LEMMA RoundedTenThousandths ==
  ASSUME NEW m \in Int, NEW n \in Int, m <= n
  PROVE  /\ NotNegative(Round(m, 10000)) \in Nat /\ NotNegative(Round(n, 10000)) \in Nat
         /\ NotNegative(Round(m, 10000)) <= NotNegative(Round(n, 10000))
BY RoundedOrder, SMT

\* The local tax on top keeps the order.
LEMMA LocalTaxOrder ==
  ASSUME NEW m \in Nat, NEW n \in Nat, m <= n
  PROVE  WithLocalTax(m) \in Nat /\ WithLocalTax(n) \in Nat /\ WithLocalTax(m) <= WithLocalTax(n)
PROOF
<1>1. 10 \in Nat \ {0} /\ m \in Int /\ n \in Int
  BY SMT
<1>2. Round(m, 10) <= Round(n, 10)
  BY <1>1, RoundOrder, Zenon
<1>3. Round(m, 10) \in Nat /\ Round(n, 10) \in Nat
  BY <1>1, RoundNat, Zenon
<1> QED BY <1>2, <1>3, SMT DEF WithLocalTax

\* So does the rural tax.
LEMMA RuralTaxOrder ==
  ASSUME NEW m \in Nat, NEW n \in Nat, m <= n
  PROVE  WithRuralTax(m) \in Nat /\ WithRuralTax(n) \in Nat /\ WithRuralTax(m) <= WithRuralTax(n)
PROOF
<1>1. /\ 10 \in Nat \ {0} /\ m * 2 \in Nat /\ n * 2 \in Nat
      /\ m * 2 \in Int /\ n * 2 \in Int /\ m * 2 <= n * 2
  BY SMT
<1>2. Round(m * 2, 10) <= Round(n * 2, 10)
  BY <1>1, RoundOrder, Zenon
<1>3. Round(m * 2, 10) \in Nat /\ Round(n * 2, 10) \in Nat
  BY <1>1, RoundNat, Zenon
<1> QED BY <1>2, <1>3, SMT DEF WithRuralTax

\* A larger factor keeps the order of products.
LEMMA ProductOrder ==
  ASSUME NEW a \in Int, NEW b \in Int, NEW c \in Nat, a <= b
  PROVE  a * c <= b * c
PROOF
<1>1. (b - a) * c >= 0
  BY SMT
<1> QED BY <1>1, SMT

\* The bracket found for hundredths of a won is above the bounds before it and
\* not above its own.
LEMMA GainBracket ==
  ASSUME NEW t \in Nat
  PROVE  LET i == Bracket(t, 100, CGT_UPPER) IN
         /\ i \in 1..8
         /\ i <= 7 => t <= 100 * Man * CGT_UPPER[i]
         /\ \A j \in 1..i - 1 : t > 100 * Man * CGT_UPPER[j]
PROOF
<1> DEFINE First(i) == /\ i <= 7 => t <= 100 * Man * CGT_UPPER[i]
                       /\ \A j \in 1..i - 1 : t > 100 * Man * CGT_UPPER[j]
<1>1. /\ CGT_UPPER[1] = 1400 /\ CGT_UPPER[2] = 5000 /\ CGT_UPPER[3] = 8800 /\ CGT_UPPER[4] = 15000
      /\ CGT_UPPER[5] = 30000 /\ CGT_UPPER[6] = 50000 /\ CGT_UPPER[7] = 100000
  BY SMT DEF CGT_UPPER
<1>2. \E i \in 1..8 : First(i)
  <2>1. CASE t <= 100 * Man * 1400
    <3>1. First(1)
      BY <1>1, <2>1, ManAssumption, SMT
    <3> QED BY <3>1
  <2>2. CASE t > 100 * Man * 1400 /\ t <= 100 * Man * 5000
    <3>1. First(2)
      BY <1>1, <2>2, ManAssumption, SMT
    <3> QED BY <3>1
  <2>3. CASE t > 100 * Man * 5000 /\ t <= 100 * Man * 8800
    <3>1. First(3)
      BY <1>1, <2>3, ManAssumption, SMT
    <3> QED BY <3>1
  <2>4. CASE t > 100 * Man * 8800 /\ t <= 100 * Man * 15000
    <3>1. First(4)
      BY <1>1, <2>4, ManAssumption, SMT
    <3> QED BY <3>1
  <2>5. CASE t > 100 * Man * 15000 /\ t <= 100 * Man * 30000
    <3>1. First(5)
      BY <1>1, <2>5, ManAssumption, SMT
    <3> QED BY <3>1
  <2>6. CASE t > 100 * Man * 30000 /\ t <= 100 * Man * 50000
    <3>1. First(6)
      BY <1>1, <2>6, ManAssumption, SMT
    <3> QED BY <3>1
  <2>7. CASE t > 100 * Man * 50000 /\ t <= 100 * Man * 100000
    <3>1. First(7)
      BY <1>1, <2>7, ManAssumption, SMT
    <3> QED BY <3>1
  <2>8. CASE t > 100 * Man * 100000
    <3>1. First(8)
      BY <1>1, <2>8, ManAssumption, SMT
    <3> QED BY <3>1
  <2> QED BY <2>1, <2>2, <2>3, <2>4, <2>5, <2>6, <2>7, <2>8, ManAssumption, SMT
<1>3. Len(CGT_UPPER) = 7
  BY SMT DEF CGT_UPPER
<1>4. Bracket(t, 100, CGT_UPPER) = CHOOSE i \in 1..8 : First(i)
  BY <1>3, SMT DEF Bracket
<1> QED BY <1>2, <1>4, Zenon

\* Its line is the greatest there: each line takes over where it meets the one
\* before, so no bracket taxes the amount more.
LEMMA GainBracketBest ==
  ASSUME NEW t \in Nat, NEW j \in 1..8
  PROVE  LET i == Bracket(t, 100, CGT_UPPER) IN
         t * CGT_RATE[j] - 10000 * Man * CGT_DEDUCTION[j] <= t * CGT_RATE[i] - 10000 * Man * CGT_DEDUCTION[i]
PROOF
<1> DEFINE i == Bracket(t, 100, CGT_UPPER)
           Line(k) == t * CGT_RATE[k] - 10000 * Man * CGT_DEDUCTION[k]
<1>1. /\ i \in 1..8
      /\ i <= 7 => t <= 100 * Man * CGT_UPPER[i]
      /\ \A k \in 1..i - 1 : t > 100 * Man * CGT_UPPER[k]
  BY GainBracket
<1>2. /\ CGT_UPPER[1] = 1400 /\ CGT_UPPER[2] = 5000 /\ CGT_UPPER[3] = 8800 /\ CGT_UPPER[4] = 15000
      /\ CGT_UPPER[5] = 30000 /\ CGT_UPPER[6] = 50000 /\ CGT_UPPER[7] = 100000
  BY SMT DEF CGT_UPPER
<1>3. /\ Line(1) = t * 6
      /\ Line(2) = t * 15 - 1260000 * Man
      /\ Line(3) = t * 24 - 5760000 * Man
      /\ Line(4) = t * 35 - 15440000 * Man
      /\ Line(5) = t * 38 - 19940000 * Man
      /\ Line(6) = t * 40 - 25940000 * Man
      /\ Line(7) = t * 42 - 35940000 * Man
      /\ Line(8) = t * 45 - 65940000 * Man
  BY ManAssumption, SMT DEF CGT_RATE, CGT_DEDUCTION
<1> HIDE DEF i, Line
<1>4. ASSUME i = 1 PROVE Line(j) <= Line(i)
  <2>1. t <= 100 * Man * 1400
    BY <1>1, <1>2, <1>4, SMT
  <2>2. \A k \in 1..8 : Line(k) <= Line(1)
    BY <1>3, <2>1, ManAssumption, SMT
  <2> QED BY <1>4, <2>2
<1>5. ASSUME i = 2 PROVE Line(j) <= Line(i)
  <2>1. t > 100 * Man * 1400 /\ t <= 100 * Man * 5000
    BY <1>1, <1>2, <1>5, SMT
  <2>2. \A k \in 1..8 : Line(k) <= Line(2)
    BY <1>3, <2>1, ManAssumption, SMT
  <2> QED BY <1>5, <2>2
<1>6. ASSUME i = 3 PROVE Line(j) <= Line(i)
  <2>1. t > 100 * Man * 5000 /\ t <= 100 * Man * 8800
    BY <1>1, <1>2, <1>6, SMT
  <2>2. \A k \in 1..8 : Line(k) <= Line(3)
    BY <1>3, <2>1, ManAssumption, SMT
  <2> QED BY <1>6, <2>2
<1>7. ASSUME i = 4 PROVE Line(j) <= Line(i)
  <2>1. t > 100 * Man * 8800 /\ t <= 100 * Man * 15000
    BY <1>1, <1>2, <1>7, SMT
  <2>2. \A k \in 1..8 : Line(k) <= Line(4)
    BY <1>3, <2>1, ManAssumption, SMT
  <2> QED BY <1>7, <2>2
<1>8. ASSUME i = 5 PROVE Line(j) <= Line(i)
  <2>1. t > 100 * Man * 15000 /\ t <= 100 * Man * 30000
    BY <1>1, <1>2, <1>8, SMT
  <2>2. \A k \in 1..8 : Line(k) <= Line(5)
    BY <1>3, <2>1, ManAssumption, SMT
  <2> QED BY <1>8, <2>2
<1>9. ASSUME i = 6 PROVE Line(j) <= Line(i)
  <2>1. t > 100 * Man * 30000 /\ t <= 100 * Man * 50000
    BY <1>1, <1>2, <1>9, SMT
  <2>2. \A k \in 1..8 : Line(k) <= Line(6)
    BY <1>3, <2>1, ManAssumption, SMT
  <2> QED BY <1>9, <2>2
<1>10. ASSUME i = 7 PROVE Line(j) <= Line(i)
  <2>1. t > 100 * Man * 50000 /\ t <= 100 * Man * 100000
    BY <1>1, <1>2, <1>10, SMT
  <2>2. \A k \in 1..8 : Line(k) <= Line(7)
    BY <1>3, <2>1, ManAssumption, SMT
  <2> QED BY <1>10, <2>2
<1>11. ASSUME i = 8 PROVE Line(j) <= Line(i)
  <2>1. t > 100 * Man * 100000
    BY <1>1, <1>2, <1>11, SMT
  <2>2. \A k \in 1..8 : Line(k) <= Line(8)
    BY <1>3, <2>1, ManAssumption, SMT
  <2> QED BY <1>11, <2>2
<1>12. Line(j) <= Line(i)
  BY <1>1, <1>4, <1>5, <1>6, <1>7, <1>8, <1>9, <1>10, <1>11, SMT
<1> QED BY <1>12 DEF i, Line

\* The bracket found for fifths of a won is above the bounds before it and not
\* above its own.
LEMMA HoldingBracket ==
  ASSUME NEW t \in Nat
  PROVE  LET i == Bracket(t, 5, COMP_UPPER) IN
         /\ i \in 1..7
         /\ i <= 6 => t <= 5 * Man * COMP_UPPER[i]
         /\ \A j \in 1..i - 1 : t > 5 * Man * COMP_UPPER[j]
PROOF
<1> DEFINE First(i) == /\ i <= 6 => t <= 5 * Man * COMP_UPPER[i]
                       /\ \A j \in 1..i - 1 : t > 5 * Man * COMP_UPPER[j]
<1>1. /\ COMP_UPPER[1] = 30000 /\ COMP_UPPER[2] = 60000 /\ COMP_UPPER[3] = 120000
      /\ COMP_UPPER[4] = 250000 /\ COMP_UPPER[5] = 500000 /\ COMP_UPPER[6] = 940000
  BY SMT DEF COMP_UPPER
<1>2. \E i \in 1..7 : First(i)
  <2>1. CASE t <= 5 * Man * 30000
    <3>1. First(1)
      BY <1>1, <2>1, ManAssumption, SMT
    <3> QED BY <3>1
  <2>2. CASE t > 5 * Man * 30000 /\ t <= 5 * Man * 60000
    <3>1. First(2)
      BY <1>1, <2>2, ManAssumption, SMT
    <3> QED BY <3>1
  <2>3. CASE t > 5 * Man * 60000 /\ t <= 5 * Man * 120000
    <3>1. First(3)
      BY <1>1, <2>3, ManAssumption, SMT
    <3> QED BY <3>1
  <2>4. CASE t > 5 * Man * 120000 /\ t <= 5 * Man * 250000
    <3>1. First(4)
      BY <1>1, <2>4, ManAssumption, SMT
    <3> QED BY <3>1
  <2>5. CASE t > 5 * Man * 250000 /\ t <= 5 * Man * 500000
    <3>1. First(5)
      BY <1>1, <2>5, ManAssumption, SMT
    <3> QED BY <3>1
  <2>6. CASE t > 5 * Man * 500000 /\ t <= 5 * Man * 940000
    <3>1. First(6)
      BY <1>1, <2>6, ManAssumption, SMT
    <3> QED BY <3>1
  <2>7. CASE t > 5 * Man * 940000
    <3>1. First(7)
      BY <1>1, <2>7, ManAssumption, SMT
    <3> QED BY <3>1
  <2> QED BY <2>1, <2>2, <2>3, <2>4, <2>5, <2>6, <2>7, ManAssumption, SMT
<1>3. Len(COMP_UPPER) = 6
  BY SMT DEF COMP_UPPER
<1>4. Bracket(t, 5, COMP_UPPER) = CHOOSE i \in 1..7 : First(i)
  BY <1>3, SMT DEF Bracket
<1> QED BY <1>2, <1>4, Zenon

\* Its line is the greatest there: each line takes over where it meets the one
\* before, so no bracket taxes the amount more.
LEMMA HoldingBracketBest ==
  ASSUME NEW t \in Nat, NEW j \in 1..7
  PROVE  LET i == Bracket(t, 5, COMP_UPPER) IN
         t * COMP_RATE[j] - 5000 * Man * COMP_DEDUCTION[j] <= t * COMP_RATE[i] - 5000 * Man * COMP_DEDUCTION[i]
PROOF
<1> DEFINE i == Bracket(t, 5, COMP_UPPER)
           Line(k) == t * COMP_RATE[k] - 5000 * Man * COMP_DEDUCTION[k]
<1>1. /\ i \in 1..7
      /\ i <= 6 => t <= 5 * Man * COMP_UPPER[i]
      /\ \A k \in 1..i - 1 : t > 5 * Man * COMP_UPPER[k]
  BY HoldingBracket
<1>2. /\ COMP_UPPER[1] = 30000 /\ COMP_UPPER[2] = 60000 /\ COMP_UPPER[3] = 120000
      /\ COMP_UPPER[4] = 250000 /\ COMP_UPPER[5] = 500000 /\ COMP_UPPER[6] = 940000
  BY SMT DEF COMP_UPPER
<1>3. /\ Line(1) = t * 5
      /\ Line(2) = t * 7 - 300000 * Man
      /\ Line(3) = t * 10 - 1200000 * Man
      /\ Line(4) = t * 13 - 3000000 * Man
      /\ Line(5) = t * 20 - 11750000 * Man
      /\ Line(6) = t * 27 - 29250000 * Man
      /\ Line(7) = t * 30 - 43350000 * Man
  BY ManAssumption, SMT DEF COMP_RATE, COMP_DEDUCTION
<1> HIDE DEF i, Line
<1>4. ASSUME i = 1 PROVE Line(j) <= Line(i)
  <2>1. t <= 5 * Man * 30000
    BY <1>1, <1>2, <1>4, SMT
  <2>2. \A k \in 1..7 : Line(k) <= Line(1)
    BY <1>3, <2>1, ManAssumption, SMT
  <2> QED BY <1>4, <2>2
<1>5. ASSUME i = 2 PROVE Line(j) <= Line(i)
  <2>1. t > 5 * Man * 30000 /\ t <= 5 * Man * 60000
    BY <1>1, <1>2, <1>5, SMT
  <2>2. \A k \in 1..7 : Line(k) <= Line(2)
    BY <1>3, <2>1, ManAssumption, SMT
  <2> QED BY <1>5, <2>2
<1>6. ASSUME i = 3 PROVE Line(j) <= Line(i)
  <2>1. t > 5 * Man * 60000 /\ t <= 5 * Man * 120000
    BY <1>1, <1>2, <1>6, SMT
  <2>2. \A k \in 1..7 : Line(k) <= Line(3)
    BY <1>3, <2>1, ManAssumption, SMT
  <2> QED BY <1>6, <2>2
<1>7. ASSUME i = 4 PROVE Line(j) <= Line(i)
  <2>1. t > 5 * Man * 120000 /\ t <= 5 * Man * 250000
    BY <1>1, <1>2, <1>7, SMT
  <2>2. \A k \in 1..7 : Line(k) <= Line(4)
    BY <1>3, <2>1, ManAssumption, SMT
  <2> QED BY <1>7, <2>2
<1>8. ASSUME i = 5 PROVE Line(j) <= Line(i)
  <2>1. t > 5 * Man * 250000 /\ t <= 5 * Man * 500000
    BY <1>1, <1>2, <1>8, SMT
  <2>2. \A k \in 1..7 : Line(k) <= Line(5)
    BY <1>3, <2>1, ManAssumption, SMT
  <2> QED BY <1>8, <2>2
<1>9. ASSUME i = 6 PROVE Line(j) <= Line(i)
  <2>1. t > 5 * Man * 500000 /\ t <= 5 * Man * 940000
    BY <1>1, <1>2, <1>9, SMT
  <2>2. \A k \in 1..7 : Line(k) <= Line(6)
    BY <1>3, <2>1, ManAssumption, SMT
  <2> QED BY <1>9, <2>2
<1>10. ASSUME i = 7 PROVE Line(j) <= Line(i)
  <2>1. t > 5 * Man * 940000
    BY <1>1, <1>2, <1>10, SMT
  <2>2. \A k \in 1..7 : Line(k) <= Line(7)
    BY <1>3, <2>1, ManAssumption, SMT
  <2> QED BY <1>10, <2>2
<1>11. Line(j) <= Line(i)
  BY <1>1, <1>4, <1>5, <1>6, <1>7, <1>8, <1>9, <1>10, SMT
<1> QED BY <1>11 DEF i, Line

-----------------------------------------------------------------------------
\* The progressive tax on a gain rises with it.
LEMMA GainOrder ==
  ASSUME NEW t \in Nat, NEW v \in Nat, t <= v, NEW s \in Nat
  PROVE  /\ ProgressiveGain(t, s) \in Int /\ ProgressiveGain(v, s) \in Int
         /\ ProgressiveGain(t, s) <= ProgressiveGain(v, s)
PROOF
<1> DEFINE i == Bracket(t, 100, CGT_UPPER)  k == Bracket(v, 100, CGT_UPPER)
<1>1. i \in 1..8 /\ k \in 1..8
  BY GainBracket
<1>2. /\ \A j \in 1..8 : CGT_RATE[j] \in Nat /\ CGT_DEDUCTION[j] \in Nat
  BY SMT DEF CGT_RATE, CGT_DEDUCTION
<1>3. v * CGT_RATE[i] - 10000 * Man * CGT_DEDUCTION[i] <= v * CGT_RATE[k] - 10000 * Man * CGT_DEDUCTION[k]
  BY <1>1, GainBracketBest
<1> HIDE DEF i, k
<1>4. t * (CGT_RATE[i] + s) <= v * (CGT_RATE[i] + s)
  BY <1>1, <1>2, ProductOrder, SMT
<1>5. \A j \in 1..8 : v * (CGT_RATE[j] + s) = v * CGT_RATE[j] + v * s
  BY <1>2, SMT
<1>6. \A j \in 1..8 : /\ 10000 * Man * CGT_DEDUCTION[j] \in Int
                      /\ t * (CGT_RATE[j] + s) \in Int /\ v * (CGT_RATE[j] + s) \in Int
                      /\ v * CGT_RATE[j] \in Int /\ v * s \in Int
  BY <1>2, ManAssumption, SMT
<1>7. /\ ProgressiveGain(t, s) = t * (CGT_RATE[i] + s) - 10000 * Man * CGT_DEDUCTION[i]
      /\ ProgressiveGain(v, s) = v * (CGT_RATE[k] + s) - 10000 * Man * CGT_DEDUCTION[k]
  BY DEF ProgressiveGain, i, k
<1> QED BY <1>1, <1>3, <1>4, <1>5, <1>6, <1>7, SMT

\* So does the one on a holding.
LEMMA HoldingOrder ==
  ASSUME NEW t \in Nat, NEW v \in Nat, t <= v
  PROVE  /\ ProgressiveHolding(t) \in Int /\ ProgressiveHolding(v) \in Int
         /\ ProgressiveHolding(t) <= ProgressiveHolding(v)
PROOF
<1> DEFINE i == Bracket(t, 5, COMP_UPPER)  k == Bracket(v, 5, COMP_UPPER)
<1>1. i \in 1..7 /\ k \in 1..7
  BY HoldingBracket
<1>2. \A j \in 1..7 : COMP_RATE[j] \in Nat /\ COMP_DEDUCTION[j] \in Nat
  BY SMT DEF COMP_RATE, COMP_DEDUCTION
<1>3. v * COMP_RATE[i] - 5000 * Man * COMP_DEDUCTION[i] <= v * COMP_RATE[k] - 5000 * Man * COMP_DEDUCTION[k]
  BY <1>1, HoldingBracketBest
<1> HIDE DEF i, k
<1>4. t * COMP_RATE[i] <= v * COMP_RATE[i]
  BY <1>1, <1>2, ProductOrder
<1>5. \A j \in 1..7 : /\ 5000 * Man * COMP_DEDUCTION[j] \in Int
                      /\ t * COMP_RATE[j] \in Int /\ v * COMP_RATE[j] \in Int
  BY <1>2, ManAssumption, SMT
<1>6. /\ ProgressiveHolding(t) = t * COMP_RATE[i] - 5000 * Man * COMP_DEDUCTION[i]
      /\ ProgressiveHolding(v) = v * COMP_RATE[k] - 5000 * Man * COMP_DEDUCTION[k]
  BY DEF ProgressiveHolding, i, k
<1> QED BY <1>1, <1>3, <1>4, <1>5, <1>6, SMT

\* The first usable row is one, whatever the query returned.
LEMMA RateLookupType ==
  ASSUME NEW list \in Seq(Nat \cup {Unknown})
  PROVE  RateLookup(list) \in Nat \cup {Unknown}
PROOF
<1>1. CASE Usable(list) = {}
  BY <1>1 DEF RateLookup
<1>2. CASE Usable(list) # {}
  <2>1. Usable(list) \subseteq Nat
    BY SMT DEF Usable
  <2>2. PICK i \in Usable(list) : \A j \in Usable(list) : ~ (<<j, i>> \in OpToRel(<, Nat))
    BY <1>2, <2>1, NatLessThanWellFounded, WFMin, Zenon
  <2>3. ASSUME NEW j \in Usable(list) PROVE i <= j
    <3>1. CASE j < i
      <4>1. i \in Nat /\ j \in Nat
        BY <2>1
      <4>2. <<j, i>> \in OpToRel(<, Nat)
        BY <3>1, <4>1, Zenon DEF OpToRel
      <4> QED BY <2>2, <4>2, Zenon
    <3> QED BY <2>1, <3>1, SMT
  <2>4. (CHOOSE k \in Usable(list) : \A j \in Usable(list) : k <= j) \in Usable(list)
    BY <2>3
  <2> QED BY <1>2, <2>4, SMT DEF RateLookup, Usable
<1> QED BY <1>1, <1>2

\* The tax of a purchase keeps the order of prices.
LEMMA AcquisitionOrder ==
  ASSUME NEW p \in Nat, NEW q \in Nat, p <= q, NEW corporate \in BOOLEAN, NEW owners \in Nat,
         NEW regulated \in BOOLEAN, NEW list \in Seq(Nat \cup {Unknown})
  PROVE  /\ calc_acquisition_tax(p, corporate, owners, regulated, list) \in Nat
         /\ calc_acquisition_tax(q, corporate, owners, regulated, list) \in Nat
         /\ calc_acquisition_tax(p, corporate, owners, regulated, list)
              <= calc_acquisition_tax(q, corporate, owners, regulated, list)
PROOF
<1> DEFINE listed == RateLookup(list)
           rate == IF listed = Unknown THEN DEFAULT_ACQ_RATE[RateKey(corporate, owners, regulated)] ELSE listed
<1>1. RateKey(corporate, owners, regulated) \in 1..3
  BY SMT DEF RateKey
<1>2. rate \in Nat
  BY <1>1, RateLookupType, UnknownAssumption, SMT DEF DEFAULT_ACQ_RATE
<1> HIDE DEF rate
<1>3. p * rate <= q * rate /\ p * rate \in Int /\ q * rate \in Int
  BY <1>2, ProductOrder, SMT
<1>4. p * SURTAX_RATE <= q * SURTAX_RATE /\ p * SURTAX_RATE \in Int /\ q * SURTAX_RATE \in Int
  BY SMT DEF SURTAX_RATE
<1>5. /\ Round(p * rate, 100) <= Round(q * rate, 100)
      /\ Round(p * rate, 100) \in Int /\ Round(q * rate, 100) \in Int
  <2>1. 100 \in Nat \ {0}
    BY SMT
  <2> QED BY <1>3, <2>1, RoundOrder, Zenon
<1>6. /\ Round(p * SURTAX_RATE, 1000) <= Round(q * SURTAX_RATE, 1000)
      /\ Round(p * SURTAX_RATE, 1000) \in Int /\ Round(q * SURTAX_RATE, 1000) \in Int
  <2> DEFINE a == p * SURTAX_RATE  b == q * SURTAX_RATE
  <2>1. ASSUME NEW d \in Nat \ {0}
        PROVE  Round(a, d) <= Round(b, d) /\ Round(a, d) \in Int /\ Round(b, d) \in Int
    BY <1>4, RoundOrder, Zenon
  <2> HIDE DEF a, b
  <2>2. Round(a, 1000) <= Round(b, 1000) /\ Round(a, 1000) \in Int /\ Round(b, 1000) \in Int
    BY <2>1, SMT
  <2> QED BY <2>2 DEF a, b
<1>7. /\ Round(p * rate, 100) \in Nat /\ Round(q * rate, 100) \in Nat
      /\ Round(p * SURTAX_RATE, 1000) \in Nat /\ Round(q * SURTAX_RATE, 1000) \in Nat
  <2>1. /\ p * rate \in Nat /\ q * rate \in Nat /\ p * SURTAX_RATE \in Nat /\ q * SURTAX_RATE \in Nat
    BY <1>2, SMT DEF SURTAX_RATE
  <2> DEFINE a == p * rate  b == q * rate  c == p * SURTAX_RATE  d == q * SURTAX_RATE
  <2>2. \A k \in Nat \ {0} : Round(a, k) \in Nat /\ Round(b, k) \in Nat /\ Round(c, k) \in Nat /\ Round(d, k) \in Nat
    BY <2>1, RoundNat, Zenon
  <2> HIDE DEF a, b, c, d
  <2>3. Round(a, 100) \in Nat /\ Round(b, 100) \in Nat /\ Round(c, 1000) \in Nat /\ Round(d, 1000) \in Nat
    BY <2>2, SMT
  <2> QED BY <2>3 DEF a, b, c, d
<1> QED BY <1>5, <1>6, <1>7, SMT DEF calc_acquisition_tax, rate

\* A higher price is never taxed less on its purchase.
THEOREM AcquisitionTaxRises ==
  ASSUME NEW p \in Nat, NEW q \in Nat, p <= q, NEW corporate \in BOOLEAN, NEW owners \in Nat,
         NEW regulated \in BOOLEAN, NEW list \in Seq(Nat \cup {Unknown})
  PROVE  calc_acquisition_tax(p, corporate, owners, regulated, list)
           <= calc_acquisition_tax(q, corporate, owners, regulated, list)
BY AcquisitionOrder, Zenon

\* The tax of a sale keeps the order of its prices.
LEMMA CapitalGainsOrder ==
  ASSUME NEW bought \in Nat, NEW p \in Nat, NEW q \in Nat, p <= q, NEW years \in Nat,
         NEW regulated \in BOOLEAN, NEW owners \in Nat, NEW list \in Seq(Nat \cup {Unknown})
  PROVE  /\ calc_capital_gains_tax(bought, p, years, regulated, owners, list) \in Nat
         /\ calc_capital_gains_tax(bought, q, years, regulated, owners, list) \in Nat
         /\ calc_capital_gains_tax(bought, p, years, regulated, owners, list)
              <= calc_capital_gains_tax(bought, q, years, regulated, owners, list)
PROOF
<1> DEFINE d == LongTermDeduction(years, owners)
           s == HeavySurcharge(owners, regulated)
           t == TaxableGain(p - bought, d)
           v == TaxableGain(q - bought, d)
           Due(x) == IF years < 2 THEN ShortTerm(x, years, s, list) ELSE ProgressiveGain(x, s)
           Tax(x) == NotNegative(Round(Due(x), 10000))
<1>1. d \in 0..30 /\ s \in {0, 20, 30}
  BY SMT DEF LongTermDeduction, HeavySurcharge, LONG_TERM_DEDUCTION_CAP, LONG_TERM_DEDUCTION_PER_YEAR
<1> HIDE DEF d, s
<1>2. t \in Nat /\ v \in Nat /\ t <= v
  <2>1. (p - bought) * (100 - d) <= (q - bought) * (100 - d)
    BY <1>1, ProductOrder, SMT
  <2>2. (p - bought) * (100 - d) \in Int /\ (q - bought) * (100 - d) \in Int /\ 100 * BASIC_DEDUCTION \in Int
    BY <1>1, ManAssumption, SMT DEF BASIC_DEDUCTION
  <2> QED BY <2>1, <2>2, SMT DEF TaxableGain, NotNegative
<1> HIDE DEF t, v
<1>3. Due(t) \in Int /\ Due(v) \in Int /\ Due(t) <= Due(v)
  <2>1. CASE years < 2
    <3>1. ShortTermRate(years, list) \in Nat
      BY RateLookupType, SMT DEF ShortTermRate
    <3> DEFINE rate == ShortTermRate(years, list) + s
    <3>2. rate \in Nat
      BY <1>1, <3>1, SMT
    <3>3. Due(t) = t * rate /\ Due(v) = v * rate
      BY <2>1 DEF ShortTerm
    <3> HIDE DEF rate, Due
    <3>4. t * rate <= v * rate
      BY <1>2, <3>2, ProductOrder, SMT
    <3>5. t * rate \in Int /\ v * rate \in Int
      BY <1>2, <3>2, SMT
    <3> QED BY <3>3, <3>4, <3>5
  <2>2. CASE ~(years < 2)
    <3>1. s \in Nat
      BY <1>1, SMT
    <3>2. Due(t) = ProgressiveGain(t, s) /\ Due(v) = ProgressiveGain(v, s)
      BY <2>2
    <3> HIDE DEF Due
    <3> QED BY <1>2, <3>1, <3>2, GainOrder, ZenonT(30)
  <2> QED BY <2>1, <2>2
<1> HIDE DEF Due
<1>4. Tax(t) \in Nat /\ Tax(v) \in Nat /\ Tax(t) <= Tax(v)
  <2> DEFINE a == Due(t)  b == Due(v)
  <2>1. a \in Int /\ b \in Int /\ a <= b
    BY <1>3
  <2> HIDE DEF a, b
  <2>2. /\ NotNegative(Round(a, 10000)) \in Nat /\ NotNegative(Round(b, 10000)) \in Nat
        /\ NotNegative(Round(a, 10000)) <= NotNegative(Round(b, 10000))
    BY <2>1, RoundedTenThousandths, SMTT(30)
  <2> QED BY <2>2 DEF a, b
<1> HIDE DEF Tax
<1>5. WithLocalTax(Tax(t)) \in Nat /\ WithLocalTax(Tax(v)) \in Nat /\ WithLocalTax(Tax(t)) <= WithLocalTax(Tax(v))
  BY <1>4, LocalTaxOrder, Zenon
<1>6. /\ calc_capital_gains_tax(bought, p, years, regulated, owners, list)
           = IF p <= bought THEN 0 ELSE WithLocalTax(Tax(t))
      /\ calc_capital_gains_tax(bought, q, years, regulated, owners, list)
           = IF q <= bought THEN 0 ELSE WithLocalTax(Tax(v))
  BY DEF calc_capital_gains_tax, Tax, Due, t, v, s, d
<1> QED BY <1>5, <1>6, SMT

\* A higher price of a sale is never taxed less: no bracket begins with a drop,
\* neither does the surcharge nor the deduction change that.
THEOREM CapitalGainsTaxRises ==
  ASSUME NEW bought \in Nat, NEW p \in Nat, NEW q \in Nat, p <= q, NEW years \in Nat,
         NEW regulated \in BOOLEAN, NEW owners \in Nat, NEW list \in Seq(Nat \cup {Unknown})
  PROVE  calc_capital_gains_tax(bought, p, years, regulated, owners, list)
           <= calc_capital_gains_tax(bought, q, years, regulated, owners, list)
BY CapitalGainsOrder, Zenon

\* The tax of a holding keeps the order of values.
LEMMA ComprehensiveOrder ==
  ASSUME NEW p \in Nat, NEW q \in Nat, p <= q
  PROVE  /\ calc_comprehensive_tax(p) \in Nat
         /\ calc_comprehensive_tax(q) \in Nat
         /\ calc_comprehensive_tax(p)
              <= calc_comprehensive_tax(q)
PROOF
<1> DEFINE t == CompBase(p)  v == CompBase(q)
           Tax(x) == NotNegative(Round(ProgressiveHolding(x), 5000))
<1>1. t \in Nat /\ v \in Nat /\ t <= v
  BY ManAssumption, SMT DEF CompBase, NotNegative, COMP_EXEMPTION
<1> HIDE DEF t, v
<1>2. /\ ProgressiveHolding(t) \in Int /\ ProgressiveHolding(v) \in Int
      /\ ProgressiveHolding(t) <= ProgressiveHolding(v)
  BY <1>1, HoldingOrder
<1>3. Tax(t) \in Nat /\ Tax(v) \in Nat /\ Tax(t) <= Tax(v)
  <2> DEFINE a == ProgressiveHolding(t)  b == ProgressiveHolding(v)
  <2>1. a \in Int /\ b \in Int /\ a <= b
    BY <1>2
  <2> HIDE DEF a, b
  <2>2. /\ NotNegative(Round(a, 5000)) \in Nat /\ NotNegative(Round(b, 5000)) \in Nat
        /\ NotNegative(Round(a, 5000)) <= NotNegative(Round(b, 5000))
    BY <2>1, RoundedOrder, SMT
  <2> QED BY <2>2 DEF a, b
<1> HIDE DEF Tax
<1>4. WithRuralTax(Tax(t)) \in Nat /\ WithRuralTax(Tax(v)) \in Nat /\ WithRuralTax(Tax(t)) <= WithRuralTax(Tax(v))
  BY <1>3, RuralTaxOrder, Zenon
<1>5. /\ calc_comprehensive_tax(p) = IF t = 0 THEN 0 ELSE WithRuralTax(Tax(t))
      /\ calc_comprehensive_tax(q) = IF v = 0 THEN 0 ELSE WithRuralTax(Tax(v))
  BY DEF calc_comprehensive_tax, Tax, t, v
<1> QED BY <1>1, <1>4, <1>5, SMT

\* A higher assessed value is never taxed less in a year of holding.
THEOREM ComprehensiveTaxRises ==
  ASSUME NEW p \in Nat, NEW q \in Nat, p <= q
  PROVE  calc_comprehensive_tax(p) <= calc_comprehensive_tax(q)
BY ComprehensiveOrder, Zenon

\* After two years a sale never costs its whole gain, whatever surcharge applies.
\* (Before, the short-term rate of 70 % and the surcharge of 30 % add up to all
\* of it and the local tax comes on top.)
THEOREM SaleLeavesGain ==
  ASSUME NEW bought \in Nat, NEW p \in Nat, bought <= p, NEW years \in Nat, years >= 2,
         NEW regulated \in BOOLEAN, NEW owners \in Nat, NEW list \in Seq(Nat \cup {Unknown})
  PROVE  calc_capital_gains_tax(bought, p, years, regulated, owners, list) <= p - bought
PROOF
<1> DEFINE d == LongTermDeduction(years, owners)
           s == HeavySurcharge(owners, regulated)
           t == TaxableGain(p - bought, d)
           i == Bracket(t, 100, CGT_UPPER)
           tax == NotNegative(Round(ProgressiveGain(t, s), 10000))
<1>1. d \in 0..30 /\ s \in 0..30
  BY SMT DEF LongTermDeduction, HeavySurcharge, LONG_TERM_DEDUCTION_CAP, LONG_TERM_DEDUCTION_PER_YEAR
<1>2. /\ calc_capital_gains_tax(bought, p, years, regulated, owners, list)
           = IF p <= bought THEN 0 ELSE WithLocalTax(tax)
      /\ ProgressiveGain(t, s) = t * (CGT_RATE[i] + s) - 10000 * Man * CGT_DEDUCTION[i]
  BY SMT DEF calc_capital_gains_tax, ProgressiveGain
<1> HIDE DEF d, s, i
<1>3. t \in Nat /\ (t = 0 \/ t <= 100 * (p - bought) - 25000 * Man)
  <2>1. (p - bought) * (100 - d) \in Int /\ (p - bought) * (100 - d) <= (p - bought) * 100
    BY <1>1, SMT
  <2> QED BY <2>1, ManAssumption, SMT DEF TaxableGain, NotNegative, BASIC_DEDUCTION
<1>4. i \in 1..8
  BY <1>3, GainBracket DEF i
<1>5. CGT_RATE[i] \in Nat /\ CGT_RATE[i] <= 45 /\ CGT_DEDUCTION[i] \in Nat
  <2>1. \A j \in 1..8 : CGT_RATE[j] \in Nat /\ CGT_RATE[j] <= 45
    BY SMT DEF CGT_RATE
  <2>2. \A j \in 1..8 : CGT_DEDUCTION[j] \in Nat
    BY SMT DEF CGT_DEDUCTION
  <2> QED BY <1>4, <2>1, <2>2
<1> HIDE DEF t
<1>6. ProgressiveGain(t, s) \in Int /\ ProgressiveGain(t, s) <= 75 * t
  <2> DEFINE rate == CGT_RATE[i] + s  less == 10000 * Man * CGT_DEDUCTION[i]
  <2>1. rate \in 0..75
    <3> DEFINE a == CGT_RATE[i]
    <3>1. a \in Nat /\ a <= 45
      BY <1>5
    <3> HIDE DEF a
    <3>2. a + s \in 0..75
      BY <1>1, <3>1, SMT
    <3> QED BY <3>2 DEF a
  <2>2. less \in Nat
    BY <1>5, ManAssumption, SMT
  <2>3. ProgressiveGain(t, s) = t * rate - less
    BY <1>2
  <2> HIDE DEF rate, less
  <2>4. rate * t <= 75 * t
    BY <1>3, <2>1, ProductOrder
  <2>5. rate * t \in Int /\ rate * t = t * rate
    BY <1>3, <2>1, SMT
  <2> QED BY <1>3, <2>2, <2>3, <2>4, <2>5, SMT
<1>7. tax \in Nat /\ tax <= NotNegative(Round(75 * t, 10000))
  <2> DEFINE a == ProgressiveGain(t, s)  b == 75 * t
  <2>1. a \in Int /\ b \in Int /\ a <= b
    BY <1>3, <1>6, SMT
  <2> HIDE DEF a, b
  <2>2. NotNegative(Round(a, 10000)) \in Nat /\ NotNegative(Round(a, 10000)) <= NotNegative(Round(b, 10000))
    BY <2>1, RoundedTenThousandths
  <2> QED BY <2>2 DEF a, b
<1> HIDE DEF tax
<1>8. /\ NotNegative(Round(75 * t, 10000)) \in Nat
      /\ 10000 * NotNegative(Round(75 * t, 10000)) <= 75 * t + 5000
  BY <1>3, SMT DEF Round, NotNegative
<1>9. tax \in Nat /\ 10000 * tax <= 75 * t + 5000
  BY <1>3, <1>7, <1>8, SMT
<1>10. WithLocalTax(tax) \in Nat /\ 10 * WithLocalTax(tax) <= 11 * tax + 5
  BY <1>9, SMT DEF WithLocalTax, Round
<1>11. CASE t = 0
  BY <1>2, <1>9, <1>10, <1>11, SMT
<1>12. CASE t # 0
  BY <1>2, <1>3, <1>9, <1>10, <1>12, ManAssumption, SMT
<1> QED BY <1>11, <1>12

-----------------------------------------------------------------------------
(***************************************************************************)
(* The samples of the backtester.                                          *)
(***************************************************************************)
Dates == {<<m, d>> : m \in Int, d \in Int}

\* The smaller of two numbers.
LEMMA MinOfTwo ==
  ASSUME NEW a \in Int, NEW b \in Int
  PROVE  Min({a, b}) = IF a <= b THEN a ELSE b
PROOF
<1> DEFINE c == IF a <= b THEN a ELSE b
<1>1. c \in {a, b} /\ \A y \in {a, b} : c <= y
  BY SMT
<1>2. ASSUME NEW x \in {a, b}, \A y \in {a, b} : x <= y PROVE x = c
  BY <1>1, <1>2, SMT
<1> HIDE DEF c
<1>3. (CHOOSE x \in {a, b} : \A y \in {a, b} : x <= y) = c
  BY <1>1, <1>2, Zenon
<1> QED BY <1>3 DEF c, Min

\* Days are in a line.
LEMMA UntilOrder ==
  ASSUME NEW c \in Dates, NEW d \in Dates, NEW e \in Dates
  PROVE  /\ Until(c, d) \/ Until(d, c)
         /\ Until(c, d) /\ Until(d, c) => c = d
         /\ Until(c, d) /\ Until(d, e) => Until(c, e)
PROOF
<1>1. PICK c1 \in Int, c2 \in Int : c = <<c1, c2>>
  BY DEF Dates
<1>2. PICK d1 \in Int, d2 \in Int : d = <<d1, d2>>
  BY DEF Dates
<1>3. PICK e1 \in Int, e2 \in Int : e = <<e1, e2>>
  BY DEF Dates
<1> QED BY <1>1, <1>2, <1>3, SMT DEF Until

\* A day is a date, and no month before it is another day.
LEMMA AddMonthsType ==
  ASSUME NEW o \in Days, NEW k \in 0..ROLLING_WINDOW_MONTHS
  PROVE  o \in Dates /\ AddMonths(o, -k) \in Dates /\ AddMonths(o, -0) = o
PROOF
<1>1. PICK m \in FirstMonth..LastMonth : \E d \in 1..MonthLength(m) : o = <<m, d>>
  BY DEF Days
<1>2. PICK d \in 1..MonthLength(m) : o = <<m, d>>
  BY <1>1
<1>3. /\ m \in Int /\ FirstMonth \in Int /\ LastMonth \in Int /\ ROLLING_WINDOW_MONTHS \in Nat
      /\ MonthLength(m) \in Nat \ {0} /\ m + (-0) = m
  BY WindowsAssumption, SMT
<1>4. MonthLength(m + (-k)) \in Nat \ {0}
  <2>1. m + (-k) \in FirstMonth - ROLLING_WINDOW_MONTHS .. LastMonth
    BY <1>3, SMT
  <2> QED BY <2>1, WindowsAssumption
<1>5. d \in Int /\ d <= MonthLength(m)
  BY <1>3, SMT
<1>6. o[1] = m /\ o[2] = d
  BY <1>2
<1>7. AddMonths(o, -0) = o
  <2>1. AddMonths(o, -0) = <<m + (-0), Min({d, MonthLength(m + (-0))})>>
    BY <1>6 DEF AddMonths
  <2>2. Min({d, MonthLength(m)}) = d
    BY <1>3, <1>5, MinOfTwo, SMT
  <2> QED BY <1>2, <1>3, <2>1, <2>2
<1>8. AddMonths(o, -k) \in Dates
  <2> DEFINE n == MonthLength(m + (-k))
  <2>1. n \in Int
    BY <1>4, SMT
  <2>2. AddMonths(o, -k) = <<m + (-k), Min({d, n})>>
    BY <1>6 DEF AddMonths
  <2> HIDE DEF n
  <2>3. Min({d, n}) \in Int
    BY <1>5, <2>1, MinOfTwo, SMT
  <2>4. m + (-k) \in Int
    BY <1>3, SMT
  <2> QED BY <2>2, <2>3, <2>4 DEF Dates
<1> QED BY <1>2, <1>3, <1>5, <1>7, <1>8 DEF Dates

LEMMA DaysHave ==
  ASSUME NEW m \in FirstMonth..LastMonth, NEW d \in 1..MonthLength(m)
  PROVE  <<m, d>> \in Days
PROOF
<1> DEFINE Of(k) == {<<k, e>> : e \in 1..MonthLength(k)}
<1>1. <<m, d>> \in Of(m)
  OBVIOUS
<1>2. Days = UNION {Of(k) : k \in FirstMonth..LastMonth}
  BY DEF Days
<1> HIDE DEF Of
<1> QED BY <1>1, <1>2

\* What a sample, taken on some day until today, holds of the window of so many
\* months that ends skip months before: nothing from outside it, and every
\* verdict of it that was there on that day (all but those of the day itself).
Within(s, months, skip, v) ==
  Until(AddMonths(s.on, -months), v.date) /\ Until(v.date, AddMonths(s.on, -skip))
Taken(s, months, skip) ==
  /\ s.on \in Days /\ Until(s.on, today)
  /\ \A v \in Sampled(s) : Within(s, months, skip, v)
  /\ \A v \in verdicts : ~Until(s.on, v.date) /\ Within(s, months, skip, v) => v \in Sampled(s)

BacktestInv ==
  /\ today \in Days
  /\ \A v \in verdicts : v.date \in Days /\ Until(v.date, today)
  /\ train # Absent => Taken(train, ROLLING_WINDOW_MONTHS, VALIDATION_MONTHS)
  /\ validation # Absent =>
       /\ Taken(validation, VALIDATION_MONTHS, 0)
       /\ train # Absent /\ Until(train.on, validation.on)

\* A sample has the verdicts of its window.
LEMMA SampleTaken ==
  ASSUME BacktestInv, NEW months \in Nat, NEW skip \in Nat
  PROVE  Taken(Sample(months, skip), months, skip)
PROOF
<1> DEFINE s == Sample(months, skip)
           chosen == {u \in verdicts : Until(AddMonths(today, -months), u.date) /\ Until(u.date, AddMonths(today, -skip))}
<1>1. s.on = today /\ s.records = {Record(v) : v \in chosen}
  BY DEF Sample
<1>2. \A v : Record(v).verdict = v
  BY DEF Record
<1>3. Sampled(s) = chosen
  <2> HIDE DEF s, chosen
  <2>1. ASSUME NEW v \in chosen PROVE v \in Sampled(s)
    <3>1. Record(v) \in s.records /\ Record(v).verdict = v
      BY <1>1, <1>2, Zenon
    <3> QED BY <3>1, Zenon DEF Sampled
  <2>2. ASSUME NEW v \in Sampled(s) PROVE v \in chosen
    <3>1. PICK r \in s.records : v = r.verdict
      BY Zenon DEF Sampled
    <3>2. PICK u \in chosen : r = Record(u)
      BY <1>1, Zenon
    <3> QED BY <1>2, <3>1, <3>2, Zenon
  <2> QED BY <2>1, <2>2, Zenon
<1>4. today \in Days /\ Until(today, today)
  <2>1. 0 \in 0..ROLLING_WINDOW_MONTHS
    BY WindowsAssumption, SMT
  <2>2. today \in Dates
    BY <2>1, AddMonthsType DEF BacktestInv
  <2> QED BY <2>2, UntilOrder, Zenon DEF BacktestInv
<1> HIDE DEF s
<1>5. Taken(s, months, skip)
  BY <1>1, <1>3, <1>4 DEF Taken, Within
<1> QED BY <1>5 DEF s

LEMMA BacktestStart == Init => BacktestInv
PROOF
<1> SUFFICES ASSUME Init PROVE BacktestInv
  OBVIOUS
<1>1. today = <<FirstMonth, 1>> /\ verdicts = {} /\ train = Absent /\ validation = Absent
  BY DEF Init, BacktestInit
<1>2. FirstMonth \in FirstMonth..LastMonth /\ MonthLength(FirstMonth) \in Nat \ {0}
  <2>1. /\ FirstMonth \in FirstMonth - ROLLING_WINDOW_MONTHS .. LastMonth
        /\ FirstMonth \in FirstMonth..LastMonth
    BY WindowsAssumption, SMT
  <2> QED BY <2>1, WindowsAssumption
<1>3. 1 \in 1..MonthLength(FirstMonth)
  BY <1>2, SMT
<1>4. today \in Days
  BY <1>1, <1>2, <1>3, DaysHave, Zenon
<1> QED BY <1>1, <1>4 DEF BacktestInv

\* What was taken stays so as the day goes on and verdicts come.
LEMMA TakenStays ==
  ASSUME BacktestInv, NEW s, NEW months, NEW skip, Taken(s, months, skip), today' \in Days,
         Until(today, today'),
         \A v \in verdicts' : v \in verdicts \/ v.date = today
  PROVE  Taken(s, months, skip)'
PROOF
<1>1. 0 \in 0..ROLLING_WINDOW_MONTHS
  BY WindowsAssumption, SMT
<1>2. s.on \in Dates /\ today \in Dates /\ today' \in Dates
  BY <1>1, AddMonthsType DEF BacktestInv, Taken
<1>3. Until(s.on, today')
  BY <1>2, UntilOrder, Zenon DEF Taken
<1>4. ASSUME NEW v \in verdicts', ~Until(s.on, v.date), Within(s, months, skip, v)
      PROVE  v \in Sampled(s)
  BY <1>4 DEF Taken
<1> QED BY <1>3, <1>4 DEF Taken, Within, Sampled

LEMMA BacktestKept == BacktestInv /\ [Next]_vars => BacktestInv'
PROOF
<1> SUFFICES ASSUME BacktestInv, [Next]_vars PROVE BacktestInv'
  OBVIOUS
<1>0. 0 \in 0..ROLLING_WINDOW_MONTHS
  BY WindowsAssumption, SMT
<1>1. \A d \in Days : d \in Dates
  BY <1>0, AddMonthsType, Zenon
<1>2. today \in Days /\ Until(today, today)
  BY <1>1, UntilOrder, Zenon DEF BacktestInv
<1>3. CASE UNCHANGED backtestVars
  BY <1>3 DEF BacktestInv, Taken, Within, Sampled, backtestVars
<1>4. CASE NextDay
  <2>1. PICK m \in FirstMonth..LastMonth : \E d \in 1..MonthLength(m) : today = <<m, d>>
    BY <1>2 DEF Days
  <2>2. PICK d \in 1..MonthLength(m) : today = <<m, d>>
    BY <2>1
  <2>3. today[1] = m /\ today[2] = d
    BY <2>2
  <2>4. today' = (IF d < MonthLength(m) THEN <<m, d + 1>> ELSE <<m + 1, 1>>) /\ <<m, d>> # <<LastMonth, MonthLength(LastMonth)>>
    BY <1>4, <2>2, <2>3 DEF NextDay
  <2>5. /\ m \in Int /\ FirstMonth \in Int /\ LastMonth \in Int
        /\ \A k \in FirstMonth..LastMonth : MonthLength(k) \in Nat \ {0}
    <3>1. \A k \in FirstMonth..LastMonth : k \in FirstMonth - ROLLING_WINDOW_MONTHS .. LastMonth
      BY WindowsAssumption, SMT
    <3> QED BY <3>1, WindowsAssumption, SMT
  <2>6. d \in Int /\ MonthLength(m) \in Int /\ d <= MonthLength(m)
    BY <2>5, SMT
  <2>7. today' \in Days
    <3>1. CASE d < MonthLength(m)
      <4>1. d + 1 \in 1..MonthLength(m) /\ today' = <<m, d + 1>>
        BY <2>4, <2>6, <3>1, SMT
      <4> QED BY <4>1, DaysHave, Zenon
    <3>2. CASE ~(d < MonthLength(m))
      <4>1. d = MonthLength(m) /\ today' = <<m + 1, 1>>
        BY <2>4, <2>6, <3>2, SMT
      <4>2. m # LastMonth
        BY <2>4, <4>1
      <4>3. m + 1 \in FirstMonth..LastMonth
        BY <2>5, <4>2, SMT
      <4>4. 1 \in 1..MonthLength(m + 1)
        BY <2>5, <4>3, SMT
      <4> QED BY <4>1, <4>3, <4>4, DaysHave, Zenon
    <3> QED BY <3>1, <3>2
  <2>8. Until(today, today')
    <3>1. CASE d < MonthLength(m)
      BY <2>3, <2>4, <2>5, <2>6, <3>1, SMT DEF Until
    <3>2. CASE ~(d < MonthLength(m))
      BY <2>3, <2>4, <2>5, <2>6, <3>2, SMT DEF Until
    <3> QED BY <3>1, <3>2
  <2>9. UNCHANGED <<verdicts, train, validation>>
    BY <1>4 DEF NextDay, samples
  <2>10. \A v \in verdicts' : v.date \in Days /\ Until(v.date, today')
    BY <1>1, <1>2, <2>7, <2>8, <2>9, UntilOrder, Zenon DEF BacktestInv
  <2>11. ASSUME NEW s, NEW months, NEW skip, Taken(s, months, skip)
         PROVE  Taken(s, months, skip)'
    BY <2>7, <2>8, <2>9, <2>11, TakenStays, Zenon
  <2> QED BY <2>7, <2>9, <2>10, <2>11 DEF BacktestInv
<1>5. CASE RecordVerdict
  <2>1. /\ UNCHANGED <<today, train, validation>>
        /\ \A v \in verdicts' : v \in verdicts \/ v.date = today
    BY <1>5 DEF RecordVerdict, samples
  <2>2. \A v \in verdicts' : v.date \in Days /\ Until(v.date, today')
    BY <1>2, <2>1 DEF BacktestInv
  <2>3. ASSUME NEW s, NEW months, NEW skip, Taken(s, months, skip)
        PROVE  Taken(s, months, skip)'
    BY <1>2, <2>1, <2>3, TakenStays, Zenon
  <2> QED BY <1>2, <2>1, <2>2, <2>3 DEF BacktestInv
<1>6. CASE Trade \/ Cancel
  <2>1. UNCHANGED <<today, verdicts, train, validation>>
    BY <1>6 DEF Trade, Cancel, samples
  <2> QED BY <2>1 DEF BacktestInv, Taken, Within, Sampled
<1>7. CASE ReadTrain
  <2>1. UNCHANGED <<today, verdicts, validation>> /\ train' = Sample(ROLLING_WINDOW_MONTHS, VALIDATION_MONTHS)
    BY <1>7 DEF ReadTrain, TrainSample
  <2>2. Taken(train', ROLLING_WINDOW_MONTHS, VALIDATION_MONTHS)
    BY <2>1, SampleTaken, WindowsAssumption, Zenon
  <2>3. train = Absent
    BY <1>7 DEF ReadTrain
  <2> QED BY <2>1, <2>2, <2>3 DEF BacktestInv, Taken, Within, Sampled
<1>8. CASE ReadValidation
  <2>1. /\ UNCHANGED <<today, verdicts, train>> /\ validation' = Sample(VALIDATION_MONTHS, 0)
        /\ train # Absent
    BY <1>8 DEF ReadValidation
  <2>2. Taken(validation', VALIDATION_MONTHS, 0)
    <3>1. VALIDATION_MONTHS \in Nat /\ 0 \in Nat
      BY WindowsAssumption
    <3> QED BY <2>1, <3>1, SampleTaken, Zenon
  <2>3. validation'.on = today /\ Until(train.on, today)
    BY <2>1 DEF Sample, BacktestInv, Taken
  <2> QED BY <2>1, <2>2, <2>3 DEF BacktestInv, Taken, Within, Sampled
<1>9. UNCHANGED backtestVars \/ BacktestNext
  BY DEF Next, vars, Judge, Watch, Notify, LookBack, Answer, Prepare
<1> QED BY <1>3, <1>4, <1>5, <1>6, <1>7, <1>8, <1>9 DEF BacktestNext

\* The two samples of a proposal miss no verdict of the rolling window but those
\* of the day itself and of the days by which the clock moved their meeting
\* between the two queries, whatever the lengths of months and windows
\* (propose_weight_update and _evaluate_window).
THEOREM SamplesAreOneWindow == Spec => []SamplesMeet
PROOF
<1>1. BacktestInv => SamplesMeet
  <2> DEFINE on == train.on
             late == validation.on
             trained == AddMonths(on, -VALIDATION_MONTHS)
             validated == AddMonths(late, -VALIDATION_MONTHS)
             start == AddMonths(on, -ROLLING_WINDOW_MONTHS)
  <2> SUFFICES ASSUME BacktestInv, train # Absent, validation # Absent, NEW v \in verdicts,
                      Until(start, v.date), ~Until(on, v.date),
                      Until(v.date, trained) \/ Until(validated, v.date)
               PROVE  v \in Sampled(train) \cup Sampled(validation)
    BY DEF SamplesMeet
  <2>1. /\ Taken(train, ROLLING_WINDOW_MONTHS, VALIDATION_MONTHS)
        /\ Taken(validation, VALIDATION_MONTHS, 0) /\ Until(on, late)
    BY DEF BacktestInv
  <2>2. VALIDATION_MONTHS \in 0..ROLLING_WINDOW_MONTHS
    BY WindowsAssumption, SMT
  <2>3. on \in Dates /\ late \in Dates /\ AddMonths(late, -0) = late
    BY <2>1, <2>2, AddMonthsType, Zenon DEF Taken
  <2>4. v.date \in Dates
    BY <2>2, AddMonthsType, Zenon DEF BacktestInv
  <2>5. Until(v.date, trained) => v \in Sampled(train)
    BY <2>1 DEF Taken, Within
  <2>6. ~Until(late, v.date) /\ Until(validated, v.date) /\ Until(v.date, AddMonths(late, -0))
          => v \in Sampled(validation)
    BY <2>1 DEF Taken, Within
  <2> HIDE DEF on, late, trained, validated, start
  <2>7. ~Until(late, v.date) /\ Until(v.date, late)
    BY <2>1, <2>3, <2>4, UntilOrder, Zenon
  <2> QED BY <2>3, <2>5, <2>6, <2>7
<1> QED BY <1>1, BacktestStart, BacktestKept, PTL DEF Spec

\* What the tables hold, and that a sample is one of them.
TableInv ==
  /\ verdicts \subseteq [date : Days, prediction : Predictions, scenarios : ScenarioSets]
  /\ trades \subseteq [date : Days, n : 1..MaxTrades, price : Prices, cancelled : BOOLEAN]
  /\ IsFiniteSet(trades)
  /\ \A s \in {train, validation} \ {Absent} : Sampled(s) \subseteq verdicts

\* A sample is taken of the verdicts there are.
LEMMA SampledVerdicts == \A months, skip : Sampled(Sample(months, skip)) \subseteq verdicts
PROOF
<1> SUFFICES ASSUME NEW months, NEW skip, NEW v \in Sampled(Sample(months, skip)) PROVE v \in verdicts
  OBVIOUS
<1>1. PICK r \in Sample(months, skip).records : v = r.verdict
  BY DEF Sampled
<1>2. PICK u \in verdicts : r = Record(u)
  BY <1>1 DEF Sample
<1> QED BY <1>1, <1>2 DEF Record

LEMMA TableKept == (Init => TableInv) /\ (BacktestInv /\ TableInv /\ [Next]_vars => TableInv')
PROOF
<1>1. Init => TableInv
  BY FS_EmptySet DEF Init, BacktestInit, TableInv
<1> SUFFICES ASSUME BacktestInv, TableInv, [Next]_vars PROVE TableInv'
  BY <1>1
<1>2. CASE UNCHANGED backtestVars \/ NextDay
  <2>1. UNCHANGED <<verdicts, trades, train, validation>>
    BY <1>2 DEF backtestVars, NextDay, samples
  <2> QED BY <2>1 DEF TableInv, Sampled
<1>3. CASE RecordVerdict
  <2>1. PICK p \in Predictions, s \in ScenarioSets :
          verdicts' = verdicts \cup {[date |-> today, prediction |-> p, scenarios |-> s]}
    BY <1>3 DEF RecordVerdict
  <2>2. UNCHANGED <<trades, train, validation>>
    BY <1>3 DEF RecordVerdict, samples
  <2> QED BY <2>1, <2>2 DEF TableInv, Sampled, BacktestInv
<1>4. CASE Trade
  <2>1. PICK p \in Prices :
          trades' = trades \cup {[date |-> today, n |-> Cardinality(trades) + 1, price |-> p, cancelled |-> FALSE]}
    BY <1>4 DEF Trade
  <2>2. UNCHANGED <<verdicts, train, validation>>
    BY <1>4 DEF Trade, samples
  <2>3. Cardinality(trades) + 1 \in 1..MaxTrades
    <3>1. Cardinality(trades) \in Nat
      BY FS_CardinalityType DEF TableInv
    <3>2. Cardinality(trades) < MaxTrades
      BY <1>4 DEF Trade
    <3> QED BY <3>1, <3>2, WindowsAssumption, SMT
  <2>4. IsFiniteSet(trades')
    <3>1. \A t : IsFiniteSet(trades \cup {t})
      BY FS_AddElement DEF TableInv
    <3> QED BY <2>1, <3>1, Zenon
  <2>5. trades' \subseteq [date : Days, n : 1..MaxTrades, price : Prices, cancelled : BOOLEAN]
    <3> DEFINE n == Cardinality(trades) + 1
    <3>1. n \in 1..MaxTrades /\ today \in Days
      BY <2>3 DEF BacktestInv
    <3> HIDE DEF n
    <3>2. [date |-> today, n |-> n, price |-> p, cancelled |-> FALSE]
            \in [date : Days, n : 1..MaxTrades, price : Prices, cancelled : BOOLEAN]
      BY <3>1
    <3> QED BY <2>1, <3>2, Zenon DEF TableInv, n
  <2> QED BY <2>2, <2>4, <2>5 DEF TableInv, Sampled
<1>5. CASE Cancel
  <2>1. PICK t \in trades : trades' = (trades \ {t}) \cup {[t EXCEPT !.cancelled = TRUE]}
    BY <1>5 DEF Cancel
  <2>2. UNCHANGED <<verdicts, train, validation>>
    BY <1>5 DEF Cancel, samples
  <2>3. IsFiniteSet(trades')
    BY <2>1, FS_AddElement, FS_RemoveElement DEF TableInv
  <2> QED BY <2>1, <2>2, <2>3 DEF TableInv, Sampled
<1>6. CASE ReadTrain
  <2>1. UNCHANGED <<verdicts, trades, validation>> /\ train' = Sample(ROLLING_WINDOW_MONTHS, VALIDATION_MONTHS)
    BY <1>6 DEF ReadTrain, TrainSample
  <2>2. Sampled(train') \subseteq verdicts
    BY <2>1, SampledVerdicts, Zenon
  <2> QED BY <2>1, <2>2 DEF TableInv, Sampled
<1>7. CASE ReadValidation
  <2>1. UNCHANGED <<verdicts, trades, train>> /\ validation' = Sample(VALIDATION_MONTHS, 0)
    BY <1>7 DEF ReadValidation
  <2>2. Sampled(validation') \subseteq verdicts
    BY <2>1, SampledVerdicts, Zenon
  <2> QED BY <2>1, <2>2 DEF TableInv, Sampled
<1>8. UNCHANGED backtestVars \/ BacktestNext
  BY DEF Next, vars, Judge, Watch, Notify, LookBack, Answer, Prepare
<1> QED BY <1>2, <1>3, <1>4, <1>5, <1>6, <1>7, <1>8 DEF BacktestNext

LEMMA BacktestTyped == BacktestInv /\ TableInv => BacktestTypeOK
BY DEF BacktestInv, TableInv, BacktestTypeOK, Taken, Sampled

-----------------------------------------------------------------------------
(***************************************************************************)
(* The answers of the simulation.                                          *)
(***************************************************************************)
TaxAnswer(a) ==
  \E c \in TaxCases, assessed \in Assessed : \E sale \in Sales(c.price) :
    a.about = c /\ a.amount = <<sale, assessed>> /\ a.result = TotalTax(c, sale, assessed)
PolicyAnswer(a) ==
  \E c \in PolicyCases : \E n \in Moves(c.kind) :
    a.about = c /\ a.amount = <<n, n>> /\ a.result = PolicyImpact(c.before, Delta(c.kind, n))

\* Every answer is to a question that can be asked.
AdviceInv == \A a \in answers : TaxAnswer(a) \/ PolicyAnswer(a)

LEMMA AdviceKept == (Init => AdviceInv) /\ (AdviceInv /\ [Next]_vars => AdviceInv')
PROOF
<1>1. Init => AdviceInv
  BY DEF Init, AdviceInit, AdviceInv
<1>2. ASSUME AdviceInv, AdviceNext PROVE AdviceInv'
  <2>1. CASE \E c \in TaxCases, assessed \in Assessed : \E sale \in Sales(c.price) : AskTax(c, sale, assessed)
    <3>1. PICK c \in TaxCases, assessed \in Assessed : \E sale \in Sales(c.price) : AskTax(c, sale, assessed)
      BY <2>1
    <3>2. PICK sale \in Sales(c.price) : AskTax(c, sale, assessed)
      BY <3>1
    <3>3. ASSUME NEW a, a = [about |-> c, amount |-> <<sale, assessed>>, result |-> TotalTax(c, sale, assessed)]
          PROVE  TaxAnswer(a)
      <4>1. a.about = c /\ a.amount = <<sale, assessed>> /\ a.result = TotalTax(c, sale, assessed)
        BY <3>3
      <4> QED BY <4>1, Zenon DEF TaxAnswer
    <3> QED BY <1>2, <3>2, <3>3, Zenon DEF AdviceInv, AskTax
  <2>2. CASE \E c \in PolicyCases : \E n \in Moves(c.kind) : AskPolicy(c, n)
    <3>1. PICK c \in PolicyCases : \E n \in Moves(c.kind) : AskPolicy(c, n)
      BY <2>2
    <3>2. PICK n \in Moves(c.kind) : AskPolicy(c, n)
      BY <3>1
    <3>3. ASSUME NEW a, a = [about |-> c, amount |-> <<n, n>>, result |-> PolicyImpact(c.before, Delta(c.kind, n))]
          PROVE  PolicyAnswer(a)
      <4>1. a.about = c /\ a.amount = <<n, n>> /\ a.result = PolicyImpact(c.before, Delta(c.kind, n))
        BY <3>3
      <4> QED BY <4>1, Zenon DEF PolicyAnswer
    <3> QED BY <1>2, <3>2, <3>3, Zenon DEF AdviceInv, AskPolicy
  <2> QED BY <1>2, <2>1, <2>2, Zenon DEF AdviceNext
<1>3. AdviceInv /\ UNCHANGED answers => AdviceInv'
  BY DEF AdviceInv, TaxAnswer, PolicyAnswer
<1>4. [Next]_vars => UNCHANGED answers \/ AdviceNext
  BY DEF Next, vars, Judge, Watch, Notify, LookBack, Answer, Prepare
<1> QED BY <1>1, <1>2, <1>3, <1>4

\* The taxes together rise with the price of the sale and the value held.
LEMMA TotalTaxOrder ==
  ASSUME NEW c \in TaxCases, NEW p \in Sales(c.price), NEW q \in Sales(c.price), p <= q,
         NEW v \in Assessed, NEW w \in Assessed, v <= w
  PROVE  TotalTax(c, p, v) \in Nat /\ TotalTax(c, p, v) <= TotalTax(c, q, w)
PROOF
<1>1. /\ c.price \in Nat /\ c.years \in Nat /\ c.owners \in Nat /\ c.corporate \in BOOLEAN /\ c.regulated \in BOOLEAN
      /\ c.acqRows \in Seq(Nat \cup {Unknown}) /\ c.cgtRows \in Seq(Nat \cup {Unknown})
      /\ p \in Nat /\ q \in Nat /\ v \in Nat /\ w \in Nat
  BY CasesAssumption
<1> DEFINE x == calc_acquisition_tax(c.price, c.corporate, c.owners, c.regulated, c.acqRows)
           y1 == calc_capital_gains_tax(c.price, p, c.years, c.regulated, c.owners, c.cgtRows)
           y2 == calc_capital_gains_tax(c.price, q, c.years, c.regulated, c.owners, c.cgtRows)
           z1 == calc_comprehensive_tax(v)
           z2 == calc_comprehensive_tax(w)
<1>2. x \in Nat
  <2>1. c.price <= c.price
    BY <1>1, SMT
  <2> QED BY <1>1, <2>1, AcquisitionOrder, Zenon
<1>3. y1 \in Nat /\ y2 \in Nat /\ y1 <= y2
  BY <1>1, CapitalGainsOrder, Zenon
<1>4. z1 \in Nat /\ z2 \in Nat /\ z1 <= z2
  BY <1>1, ComprehensiveOrder, Zenon
<1>5. TotalTax(c, p, v) = x + y1 + z1 /\ TotalTax(c, q, w) = x + y2 + z2
  BY DEF TotalTax
<1> HIDE DEF x, y1, y2, z1, z2
<1> QED BY <1>2, <1>3, <1>4, <1>5, SMT

\* A larger move takes more off the score, but for the tax rate of today.
LEMMA DeltaOrder ==
  ASSUME NEW c \in PolicyCases, NEW m \in Moves(c.kind), NEW n \in Moves(c.kind), m <= n,
         c.kind = "tax" => DEFAULT_ACQ_TAX_RATE \notin {m, n}
  PROVE  Delta(c.kind, m) \in Int /\ Delta(c.kind, n) \in Int /\ Delta(c.kind, n) <= Delta(c.kind, m)
PROOF
<1>1. m \in Int /\ n \in Int /\ (c.kind = "regulation" => m \in {0, 1} /\ n \in {0, 1})
  BY CasesAssumption, SMT
<1>2. CASE c.kind = "tax"
  <2>1. m # 300 /\ n # 300
    BY <1>2 DEF DEFAULT_ACQ_TAX_RATE
  <2> QED BY <1>1, <1>2, <2>1, SMT DEF Delta, TaxDelta, Point, DEFAULT_ACQ_TAX_RATE
<1>3. CASE c.kind = "interest_rate"
  <2>1. \A k : <<DEFAULT_RATE, k>>[Len(<<DEFAULT_RATE, k>>)] = k
    BY SMT
  <2>2. \A k : Delta(c.kind, k) = (DEFAULT_RATE - k) * ((4 * Point) \div 100)
    BY <1>3, <2>1, Zenon DEF Delta, RateDelta
  <2> QED BY <1>1, <2>2, SMT DEF Point, DEFAULT_RATE
<1>4. CASE c.kind = "regulation"
  BY <1>1, <1>4, SMT DEF Delta, RegulationDelta, Point
<1>5. CASE c.kind \notin {"tax", "interest_rate", "regulation"}
  <2>1. \A k : Delta(c.kind, k) = SupplyDelta(k)
    BY <1>5 DEF Delta
  <2> QED BY <1>1, <2>1, SMT DEF SupplyDelta, Point
<1> QED BY <1>2, <1>3, <1>4, <1>5

\* The score after is clamped and rounded; both keep the order.
LEMMA ImpactOrder ==
  ASSUME NEW before \in Int, NEW x \in Int, NEW y \in Int, x <= y
  PROVE  PolicyImpact(before, x).after <= PolicyImpact(before, y).after
PROOF
<1> DEFINE a == clamp(before + x)  b == clamp(before + y)
<1>1. a \in Int /\ b \in Int /\ a <= b
  BY SMT DEF clamp, Point
<1>2. Point \div 100 \in Nat \ {0}
  BY SMT DEF Point
<1> HIDE DEF a, b
<1>3. Round(a, Point \div 100) <= Round(b, Point \div 100)
  BY <1>1, <1>2, RoundOrder, Zenon
<1> QED BY <1>3 DEF PolicyImpact, a, b

\* Of two answers to one question, a dearer sale or holding is never taxed less
\* in all, and a stricter policy never gives the better score, whatever brackets
\* and clamps lie between the two amounts (the two endpoints of simulation.py).
THEOREM AnswersInOrder == Spec => []AnswersRise
PROOF
<1>1. AdviceInv => AnswersRise
  <2> SUFFICES ASSUME AdviceInv, NEW a \in answers, NEW b \in answers, a.about = b.about,
                      a.amount[1] <= b.amount[1], a.amount[2] <= b.amount[2]
               PROVE  IF a.about \in TaxCases THEN a.result <= b.result
                      ELSE (a.about.kind = "tax" /\ DEFAULT_ACQ_TAX_RATE \in {a.amount[1], b.amount[1]})
                             \/ a.result.after >= b.result.after
    BY DEF AnswersRise
  <2>1. \A c : c \notin TaxCases \/ c \notin PolicyCases
    BY CasesAssumption
  <2>2. CASE a.about \in TaxCases
    <3>1. TaxAnswer(a) /\ TaxAnswer(b)
      BY <2>1, <2>2 DEF AdviceInv, PolicyAnswer
    <3>2. PICK v \in Assessed, p \in Sales(a.about.price) :
            a.amount = <<p, v>> /\ a.result = TotalTax(a.about, p, v)
      BY <3>1 DEF TaxAnswer
    <3>3. PICK w \in Assessed, q \in Sales(a.about.price) :
            b.amount = <<q, w>> /\ b.result = TotalTax(a.about, q, w)
      BY <3>1 DEF TaxAnswer
    <3>4. p <= q /\ v <= w
      BY <3>2, <3>3
    <3>5. a.result <= b.result
      BY <2>2, <3>2, <3>3, <3>4, TotalTaxOrder
    <3> QED BY <2>2, <3>5
  <2>3. CASE a.about \notin TaxCases
    <3>1. PolicyAnswer(a) /\ PolicyAnswer(b)
      BY <2>3 DEF AdviceInv, TaxAnswer
    <3> DEFINE c == a.about
    <3>2. PICK m \in Moves(c.kind) : a.amount = <<m, m>> /\ a.result = PolicyImpact(c.before, Delta(c.kind, m))
      BY <3>1 DEF PolicyAnswer
    <3>3. PICK n \in Moves(c.kind) : b.amount = <<n, n>> /\ b.result = PolicyImpact(c.before, Delta(c.kind, n))
      BY <3>1 DEF PolicyAnswer
    <3>4. c \in PolicyCases
      BY <3>1 DEF PolicyAnswer
    <3>5. a.amount[1] = m /\ b.amount[1] = n /\ m <= n
      BY <3>2, <3>3
    <3>6. CASE c.kind = "tax" /\ DEFAULT_ACQ_TAX_RATE \in {m, n}
      BY <2>3, <3>5, <3>6
    <3>7. CASE c.kind = "tax" => DEFAULT_ACQ_TAX_RATE \notin {m, n}
      <4>1. /\ Delta(c.kind, m) \in Int /\ Delta(c.kind, n) \in Int
            /\ Delta(c.kind, n) <= Delta(c.kind, m)
        BY <3>4, <3>5, <3>7, DeltaOrder, Zenon
      <4>2. c.before \in Int
        <5>1. \A k \in PolicyCases : k.before \in 0..100 * Point
          BY CasesAssumption, Zenon
        <5>2. c.before \in 0..100 * Point
          BY <3>4, <5>1
        <5>3. \A x \in 0..100 * Point : x \in Int
          <6>1. 100 * Point = 200000
            BY SMT DEF Point
          <6> QED BY <6>1, SMT
        <5> QED BY <5>2, <5>3, Zenon
      <4>3. b.result.after <= a.result.after
        BY <3>2, <3>3, <4>1, <4>2, ImpactOrder, Zenon
      <4>4. a.result.after \in Int /\ b.result.after \in Int
        <5>1. \A k \in Int : Round(k, Point \div 100) \in Int
          BY SMT DEF Round, Point
        <5>2. \A k \in Int : clamp(c.before + k) \in Int
          BY <4>2, SMT DEF clamp, Point
        <5> QED BY <3>2, <3>3, <4>1, <5>1, <5>2 DEF PolicyImpact
      <4> QED BY <2>3, <4>3, <4>4, SMT
    <3> QED BY <3>6, <3>7
  <2> QED BY <2>2, <2>3
<1> QED BY <1>1, AdviceKept, PTL DEF Spec

\* Rounded to hundredths, no score or change of one is more than a hundred.
LEMMA CentsType ==
  ASSUME NEW n \in Int, NEW m \in Nat, -20 * m <= n, n <= 20 * m
  PROVE  /\ Round(n, 20) \in Int /\ -m <= Round(n, 20) /\ Round(n, 20) <= m
         /\ n >= 0 => Round(n, 20) >= 0
BY SMT DEF Round

\* A score and what a policy makes of it are between nothing and a hundred points.
LEMMA ImpactType ==
  ASSUME NEW before \in Int, 0 <= before, before <= 20 * MaxCents, NEW raw \in Int
  PROVE  LET impact == PolicyImpact(before, raw) IN
         impact.before \in 0..MaxCents /\ impact.after \in 0..MaxCents /\ impact.delta \in -MaxCents..MaxCents
PROOF
<1> DEFINE after == clamp(before + raw)
           change == after - before
<1>1. after \in Int /\ 0 <= after /\ after <= 20 * MaxCents
  BY SMT DEF clamp, Point, MaxCents
<1>2. Point \div 100 = 20
  BY SMT DEF Point
<1>3. /\ PolicyImpact(before, raw).before = Round(before, 20)
      /\ PolicyImpact(before, raw).after = Round(after, 20)
      /\ PolicyImpact(before, raw).delta = Round(change, 20)
  <2>1. /\ PolicyImpact(before, raw).before = Round(before, Point \div 100)
        /\ PolicyImpact(before, raw).after = Round(after, Point \div 100)
        /\ PolicyImpact(before, raw).delta = Round(change, Point \div 100)
    BY DEF PolicyImpact
  <2> QED BY <1>2, <2>1
<1> HIDE DEF after
<1>4. MaxCents \in Nat
  BY SMT DEF MaxCents
<1>5. /\ change \in Int /\ -20 * MaxCents <= change /\ change <= 20 * MaxCents
      /\ -20 * MaxCents <= before /\ -20 * MaxCents <= after
  BY <1>1, <1>4, SMT
<1> HIDE DEF change
<1>6. Round(before, 20) \in 0..MaxCents
  BY <1>4, <1>5, CentsType, SMT
<1>7. Round(after, 20) \in 0..MaxCents
  BY <1>1, <1>4, <1>5, CentsType, SMT
<1>8. Round(change, 20) \in -MaxCents..MaxCents
  BY <1>4, <1>5, CentsType, SMT
<1> QED BY <1>3, <1>6, <1>7, <1>8

\* Every move has its change.
LEMMA AnyDelta ==
  ASSUME NEW c \in PolicyCases, NEW n \in Moves(c.kind)
  PROVE  Delta(c.kind, n) \in Int
PROOF
<1>1. n \in Int
  BY CasesAssumption, SMT
<1>2. CASE c.kind = "tax"
  BY <1>1, <1>2, SMT DEF Delta, TaxDelta, Point, DEFAULT_ACQ_TAX_RATE
<1>3. CASE c.kind = "interest_rate"
  <2>1. \A k : <<DEFAULT_RATE, k>>[Len(<<DEFAULT_RATE, k>>)] = k
    BY SMT
  <2>2. Delta(c.kind, n) = (DEFAULT_RATE - n) * ((4 * Point) \div 100)
    BY <1>3, <2>1, Zenon DEF Delta, RateDelta
  <2> QED BY <1>1, <2>2, SMT DEF Point, DEFAULT_RATE
<1>4. CASE c.kind = "regulation"
  BY <1>1, <1>4, SMT DEF Delta, RegulationDelta, Point
<1>5. CASE c.kind \notin {"tax", "interest_rate", "regulation"}
  <2>1. Delta(c.kind, n) = SupplyDelta(n)
    BY <1>5 DEF Delta
  <2> QED BY <1>1, <2>1, SMT DEF SupplyDelta, Point
<1> QED BY <1>2, <1>3, <1>4, <1>5

LEMMA AdviceTyped == AdviceInv => AdviceTypeOK
PROOF
<1> SUFFICES ASSUME AdviceInv, NEW a \in answers
             PROVE  \/ a.about \in TaxCases /\ a.result \in Nat
                    \/ /\ a.about \in PolicyCases
                       /\ a.result.before \in 0..MaxCents /\ a.result.after \in 0..MaxCents
                       /\ a.result.delta \in -MaxCents..MaxCents
  BY DEF AdviceTypeOK
<1>1. CASE TaxAnswer(a)
  <2>1. PICK c \in TaxCases, v \in Assessed : \E p \in Sales(c.price) : a.about = c /\ a.result = TotalTax(c, p, v)
    BY <1>1 DEF TaxAnswer
  <2> PICK p \in Sales(c.price) : a.about = c /\ a.result = TotalTax(c, p, v)
    BY <2>1
  <2>2. p <= p /\ v <= v
    <3>1. p \in Nat /\ v \in Nat
      BY CasesAssumption
    <3> QED BY <3>1, SMT
  <2> QED BY <2>1, <2>2, TotalTaxOrder, ZenonT(30)
<1>2. CASE PolicyAnswer(a)
  <2>1. PICK c \in PolicyCases : \E n \in Moves(c.kind) :
          a.about = c /\ a.amount = <<n, n>> /\ a.result = PolicyImpact(c.before, Delta(c.kind, n))
    BY <1>2, Zenon DEF PolicyAnswer
  <2>2. PICK n \in Moves(c.kind) : a.about = c /\ a.result = PolicyImpact(c.before, Delta(c.kind, n))
    BY <2>1, Zenon
  <2>3. c.before \in Int /\ 0 <= c.before /\ c.before <= 20 * MaxCents
    <3>1. c.before \in 0..100 * Point
      BY CasesAssumption, Zenon
    <3>2. Point \in Int /\ 100 * Point = 20 * MaxCents
      BY SMT DEF Point, MaxCents
    <3> QED BY <3>1, <3>2, SMT
  <2>4. Delta(c.kind, n) \in Int
    BY AnyDelta
  <2>5. /\ PolicyImpact(c.before, Delta(c.kind, n)).before \in 0..MaxCents
        /\ PolicyImpact(c.before, Delta(c.kind, n)).after \in 0..MaxCents
        /\ PolicyImpact(c.before, Delta(c.kind, n)).delta \in -MaxCents..MaxCents
    BY <2>3, <2>4, ImpactType, Zenon
  <2> QED BY <2>2, <2>5, Zenon
<1> QED BY <1>1, <1>2, Zenon DEF AdviceInv

-----------------------------------------------------------------------------
\* What departs from a flat window by more than its floor allows is reported.
LEMMA Scaled ==
  ASSUME NEW n \in Nat \ {0}, NEW p \in Nat, NEW k \in Nat, NEW x \in Int, NEW c \in Int,
         p * Magnitude(x - c) > k * Magnitude(c)
  PROVE  p * Magnitude(x * n - n * c) > k * Magnitude(n * c)
PROOF
<1>1. \A z \in Int : Magnitude(z) \in Nat /\ (Magnitude(z) = z \/ Magnitude(z) = -z)
  BY SMT DEF Magnitude
<1>2. ASSUME NEW z \in Int
      PROVE  Magnitude(n * z) = n * Magnitude(z)
  <2>1. n * z \in Int /\ (z < 0 => n * z < 0) /\ (z >= 0 => n * z >= 0) /\ n * (-z) = -(n * z)
    BY SMT
  <2> QED BY <2>1, SMT DEF Magnitude
<1>3. x - c \in Int /\ x * n - n * c = n * (x - c)
  BY SMT
<1>4. Magnitude(x * n - n * c) = n * Magnitude(x - c) /\ Magnitude(n * c) = n * Magnitude(c)
  BY <1>2, <1>3
<1>5. ASSUME NEW a \in Nat, NEW b \in Nat, p * a > k * b
      PROVE  p * (n * a) > k * (n * b)
  <2>1. p * (n * a) = n * (p * a) /\ k * (n * b) = n * (k * b) /\ p * a \in Nat /\ k * b \in Nat
    BY SMT
  <2>2. \A u \in Nat, w \in Nat : u > w => n * u > n * w
    BY SMT
  <2> QED BY <1>5, <2>1, <2>2
<1>6. Magnitude(x - c) \in Nat /\ Magnitude(c) \in Nat
  BY <1>1, <1>3
<1> QED BY <1>4, <1>5, <1>6

LEMMA FlatSpread ==
  ASSUME NEW n \in Nat \ {0}, NEW w \in [1..n -> Int], NEW c \in Int, \A j \in 1..n : w[j] = c
  PROVE  Len(w) = n /\ SumSeq(w) = n * c /\ Spread(w) = 0
PROOF
<1> DEFINE sq == [i \in DOMAIN w |-> Square(w[i])]
<1>1. Len(w) = n
  BY SMT
<1>2. IsFiniteSet(1..n) /\ Cardinality(1..n) = n
  <2>1. IsFiniteSet(1..n) /\ Cardinality(1..n) = IF 1 > n THEN 0 ELSE n - 1 + 1
    BY FS_Interval, SMT
  <2> QED BY <2>1, SMT
<1>3. DOMAIN w = 1..n /\ DOMAIN sq = 1..n
  OBVIOUS
<1>4. c * c \in Int /\ \A j \in 1..n : sq[j] = c * c
  BY SMT DEF Square
<1> HIDE DEF sq
<1>5. Numbers(w) /\ Numbers(sq)
  BY <1>2, <1>3, <1>4 DEF Numbers
<1>6. Total(w) = n * c
  BY <1>2, <1>3, <1>5, TotalConstant
<1>7. Total(sq) = n * (c * c)
  BY <1>2, <1>3, <1>4, <1>5, TotalConstant
<1>8. SumSeq(w) = Total(w) /\ SumSeq(sq) = Total(sq)
  BY DEF SumSeq, Total
<1>9. Spread(w) = n * (n * (c * c)) - Square(n * c)
  BY <1>1, <1>6, <1>7, <1>8, Zenon DEF Spread, sq
<1>10. n * (n * (c * c)) - (n * c) * (n * c) = 0
  BY SMT
<1> QED BY <1>1, <1>6, <1>8, <1>9, <1>10 DEF Square

LEMMA JumpReported ==
  ASSUME NEW m, NEW s \in Seq(Int), NEW i \in Window + 1..Len(s),
         Departs(s, i, 4), Departs(s, i, NumStd)
  PROVE  Result("bollinger", m, i, "critical", TRUE) \in Bollinger(m, s)
PROOF
<1> DEFINE w == Band(s, i)
           c == s[i - 1]
<1>1. Window \in Nat \ {0} /\ i \in 1..Len(s) /\ Len(s) \in Nat /\ i - Window >= 1 /\ i \in Int
  BY DetectorAssumption, SMT
<1>2. w \in [1..Window -> Int] /\ \A j \in 1..Window : w[j] = s[i - Window + j - 1]
  <2>1. i - Window \in Int /\ i - 1 \in Int /\ i - Window <= i - 1 /\ (i - 1) - (i - Window) + 1 = Window
    BY <1>1, SMT
  <2>2. \A k \in i - Window..i - 1 : s[k] \in Int
    <3>1. \A k \in i - Window..i - 1 : k \in 1..Len(s)
      BY <1>1, SMT
    <3> QED BY <3>1
  <2>3. /\ w \in Seq(Int) /\ Len(w) = Window
        /\ \A j \in 1..Window : w[j] = s[i - Window + j - 1]
    <3> DEFINE lo == i - Window  hi == i - 1
    <3>1. /\ lo \in Int /\ hi \in Int /\ lo <= hi /\ hi - lo + 1 = Window
          /\ \A k \in lo..hi : s[k] \in Int
      BY <2>1, <2>2
    <3>2. w = SubSeq(s, lo, hi)
      BY Zenon DEF Band
    <3> HIDE DEF lo, hi, w
    <3>3. /\ SubSeq(s, lo, hi) \in Seq(Int) /\ Len(SubSeq(s, lo, hi)) = IF lo <= hi THEN hi - lo + 1 ELSE 0
          /\ \A j \in 1..hi - lo + 1 : SubSeq(s, lo, hi)[j] = s[lo + j - 1]
      BY <3>1, SubSeqProperties
    <3> QED BY <3>1, <3>2, <3>3, Zenon DEF lo
  <2> HIDE DEF w
  <2> QED BY <2>3
<1>3. c \in Int /\ s[i] \in Int
  <2>1. i - 1 \in 1..Len(s)
    BY <1>1, SMT
  <2> QED BY <1>1, <2>1
<1>4. \A j \in 1..Window : w[j] = c
  <2>1. \A j \in 1..Window : i - Window + j - 1 \in i - Window..i - 1
    BY <1>1, SMT
  <2>2. \A j \in i - Window..i - 1 : s[j] = c
    BY DEF Departs
  <2> HIDE DEF w, c
  <2> QED BY <1>2, <2>1, <2>2
<1>11. \A k \in {4, NumStd} : MeanParts * Magnitude(s[i] - c) > k * Magnitude(c)
  BY DEF Departs
<1> HIDE DEF w, c
<1>5. Len(w) = Window /\ SumSeq(w) = Window * c /\ Spread(w) = 0
  BY <1>1, <1>2, <1>3, <1>4, FlatSpread
<1>12. MeanParts \in Nat /\ NumStd \in Nat
  BY DetectorAssumption
<1>13. ASSUME NEW k \in {4, NumStd}
       PROVE  MeanParts * Magnitude(Off(s[i], w)) > k * Magnitude(SumSeq(w))
  <2>1. Off(s[i], w) = s[i] * Window - Window * c
    BY <1>5, Zenon DEF Off
  <2>2. k \in Nat /\ MeanParts * Magnitude(s[i] - c) > k * Magnitude(c)
    BY <1>11, <1>12
  <2>3. MeanParts * Magnitude(s[i] * Window - Window * c) > k * Magnitude(Window * c)
    BY <1>1, <1>3, <1>12, <2>2, Scaled
  <2> QED BY <1>5, <2>1, <2>3, Zenon
<1>14. Off(s[i], w) \in Int /\ SumSeq(w) \in Int
  BY <1>1, <1>3, <1>5 DEF Off
<1>15. AtLeast(s[i], w, 4) /\ AtLeast(s[i], w, 3)
  <2> DEFINE a == Off(s[i], w)  b == SumSeq(w)
  <2>1. a \in Int /\ b \in Int /\ MeanParts * Magnitude(a) > 4 * Magnitude(b)
    BY <1>13, <1>14
  <2> HIDE DEF a, b
  <2>2. /\ a # 0 /\ MeanParts * Magnitude(a) >= 4 * Magnitude(b)
        /\ MeanParts * Magnitude(a) >= 3 * Magnitude(b)
    BY <1>12, <2>1, SMT DEF Magnitude
  <2> QED BY <1>5, <2>2, Zenon DEF AtLeast, a, b
<1>6. \A k \in {4, NumStd} : Beyond(s[i], w, k)
  BY <1>5, <1>13, Zenon DEF Beyond
<1>7. severity_from_sigma(s[i], w) = "critical"
  BY <1>15, Zenon DEF severity_from_sigma
<1>8. i \in {j \in Window + 1..Len(s) : Outside(s, j)}
  BY <1>6, Zenon DEF Outside, w
<1>9. Beyond(s[i], w, 4) = TRUE
  BY <1>6
<1>10. Result("bollinger", m, i, severity_from_sigma(s[i], Band(s, i)), Beyond(s[i], Band(s, i), 4)) \in Bollinger(m, s)
  BY <1>8, Zenon DEF Bollinger
<1> QED BY <1>7, <1>9, <1>10 DEF w

Anomalous == [algorithm : Algorithms, metric : Range(Metrics) \cup {Multivariate},
              index : Nat \ {0}, severity : Severities, extreme : BOOLEAN]

LEMMA ResultType ==
  ASSUME NEW a \in Algorithms, NEW m \in Range(Metrics) \cup {Multivariate}, NEW i \in Nat \ {0},
         NEW severity \in Severities, NEW extreme \in BOOLEAN
  PROVE  Result(a, m, i, severity, extreme) \in Anomalous
BY DEF Result, Anomalous

LEMMA ResultParts ==
  /\ \A x, w, k : Beyond(x, w, k) \in BOOLEAN
  /\ \A x, w : severity_from_sigma(x, w) \in Severities
PROOF
<1>0. \A m, n : (m > n) \in BOOLEAN
  BY SMT
<1>1. \A x, w, k : Beyond(x, w, k) \in BOOLEAN
  BY <1>0, Zenon DEF Beyond
<1>2. \A x, w : severity_from_sigma(x, w) \in Severities
  BY SMT DEF severity_from_sigma, Severities
<1> QED BY <1>1, <1>2

LEMMA DetectionsType ==
  ASSUME NEW m \in Range(Metrics), NEW s \in Seq(Int)
  PROVE  Detections(m, s) \subseteq Anomalous
PROOF
<1>1. {"zscore", "cusum", "bollinger"} \subseteq Algorithms
  BY DEF Algorithms
<1>2. ZScore(m, s) \subseteq Anomalous
  <2> DEFINE n == Len(s)
             first == IF n - 1 > Lookback THEN n - Lookback ELSE 1
             baseline == SubSeq(s, first, n - 1)
             r == Result("zscore", m, n, severity_from_sigma(s[n], baseline), Beyond(s[n], baseline, 4))
  <2>1. ZScore(m, s) \subseteq IF n >= 3 THEN {r} ELSE {}
    <3> HIDE DEF r, baseline
    <3> QED BY Zenon DEF ZScore, r, baseline, first, n
  <2>2. ASSUME n >= 3 PROVE r \in Anomalous
    <3>1. n \in Nat \ {0}
      BY <2>2, SMT
    <3> HIDE DEF n, baseline
    <3> QED BY <1>1, <3>1, ResultType, ResultParts
  <2> HIDE DEF r, n
  <2> QED BY <2>1, <2>2
<1>3. Cusum(m, s) \subseteq Anomalous
  <2> DEFINE n == Len(s)
             drift(i) == n * SumSeq(SubSeq(s, 1, i)) - i * SumSeq(s)
             left(i) == Square(drift(i)) * (n - 1)
             limit == Square(DriftSigma) * n * Spread(s)
             exceeded == {i \in 1..n : left(i) > limit}
             pos == CHOOSE i \in exceeded : \A j \in exceeded : i <= j
             severity == IF left(pos) >= 4 * limit THEN "critical" ELSE IF 4 * left(pos) >= 9 * limit THEN "high" ELSE "medium"
             extreme == left(pos) > 16 * n * Spread(s)
  <2>1. Cusum(m, s) \subseteq IF exceeded = {} THEN {} ELSE {Result("cusum", m, pos, severity, extreme)}
    <3> HIDE DEF severity, extreme, pos, exceeded
    <3> QED BY Zenon DEF Cusum, severity, extreme, pos, exceeded, limit, left, drift, n
  <2>2. severity \in Severities /\ extreme \in BOOLEAN
    <3> HIDE DEF pos, limit, left
    <3>1. severity \in Severities
      BY Zenon DEF Severities
    <3>2. extreme \in BOOLEAN
      BY SMT
    <3> QED BY <3>1, <3>2, Zenon
  <2>3. exceeded \in SUBSET Nat /\ exceeded \subseteq Nat \ {0}
    <3> HIDE DEF limit, left
    <3> QED BY SMT
  <2> HIDE DEF severity, extreme, exceeded
  <2>4. ASSUME exceeded # {} PROVE pos \in Nat \ {0}
    <3>1. \E i \in exceeded : \A j \in exceeded : i <= j
      BY <2>3, <2>4, LeastNatural, Zenon
    <3> QED BY <2>3, <3>1
  <2> HIDE DEF pos
  <2> QED BY <1>1, <2>1, <2>2, <2>4, ResultType
<1>4. Bollinger(m, s) \subseteq Anomalous
  <2>1. ASSUME NEW r \in Bollinger(m, s) PROVE r \in Anomalous
    <3>1. PICK i \in {j \in Window + 1..Len(s) : Outside(s, j)} :
            r = Result("bollinger", m, i, severity_from_sigma(s[i], Band(s, i)), Beyond(s[i], Band(s, i), 4))
      BY DEF Bollinger
    <3>2. i \in Nat \ {0}
      BY <3>1, DetectorAssumption, SMT
    <3>3. Beyond(s[i], Band(s, i), 4) \in BOOLEAN /\ severity_from_sigma(s[i], Band(s, i)) \in Severities
      BY ResultParts, Zenon
    <3> QED BY <1>1, <3>1, <3>2, <3>3, ResultType
  <2> QED BY <2>1
<1> DEFINE By(a) == CASE a = "zscore" -> ZScore(m, s) [] a = "cusum" -> Cusum(m, s) [] OTHER -> Bollinger(m, s)
<1>5. Detections(m, s) = UNION {By(a) : a \in {"zscore", "cusum", "bollinger"} \ suppressed}
  BY DEF Detections
<1>6. ASSUME NEW a PROVE By(a) \subseteq Anomalous
  BY <1>2, <1>3, <1>4
<1> HIDE DEF By
<1> QED BY <1>5, <1>6

\* A scan keeps what the detector found in every series it has read.
ScanInv ==
  /\ series \in [Range(Metrics) -> Seq(Int)]
  /\ \A m \in Range(Metrics) : series[m] \in Seq(Values[m])
  /\ scan \in 0..Len(Metrics) + 1
  /\ frames \in Seq(Seq(Int))
  /\ Len(frames) = IF scan > Len(Metrics) THEN Len(Metrics) ELSE scan
  /\ suppressed \subseteq Algorithms /\ found \subseteq Anomalous
  /\ "bollinger" \notin suppressed =>
       \A k \in DOMAIN frames : Bollinger(Metrics[k], frames[k]) \subseteq found

LEMMA DetectionsHold ==
  ASSUME NEW m, NEW s, "bollinger" \notin suppressed
  PROVE  Bollinger(m, s) \subseteq Detections(m, s)
PROOF
<1> DEFINE By(a) == CASE a = "zscore" -> ZScore(m, s) [] a = "cusum" -> Cusum(m, s) [] OTHER -> Bollinger(m, s)
<1>1. By("bollinger") = Bollinger(m, s)
  OBVIOUS
<1>2. Detections(m, s) = UNION {By(a) : a \in {"zscore", "cusum", "bollinger"} \ suppressed}
  BY DEF Detections
<1>3. "bollinger" \in {"zscore", "cusum", "bollinger"} \ suppressed
  OBVIOUS
<1> HIDE DEF By
<1>4. By("bollinger") \in {By(a) : a \in {"zscore", "cusum", "bollinger"} \ suppressed}
  BY <1>3
<1> QED BY <1>1, <1>2, <1>4

LEMMA ScanKept == (Init => ScanInv) /\ (ScanInv /\ [Next]_vars => ScanInv')
PROOF
<1>0. Len(Metrics) \in Nat /\ Metrics \in Seq(STRING)
  BY DetectorAssumption
<1>1. Init => ScanInv
  BY <1>0, SMT DEF Init, AnomalyInit, ScanInv
<1>2. ASSUME ScanInv, NEW m \in Range(Metrics), Observe(m) PROVE ScanInv'
  <2>1. PICK v \in Values[m] : series' = [series EXCEPT ![m] = Append(@, v)]
    BY <1>2 DEF Observe
  <2>2. v \in Int
    BY DetectorAssumption
  <2>3. Append(series[m], v) \in Seq(Int) /\ Append(series[m], v) \in Seq(Values[m])
    BY <1>2, <2>2, AppendProperties DEF ScanInv
  <2> QED BY <1>2, <2>1, <2>3 DEF ScanInv, Observe
<1>3. ASSUME ScanInv, NEW a \in Algorithms, SuppressIfNoisy(a) PROVE ScanInv'
  BY <1>3 DEF SuppressIfNoisy, ScanInv
<1>4. ASSUME ScanInv, ScanMetric PROVE ScanInv'
  <2> DEFINE m == Metrics[scan + 1]
  <2>1. /\ scan < Len(Metrics) /\ scan \in Nat /\ Len(frames) = scan
        /\ scan' = scan + 1 /\ frames' = Append(frames, series[m])
        /\ UNCHANGED <<series, suppressed>>
    BY <1>0, <1>4, SMT DEF ScanMetric, ScanInv
  <2>2. m \in Range(Metrics)
    BY <1>0, <2>1, SMT DEF Range
  <2>3. series[m] \in Seq(Int)
    BY <1>4, <2>2 DEF ScanInv
  <2>4. /\ frames' \in Seq(Seq(Int)) /\ Len(frames') = scan + 1
        /\ frames'[scan + 1] = series[m] /\ \A k \in 1..scan : frames'[k] = frames[k]
    BY <1>4, <2>1, <2>3, AppendProperties DEF ScanInv
  <2>5. Detections(m, series[m]) \subseteq found' /\ (scan # 0 => found \subseteq found')
    BY <1>4, Zenon DEF ScanMetric
  <2> HIDE DEF m
  <2>6. ASSUME "bollinger" \notin suppressed, NEW k \in DOMAIN frames'
        PROVE  Bollinger(Metrics[k], frames'[k]) \subseteq found'
    <3>1. k \in 1..scan + 1
      BY <2>1, <2>4
    <3>2. CASE k = scan + 1
      <4>1. Bollinger(m, series[m]) \subseteq Detections(m, series[m])
        BY <2>6, DetectionsHold
      <4>2. Metrics[k] = m /\ frames'[k] = series[m]
        BY <2>4, <3>2 DEF m
      <4> QED BY <2>5, <4>1, <4>2
    <3>3. CASE k # scan + 1
      <4>1. k \in 1..scan /\ scan # 0
        BY <2>1, <3>1, <3>3, SMT
      <4>2. k \in DOMAIN frames
        BY <1>4, <2>1, <4>1 DEF ScanInv
      <4>3. Bollinger(Metrics[k], frames[k]) \subseteq found
        BY <1>4, <2>6, <4>2 DEF ScanInv
      <4> QED BY <2>4, <2>5, <4>1, <4>3
    <3> QED BY <3>2, <3>3
  <2>8. found' \subseteq Anomalous
    <3>1. found' \subseteq found \cup Detections(m, series[m])
      BY <1>4, Zenon DEF ScanMetric, m
    <3> QED BY <1>4, <2>2, <2>3, <3>1, DetectionsType DEF ScanInv
  <2>7. scan' \in 0..Len(Metrics) + 1 /\ Len(frames') = IF scan' > Len(Metrics) THEN Len(Metrics) ELSE scan'
    BY <1>0, <2>1, <2>4, SMT
  <2> QED BY <1>4, <2>1, <2>4, <2>6, <2>7, <2>8 DEF ScanInv
<1>5. ASSUME ScanInv, ScanForest PROVE ScanInv'
  <2>1. scan = Len(Metrics) /\ scan' = scan + 1 /\ UNCHANGED <<series, suppressed, frames>> /\ found \subseteq found'
    BY <1>5, Zenon DEF ScanForest
  <2>3. found' \subseteq Anomalous
    <3> DEFINE read == {k \in DOMAIN frames : frames[k] # <<>>}
               points == {i \in UNION {DOMAIN frames[k] : k \in read} : \A k \in read : i \in DOMAIN frames[k]}
    <3>1. \A i \in points : i \in Nat \ {0}
      <4>1. ASSUME NEW i \in points PROVE i \in Nat \ {0}
        <5>1. PICK k \in DOMAIN frames : i \in DOMAIN frames[k]
          OBVIOUS
        <5>2. frames[k] \in Seq(Int)
          BY <1>5 DEF ScanInv
        <5> HIDE DEF points
        <5> QED BY <5>1, <5>2, SMT
      <4> QED BY <4>1
    <3>2. \E outliers \in IF "isolation_forest" \notin suppressed /\ Cardinality(read) >= 2 /\ 2 \in points
                          THEN {{}} \cup {{i} : i \in points} ELSE {{}}, severity \in Severities :
            found' = found \cup {Result("isolation_forest", Multivariate, i, severity, FALSE) : i \in outliers}
      BY <1>5 DEF ScanForest
    <3> HIDE DEF points, read
    <3>3. PICK outliers \in SUBSET points, severity \in Severities :
            found' = found \cup {Result("isolation_forest", Multivariate, i, severity, FALSE) : i \in outliers}
      BY <3>2
    <3>4. ASSUME NEW i \in outliers
          PROVE  Result("isolation_forest", Multivariate, i, severity, FALSE) \in Anomalous
      <4>1. "isolation_forest" \in Algorithms /\ Multivariate \in Range(Metrics) \cup {Multivariate}
        BY DEF Algorithms
      <4>2. i \in Nat \ {0} /\ FALSE \in BOOLEAN
        BY <3>1
      <4> QED BY <4>1, <4>2, ResultType, Zenon
    <3> QED BY <1>5, <3>3, <3>4 DEF ScanInv
  <2>2. scan' \in 0..Len(Metrics) + 1 /\ Len(frames) = IF scan' > Len(Metrics) THEN Len(Metrics) ELSE scan'
    BY <1>0, <1>5, <2>1, SMT DEF ScanInv
  <2> QED BY <1>5, <2>1, <2>2, <2>3 DEF ScanInv
<1>6. ASSUME ScanInv, Rescan PROVE ScanInv'
  BY <1>0, <1>6, SMT DEF Rescan, ScanInv
<1>7. ScanInv /\ UNCHANGED scanVars => ScanInv'
  BY DEF ScanInv, scanVars
<1>8. [Next]_vars => UNCHANGED scanVars \/ AnomalyNext
  BY DEF Next, vars, Judge, Watch, Notify, LookBack, Answer, Prepare
<1> QED BY <1>1, <1>2, <1>3, <1>4, <1>5, <1>6, <1>7, <1>8 DEF AnomalyNext

\* A scan that ends with the Bollinger detector on has reported every departure
\* from a flat window, by more than the deviation _safe_std gives such a window
\* allows, as critical, in every series of integers and at every point of it: the
\* point itself is not in its band (anomaly_detector.py, BollingerDetector.detect
\* and scan_district).
THEOREM JumpsAreReported == Spec => []JumpsReported
PROOF
<1>1. ScanInv => JumpsReported
  <2> SUFFICES ASSUME ScanInv, scan = Len(Metrics) + 1, "bollinger" \notin suppressed,
                      NEW k \in DOMAIN frames, NEW i \in Window + 1..Len(frames[k]),
                      Departs(frames[k], i, 4), Departs(frames[k], i, NumStd)
               PROVE  Result("bollinger", Metrics[k], i, "critical", TRUE) \in found
    BY DEF JumpsReported
  <2>1. frames[k] \in Seq(Int)
    BY DEF ScanInv
  <2>2. Result("bollinger", Metrics[k], i, "critical", TRUE) \in Bollinger(Metrics[k], frames[k])
    BY <2>1, JumpReported
  <2> QED BY <2>2 DEF ScanInv
<1> QED BY <1>1, ScanKept, PTL DEF Spec

LEMMA ScanTyped == ScanInv => AnomalyTypeOK
PROOF
<1> SUFFICES ASSUME ScanInv PROVE AnomalyTypeOK
  OBVIOUS
<1>1. Len(frames) \in {scan, scan - 1}
  BY DetectorAssumption, SMT DEF ScanInv
<1> QED BY <1>1 DEF ScanInv, AnomalyTypeOK, Anomalous

-----------------------------------------------------------------------------
Event == [at : Nat, district : Districts, level : Levels, ids : SUBSET Nat, count : Nat \ {0},
          sent : SUBSET Channels, failed : SUBSET Channels]

\* How many alerts a set of events stands for, and which.
Count(es) == Total([e \in es |-> e.count])
IdsOf(es) == UNION {e.ids : e \in es}

\* Events that share no alert.
Apart(es) == \A e, f \in es : e # f => e.ids \cap f.ids = {}
\* Events that a merge leaves alone.
Separate(es) == \A e, f \in es : e # f => ~(e.at <= f.at /\ SameCluster(e, f))

Alerted(es) == IsFiniteSet(es) /\ es \subseteq Event /\ Apart(es) /\ \A e \in es : e.ids # {}

LEMMA CountAdd ==
  ASSUME NEW es, IsFiniteSet(es), es \subseteq Event, NEW e \in Event, e \notin es
  PROVE  /\ IsFiniteSet(es \cup {e}) /\ Count(es) \in Int
         /\ Count(es \cup {e}) = e.count + Count(es)
PROOF
<1> DEFINE f == [x \in es \cup {e} |-> x.count]
           g == [x \in es |-> x.count]
<1>1. IsFiniteSet(es \cup {e})
  BY FS_AddElement
<1>2. \A x \in es \cup {e} : x.count \in Int
  BY DEF Event
<1>3. Numbers(f) /\ Numbers(g)
  BY <1>1, <1>2 DEF Numbers
<1>4. DOMAIN g = DOMAIN f \ {e} /\ e \in DOMAIN f /\ \A y \in DOMAIN g : g[y] = f[y]
  OBVIOUS
<1>5. f[e] = e.count
  OBVIOUS
<1>6. Count(es \cup {e}) = Total(f) /\ Count(es) = Total(g)
  BY DEF Count
<1> HIDE DEF f, g
<1> QED BY <1>1, <1>3, <1>4, <1>5, <1>6, TotalSplit, TotalType

LEMMA CountRemove ==
  ASSUME NEW es, IsFiniteSet(es), es \subseteq Event, NEW e \in es
  PROVE  /\ IsFiniteSet(es \ {e}) /\ Count(es \ {e}) \in Int
         /\ Count(es) = e.count + Count(es \ {e})
PROOF
<1>1. IsFiniteSet(es \ {e}) /\ (es \ {e}) \cup {e} = es /\ e \notin es \ {e} /\ e \in Event /\ es \ {e} \subseteq Event
  BY FS_RemoveElement
<1> QED BY <1>1, CountAdd

LEMMA IdsAdd == \A es, e : IdsOf(es \cup {e}) = IdsOf(es) \cup e.ids
PROOF
<1>1. ASSUME NEW es, NEW e PROVE IdsOf(es \cup {e}) = IdsOf(es) \cup e.ids
  <2>1. \A x : x \in IdsOf(es \cup {e}) <=> \E f \in es \cup {e} : x \in f.ids
    BY DEF IdsOf
  <2>2. \A x : x \in IdsOf(es) <=> \E f \in es : x \in f.ids
    BY DEF IdsOf
  <2> QED BY <2>1, <2>2
<1> QED BY <1>1

\* An event that shares no alert with others is none of them.
LEMMA FreshEvent ==
  ASSUME NEW es, NEW e, e.ids # {}, e.ids \cap IdsOf(es) = {}
  PROVE  e \notin es /\ \A f \in es : f.ids \cap e.ids = {}
BY DEF IdsOf

\* out has f in the place of e.
Replaces(es, e, f, out) ==
  /\ Alerted(out) /\ Count(es) \in Int
  /\ Count(out) = Count(es) - e.count + f.count
  /\ IdsOf(out) = IdsOf(es) \cup f.ids

\* To replace an event by one of the same alerts, and possibly more.
LEMMA Replaced ==
  ASSUME NEW es, Alerted(es), NEW e \in es, NEW f \in Event, e.ids \subseteq f.ids,
         f.ids \cap IdsOf(es \ {e}) = {}
  PROVE  Replaces(es, e, f, (es \ {e}) \cup {f})
PROOF
<1> DEFINE rest == es \ {e}
<1>1. IsFiniteSet(rest) /\ rest \subseteq Event /\ Count(rest) \in Int /\ Count(es) = e.count + Count(rest)
  BY CountRemove DEF Alerted
<1>2. f.ids # {} /\ f.ids \cap IdsOf(rest) = {}
  BY DEF Alerted
<1>3. f \notin rest /\ \A g \in rest : g.ids \cap f.ids = {}
  <2> HIDE DEF rest
  <2> QED BY <1>2, FreshEvent
<1>4. IsFiniteSet(rest \cup {f}) /\ Count(rest \cup {f}) = f.count + Count(rest)
  <2> HIDE DEF rest
  <2> QED BY <1>1, <1>3, CountAdd
<1>5. Alerted(rest \cup {f})
  <2>1. rest \cup {f} \subseteq Event /\ \A g \in rest \cup {f} : g.ids # {}
    BY <1>2 DEF Alerted
  <2>2. Apart(rest \cup {f})
    BY <1>3 DEF Alerted, Apart
  <2> HIDE DEF rest
  <2> QED BY <1>4, <2>1, <2>2 DEF Alerted
<1>6. e.count \in Int /\ f.count \in Int
  BY DEF Alerted, Event
<1>7. Count(rest \cup {f}) = Count(es) - e.count + f.count /\ Count(es) \in Int
  <2> HIDE DEF rest
  <2> QED BY <1>1, <1>4, <1>6, SMT
<1>8. IdsOf(rest \cup {f}) = IdsOf(es) \cup f.ids
  <2>1. es = rest \cup {e}
    OBVIOUS
  <2> HIDE DEF rest
  <2>2. IdsOf(rest \cup {f}) = IdsOf(rest) \cup f.ids
    BY IdsAdd
  <2>3. IdsOf(es) = IdsOf(rest) \cup e.ids
    BY <2>1, IdsAdd
  <2> QED BY <2>2, <2>3
<1> QED BY <1>5, <1>7, <1>8 DEF Replaces

-----------------------------------------------------------------------------
\* What a pass over the events s has made of them: it counts the same alerts, and
\* no two of its clusters would be merged.
Passed(s, out) ==
  /\ Alerted(out) /\ Separate(out)
  /\ Count(out) = Count(s) /\ IdsOf(out) = IdsOf(s)
  /\ \A o \in out : \E e \in s : o.at = e.at

LEMMA AbsorbPassed ==
  ASSUME NEW s, Alerted(s), NEW e \in s, \A f \in s : f.at <= e.at,
         NEW out, Passed(s \ {e}, out)
  PROVE  Passed(s, Absorb(out, e))
PROOF
<1> DEFINE rest == s \ {e}
<1>1. /\ e \in Event /\ e.ids # {} /\ e.at \in Nat /\ e.count \in Int
      /\ rest \subseteq Event /\ Count(rest) \in Int /\ Count(s) = e.count + Count(rest)
  BY CountRemove DEF Alerted, Event
<1>2. e.ids \cap IdsOf(rest) = {} /\ IdsOf(s) = IdsOf(rest) \cup e.ids
  <2>1. \A f \in rest : e.ids \cap f.ids = {}
    BY DEF Alerted, Apart
  <2>2. rest \cup {e} = s
    OBVIOUS
  <2> HIDE DEF rest
  <2>3. IdsOf(s) = IdsOf(rest) \cup e.ids
    BY <2>2, IdsAdd
  <2> QED BY <2>1, <2>3 DEF IdsOf
<1>3. Alerted(out) /\ Separate(out) /\ Count(out) = Count(rest) /\ IdsOf(out) = IdsOf(rest)
  BY DEF Passed
<1>4. \A o \in out : o \in Event /\ o.at \in Nat /\ o.at <= e.at /\ \E f \in s : o.at = f.at
  <2>1. \A o \in out : o \in Event /\ o.at \in Nat
    BY <1>3 DEF Alerted, Event
  <2>2. \A o \in out : \E f \in rest : o.at = f.at
    BY DEF Passed
  <2> QED BY <2>1, <2>2
<1> HIDE DEF rest
<1>5. CASE \E first \in out : SameCluster(first, e)
  <2> DEFINE first == CHOOSE first \in out : SameCluster(first, e)
             m == Merge(first, e)
  <2>1. first \in out /\ SameCluster(first, e)
    BY <1>5
  <2>2. Absorb(out, e) = (out \ {first}) \cup {m}
    BY <1>5 DEF Absorb
  <2> HIDE DEF first
  <2>3. first \in Event /\ first.count \in Nat \ {0} /\ first.ids \in SUBSET Nat
    BY <1>4, <2>1 DEF Event
  <2>4. /\ m.at = first.at /\ m.district = first.district /\ m.level = first.level
        /\ m.ids = first.ids \cup e.ids /\ m.count = first.count + e.count
        /\ m.sent = first.sent /\ m.failed = first.failed
    BY <2>3 DEF Merge, Event
  <2>5. m \in Event
    <3>1. first.count + e.count \in Nat \ {0}
      <4>1. e.count \in Nat \ {0}
        BY <1>1 DEF Event
      <4> QED BY <2>3, <4>1, SMT
    <3>2. first.ids \cup e.ids \in SUBSET Nat
      BY <1>1, <2>3 DEF Event
    <3> QED BY <2>3, <3>1, <3>2 DEF Merge, Event
  <2> HIDE DEF m
  <2>6. m.ids \cap IdsOf(out \ {first}) = {}
    <3>1. \A g \in out \ {first} : g.ids \cap first.ids = {}
      BY <1>3, <2>1 DEF Alerted, Apart
    <3>2. IdsOf(out \ {first}) \subseteq IdsOf(out) /\ IdsOf(out \ {first}) \cap first.ids = {}
      BY <3>1 DEF IdsOf
    <3> QED BY <1>2, <1>3, <2>4, <3>2
  <2>7. /\ Alerted((out \ {first}) \cup {m}) /\ Count(out) \in Int
        /\ Count((out \ {first}) \cup {m}) = Count(out) - first.count + m.count
        /\ IdsOf((out \ {first}) \cup {m}) = IdsOf(out) \cup m.ids
    <3>1. first.ids \subseteq m.ids
      BY <2>4
    <3>2. Replaces(out, first, m, (out \ {first}) \cup {m})
      BY <1>3, <2>1, <2>5, <2>6, <3>1, Replaced
    <3> QED BY <3>2 DEF Replaces
  <2>8. Count((out \ {first}) \cup {m}) = Count(s)
    BY <1>1, <1>3, <2>3, <2>4, <2>7, SMT
  <2>9. IdsOf((out \ {first}) \cup {m}) = IdsOf(s)
    <3>1. first.ids \subseteq IdsOf(out)
      BY <2>1 DEF IdsOf
    <3> QED BY <1>2, <1>3, <2>4, <2>7, <3>1
  <2>10. Separate((out \ {first}) \cup {m})
    <3>1. \A o : (SameCluster(o, m) <=> SameCluster(o, first)) /\ (SameCluster(m, o) <=> SameCluster(first, o))
      BY <2>4 DEF SameCluster
    <3> QED BY <1>3, <2>1, <2>4, <3>1 DEF Separate
  <2>11. \A o \in (out \ {first}) \cup {m} : \E f \in s : o.at = f.at
    BY <1>4, <2>1, <2>4
  <2> QED BY <2>2, <2>7, <2>8, <2>9, <2>10, <2>11 DEF Passed
<1>6. CASE ~\E first \in out : SameCluster(first, e)
  <2>1. Absorb(out, e) = out \cup {e}
    BY <1>6 DEF Absorb
  <2>2. e \notin out /\ \A o \in out : o.ids \cap e.ids = {}
    BY <1>1, <1>2, <1>3, FreshEvent
  <2>3. IsFiniteSet(out \cup {e}) /\ Count(out \cup {e}) = e.count + Count(out)
    BY <1>1, <1>3, <2>2, CountAdd DEF Alerted
  <2>4. Alerted(out \cup {e})
    BY <1>1, <1>3, <2>2, <2>3 DEF Alerted, Apart
  <2>5. IdsOf(out \cup {e}) = IdsOf(s)
    BY <1>2, <1>3, IdsAdd
  <2>6. Separate(out \cup {e})
    <3>1. ASSUME NEW o \in out PROVE ~SameCluster(o, e) /\ ~(e.at <= o.at /\ SameCluster(e, o))
      <4>1. ~SameCluster(o, e)
        BY <1>6
      <4>2. o.at \in Nat /\ o.at <= e.at
        BY <1>4
      <4>3. e.at <= o.at /\ SameCluster(e, o) => SameCluster(o, e)
        BY <1>1, <4>2, SMT DEF SameCluster, WindowUnits
      <4> QED BY <4>1, <4>3
    <3> QED BY <1>3, <3>1 DEF Separate
  <2>7. \A o \in out \cup {e} : \E f \in s : o.at = f.at
    BY <1>4
  <2> QED BY <1>1, <1>3, <2>1, <2>3, <2>4, <2>5, <2>6, <2>7 DEF Passed
<1> QED BY <1>5, <1>6

LEMMA NewestIsLast ==
  ASSUME NEW s, Alerted(s), s # {}
  PROVE  Newest(s) \in s /\ \A f \in s : f.at <= Newest(s).at
PROOF
<1> DEFINE key == [e \in s |-> -e.at]
<1>1. \A e \in s : e.at \in Int /\ key[e] \in Int /\ key[e] = -e.at
  BY SMT DEF Alerted, Event
<1> HIDE DEF key
<1>2. PICK e \in s : \A f \in s : key[e] <= key[f]
  BY <1>1, LeastOfFinite DEF Alerted
<1>3. \A f \in s : f.at <= e.at
  BY <1>1, <1>2, SMT
<1> QED BY <1>3 DEF Newest

LEMMA SomeAlerted ==
  ASSUME NEW es, Alerted(es), NEW s \in SUBSET es
  PROVE  Alerted(s)
BY FS_Subset DEF Alerted, Apart

LEMMA AbsorbType ==
  ASSUME NEW out \in SUBSET Event, NEW e \in Event
  PROVE  Absorb(out, e) \in SUBSET Event
PROOF
<1>1. CASE \E first \in out : SameCluster(first, e)
  <2> DEFINE first == CHOOSE first \in out : SameCluster(first, e)
  <2>1. first \in out
    BY <1>1
  <2>2. Absorb(out, e) = (out \ {first}) \cup {Merge(first, e)}
    BY <1>1 DEF Absorb
  <2> HIDE DEF first
  <2>3. first \in Event
    BY <2>1
  <2>4. first.count + e.count \in Nat \ {0}
    <3>1. first.count \in Nat \ {0} /\ e.count \in Nat \ {0}
      BY <2>3 DEF Event
    <3> QED BY <3>1, SMT
  <2>5. first.ids \cup e.ids \in SUBSET Nat
    BY <2>3 DEF Event
  <2>6. Merge(first, e) \in Event
    BY <2>3, <2>4, <2>5 DEF Merge, Event
  <2> QED BY <2>2, <2>6
<1>2. CASE ~\E first \in out : SameCluster(first, e)
  BY <1>2 DEF Absorb
<1> QED BY <1>1, <1>2

\* The pass over all events, in the order of their times.
LEMMA DeduplicatedPassed ==
  ASSUME NEW es, Alerted(es)
  PROVE  Passed(es, Deduplicated(es))
PROOF
<1> DEFINE Equation(it) == it = [s \in SUBSET es |->
                IF s = {} THEN {} ELSE Absorb(it[s \ {Newest(s)}], Newest(s))]
           pass == CHOOSE it : Equation(it)
<1>1. Deduplicated(es) = pass[es]
  BY DEF Deduplicated, MapThenFoldSet
<1>2. IsFiniteSet(es) /\ es \subseteq Event
  BY DEF Alerted
<1>3. \A s \in SUBSET es : s # {} => Newest(s) \in s
  BY SomeAlerted, NewestIsLast
<1>4. \E it : Equation(it)
  <2> DEFINE V == SUBSET Event
             pick == [s \in SUBSET es |-> Newest(s)]
             step == [p \in es \X V |-> Absorb(p[2], p[1])]
  <2>1. \A s \in SUBSET es : s # {} => pick[s] \in s
    BY <1>3
  <2>2. \A x \in es, v \in V : step[<<x, v>>] = Absorb(v, x)
    OBVIOUS
  <2>3. \A x \in es, v \in V : Absorb(v, x) \in V
    BY <1>2, AbsorbType
  <2>4. \A s \in SUBSET es : pick[s] = Newest(s)
    OBVIOUS
  <2>5. {} \in V
    OBVIOUS
  <2> HIDE DEF pick, step, V
  <2>6. \E it \in [SUBSET es -> V] : Recurs(it, es, {}, pick, step)
    <3>1. \A x \in es, v \in V : step[<<x, v>>] \in V
      BY <2>2, <2>3
    <3> QED BY <1>2, <2>1, <2>5, <3>1, SubsetRecursion, Zenon
  <2>7. PICK it \in [SUBSET es -> V] :
          \A s \in SUBSET es : it[s] = IF s = {} THEN {} ELSE step[<<pick[s], it[s \ {pick[s]}]>>]
    BY <2>6 DEF Recurs
  <2>8. ASSUME NEW s \in SUBSET es
        PROVE  it[s] = IF s = {} THEN {} ELSE Absorb(it[s \ {Newest(s)}], Newest(s))
    <3>1. CASE s = {}
      BY <2>7, <3>1
    <3>2. CASE s # {}
      <4>1. Newest(s) \in es /\ s \ {Newest(s)} \in SUBSET es /\ pick[s] = Newest(s)
        BY <1>3, <2>4, <3>2
      <4>2. it[s \ {Newest(s)}] \in V
        BY <2>7, <4>1
      <4> QED BY <2>2, <2>7, <3>2, <4>1, <4>2
    <3> QED BY <3>1, <3>2
  <2>9. Equation(it)
    BY <2>7, <2>8
  <2> QED BY <2>9
<1>5. Equation(pass)
  <2> HIDE DEF Equation
  <2> QED BY <1>4, Zenon
<1> HIDE DEF pass
<1>6. \A s \in SUBSET es : pass[s] = IF s = {} THEN {} ELSE Absorb(pass[s \ {Newest(s)}], Newest(s))
  <2>1. ASSUME NEW it, NEW jt, it = [s \in SUBSET es |-> IF s = {} THEN {} ELSE Absorb(jt[s \ {Newest(s)}], Newest(s))]
        PROVE  \A s \in SUBSET es : it[s] = IF s = {} THEN {} ELSE Absorb(jt[s \ {Newest(s)}], Newest(s))
    BY <2>1
  <2> QED BY <1>5, <2>1, Zenon
<1> HIDE DEF Equation
<1> DEFINE Q == {s \in SUBSET es : Passed(s, pass[s])}
<1>7. ASSUME NEW s \in SUBSET es, \A t \in SUBSET s : t # s => t \in Q
      PROVE  s \in Q
  <2>1. CASE s = {}
    <3>1. pass[s] = {}
      BY <1>6, <2>1
    <3>2. Passed({}, {})
      BY FS_EmptySet DEF Passed, Alerted, Apart, Separate
    <3> QED BY <2>1, <3>1, <3>2
  <2>2. CASE s # {}
    <3> DEFINE e == Newest(s)
    <3>1. Alerted(s)
      BY SomeAlerted
    <3>2. e \in s /\ \A f \in s : f.at <= e.at
      BY <2>2, <3>1, NewestIsLast
    <3>3. pass[s] = Absorb(pass[s \ {e}], e)
      BY <1>6, <2>2
    <3> HIDE DEF e
    <3>4. Passed(s \ {e}, pass[s \ {e}])
      BY <1>7, <3>2
    <3>5. Passed(s, pass[s])
      BY <3>1, <3>2, <3>3, <3>4, AbsorbPassed
    <3> QED BY <3>5
  <2> QED BY <2>1, <2>2
<1> HIDE DEF Q
<1>8. \A s \in SUBSET es : s \in Q
  BY <1>2, <1>7, SubsetInduction, Zenon
<1> QED BY <1>1, <1>8 DEF Q

-----------------------------------------------------------------------------
\* The events stand for the alerts raised.
AlertInv ==
  /\ clock \in 0..MaxClock /\ raised \in 0..MaxAlerts /\ merged \in BOOLEAN
  /\ Alerted(events) /\ Count(events) = raised /\ IdsOf(events) = 1..raised
  /\ \A e \in events : e.at <= clock
  /\ merged => Separate(events)

LEMMA ClassifiedLevel == \A anomalies, signals : classify(anomalies, signals) \in Levels
BY SMT DEF classify, Levels

LEMMA AlertKept == (Init => AlertInv) /\ (AlertInv /\ [Next]_vars => AlertInv')
PROOF
<1>0. MaxAlerts \in Nat /\ MaxClock \in Nat
  BY AlertAssumption
<1>1. Init => AlertInv
  <2> SUFFICES ASSUME Init PROVE AlertInv
    OBVIOUS
  <2>1. clock = 0 /\ events = {} /\ raised = 0 /\ merged = FALSE
    BY DEF Init, AlertInit
  <2>2. Alerted({}) /\ IdsOf({}) = {} /\ Separate({})
    BY FS_EmptySet DEF Alerted, Apart, IdsOf, Separate
  <2>3. Count({}) = 0
    <3> DEFINE f == [e \in {} |-> e.count]
    <3>1. DOMAIN f = {}
      OBVIOUS
    <3> HIDE DEF f
    <3>2. Total(f) = 0
      BY <3>1, TotalEmpty
    <3> QED BY <3>2 DEF f, Count
  <2>4. 1..0 = {}
    BY SMT
  <2>5. 0 \in 0..MaxAlerts /\ 0 \in 0..MaxClock
    BY <1>0, SMT
  <2> QED BY <2>1, <2>2, <2>3, <2>4, <2>5, Zenon DEF AlertInv
<1>2. ASSUME AlertInv, NEW d \in Districts, Raise(d) PROVE AlertInv'
  <2>1. PICK anomalies \in AnomalySets, signals \in BOOLEAN :
          events' = events \cup {[at |-> clock, district |-> d, level |-> classify(anomalies, signals),
                                  ids |-> {raised + 1}, count |-> 1, sent |-> {}, failed |-> {}]}
    BY <1>2 DEF Raise
  <2> DEFINE e == [at |-> clock, district |-> d, level |-> classify(anomalies, signals),
                   ids |-> {raised + 1}, count |-> 1, sent |-> {}, failed |-> {}]
  <2>2. /\ raised \in Nat /\ clock \in Nat /\ raised < MaxAlerts /\ raised' = raised + 1 /\ merged' = FALSE
        /\ clock' = clock /\ raised + 1 \notin 1..raised /\ 1..raised + 1 = 1..raised \cup {raised + 1}
        /\ raised + 1 \in 0..MaxAlerts /\ clock <= clock
    BY <1>0, <1>2, SMT DEF Raise, AlertInv
  <2>3. e \in Event
    <3>1. 1 \in Nat \ {0} /\ {raised + 1} \in SUBSET Nat
      BY <2>2, SMT
    <3> QED BY <2>2, <3>1, ClassifiedLevel DEF Event
  <2>4. e.ids = {raised + 1} /\ e.count = 1 /\ e.at = clock
    OBVIOUS
  <2>5. events' = events \cup {e}
    BY <2>1
  <2> HIDE DEF e
  <2>6. e \notin events /\ \A f \in events : f.ids \cap e.ids = {}
    <3>1. IdsOf(events) = 1..raised
      BY <1>2 DEF AlertInv
    <3>2. e.ids # {} /\ e.ids \cap IdsOf(events) = {}
      BY <2>2, <2>4, <3>1, Zenon
    <3> QED BY <3>2, FreshEvent
  <2>7. IsFiniteSet(events \cup {e}) /\ Count(events \cup {e}) = 1 + raised
    BY <1>2, <2>3, <2>4, <2>6, CountAdd DEF AlertInv, Alerted
  <2>8. Alerted(events')
    BY <1>2, <2>3, <2>4, <2>5, <2>6, <2>7 DEF AlertInv, Alerted, Apart
  <2>9. IdsOf(events') = 1..raised'
    BY <1>2, <2>2, <2>4, <2>5, IdsAdd DEF AlertInv
  <2>10. Count(events') = raised'
    BY <2>2, <2>5, <2>7, SMT
  <2>11. \A f \in events' : f.at <= clock'
    BY <1>2, <2>2, <2>4, <2>5 DEF AlertInv
  <2> QED BY <1>2, <2>2, <2>8, <2>9, <2>10, <2>11 DEF AlertInv
<1>3. ASSUME AlertInv, NEW e \in events, Send(e) PROVE AlertInv'
  <2>1. PICK ok \in SUBSET (ALERT_ROUTING[e.level] \cap Channels) :
          events' = (events \ {e}) \cup {[e EXCEPT !.sent = ok, !.failed = (ALERT_ROUTING[e.level] \cap Channels) \ ok]}
    BY <1>3 DEF Send
  <2> DEFINE failed == (ALERT_ROUTING[e.level] \cap Channels) \ ok
             f == [e EXCEPT !.sent = ok, !.failed = failed]
  <2>2. e \in Event /\ e.ids # {}
    BY <1>3 DEF AlertInv, Alerted
  <2>3. ok \in SUBSET Channels /\ failed \in SUBSET Channels
    OBVIOUS
  <2>4. events' = (events \ {e}) \cup {f}
    BY <2>1
  <2> HIDE DEF failed
  <2>5. /\ f \in Event /\ f.ids = e.ids /\ f.count = e.count /\ f.at = e.at
        /\ f.district = e.district /\ f.level = e.level
    BY <2>2, <2>3 DEF Event
  <2> HIDE DEF f
  <2>6. f.ids \cap IdsOf(events \ {e}) = {}
    <3>1. \A g \in events \ {e} : g.ids \cap e.ids = {}
      BY <1>3 DEF AlertInv, Alerted, Apart
    <3> QED BY <2>5, <3>1 DEF IdsOf
  <2>7. /\ Alerted((events \ {e}) \cup {f}) /\ Count(events) \in Int
        /\ Count((events \ {e}) \cup {f}) = Count(events) - e.count + f.count
        /\ IdsOf((events \ {e}) \cup {f}) = IdsOf(events) \cup f.ids
    <3>1. Alerted(events) /\ e.ids \subseteq f.ids
      BY <1>3, <2>5 DEF AlertInv
    <3>2. Replaces(events, e, f, (events \ {e}) \cup {f})
      BY <2>5, <2>6, <3>1, Replaced
    <3> QED BY <3>2 DEF Replaces
  <2>8. Count(events') = Count(events)
    <3>1. e.count \in Int
      BY <2>2 DEF Event
    <3> QED BY <2>4, <2>5, <2>7, <3>1, SMT
  <2>9. IdsOf(events') = IdsOf(events)
    <3>1. e.ids \subseteq IdsOf(events)
      BY DEF IdsOf
    <3> QED BY <2>4, <2>5, <2>7, <3>1
  <2>10. Separate(events) => Separate(events')
    <3>1. \A o : (SameCluster(o, f) <=> SameCluster(o, e)) /\ (SameCluster(f, o) <=> SameCluster(e, o))
      BY <2>5 DEF SameCluster
    <3> QED BY <2>4, <2>5, <3>1 DEF Separate
  <2>11. \A g \in events' : g.at <= clock
    BY <1>3, <2>4, <2>5 DEF AlertInv
  <2>12. UNCHANGED <<clock, raised, merged>>
    BY <1>3 DEF Send
  <2> QED BY <1>3, <2>4, <2>7, <2>8, <2>9, <2>10, <2>11, <2>12 DEF AlertInv
<1>4. ASSUME AlertInv, Deduplicate PROVE AlertInv'
  <2>1. Passed(events, Deduplicated(events))
    BY <1>4, DeduplicatedPassed DEF AlertInv
  <2>2. events' = Deduplicated(events) /\ merged' = TRUE /\ UNCHANGED <<clock, raised>>
    BY <1>4 DEF Deduplicate
  <2>3. \A o \in events' : o.at <= clock
    BY <1>4, <2>1, <2>2 DEF Passed, AlertInv
  <2> QED BY <1>4, <2>1, <2>2, <2>3 DEF Passed, AlertInv
<1>5. ASSUME AlertInv, AlertTick PROVE AlertInv'
  <2>1. clock \in Int /\ clock' = clock + 1 /\ clock' \in 0..MaxClock /\ UNCHANGED <<events, raised, merged>>
    BY <1>0, <1>5, SMT DEF AlertTick, AlertInv
  <2>2. \A e \in events : e.at <= clock'
    <3>1. \A e \in events : e.at \in Int /\ e.at <= clock
      BY <1>5 DEF AlertInv, Alerted, Event
    <3> QED BY <2>1, <3>1, SMT
  <2> QED BY <1>5, <2>1, <2>2 DEF AlertInv
<1>6. AlertInv /\ UNCHANGED alertVars => AlertInv'
  BY DEF AlertInv, alertVars
<1>7. [Next]_vars => UNCHANGED alertVars \/ AlertNext
  BY DEF Next, vars, Judge, Watch, Notify, LookBack, Answer, Prepare
<1> QED BY <1>1, <1>2, <1>3, <1>4, <1>5, <1>6, <1>7 DEF AlertNext

\* However often and whenever alerts are merged, each one raised is counted once
\* and belongs to one event, and after a merge no two events of a district and
\* level lie within the window: sorted by time, an event that starts a cluster is
\* later than the window of every cluster of its key (alert_manager.py,
\* deduplicate).
THEOREM MergesConserve == Spec => []DedupConserves
PROOF
<1>1. AlertInv => DedupConserves
  BY DEF AlertInv, DedupConserves, Count, Total, IdsOf, Alerted, Apart, Separate
<1> QED BY <1>1, AlertKept, PTL DEF Spec

LEMMA CountNatural ==
  ASSUME NEW es, IsFiniteSet(es), es \subseteq Event
  PROVE  Count(es) \in Int /\ Count(es) >= 0
PROOF
<1> DEFINE f == [e \in es |-> e.count]
           zeros == [e \in es |-> 0]
<1>1. \A e \in es : f[e] \in Int /\ 0 <= f[e] /\ zeros[e] = 0
  BY SMT DEF Event
<1>2. DOMAIN f = es /\ DOMAIN zeros = es
  OBVIOUS
<1>3. Count(es) = Total(f)
  BY DEF Count
<1> HIDE DEF f, zeros
<1>4. Numbers(f) /\ Numbers(zeros)
  BY <1>1, <1>2, SMT DEF Numbers
<1>5. Total(zeros) = Cardinality(es) * 0
  BY <1>1, <1>2, <1>4, TotalConstant
<1>6. Total(zeros) <= Total(f) /\ Total(f) \in Int
  BY <1>1, <1>2, <1>4, TotalOrder, TotalType
<1>7. Cardinality(es) \in Nat
  BY FS_CardinalityType
<1> QED BY <1>3, <1>5, <1>6, <1>7, SMT

LEMMA AlertTyped == AlertInv => AlertTypeOK
PROOF
<1> SUFFICES ASSUME AlertInv, NEW e \in events
             PROVE  /\ e.at \in 0..clock /\ e.district \in Districts /\ e.level \in Levels
                    /\ e.ids \subseteq 1..raised /\ e.count \in 1..raised
                    /\ e.sent \cup e.failed \subseteq Channels
  BY DEF AlertInv, AlertTypeOK
<1>1. e \in Event /\ e.at \in Nat /\ e.at <= clock /\ e.count \in Nat \ {0}
  BY DEF AlertInv, Alerted, Event
<1>2. e.at \in 0..clock
  BY <1>1, AlertAssumption, SMT DEF AlertInv
<1>3. e.ids \subseteq 1..raised
  BY DEF AlertInv, IdsOf
<1>4. e.count \in 1..raised
  <2>1. Count(events) = raised /\ IsFiniteSet(events) /\ events \subseteq Event
    BY DEF AlertInv, Alerted
  <2>2. IsFiniteSet(events \ {e}) /\ raised = e.count + Count(events \ {e}) /\ events \ {e} \subseteq Event
    BY <2>1, CountRemove
  <2>3. Count(events \ {e}) \in Int /\ Count(events \ {e}) >= 0
    BY <2>2, CountNatural
  <2>4. \A n \in Nat \ {0}, k \in Int : k >= 0 => n \in 1..n + k
    BY SMT
  <2> QED BY <1>1, <2>2, <2>3, <2>4, Zenon
<1> QED BY <1>1, <1>2, <1>3, <1>4 DEF Event

-----------------------------------------------------------------------------
(***************************************************************************)
(* The prices of districts.                                                *)
(***************************************************************************)
\* The months of rows of which no two have the same are as many as the rows.
LEMMA MonthsCount ==
  ASSUME NEW rs, NEW ms, IsFiniteSet(ms), \A r \in rs : r.month \in ms,
         \A m \in ms : \E r \in rs : r.month = m,
         \A q, r \in rs : q.month = r.month => q = r
  PROVE  Cardinality(rs) = Cardinality(ms)
PROOF
<1> DEFINE f == [r \in rs |-> r.month]
<1>1. f \in [rs -> ms]
  OBVIOUS
<1>2. f \in Injection(rs, ms)
  BY <1>1 DEF Injection, IsInjective
<1>3. f \in Surjection(rs, ms)
  BY <1>1 DEF Surjection
<1> HIDE DEF f
<1> QED BY <1>2, <1>3, FS_Injection

\* How many of the months are not after one.
Rank(ms, m) == Cardinality({k \in ms : k <= m})

\* A rank is that of one month, and every number of months up to all is a rank.
LEMMA RanksAreOneToOne ==
  ASSUME NEW ms \in SUBSET Int, IsFiniteSet(ms)
  PROVE  /\ Cardinality(ms) \in Nat
         /\ \A m \in ms : Rank(ms, m) \in 1..Cardinality(ms)
         /\ \A m, k \in ms : Rank(ms, m) = Rank(ms, k) => m = k
         /\ \A i \in 1..Cardinality(ms) : \E m \in ms : Rank(ms, m) = i
PROOF
<1> DEFINE Upto(m) == {k \in ms : k <= m}
           n == Cardinality(ms)
<1>1. n \in Nat
  BY FS_CardinalityType
<1>2. ASSUME NEW m \in ms
      PROVE  IsFiniteSet(Upto(m)) /\ Rank(ms, m) \in Nat /\ Rank(ms, m) <= n /\ Rank(ms, m) # 0
  <2>1. IsFiniteSet(Upto(m)) /\ Cardinality(Upto(m)) <= n
    <3>1. Upto(m) \in SUBSET ms
      OBVIOUS
    <3> HIDE DEF Upto
    <3> QED BY <3>1, FS_Subset
  <2>2. m \in Upto(m)
    BY SMT
  <2>3. Rank(ms, m) = Cardinality(Upto(m))
    BY DEF Rank
  <2> HIDE DEF Upto, n
  <2>4. Cardinality(Upto(m)) \in Nat
    BY <2>1, FS_CardinalityType, Zenon
  <2>5. Cardinality(Upto(m)) # 0
    BY <2>1, <2>2, FS_EmptySet, Zenon
  <2> QED BY <2>1, <2>3, <2>4, <2>5
<1>3. ASSUME NEW m \in ms, NEW k \in ms, m < k, Rank(ms, m) = Rank(ms, k)
      PROVE  FALSE
  <2>1. Upto(m) \in SUBSET Upto(k)
    <3>1. ASSUME NEW x \in ms, x <= m PROVE x <= k
      <4>1. x \in Int /\ m \in Int /\ k \in Int
        OBVIOUS
      <4> QED BY <1>3, <3>1, <4>1, SMT
    <3> QED BY <3>1
  <2>2. k \in Upto(k) /\ k \notin Upto(m)
    BY <1>3, SMT
  <2>3. IsFiniteSet(Upto(k)) /\ Cardinality(Upto(k)) = Cardinality(Upto(m))
    BY <1>2, <1>3 DEF Rank
  <2> HIDE DEF Upto
  <2>4. Upto(k) = Upto(m)
    BY <2>1, <2>3, FS_Subset, Zenon
  <2> QED BY <2>2, <2>4
<1> DEFINE f == [m \in ms |-> Rank(ms, m)]
<1>4. \A m \in ms : Rank(ms, m) \in 1..n
  <2> HIDE DEF n
  <2> SUFFICES ASSUME NEW m \in ms PROVE Rank(ms, m) \in 1..n
    OBVIOUS
  <2>1. Rank(ms, m) \in Nat /\ Rank(ms, m) <= n /\ Rank(ms, m) # 0
    BY <1>2, Zenon
  <2> QED BY <1>1, <2>1, SMT
<1>5. \A m, k \in ms : Rank(ms, m) = Rank(ms, k) => m = k
  <2> SUFFICES ASSUME NEW m \in ms, NEW k \in ms, Rank(ms, m) = Rank(ms, k), m # k PROVE FALSE
    OBVIOUS
  <2>1. m < k \/ k < m
    BY SMT
  <2> QED BY <1>3, <2>1
<1>6. f \in Injection(ms, 1..n)
  BY <1>4, <1>5 DEF Injection, IsInjective
<1>7. f \in Surjection(ms, 1..n)
  <2>1. IsFiniteSet(1..n) /\ Cardinality(1..n) = n
    <3> HIDE DEF n
    <3>1. 1 \in Int /\ n \in Int /\ (IF 1 > n THEN 0 ELSE n - 1 + 1) = n
      BY <1>1, SMT
    <3> QED BY <3>1, FS_Interval
  <2> HIDE DEF f
  <2> QED BY <1>6, <2>1, FS_Injection
<1>8. \A i \in 1..n : \E m \in ms : Rank(ms, m) = i
  BY <1>7 DEF Surjection
<1> QED BY <1>1, <1>4, <1>5, <1>8

\* Rows of the months ms, one of each.
OneOfEach(rs, ms) ==
  /\ ms \in SUBSET Int /\ IsFiniteSet(ms)
  /\ \A r \in rs : r.month \in ms
  /\ \A m \in ms : \E r \in rs : r.month = m
  /\ \A q, r \in rs : q.month = r.month => q = r

\* The row that i rows are not after is the one whose month has that rank.
RowAt(rs, i) == CHOOSE r \in rs : Cardinality({q \in rs : q.month <= r.month}) = i
LEMMA SortedRow ==
  ASSUME NEW rs, NEW ms, OneOfEach(rs, ms), NEW i \in 1..Cardinality(ms)
  PROVE  RowAt(rs, i) \in rs /\ Rank(ms, RowAt(rs, i).month) = i
PROOF
<1> DEFINE Rows(c) == {q \in rs : q.month <= c}
           Upto(c) == {k \in ms : k <= c}
           e == RowAt(rs, i)
<1>1. ASSUME NEW r \in rs PROVE Cardinality(Rows(r.month)) = Rank(ms, r.month)
  <2> DEFINE c == r.month
  <2>1. IsFiniteSet(Upto(c))
    <3>1. Upto(c) \in SUBSET ms
      OBVIOUS
    <3> HIDE DEF Upto
    <3> QED BY <3>1, FS_Subset DEF OneOfEach
  <2>2. /\ \A q \in Rows(c) : q.month \in Upto(c)
        /\ \A m \in Upto(c) : \E q \in Rows(c) : q.month = m
        /\ \A q, u \in Rows(c) : q.month = u.month => q = u
    BY DEF OneOfEach
  <2>3. Rank(ms, c) = Cardinality(Upto(c))
    BY DEF Rank
  <2> HIDE DEF Rows, Upto, c
  <2>4. Cardinality(Rows(c)) = Cardinality(Upto(c))
    BY <2>1, <2>2, MonthsCount, Zenon
  <2> QED BY <2>3, <2>4 DEF c
<1>2. PICK m \in ms : Rank(ms, m) = i
  BY RanksAreOneToOne DEF OneOfEach
<1>3. PICK r \in rs : r.month = m
  BY DEF OneOfEach
<1>4. Cardinality(Rows(r.month)) = i
  BY <1>1, <1>2, <1>3
<1>5. e = CHOOSE q \in rs : Cardinality(Rows(q.month)) = i
  BY DEF RowAt
<1> HIDE DEF Rows, e
<1>6. e \in rs /\ Cardinality(Rows(e.month)) = i
  BY <1>4, <1>5, Zenon
<1>7. e \in rs /\ Rank(ms, e.month) = i
  BY <1>1, <1>6
<1> QED BY <1>7 DEF e

\* The trades of a district, their months, and the rows made of them.
OwnTrades(ts, p) == {t \in ts : t.place = p}
MonthsOf(ts, p) == {t.month : t \in OwnTrades(ts, p)}
Group(ts, p) == {r \in Monthly(ts) : r.place = p}

TradesOf(ts, p, m) == {t \in ts : t.place = p /\ t.month = m}
DayOf(ts, p, m) == IF Duplicated(ts) THEN 1 ELSE (CHOOSE t \in TradesOf(ts, p, m) : TRUE).day
PriceOf(here) == Mean([i \in 1..Cardinality(here) |-> PricePerSqm(SetToSeq(here)[i])])

LEMMA RowParts ==
  \A ts, p, m :
    MonthRow(ts, p, m) = [place |-> p, month |-> m, day |-> DayOf(ts, p, m), value |-> PriceOf(TradesOf(ts, p, m))]
BY DEF MonthRow, DayOf, PriceOf, TradesOf

\* Only the trades of a district make its rows, apart from the days.
LEMMA OwnRows ==
  ASSUME NEW ts, NEW p
  PROVE  /\ OwnTrades(OwnTrades(ts, p), p) = OwnTrades(ts, p)
         /\ MonthsOf(OwnTrades(ts, p), p) = MonthsOf(ts, p)
         /\ \A m : TradesOf(OwnTrades(ts, p), p, m) = TradesOf(ts, p, m)
BY DEF OwnTrades, MonthsOf, TradesOf

LEMMA GroupRows ==
  ASSUME NEW ts, NEW p
  PROVE  Group(ts, p) = {MonthRow(ts, p, m) : m \in MonthsOf(ts, p)}
PROOF
<1>1. \A q, m : MonthRow(ts, q, m).place = q
  BY RowParts
<1>2. ASSUME NEW r \in Group(ts, p) PROVE r \in {MonthRow(ts, p, m) : m \in MonthsOf(ts, p)}
  <2>1. PICK t \in ts : r = MonthRow(ts, t.place, t.month)
    BY DEF Group, Monthly
  <2>2. t.place = p
    BY <1>1, <2>1 DEF Group
  <2>3. t.month \in MonthsOf(ts, p)
    BY <2>2 DEF MonthsOf, OwnTrades
  <2> QED BY <2>1, <2>2, <2>3
<1>3. ASSUME NEW m \in MonthsOf(ts, p) PROVE MonthRow(ts, p, m) \in Group(ts, p)
  <2>1. PICK t \in ts : t.place = p /\ t.month = m
    BY DEF MonthsOf, OwnTrades
  <2> QED BY <1>1, <2>1 DEF Group, Monthly
<1> QED BY <1>2, <1>3

LEMMA GroupOfEach ==
  ASSUME NEW ts, IsFiniteSet(ts), \A t \in ts : t.month \in Int, NEW p
  PROVE  OneOfEach(Group(ts, p), MonthsOf(ts, p))
PROOF
<1>1. \A m : MonthRow(ts, p, m).month = m
  BY RowParts
<1>2. IsFiniteSet(MonthsOf(ts, p))
  <2> DEFINE own == OwnTrades(ts, p)
             f == [t \in own |-> t.month]
  <2>1. f \in Surjection(own, MonthsOf(ts, p))
    BY DEF Surjection, MonthsOf
  <2>2. own \in SUBSET ts
    BY DEF OwnTrades
  <2> HIDE DEF own, f
  <2>3. IsFiniteSet(own)
    BY <2>2, FS_Subset
  <2> QED BY <2>1, <2>3, FS_Surjection
<1>3. MonthsOf(ts, p) \subseteq Int
  BY DEF MonthsOf, OwnTrades
<1> QED BY <1>1, <1>2, <1>3, GroupRows DEF OneOfEach

\* Row i of a district is that of the month of rank i.
LEMMA SeriesRows ==
  ASSUME NEW ts, IsFiniteSet(ts), \A t \in ts : t.month \in Int, NEW p
  PROVE  LET s == SeriesOf(Monthly(ts), p) IN
         /\ DOMAIN s = 1..Cardinality(MonthsOf(ts, p))
         /\ \A i \in DOMAIN s : \E m \in MonthsOf(ts, p) : Rank(MonthsOf(ts, p), m) = i /\ s[i] = MonthRow(ts, p, m)
PROOF
<1> DEFINE s == SeriesOf(Monthly(ts), p)
           rs == Group(ts, p)
           ms == MonthsOf(ts, p)
<1>1. OneOfEach(rs, ms)
  BY GroupOfEach
<1>2. s = [i \in 1..Cardinality(rs) |-> RowAt(rs, i)]
  BY DEF SeriesOf, Group, RowAt
<1>3. rs = {MonthRow(ts, p, m) : m \in ms}
  BY GroupRows
<1> HIDE DEF s, rs, ms
<1>4. Cardinality(rs) = Cardinality(ms)
  BY <1>1, MonthsCount DEF OneOfEach
<1>5. DOMAIN s = 1..Cardinality(ms)
  BY <1>2, <1>4
<1>6. ASSUME NEW i \in DOMAIN s
      PROVE  \E m \in ms : Rank(ms, m) = i /\ s[i] = MonthRow(ts, p, m)
  <2>1. s[i] = RowAt(rs, i)
    BY <1>2, <1>5, <1>4
  <2>2. s[i] \in rs /\ Rank(ms, s[i].month) = i
    <3>1. i \in 1..Cardinality(ms)
      BY <1>5
    <3>2. RowAt(rs, i) \in rs /\ Rank(ms, RowAt(rs, i).month) = i
      BY <1>1, <3>1, SortedRow, Zenon
    <3> QED BY <2>1, <3>2
  <2>3. PICK m \in ms : s[i] = MonthRow(ts, p, m)
    BY <1>3, <2>2
  <2>4. s[i].month = m
    BY <2>3, RowParts
  <2> QED BY <2>2, <2>3, <2>4
<1> QED BY <1>5, <1>6 DEF s, ms

-----------------------------------------------------------------------------
\* Trades are finitely many, of places and months that exist.
SoldInv ==
  /\ IsFiniteSet(sold) /\ Cardinality(sold) <= MaxSold
  /\ \A t \in sold : t.place \in Places /\ t.month \in Months

LEMMA SoldKept == (Init => SoldInv) /\ (SoldInv /\ [Next]_vars => SoldInv')
PROOF
<1>1. Init => SoldInv
  BY FS_EmptySet, TransformAssumption, SMT DEF Init, TransformInit, SoldInv
<1>2. ASSUME SoldInv, Sell PROVE SoldInv'
  <2>1. PICK p \in Places, m \in Months, d \in DaysOfMonth, q \in Quotes :
          sold' = sold \cup {[place |-> p, month |-> m, day |-> d, price |-> q[1], area |-> q[2]]}
    BY <1>2 DEF Sell
  <2> DEFINE t == [place |-> p, month |-> m, day |-> d, price |-> q[1], area |-> q[2]]
  <2>2. t.place = p /\ t.month = m
    OBVIOUS
  <2>3. sold' = sold \cup {t}
    BY <2>1
  <2> HIDE DEF t
  <2>4. /\ IsFiniteSet(sold')
        /\ Cardinality(sold') = Cardinality(sold) \/ Cardinality(sold') = Cardinality(sold) + 1
    BY <1>2, <2>3, FS_AddElement DEF SoldInv
  <2>5. Cardinality(sold') <= MaxSold
    <3>1. Cardinality(sold) \in Nat
      BY <1>2, FS_CardinalityType DEF SoldInv
    <3>2. Cardinality(sold) < MaxSold
      BY <1>2 DEF Sell
    <3> QED BY <2>4, <3>1, <3>2, TransformAssumption, SMT
  <2> QED BY <1>2, <2>2, <2>3, <2>4, <2>5 DEF SoldInv
<1>3. SoldInv /\ UNCHANGED sold => SoldInv'
  BY DEF SoldInv
<1>4. [Next]_vars => UNCHANGED sold \/ Sell
  BY DEF Next, vars, Judge, Watch, Notify, LookBack, Answer, Prepare
<1> QED BY <1>1, <1>2, <1>3, <1>4

\* Two series that agree on values.
LEMMA SameAverage ==
  ASSUME NEW s, NEW u, NEW n \in Nat, \A i \in 1..n : s[i].value = u[i].value,
         NEW i \in 1..n, NEW w \in Nat \ {0}
  PROVE  MovingAverage(s, i, w) = MovingAverage(u, i, w)
PROOF
<1>1. CASE i < w
  BY <1>1 DEF MovingAverage
<1>2. CASE ~(i < w)
  <2>1. \A k \in 1..w : i - w + k \in 1..n
    BY <1>2, SMT
  <2>2. [k \in 1..w |-> s[i - w + k].value] = [k \in 1..w |-> u[i - w + k].value]
    BY <2>1
  <2> QED BY <2>2 DEF MovingAverage
<1> QED BY <1>1, <1>2

LEMMA SameChange ==
  ASSUME NEW s, NEW u, NEW n \in Nat, \A i \in 1..n : s[i].value = u[i].value,
         NEW i \in 1..n, NEW k \in Nat \ {0}
  PROVE  PctChange(s, i, k) = PctChange(u, i, k)
PROOF
<1>1. CASE i <= k
  BY <1>1 DEF PctChange
<1>2. CASE ~(i <= k)
  <2>1. i - k \in 1..n
    BY <1>2, SMT
  <2>2. s[i - k].value = u[i - k].value /\ s[i].value = u[i].value
    BY <2>1
  <2> QED BY <2>2, Zenon DEF PctChange
<1> QED BY <1>1, <1>2

\* What a row is given, and the same without its day.
Averages(s, i) == [w \in MA_WINDOWS |-> MovingAverage(s, i, w)]
Given(s, i) == [row |-> s[i], ma |-> Averages(s, i),
                mom |-> PctChange(s, i, 1), yoy |-> PctChange(s, i, YearRows)]
Dayless(r) == [r EXCEPT !.row.day = 1]

\* A district's row at a place in time is alone what it is among others.
LEMMA SameRow ==
  ASSUME NEW ts, IsFiniteSet(ts), \A t \in ts : t.month \in Int, NEW p
  PROVE  LET s == SeriesOf(Monthly(ts), p)
             u == SeriesOf(Monthly(OwnTrades(ts, p)), p)
         IN /\ DOMAIN s = DOMAIN u
            /\ \A i \in DOMAIN s : s[i].place = p /\ u[i].place = p /\ Dayless(Given(s, i)) = Dayless(Given(u, i))
PROOF
<1> DEFINE own == OwnTrades(ts, p)
           s == SeriesOf(Monthly(ts), p)
           u == SeriesOf(Monthly(own), p)
           ms == MonthsOf(ts, p)
           n == Cardinality(ms)
<1>1. IsFiniteSet(own) /\ \A t \in own : t.month \in Int
  <2>1. own \in SUBSET ts
    BY DEF OwnTrades
  <2> HIDE DEF own
  <2> QED BY <2>1, FS_Subset
<1>2. MonthsOf(own, p) = ms /\ \A m : TradesOf(own, p, m) = TradesOf(ts, p, m)
  BY OwnRows
<1>3. /\ DOMAIN s = 1..n
      /\ \A i \in DOMAIN s : \E m \in ms : Rank(ms, m) = i /\ s[i] = MonthRow(ts, p, m)
  BY SeriesRows
<1>4. /\ DOMAIN u = 1..n
      /\ \A i \in DOMAIN u : \E m \in ms : Rank(ms, m) = i /\ u[i] = MonthRow(own, p, m)
  <2> HIDE DEF own, s, ms
  <2> QED BY <1>1, <1>2, SeriesRows
<1>5. OneOfEach(Group(ts, p), ms)
  BY GroupOfEach
<1>6. n \in Nat /\ \A m, k \in ms : Rank(ms, m) = Rank(ms, k) => m = k
  <2> HIDE DEF ms
  <2> QED BY <1>5, RanksAreOneToOne DEF OneOfEach
<1> HIDE DEF own, s, u, ms, n
<1>7. ASSUME NEW i \in 1..n
      PROVE  \E m : s[i] = MonthRow(ts, p, m) /\ u[i] = MonthRow(own, p, m)
  <2>1. PICK m \in ms : Rank(ms, m) = i /\ s[i] = MonthRow(ts, p, m)
    BY <1>3
  <2>2. PICK k \in ms : Rank(ms, k) = i /\ u[i] = MonthRow(own, p, k)
    BY <1>4
  <2> QED BY <1>6, <2>1, <2>2
<1>8. ASSUME NEW i \in 1..n
      PROVE  /\ s[i].place = p /\ u[i].place = p /\ s[i].value = u[i].value
             /\ [s[i] EXCEPT !.day = 1] = [u[i] EXCEPT !.day = 1]
  <2>1. PICK m : s[i] = MonthRow(ts, p, m) /\ u[i] = MonthRow(own, p, m)
    BY <1>7
  <2> DEFINE v == PriceOf(TradesOf(ts, p, m))
  <2>2. /\ s[i] = [place |-> p, month |-> m, day |-> DayOf(ts, p, m), value |-> v]
        /\ u[i] = [place |-> p, month |-> m, day |-> DayOf(own, p, m), value |-> v]
    BY <1>2, <2>1, RowParts
  <2> HIDE DEF v
  <2> QED BY <2>2
<1>9. ASSUME NEW i \in 1..n PROVE Dayless(Given(s, i)) = Dayless(Given(u, i))
  <2>1. \A j \in 1..n : s[j].value = u[j].value
    BY <1>8
  <2>2. \A w \in MA_WINDOWS : MovingAverage(s, i, w) = MovingAverage(u, i, w)
    BY <1>6, <2>1, SameAverage, TransformAssumption
  <2>3. PctChange(s, i, 1) = PctChange(u, i, 1) /\ PctChange(s, i, YearRows) = PctChange(u, i, YearRows)
    <3>1. 1 \in Nat \ {0} /\ YearRows \in Nat \ {0}
      BY TransformAssumption, SMT
    <3>2. ASSUME NEW k \in Nat \ {0} PROVE PctChange(s, i, k) = PctChange(u, i, k)
      BY <1>6, <2>1, SameChange, ZenonT(30)
    <3> QED BY <3>1, <3>2
  <2>4. \A x : Dayless(Given(x, i)) = [row |-> [x[i] EXCEPT !.day = 1], ma |-> Averages(x, i),
                                       mom |-> PctChange(x, i, 1), yoy |-> PctChange(x, i, YearRows)]
    <3>1. ASSUME NEW a, NEW b, NEW c, NEW d
          PROVE  Dayless([row |-> a, ma |-> b, mom |-> c, yoy |-> d])
                   = [row |-> [a EXCEPT !.day = 1], ma |-> b, mom |-> c, yoy |-> d]
      BY DEF Dayless
    <3> QED BY <3>1, Zenon DEF Given
  <2>5. Averages(s, i) = Averages(u, i)
    BY <2>2 DEF Averages
  <2> QED BY <1>8, <2>3, <2>4, <2>5
<1>10. DOMAIN s = DOMAIN u
  BY <1>3, <1>4
<1> QED BY <1>3, <1>8, <1>9, <1>10 DEF s, u, own

\* The transformed rows of a frame are those of the series of its districts.
SeriesRowsOf(ts, p) == LET s == SeriesOf(Monthly(ts), p) IN {Given(s, i) : i \in DOMAIN s}

LEMMA TransformedRows ==
  ASSUME NEW ts
  PROVE  transform(ts) = UNION {SeriesRowsOf(ts, p) : p \in Places}
BY DEF transform, SeriesRowsOf, Given, Averages

\* Those of one district are its own series.
LEMMA DistrictRows ==
  ASSUME NEW ts, IsFiniteSet(ts), \A t \in ts : t.month \in Int, NEW p \in Places
  PROVE  {r \in transform(ts) : r.row.place = p} = SeriesRowsOf(ts, p)
PROOF
<1>1. ASSUME NEW q, NEW r \in SeriesRowsOf(ts, q) PROVE r.row.place = q
  <2> DEFINE s == SeriesOf(Monthly(ts), q)
  <2>1. PICK i \in DOMAIN s : r = Given(s, i)
    BY DEF SeriesRowsOf
  <2>2. s[i].place = q
    BY SameRow
  <2> HIDE DEF s
  <2>3. r.row = s[i]
    BY <2>1 DEF Given
  <2> QED BY <2>2, <2>3
<1> QED BY <1>1, TransformedRows

\* What a district gets is what it gets alone: a row's rank in time, its values
\* and so its averages and changes are made of the trades of the district only
\* (groupby on the district code); others' trades may only take its days.
THEOREM DistrictsAreIsolated == Spec => []DistrictsIsolated
PROOF
<1>1. SoldInv => DistrictsIsolated
  <2> SUFFICES ASSUME SoldInv, NEW p \in Places
               PROVE  {Dayless(r) : r \in {q \in transform(sold) : q.row.place = p}}
                        = {Dayless(r) : r \in transform(OwnTrades(sold, p))}
    BY DEF DistrictsIsolated, Dayless, OwnTrades
  <2> DEFINE own == OwnTrades(sold, p)
             s == SeriesOf(Monthly(sold), p)
             u == SeriesOf(Monthly(own), p)
  <2>1. IsFiniteSet(sold) /\ \A t \in sold : t.month \in Int
    BY TransformAssumption DEF SoldInv
  <2>2. /\ {q \in transform(sold) : q.row.place = p} = {Given(s, i) : i \in DOMAIN s}
    BY <2>1, DistrictRows DEF SeriesRowsOf
  <2>3. transform(own) = {Given(u, i) : i \in DOMAIN u}
    <3>1. IsFiniteSet(own) /\ \A t \in own : t.month \in Int
      <4>1. own \in SUBSET sold
        BY DEF OwnTrades
      <4> HIDE DEF own
      <4> QED BY <2>1, <4>1, FS_Subset
    <3>2. \A t \in own : t.place = p
      BY DEF OwnTrades
    <3> HIDE DEF own
    <3>3. ASSUME NEW q \in Places, q # p PROVE SeriesRowsOf(own, q) = {}
      <4> DEFINE x == SeriesOf(Monthly(own), q)
      <4>1. MonthsOf(own, q) = {}
        BY <3>2, <3>3 DEF MonthsOf, OwnTrades
      <4>2. DOMAIN x = 1..0
        BY <3>1, <4>1, SeriesRows, FS_EmptySet
      <4> HIDE DEF x
      <4>3. DOMAIN x = {}
        BY <4>2, SMT
      <4> QED BY <4>3 DEF SeriesRowsOf, x
    <3>4. transform(own) = SeriesRowsOf(own, p)
      BY <3>3, TransformedRows
    <3> QED BY <3>4 DEF SeriesRowsOf
  <2>4. /\ DOMAIN s = DOMAIN u
        /\ \A i \in DOMAIN s : Dayless(Given(s, i)) = Dayless(Given(u, i))
    BY <2>1, SameRow
  <2> HIDE DEF s, u, own
  <2>5. {Dayless(r) : r \in {Given(s, i) : i \in DOMAIN s}} = {Dayless(r) : r \in {Given(u, i) : i \in DOMAIN u}}
    BY <2>4
  <2> QED BY <2>2, <2>3, <2>5 DEF own
<1> QED BY <1>1, SoldKept, PTL DEF Spec

-----------------------------------------------------------------------------
\* Whichever component is asked, every variable keeps its type.
THEOREM TypeCorrect == Spec => []TypeOK
PROOF
<1> DEFINE Inv == /\ focus \in Focuses /\ VerdictInv /\ ScanInv /\ AlertInv /\ BacktestInv /\ TableInv
                  /\ AdviceInv /\ SoldInv
<1>1. Init => Inv
  BY VerdictKept, ScanKept, AlertKept, BacktestStart, TableKept, AdviceKept, SoldKept DEF Init
<1>2. Inv /\ [Next]_vars => Inv'
  <2>1. focus \in Focuses /\ [Next]_vars => focus' \in Focuses
    BY DEF Next, vars, Judge, Watch, Notify, LookBack, Answer, Prepare
  <2> QED BY <2>1, VerdictKept, ScanKept, AlertKept, BacktestKept, TableKept, AdviceKept, SoldKept, Zenon
<1>3. Inv => TypeOK
  <2>1. SoldInv => TransformTypeOK
    BY DEF SoldInv, TransformTypeOK
  <2> QED BY <2>1, VerdictTyped, ScanTyped, AlertTyped, BacktestTyped, AdviceTyped, Zenon DEF TypeOK
<1> QED BY <1>1, <1>2, <1>3, PTL DEF Spec
=============================================================================
