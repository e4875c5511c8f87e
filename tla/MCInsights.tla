----------------------------- MODULE MCInsights -----------------------------
(***************************************************************************)
(* Datasets of blocks of factors, in dictionary order, that are all bad,   *)
(* middling, good or missing; a load makes one factor bad, good or         *)
(* missing.  Contexts and rows trigger each bias check and none.           *)
(***************************************************************************)
EXTENDS Insights

Row(f, q) ==
  LET pick(worst, mid, best) ==
        CASE q = "worst" -> worst [] q = "mid" -> mid [] q = "best" -> best [] OTHER -> Missing
  IN CASE f = "valuation_gap"       -> [price |-> pick(130, 90, 60), avg |-> 100]
       [] f = "development_upside"  -> <<pick(0, 1, 2), Missing, pick(0, 0, 2)>>
       [] f = "regulation_impact"   -> <<pick(5, 3, 0), pick(4, Missing, 0)>>
       [] f = "supply_demand_gap"   -> [demand |-> IF q = "missing" THEN 0 ELSE 100, supply |-> pick(160, 105, 50)]
       [] f = "cycle_position"      -> pick("contraction", "trough", "recovery")
       [] f = "sentiment_composite" -> [divergence |-> pick(-1, 0, 1), fear_greed |-> pick(0, Missing, 100),
                                        search |-> pick(-50, 10, 60)]
       [] OTHER -> LET r == FACTOR_RANGES[f]
                       mid == (r[1] + r[2]) \div 2
                   IN IF r[3] THEN pick(r[2] + 1, mid, r[1]) ELSE pick(r[1] - 1, mid + 1, r[2])

MCNewRows(f) == {Row(f, q) : q \in {"missing", "worst", "best"}}
Blocks == {<<"worst", "missing", "best">>, <<"best", "worst", "missing">>, <<"missing", "best", "worst">>,
           <<"best", "mid", "worst">>, <<"mid", "best", "best">>}
MCDatasets == {[f \in Factors |-> Row(f, IF Position(f) <= i THEN b[1] ELSE IF Position(f) <= j THEN b[2] ELSE b[3])] :
                 b \in Blocks, i \in {2, 5}, j \in {6, 9, 13}}
MCSigmaRows == {[v \in DEFAULT_VARIABLES |->
                   CASE v = "transport_access" -> 150 [] v = "price_momentum" -> 0 [] OTHER -> Missing]}

NoContext == [reference_price |-> Missing, peak_price |-> Missing, current_price |-> Missing,
              holding |-> TRUE, confidence |-> "unknown", evidence_count |-> Missing,
              expected_return |-> Missing, expired_signals |-> Missing]
MCContexts == {NoContext, [NoContext EXCEPT !.reference_price = 140],
               [NoContext EXCEPT !.confidence = "high", !.evidence_count = 2, !.peak_price = 100,
                  !.current_price = 80, !.expected_return = 11, !.expired_signals = 2]}
NoBiasRow == [fair_value |-> Missing, change_3m |-> Missing, change_36m |-> Missing,
              declining_ratio_pct |-> Missing, search_volume_percentile |-> Missing, avg_return |-> Missing]
MCBiasRows == {NoBiasRow, [fair_value |-> 100, change_3m |-> -1, change_36m |-> 4,
                           declining_ratio_pct |-> 20, search_volume_percentile |-> 90, avg_return |-> 5]}

MCMetrics == <<"price_index", "volume">>
MCValues == "price_index" :> {0, 1, 5} @@ "volume" :> {2}
MCMaxPoints == "price_index" :> 5 @@ "volume" :> 2

Anomaly(d, n, severity) == [n |-> n, district |-> d, severity |-> severity, extreme |-> FALSE]
MCAnomalySets == {{Anomaly("d1", 1, "critical")}, {Anomaly("d1", 1, "critical"), Anomaly("d1", 2, "critical")}}

MCMonthLength(m) == IF m % 2 = 0 THEN 2 ELSE 3

\* Sales and values on both sides of the bounds of the brackets, for taxable
\* amounts with and without deduction.
MCTaxCases ==
  [price : {1000}, years : {0, 2, 20}, owners : 1..3, corporate : {FALSE}, regulated : BOOLEAN,
   acqRows : {<<>>}, cgtRows : {<<>>}]
  \cup [price : {1000}, years : {1}, owners : {4}, corporate : BOOLEAN, regulated : {FALSE},
        acqRows : {<<Unknown, 3>>}, cgtRows : {<<Unknown, 5>>}]
MCSales(price) == {price - 1, price + 250} \cup {price + 250 + b : b \in Range(CGT_UPPER)}
                    \cup {price + 253 + b : b \in Range(CGT_UPPER)}
MCAssessed == {0} \cup {COMP_EXEMPTION + (b * 5) \div 3 + 4 : b \in {30000, 120000, 940000}}
MCPolicyCases == [kind : {"tax", "regulation", "interest_rate", "supply_shock"}, before : {0, 70011, 199000}]
MCMoves(kind) == CASE kind = "regulation" -> {0, 1}
                   [] kind = "supply_shock" -> {0, 333, 5000, 90000}
                   [] OTHER -> {0, 299, 300, 301, 350, 1200}
MCQuotes == {<<60, 1>>, <<120, 1>>, <<60, 0>>}
=============================================================================
