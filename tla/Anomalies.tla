----------------------------- MODULE Anomalies -----------------------------
(***************************************************************************)
(* monitoring/anomaly_detector.py: detectors over the series of a          *)
(* district, and the engine that scans the metrics one after the other     *)
(* while the series grow.  Values are integers; a comparison with k        *)
(* deviations is squared, so nothing is rounded.                           *)
(***************************************************************************)
EXTENDS Integers, Sequences, FiniteSets, Functions

CONSTANTS
  Metrics,       \* MONITORED_METRICS, in order
  Values,        \* what a point of a metric may be (metric -> set)
  MaxPoints,     \* bound: points of a metric (metric -> number)
  Lookback, Threshold,  \* of the z-score detector
  Window, NumStd,       \* of the Bollinger detector
  DriftSigma,           \* of the CUSUM detector
  MeanParts,     \* _safe_std: the parts of the mean that floor a deviation of 0 (10^6)
  Noisy          \* algorithms whose rate of false positives may become too high

ASSUME DetectorAssumption ==
  /\ {Lookback, Threshold, Window, NumStd, DriftSigma, MeanParts} \subseteq Nat \ {0}
  /\ Window > 1
  /\ Metrics \in Seq(STRING) /\ \A m \in Range(Metrics) : Values[m] \subseteq Int

VARIABLES
  series,     \* metric -> its values in the database
  suppressed, \* algorithms a caller found noisy
  scan,       \* metrics the scan has read: their number
  frames,     \* what it read
  found       \* anomalies reported by the scan

scanVars == <<series, suppressed, scan, frames, found>>

Algorithms == {"zscore", "cusum", "bollinger", "isolation_forest"}
Multivariate == "multivariate"
Severities == {"low", "medium", "high", "critical"}

AnomalyInit ==
  /\ series = [m \in Range(Metrics) |-> <<>>]
  /\ suppressed = {} /\ scan = 0 /\ frames = << >> /\ found = {}

-----------------------------------------------------------------------------
SumSeq(s) == FoldFunction(+, 0, s)
Square(n) == n * n
\* n * (n - 1) times the variance of n values.
Spread(s) == Len(s) * SumSeq([i \in DOMAIN s |-> Square(s[i])]) - Square(SumSeq(s))

Magnitude(n) == IF n < 0 THEN -n ELSE n
\* How far x is from the mean of s, times the length of s.
Off(x, s) == x * Len(s) - SumSeq(s)

\* x lies more than (at least) k deviations of s from the mean of s.  A flat s
\* is given a deviation: a small part of its mean (next to nothing if that is 0).
Beyond(x, s, k) ==
  IF Spread(s) = 0 THEN MeanParts * Magnitude(Off(x, s)) > k * Magnitude(SumSeq(s))
  ELSE Square(Off(x, s)) * (Len(s) - 1) > Square(k) * Len(s) * Spread(s)
AtLeast(x, s, k) ==
  IF Spread(s) = 0
  THEN Off(x, s) # 0 /\ MeanParts * Magnitude(Off(x, s)) >= k * Magnitude(SumSeq(s))
  ELSE Square(Off(x, s)) * (Len(s) - 1) >= Square(k) * Len(s) * Spread(s)

severity_from_sigma(x, s) ==
  CASE AtLeast(x, s, 4) -> "critical"
    [] AtLeast(x, s, 3) /\ ~AtLeast(x, s, 4) -> "high"
    [] AtLeast(x, s, 2) /\ ~AtLeast(x, s, 3) -> "medium"
    [] OTHER -> "low"

\* A result; extreme: its z-score exceeds Z_WARNING_THRESHOLD.
Result(alg, m, i, severity, extreme) ==
  [algorithm |-> alg, metric |-> m, index |-> i, severity |-> severity, extreme |-> extreme]

ZScore(m, s) ==
  LET n == Len(s)
      first == IF n - 1 > Lookback THEN n - Lookback ELSE 1
      baseline == SubSeq(s, first, n - 1)
  IN IF n >= 3 /\ Beyond(s[n], baseline, Threshold)
     THEN {Result("zscore", m, n, severity_from_sigma(s[n], baseline), Beyond(s[n], baseline, 4))}
     ELSE {}

\* The first point where the sum of the deviations from the mean of the whole
\* series exceeds DriftSigma deviations.
Cusum(m, s) ==
  LET n == Len(s)
      drift(i) == n * SumSeq(SubSeq(s, 1, i)) - i * SumSeq(s)
      left(i) == Square(drift(i)) * (n - 1)
      limit == Square(DriftSigma) * n * Spread(s)
      exceeded == {i \in 1..n : left(i) > limit}
      pos == CHOOSE i \in exceeded : \A j \in exceeded : i <= j
  IN IF n < 3 \/ Spread(s) = 0 \/ exceeded = {} THEN {}
     ELSE {Result("cusum", m, pos,
                  IF left(pos) >= 4 * limit THEN "critical" ELSE IF 4 * left(pos) >= 9 * limit THEN "high" ELSE "medium",
                  left(pos) > 16 * n * Spread(s))}

\* (mutant) rolling() without shift(1).
MutBand(s, i) == SubSeq(s, i - Window + 1, i)
\* The window before point i.
Band(s, i) == SubSeq(s, i - Window, i - 1)

Outside(s, i) == Beyond(s[i], Band(s, i), NumStd)

Bollinger(m, s) ==
  {Result("bollinger", m, i, severity_from_sigma(s[i], Band(s, i)), Beyond(s[i], Band(s, i), 4)) :
     i \in {j \in Window + 1..Len(s) : Outside(s, j)}}

Detections(m, s) ==
  UNION {CASE a = "zscore" -> ZScore(m, s) [] a = "cusum" -> Cusum(m, s) [] OTHER -> Bollinger(m, s) :
           a \in {"zscore", "cusum", "bollinger"} \ suppressed}

-----------------------------------------------------------------------------
\* A row is added to ts_market_metrics.
Observe(m) ==
  /\ Len(series[m]) < MaxPoints[m]
  /\ \E v \in Values[m] : series' = [series EXCEPT ![m] = Append(@, v)]
  /\ UNCHANGED <<suppressed, scan, frames, found>>

\* suppress_if_noisy: the rate of false positives is what users marked.
SuppressIfNoisy(a) ==
  /\ a \in Noisy \ suppressed
  /\ suppressed' = suppressed \cup {a}
  /\ UNCHANGED <<series, scan, frames, found>>

\* scan_district reads the next metric and runs the detectors of one series.
ScanMetric ==
  /\ scan < Len(Metrics)
  /\ LET m == Metrics[scan + 1] IN
       /\ found' = IF scan = 0 THEN Detections(m, series[m]) ELSE found \cup Detections(m, series[m])
       /\ frames' = Append(frames, series[m])
  /\ scan' = scan + 1
  /\ UNCHANGED <<series, suppressed>>

\* The forest takes rows of all metrics by position, as long as each has one.
\* Which one it labels an outlier (one at most of a hundred) is left open.
ScanForest ==
  /\ scan = Len(Metrics)
  /\ LET read == {k \in DOMAIN frames : frames[k] # <<>>}
         rows == {i \in UNION {DOMAIN frames[k] : k \in read} : \A k \in read : i \in DOMAIN frames[k]}
     IN \E outliers \in IF "isolation_forest" \notin suppressed /\ Cardinality(read) >= 2 /\ 2 \in rows
                        THEN {{}} \cup {{i} : i \in rows} ELSE {{}}, severity \in Severities :
          found' = found \cup {Result("isolation_forest", Multivariate, i, severity, FALSE) : i \in outliers}
  /\ scan' = scan + 1
  /\ UNCHANGED <<series, suppressed, frames>>

\* (mutant) the frames of the last scan are kept.
MutRescan ==
  /\ scan > Len(Metrics)
  /\ scan' = 0 /\ found' = {}
  /\ UNCHANGED <<series, suppressed, frames>>
\* The next scan.
Rescan ==
  /\ scan > Len(Metrics)
  /\ scan' = 0 /\ frames' = << >> /\ found' = {}
  /\ UNCHANGED <<series, suppressed>>

AnomalyNext ==
  \/ \E m \in Range(Metrics) : Observe(m)
  \/ \E a \in Algorithms : SuppressIfNoisy(a)
  \/ ScanMetric \/ ScanForest \/ Rescan

AnomalyTypeOK ==
  /\ DOMAIN series = Range(Metrics) /\ \A m \in Range(Metrics) : series[m] \in Seq(Values[m])
  /\ suppressed \subseteq Algorithms
  /\ scan \in 0..Len(Metrics) + 1 /\ Len(frames) \in {scan, scan - 1}
  /\ found \subseteq [algorithm : Algorithms, metric : Range(Metrics) \cup {Multivariate},
                      index : Nat \ {0}, severity : Severities, extreme : BOOLEAN]

-----------------------------------------------------------------------------
\* Point i departs from a flat window before it, by more than k of the parts of
\* its level that _safe_std takes for its deviation.
Departs(s, i, k) ==
  /\ \A j \in i - Window..i - 1 : s[j] = s[i - 1]
  /\ MeanParts * Magnitude(s[i] - s[i - 1]) > k * Magnitude(s[i - 1])

\* A scan reports every such departure from a flat window, by more than the width
\* of the band and four deviations, as critical, also if the departure lasts or is
\* long past: a point never widens its own band.
JumpsReported ==
  scan = Len(Metrics) + 1 /\ "bollinger" \notin suppressed =>
    \A k \in DOMAIN frames : \A i \in Window + 1..Len(frames[k]) :
      Departs(frames[k], i, 4) /\ Departs(frames[k], i, NumStd) =>
        Result("bollinger", Metrics[k], i, "critical", TRUE) \in found
=============================================================================
