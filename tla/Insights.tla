------------------------------ MODULE Insights ------------------------------
(***************************************************************************)
(* What computes on the data to advise: price transformation, verdicts,    *)
(* anomaly scans, alerts, the backtest, and answers on taxes and policies. *)
(* They share no state, so every behaviour follows one of them, in focus.  *)
(***************************************************************************)
EXTENDS Verdict, Anomalies, Alerts, Backtest, Advice, PriceTransformer

CONSTANT Focuses \* subset of {"verdict", "scan", "alerts", "backtest", "advice", "prices"}

VARIABLE focus

vars == <<focus, verdictVars, scanVars, alertVars, backtestVars, answers, sold>>

\* A component out of focus stays as it begins (the verdict's at one dataset).
Init ==
  /\ focus \in Focuses
  /\ VerdictInit /\ (focus = "verdict" \/ rows = CHOOSE d \in Datasets : TRUE)
  /\ AnomalyInit /\ AlertInit /\ BacktestInit /\ AdviceInit /\ TransformInit

Judge == focus = "verdict" /\ VerdictNext /\ UNCHANGED <<focus, scanVars, alertVars, backtestVars, answers, sold>>
Watch == focus = "scan" /\ AnomalyNext /\ UNCHANGED <<focus, verdictVars, alertVars, backtestVars, answers, sold>>
Notify == focus = "alerts" /\ AlertNext /\ UNCHANGED <<focus, verdictVars, scanVars, backtestVars, answers, sold>>
LookBack == focus = "backtest" /\ BacktestNext /\ UNCHANGED <<focus, verdictVars, scanVars, alertVars, answers, sold>>
Answer == focus = "advice" /\ AdviceNext /\ UNCHANGED <<focus, verdictVars, scanVars, alertVars, backtestVars, sold>>
Prepare == focus = "prices" /\ Sell /\ UNCHANGED <<focus, verdictVars, scanVars, alertVars, backtestVars, answers>>

Next == Judge \/ Watch \/ Notify \/ LookBack \/ Answer \/ Prepare

Spec == Init /\ [][Next]_vars

\* Every variable keeps its type.
TypeOK ==
  /\ focus \in Focuses /\ VerdictTypeOK /\ AnomalyTypeOK /\ AlertTypeOK /\ BacktestTypeOK
  /\ AdviceTypeOK /\ TransformTypeOK
=============================================================================
