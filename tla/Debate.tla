------------------------------- MODULE Debate -------------------------------
(***************************************************************************)
(* agents/orchestrator.py: one debate of the agents over one RateLimiter.  *)
(* A round is a gather of calls; a call acquires the limiter and then      *)
(* awaits the language model.  Callers are <<round, task>> pairs.          *)
(***************************************************************************)
EXTENDS RateLimiter

CONSTANTS
  Agents,      \* of "bull", "bear", "beh" and "pol"
  ModelFaults, \* {} or {"model"}: the language model may raise
  None

ASSUME AgentsAssumption == Agents \subseteq {"bull", "bear", "beh", "pol"} /\ None \notin {"buy", "sell", "hold"}

Directions == {"buy", "sell", "hold"}

VARIABLES
  round,  \* the round being gathered; 5: the debate has returned, 6: raised
  task,   \* caller -> "none", "limiter", "model", "ok" or "failed"
  spoken, \* calls whose text is in DebateRound.agent_outputs
  final,  \* agent -> the direction of its final verdict, None before
  result  \* DebateResult: [consensus, verdict, dissent], None before

debateVars == <<round, task, spoken, final, result, limitVars>>

-----------------------------------------------------------------------------
Targets == Agents \cap {"bull", "bear"}
Rebuttals == IF {"bull", "bear"} \subseteq Agents THEN {"bull", "bear"} ELSE {}
Flags == IF "beh" \in Agents THEN {<<"beh", t>> : t \in Targets} ELSE {}

\* What a round gathers.
Tasks(r) ==
  CASE r \in {1, 4} -> {<<r, <<a, a>>>> : a \in Agents}
    [] r = 2        -> {<<r, <<a, a>>>> : a \in Rebuttals} \cup {<<r, f>> : f \in Flags}
    [] r = 3        -> {<<r, <<a, a>>>> : a \in Agents \cap {"pol"}}

AllTasks == UNION {Tasks(r) : r \in 1..4}

DebateInit ==
  /\ round = 0
  /\ task = [t \in AllTasks |-> "none"]
  /\ spoken = {}
  /\ final = [a \in Agents |-> None]
  /\ result = None
  /\ LimitInit

-----------------------------------------------------------------------------
\* All calls of the round have returned.
Gathered == \A t \in Tasks(round) : task[t] = "ok"

\* The outputs of the round enter the transcript, and the tasks of the next one
\* are created; each asks for the limiter when it first runs, in the order of
\* the gather.
NextRound ==
  /\ round \in 0..3
  /\ round > 0 => Gathered
  /\ spoken' = IF round = 0 THEN spoken ELSE spoken \cup Tasks(round)
  /\ round' = round + 1
  /\ task' = [t \in AllTasks |-> IF t \in Tasks(round + 1) THEN "limiter" ELSE task[t]]
  /\ Enqueue(SetToSeq(Tasks(round + 1)))
  /\ UNCHANGED <<final, result>>

Acquired(t) ==
  /\ Admit(t)
  /\ task' = [task EXCEPT ![t] = "model"]
  /\ UNCHANGED <<round, spoken, final, result>>

Sleeps(t) == Sleep(t) /\ UNCHANGED <<round, task, spoken, final, result>>

\* The model answers; an answer of the last round is parsed to a verdict.
Answer(t) ==
  /\ task[t] = "model"
  /\ task' = [task EXCEPT ![t] = "ok"]
  /\ IF t[1] = 4 THEN \E d \in Directions : final' = [final EXCEPT ![t[2][1]] = d]
     ELSE UNCHANGED final
  /\ UNCHANGED <<round, spoken, result, limitVars>>

\* It raises.  The first exception ends the debate; the other tasks of the
\* gather run on, and each still takes its place in the window.
ModelRaises(t) ==
  /\ task[t] = "model" /\ "model" \in ModelFaults
  /\ task' = [task EXCEPT ![t] = "failed"]
  /\ round' = 6
  /\ UNCHANGED <<spoken, final, result, limitVars>>

-----------------------------------------------------------------------------
Side(d) == {a \in Agents : final[a] = d}
CONSENSUS_THRESHOLD == 3

\* The tops Counter.most_common(1) may name.
Tops == {d \in Directions : \A e \in Directions : Cardinality(Side(e)) <= Cardinality(Side(d))}

\* (mutant) without a majority nobody dissents.
MutDissent(top) == IF Cardinality(Side(top)) >= CONSENSUS_THRESHOLD THEN Agents \ Side(top) ELSE {}
Dissent(top) == Agents \ Side(top)

\* _tally.
Tally(top) ==
  LET consensus == Cardinality(Side(top)) >= CONSENSUS_THRESHOLD IN
  [consensus |-> consensus, verdict |-> IF consensus THEN top ELSE None, dissent |-> Dissent(top)]

Conclude ==
  /\ round = 4 /\ Gathered
  /\ \E top \in Tops : result' = Tally(top)
  /\ spoken' = spoken \cup Tasks(4)
  /\ round' = 5
  /\ UNCHANGED <<task, final, limitVars>>

-----------------------------------------------------------------------------
DebateTime == Pass /\ UNCHANGED <<round, task, spoken, final, result>>

DebateStep ==
  \/ NextRound \/ Conclude
  \/ \E t \in AllTasks : Acquired(t) \/ Sleeps(t) \/ Answer(t) \/ ModelRaises(t)

DebateNext == DebateStep \/ DebateTime

DebateTypeOK ==
  /\ LimitTypeOK
  /\ round \in 0..6
  /\ task \in [AllTasks -> {"none", "limiter", "model", "ok", "failed"}]
  /\ spoken \subseteq AllTasks /\ waiting \in Seq(AllTasks)
  /\ final \in [Agents -> Directions \cup {None}]
  /\ result = None \/ result \in [consensus : BOOLEAN, verdict : Directions \cup {None}, dissent : SUBSET Agents]

-----------------------------------------------------------------------------
\* Positions outside the majority are never lost: those who do not share the
\* verdict are the dissenters, a verdict needs more supporters than dissenters,
\* and disagreement without a majority leaves dissenters and no verdict.
DissentPreserved ==
  result # None =>
    /\ \A d \in Directions :
         result.verdict = d => result.dissent = {a \in Agents : final[a] # d}
                               /\ Cardinality(Agents \ result.dissent) > Cardinality(result.dissent)
    /\ result.verdict = None /\ Cardinality({final[a] : a \in Agents}) > 1 => result.dissent # {}

\* A debate ends although its calls outnumber those admitted in a period.
DebateEnds == round = 1 ~> round \in {5, 6}
=============================================================================
