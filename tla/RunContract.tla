---------------------------- MODULE RunContract ----------------------------
(***************************************************************************)
(* What a flow run promises whoever reads its FlowResult, without the      *)
(* files, stages, domains and synchronisations it takes: rows are stored   *)
(* under keys of their own and stay, loaded_rows claims stored rows only,  *)
(* nothing moves once the run has answered, and an answer that reports no  *)
(* load failure claims every row the run stored.                           *)
(***************************************************************************)
CONSTANTS Runs

VARIABLES
  status,    \* run -> "idle", "running", "answered" or "lost" (no FlowResult)
  stored,    \* the rows of the hypertables; row.by is the run that stored it
  claimed,   \* run -> rows its FlowResult counts
  failed     \* run -> does its FlowResult report a load failure

vars == <<status, stored, claimed, failed>>

Init ==
  /\ status = [r \in Runs |-> "idle"]
  /\ stored = {}
  /\ claimed = [r \in Runs |-> {}]
  /\ failed = [r \in Runs |-> FALSE]

StoredBy(r) == {row \in stored : row.by = r}
SameKey(a, b) == a.table = b.table /\ a.key = b.key
Turn(r, from, to) == status[r] = from /\ status' = [status EXCEPT ![r] = to]

Begin(r) == Turn(r, "idle", "running") /\ UNCHANGED <<stored, claimed, failed>>

\* One committed transaction, claimed at once, later or never.
Store(r) ==
  /\ status[r] = "running"
  /\ stored \subseteq stored'
  /\ \A row \in stored' \ stored :
       row.by = r /\ \A old \in stored : ~SameKey(row, old)
  /\ claimed[r] \subseteq claimed'[r]
  /\ claimed' = [claimed EXCEPT ![r] = claimed'[r]]
  /\ \A row \in claimed'[r] : row \in stored' /\ row.by = r
  /\ UNCHANGED <<status, failed>>

Fail(r) ==
  /\ status[r] = "running"
  /\ failed' = [failed EXCEPT ![r] = TRUE]
  /\ UNCHANGED <<status, stored, claimed>>

Answer(r) ==
  /\ Turn(r, "running", "answered")
  /\ failed[r] \/ claimed[r] = StoredBy(r)
  /\ UNCHANGED <<stored, claimed, failed>>

Lose(r) == Turn(r, "running", "lost") /\ UNCHANGED <<stored, claimed, failed>>

Next == \E r \in Runs : Begin(r) \/ Store(r) \/ Fail(r) \/ Answer(r) \/ Lose(r)

Spec == Init /\ [][Next]_vars
=============================================================================
