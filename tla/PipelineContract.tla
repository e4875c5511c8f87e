-------------------------- MODULE PipelineContract --------------------------
(***************************************************************************)
(* run_scheduled, with all its stages, keeps the promises of RunContract.  *)
(***************************************************************************)
EXTENDS Pipeline

\* What a caller can tell of where a run is.
Phase(at) == CASE at = "idle" -> "idle"
               [] at \in Active -> "running"
               [] at = "done" -> "answered"
               [] OTHER -> "lost"

LoadFailed(r) == \E e \in errors[r] : e.stage = "load"

Contract == INSTANCE RunContract WITH
  status  <- [r \in Runs |-> Phase(pc[r])],
  stored  <- tables,
  claimed <- counted,
  failed  <- [r \in Runs |-> LoadFailed(r)]

\* Runs that overlap, fail half way, raise or crash still behave like the few
\* transactions of RunContract: rows stay, the count never runs ahead of the
\* tables, and a FlowResult with no load error has counted all the run stored.
ContractKept == Contract!Spec
=============================================================================
