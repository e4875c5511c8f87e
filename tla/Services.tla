------------------------------ MODULE Services ------------------------------
(***************************************************************************)
(* The services beside the pipeline.  They share no state but the clock,   *)
(* so an interleaving of two of them shows nothing that each alone does    *)
(* not: every behaviour follows one of them, in focus.                     *)
(***************************************************************************)
EXTENDS SelfHealer, Backups, Debate

CONSTANT Focuses \* subset of {"heal", "backup", "debate"}

VARIABLE focus

vars == <<focus, now, healVars, backupVars, debateVars>>

Init == focus \in Focuses /\ ClockInit /\ HealInit /\ BackupInit /\ DebateInit

Heal == focus = "heal" /\ HealNext /\ UNCHANGED <<focus, backupVars, debateVars>>
Backup == focus = "backup" /\ BackupNext /\ UNCHANGED <<focus, healVars, debateVars>>
Argue == focus = "debate" /\ DebateNext /\ UNCHANGED <<focus, now, healVars, backupVars>>

Next == Heal \/ Backup \/ Argue

Spec == Init /\ [][Next]_vars

\* The event loop runs every call on: a sleep, a retry, an answer of the model
\* ends, and time passes.
FairSpec ==
  /\ Spec
  /\ WF_vars(Heal /\ \E f \in Failures : CallStep(f))
  /\ WF_vars(Argue /\ DebateStep) /\ WF_vars(Argue /\ DebateTime)

\* Every variable keeps its type.
TypeOK == focus \in Focuses /\ HealTypeOK /\ BackupTypeOK /\ DebateTypeOK
=============================================================================
