----------------------------- MODULE MCServices -----------------------------
(***************************************************************************)
(* Policies: a failure type that is retried and the archival, with         *)
(* different cooldowns.  Jobs: two exports and a dump.                     *)
(***************************************************************************)
EXTENDS Services, TLC

CONSTANTS e1, e2, d1, pr1

MCPolicies == "db_disconnect" :> [retries |-> 1, cooldown |-> 1]
           @@ "disk_space" :> [retries |-> 0, cooldown |-> 2]
MCKindOf == [j \in Jobs |-> IF j = d1 THEN "timescale" ELSE "typedb"]
MCRetain == "timescale" :> 1 @@ "typedb" :> 1
=============================================================================
