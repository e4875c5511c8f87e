------------------------------ MODULE Backups ------------------------------
(***************************************************************************)
(* ha/backup_manager.py and ha/typedb_standby.py: TypeDB exports and       *)
(* TimescaleDB dumps, their rotation, last_export.json, and the promotion  *)
(* of the standby from the snapshot it names.  Time is in days.  The       *)
(* schema and the data of an export are one file.                          *)
(***************************************************************************)
EXTENDS Clock, FiniteSets

CONSTANTS
  Jobs,          \* exports and dumps that are started
  KindOf,        \* job -> "typedb" or "timescale"
  Retain,        \* kind -> days of retention (defaults: 30 and 7)
  Promotions,    \* calls of promote_standby
  BackupFaults,  \* subset of {"tool", "meta", "crash"}
  NoSnapshot

ASSUME BackupAssumption ==
  /\ \A j \in Jobs : KindOf[j] \in {"typedb", "timescale"}
  /\ \A k \in {"typedb", "timescale"} : Retain[k] \in Nat \ {0}
  /\ NoSnapshot \notin Jobs \cup {"torn"} /\ "torn" \notin Jobs

VARIABLES
  job,     \* job -> where it is, and when it began and wrote its file
  disk,    \* job -> what its file is: "none", "partial" or "complete"
  meta,    \* last_export.json: a job, "torn" or NoSnapshot
  promo,   \* promotion -> [pc, from]
  standby  \* the snapshot the standby database holds

backupVars == <<job, disk, meta, promo, standby>>
jobVars == <<job, disk, meta>>

BackupInit ==
  /\ job = [j \in Jobs |-> [pc |-> "none", began |-> 0, wrote |-> 0]]
  /\ disk = [j \in Jobs |-> "none"]
  /\ meta = NoSnapshot
  /\ promo = [p \in Promotions |-> [pc |-> "none", from |-> NoSnapshot]]
  /\ standby = NoSnapshot

-----------------------------------------------------------------------------
\* The tool (pg_dump, typedb console) is started; it begins to write its file,
\* which no other job has: no two begin in the same second.
Begin(j) ==
  /\ job[j].pc = "none"
  /\ job' = [job EXCEPT ![j].pc = "running", ![j].began = now]
  /\ disk' = [disk EXCEPT ![j] = "partial"]
  /\ UNCHANGED <<now, meta, promo, standby>>

\* (mutant) dumps and snapshots are rotated as one directory.
MutAged(k, days) == {j \in Jobs : job[j].pc # "running" /\ now >= job[j].wrote + days}
\* Files of a kind that no tool has written to since that many days.
Aged(k, days) ==
  {j \in Jobs : KindOf[j] = k /\ job[j].pc # "running" /\ now >= job[j].wrote + days}

\* The sets of files that can be past the retention: after its last day for
\* certain, on that day by the time of day.  last_export.json is spared.
Expired(k) == {old \in SUBSET Aged(k, Retain[k]) : Aged(k, Retain[k] + 1) \subseteq old}
Rotated(old) == [j \in Jobs |-> IF j \in old THEN "none" ELSE disk[j]]

\* The tool fails, what it wrote stays behind, and nothing is rotated.
ToolFails(j) ==
  /\ job[j].pc = "running" /\ "tool" \in BackupFaults
  /\ job' = [job EXCEPT ![j].pc = "failed", ![j].wrote = now]
  /\ UNCHANGED <<now, disk, meta, promo, standby>>

\* last_export.json names the snapshot, if it is one.
Named(j) == IF KindOf[j] = "typedb" THEN j ELSE meta

\* The tool has returned; the rest of export_typedb or full_backup_timescale
\* has no await.
Finish(j) ==
  /\ job[j].pc = "running"
  /\ job' = [job EXCEPT ![j].pc = "done", ![j].wrote = now]
  /\ meta' = Named(j)
  /\ \E old \in Expired(KindOf[j]) : disk' = [Rotated(old) EXCEPT ![j] = "complete"]
  /\ UNCHANGED <<now, promo, standby>>

\* write_text opens the file, which empties it, and fails: nothing is rotated.
MetaFails(j) ==
  /\ job[j].pc = "running" /\ KindOf[j] = "typedb" /\ "meta" \in BackupFaults
  /\ job' = [job EXCEPT ![j].pc = "failed", ![j].wrote = now]
  /\ disk' = [disk EXCEPT ![j] = "complete"]
  /\ meta' \in {meta, "torn"}
  /\ UNCHANGED <<now, promo, standby>>

\* The process that manages the backups ends; tools it started may have written
\* all of their file.
Interrupt ==
  /\ "crash" \in BackupFaults
  /\ \E j \in Jobs : job[j].pc = "running"
  /\ job' = [j \in Jobs |-> IF job[j].pc = "running" THEN [job[j] EXCEPT !.pc = "failed", !.wrote = now]
                            ELSE job[j]]
  /\ \E whole \in SUBSET {j \in Jobs : job[j].pc = "running"} :
       disk' = [j \in Jobs |-> IF j \in whole THEN "complete" ELSE disk[j]]
  /\ promo' = [p \in Promotions |-> IF promo[p].pc = "importing" THEN [promo[p] EXCEPT !.pc = "raised"]
                                    ELSE promo[p]]
  /\ UNCHANGED <<now, meta, standby>>

-----------------------------------------------------------------------------
\* promote_standby: the metadata is read, and the import started.
Source(s) == s = meta /\ meta \notin {NoSnapshot, "torn"}

Promote(p) ==
  /\ promo[p].pc = "none"
  /\ \E s \in Jobs :
       /\ Source(s)
       /\ promo' = [promo EXCEPT ![p] = [pc |-> "importing", from |-> s]]
  /\ UNCHANGED <<now, jobVars, standby>>

\* No readable metadata: RuntimeError.
NoPromotion(p) ==
  /\ promo[p].pc = "none" /\ meta \in {NoSnapshot, "torn"}
  /\ promo' = [promo EXCEPT ![p].pc = "raised"]
  /\ UNCHANGED <<now, jobVars, standby>>

Imported(p) ==
  /\ promo[p].pc = "importing" /\ disk[promo[p].from] = "complete"
  /\ promo' = [promo EXCEPT ![p].pc = "done"]
  /\ standby' = promo[p].from
  /\ UNCHANGED <<now, jobVars>>

\* The import fails, certainly if the snapshot has been rotated away.
ImportFails(p) ==
  /\ promo[p].pc = "importing"
  /\ disk[promo[p].from] # "complete" \/ "tool" \in BackupFaults
  /\ promo' = [promo EXCEPT ![p].pc = "raised"]
  /\ UNCHANGED <<now, jobVars, standby>>

-----------------------------------------------------------------------------
BackupNext ==
  \/ \E j \in Jobs : Begin(j) \/ ToolFails(j) \/ Finish(j) \/ MetaFails(j)
  \/ \E p \in Promotions : Promote(p) \/ NoPromotion(p) \/ Imported(p) \/ ImportFails(p)
  \/ Interrupt
  \/ Tick /\ UNCHANGED backupVars

BackupTypeOK ==
  /\ job \in [Jobs -> [pc : {"none", "running", "done", "failed"}, began : 0..MaxTime, wrote : 0..MaxTime]]
  /\ disk \in [Jobs -> {"none", "partial", "complete"}]
  /\ meta \in Jobs \cup {"torn", NoSnapshot}
  /\ promo \in [Promotions -> [pc : {"none", "importing", "done", "raised"}, from : Jobs \cup {NoSnapshot}]]
  /\ standby \in Jobs \cup {NoSnapshot}

-----------------------------------------------------------------------------
Snapshots == {j \in Jobs : KindOf[j] = "typedb" /\ disk[j] = "complete"}

\* Promotion has a source: what last_export.json names is whole and no rotation
\* has removed it, whatever exports failed or were interrupted since; and an import
\* whose snapshot is rotated away under it can be repeated with a later one.
NamedIsImportable ==
  /\ meta \in Jobs => meta \in Snapshots
  /\ \A p \in Promotions :
       promo[p].pc = "importing" /\ promo[p].from \notin Snapshots =>
         \E j \in Jobs : KindOf[j] = "typedb" /\ job[j].pc = "done"
                         /\ job[j].wrote > job[promo[p].from].wrote

\* promote_standby "imports latest snapshot" (plan E): no export that ended well
\* took its snapshot later than the one last_export.json names.
NamedIsLatest ==
  meta \in Jobs => \A j \in Snapshots :
    job[j].pc = "done" => job[j].began <= job[meta].began
=============================================================================
