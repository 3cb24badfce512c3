----------------------------- MODULE Maintenance -----------------------------
(***************************************************************************)
(* The Iceberg table bronze.raw_playback_events under maintenance.  The    *)
(* DAG iceberg_maintenance compacts its small files and then expires old   *)
(* snapshots, each task with retries; make storage-compact may run the     *)
(* compaction, too; DP1 appends meanwhile.  No lock spans them: Iceberg    *)
(* serialises their commits.  One partition stands for all, as files are   *)
(* rewritten within a partition.                                           *)
(***************************************************************************)
EXTENDS Integers, Sequences, FiniteSets

CONSTANTS
  Retention,     \* retention_hours
  RetainLast,    \* retain_last
  MinInputFiles, \* min_input_files
  Retries,       \* pipeline_retries
  MaxTime, MaxAppends, MaxDagRuns, MaxManual  \* bounds

ASSUME MaintenanceAssumption ==
  /\ Retention \in Nat \ {0} /\ RetainLast \in Nat \ {0}
  /\ MinInputFiles \in Nat \ {0, 1} /\ Retries \in Nat
  /\ {MaxTime, MaxAppends, MaxDagRuns, MaxManual} \subseteq Nat

Compactors == {"airflow", "make"}

VARIABLES
  now,
  snapshots,   \* all snapshots ever committed: [files, at, by]
  live,        \* the indices of those in the table's metadata
  stored,      \* data files in object storage; a file is its set of rows
  rows,        \* rows appended so far are 1..rows
  compaction,  \* the attempt of each compactor
  expiry,      \* the attempt of the expiration task
  dag,         \* the DAG run: its task (1 compaction, 2 expiration, 0 none) and tries
  manual       \* runs of make storage-compact

vars == <<now, snapshots, live, stored, rows, compaction, expiry, dag, manual>>
table == <<snapshots, live, stored>>

Latest == Len(snapshots)
Files(i) == snapshots[i].files
RowsOf(i) == UNION Files(i)

NoCompaction == [phase |-> "idle", why |-> "", from |-> 0, to |-> 0,
                 before |-> 0, fileCount |-> 0, inputs |-> {}]
NoExpiry == [phase |-> "idle", why |-> "", started |-> 0, count |-> 0, latest |-> 0, to |-> 0]

\* DP1 has created the table with one file.
Init ==
  /\ now = 0 /\ rows = 1
  /\ snapshots = <<[files |-> {{1}}, at |-> 0, by |-> "dp1"]>>
  /\ live = {1} /\ stored = {{1}}
  /\ compaction = [c \in Compactors |-> NoCompaction]
  /\ expiry = NoExpiry
  /\ dag = [task |-> 0, tries |-> 0, runs |-> 0]
  /\ manual = 0

\* An atomic commit of a new current snapshot.
Commit(files, by) ==
  /\ snapshots' = Append(snapshots, [files |-> files, at |-> now, by |-> by])
  /\ live' = live \cup {Latest + 1}
  /\ stored' = stored \cup files

Tick == now < MaxTime /\ now' = now + 1
        /\ UNCHANGED <<table, rows, compaction, expiry, dag, manual>>

\* One append of a DP1 driver, of a whole run or a batch of it.
Dp1Append ==
  /\ rows <= MaxAppends
  /\ rows' = rows + 1
  /\ Commit(Files(Latest) \cup {{rows + 1}}, "dp1")
  /\ UNCHANGED <<now, compaction, expiry, dag, manual>>

-----------------------------------------------------------------------------
(* Airflow *)

Schedule ==
  /\ dag.task = 0 /\ dag.runs < MaxDagRuns
  /\ dag' = [task |-> 1, tries |-> 0, runs |-> dag.runs + 1]
  /\ UNCHANGED <<now, table, rows, compaction, expiry, manual>>

\* compact_small_files >> expire_old_snapshots; a failed task is retried.
Report(success) ==
  dag' = IF success THEN [dag EXCEPT !.task = IF @ = 1 THEN 2 ELSE 0, !.tries = 0]
         ELSE IF dag.tries < Retries THEN [dag EXCEPT !.tries = @ + 1]
         ELSE [dag EXCEPT !.task = 0]

ReportOf(c, success) == IF c = "airflow" THEN Report(success) ELSE UNCHANGED dag

-----------------------------------------------------------------------------
(* IcebergCompactionJob *)

Set(c, attempt) == compaction' = [compaction EXCEPT ![c] = attempt]
Compacts(c, phase) == compaction[c].phase = phase

Ended == {"idle", "done", "failed"}

\* read binds the target to its current snapshot; validate_input counts its rows.
StartCompaction(c) ==
  /\ compaction[c].phase \in Ended
  /\ IF c = "airflow" THEN dag.task = 1 /\ UNCHANGED manual
     ELSE manual < MaxManual /\ manual' = manual + 1
  /\ Set(c, [NoCompaction EXCEPT !.phase = "read", !.from = Latest,
                                 !.before = Cardinality(RowsOf(Latest))])
  /\ UNCHANGED <<now, table, rows, expiry, dag>>

\* _file_metrics looks at the table as it is now.
CountFiles(c) ==
  /\ Compacts(c, "read")
  /\ Set(c, [compaction[c] EXCEPT !.phase = "counted", !.fileCount = Cardinality(Files(Latest))])
  /\ UNCHANGED <<now, table, rows, expiry, dag, manual>>

\* rewrite_data_files plans over the current snapshot.
PlanRewrite(c) ==
  /\ Compacts(c, "counted")
  /\ Set(c, [compaction[c] EXCEPT !.phase = "planned",
       !.inputs = IF Cardinality(Files(Latest)) >= MinInputFiles THEN Files(Latest) ELSE {}])
  /\ UNCHANGED <<now, table, rows, expiry, dag, manual>>

Rewritten(inputs) == IF inputs = {} THEN {} ELSE {UNION inputs}

\* Mutant: the commit keeps the files of the plan only.
CommitRewriteOfPlan(c) ==
  LET inputs == compaction[c].inputs
  IN  /\ Compacts(c, "planned")
      /\ IF inputs \subseteq Files(Latest)
         THEN /\ Set(c, [compaction[c] EXCEPT !.phase = "rewritten"])
              /\ IF inputs = {} THEN UNCHANGED table ELSE Commit(Rewritten(inputs), c)
              /\ UNCHANGED dag
         ELSE /\ Set(c, [compaction[c] EXCEPT !.phase = "failed", !.why = "conflict", !.to = Latest])
              /\ ReportOf(c, FALSE) /\ UNCHANGED table
      /\ UNCHANGED <<now, rows, expiry, manual>>

\* The rewrite replaces its inputs in the snapshot then current; it conflicts with
\* a commit that removed one of them, not with an append.
CommitRewrite(c) ==
  LET inputs == compaction[c].inputs
  IN  /\ Compacts(c, "planned")
      /\ IF inputs \subseteq Files(Latest)
         THEN /\ Set(c, [compaction[c] EXCEPT !.phase = "rewritten"])
              /\ IF inputs = {} THEN UNCHANGED table
                 ELSE Commit((Files(Latest) \ inputs) \cup Rewritten(inputs), c)
              /\ UNCHANGED dag
         ELSE /\ Set(c, [compaction[c] EXCEPT !.phase = "failed", !.why = "conflict", !.to = Latest])
              /\ ReportOf(c, FALSE) /\ UNCHANGED table
      /\ UNCHANGED <<now, rows, expiry, manual>>

\* require_file_reduction is false in airflow_compaction.yaml, true by default.
RequireFileReduction(c) == c = "make"

\* Mutant: the metrics may have grown.
OutcomeOfGrowth(c) ==
  IF Cardinality(RowsOf(Latest)) < compaction[c].before THEN "changed"
  ELSE IF RequireFileReduction(c) /\ Cardinality(Files(Latest)) >= compaction[c].fileCount
       THEN "not_reduced" ELSE ""

\* Mutant: file reduction is required of every compaction.
OutcomeReducing(c) ==
  IF Cardinality(RowsOf(Latest)) # compaction[c].before THEN "changed"
  ELSE IF Cardinality(Files(Latest)) >= compaction[c].fileCount THEN "not_reduced" ELSE ""

\* The row count stands for all _data_metrics: of tables that only grow, equal
\* counts mean equal rows, and those equal metrics.
Outcome(c) ==
  IF Cardinality(RowsOf(Latest)) # compaction[c].before THEN "changed"
  ELSE IF RequireFileReduction(c) /\ Cardinality(Files(Latest)) >= compaction[c].fileCount
       THEN "not_reduced" ELSE ""

ValidateCompaction(c) ==
  /\ Compacts(c, "rewritten")
  /\ LET why == Outcome(c)
     IN  /\ Set(c, [compaction[c] EXCEPT !.phase = IF why = "" THEN "done" ELSE "failed",
                                         !.why = why, !.to = Latest])
         /\ ReportOf(c, why = "")
  /\ UNCHANGED <<now, table, rows, expiry, manual>>

CompactorDies(c) ==
  /\ compaction[c].phase \notin Ended
  /\ Set(c, [compaction[c] EXCEPT !.phase = "failed", !.why = "died", !.to = Latest])
  /\ ReportOf(c, FALSE)
  /\ UNCHANGED <<now, table, rows, expiry, manual>>

-----------------------------------------------------------------------------
(* IcebergSnapshotExpirationJob *)

\* started_at, then the snapshots and the latest of them.
StartExpiry ==
  /\ dag.task = 2 /\ expiry.phase \in Ended
  /\ expiry' = [NoExpiry EXCEPT !.phase = "read", !.started = now,
                  !.count = Cardinality(live), !.latest = Latest]
  /\ UNCHANGED <<now, table, rows, compaction, dag, manual>>

\* Mutant: retain_last does not protect snapshots older than the retention.
ExpiredByAge(i) == i # Latest /\ snapshots[i].at < expiry.started - Retention

Expired(i) ==
  /\ snapshots[i].at < expiry.started - Retention
  /\ i <= Latest - RetainLast

\* expire_snapshots: metadata first, then the files that only expired snapshots use.
ExpireSnapshots ==
  /\ expiry.phase = "read"
  /\ live' = {i \in live : ~Expired(i)}
  /\ expiry' = [expiry EXCEPT !.phase = "expired"]
  /\ UNCHANGED <<now, snapshots, stored, rows, compaction, dag, manual>>

Garbage == stored \ UNION {Files(i) : i \in live}

RemoveFiles ==
  /\ expiry.phase = "expired"
  /\ stored' = stored \ Garbage
  /\ expiry' = [expiry EXCEPT !.phase = "removed"]
  /\ UNCHANGED <<now, snapshots, live, rows, compaction, dag, manual>>

ExpiryOutcome ==
  IF Cardinality(live) > expiry.count THEN "increased"
  ELSE IF Latest # expiry.latest THEN "latest_removed" ELSE ""

ValidateExpiry ==
  /\ expiry.phase = "removed"
  /\ LET why == ExpiryOutcome
     IN  /\ expiry' = [expiry EXCEPT !.phase = IF why = "" THEN "done" ELSE "failed",
                                     !.why = why, !.to = Latest]
         /\ Report(why = "")
  /\ UNCHANGED <<now, table, rows, compaction, manual>>

ExpiryDies ==
  /\ expiry.phase \notin Ended
  /\ expiry' = [expiry EXCEPT !.phase = "failed", !.why = "died", !.to = Latest]
  /\ Report(FALSE)
  /\ UNCHANGED <<now, table, rows, compaction, manual>>

-----------------------------------------------------------------------------
Compaction(c) ==
  \/ StartCompaction(c) \/ CountFiles(c) \/ PlanRewrite(c)
  \/ CommitRewrite(c) \/ ValidateCompaction(c) \/ CompactorDies(c)

Next ==
  \/ Tick \/ Dp1Append \/ Schedule
  \/ \E c \in Compactors : Compaction(c)
  \/ StartExpiry \/ ExpireSnapshots \/ RemoveFiles \/ ValidateExpiry \/ ExpiryDies

Spec == Init /\ [][Next]_vars

-----------------------------------------------------------------------------
(* Properties *)

\* "The compaction command later rewrites those files without changing the row
\* count or event keys": every appended row is in the table exactly once, also
\* those appended while one or two compactions run.
EveryRowOnce ==
  \A row \in 1 .. rows : Cardinality({f \in Files(Latest) : row \in f}) = 1

\* A compaction that reports success has seen the same rows before and after it.
SuccessIsUnchanged ==
  \A c \in Compactors : Compacts(c, "done") =>
    RowsOf(compaction[c].from) = RowsOf(compaction[c].to)

CommittedBetween(from, to, by) == \E i \in from + 1 .. to : snapshots[i].by \in by

\* An attempt of the DAG that nothing disturbed succeeds, also when an earlier
\* attempt died after it had already rewritten the files or expired the snapshots.
UndisturbedSucceeds ==
  /\ Compacts("airflow", "failed") /\ compaction["airflow"].why # "died" =>
       CommittedBetween(compaction["airflow"].from, compaction["airflow"].to, {"dp1", "make"})
  /\ expiry.phase = "failed" /\ expiry.why # "died" =>
       CommittedBetween(expiry.latest, expiry.to, {"dp1", "make"})

\* What is in the metadata can be read, even if the expiration died half way; and
\* a reader that was bound to a snapshot, like DP2's, and a rollback to it find it
\* there as long as it is within the retention or among the last ones.
SnapshotsAreReadable ==
  \A i \in 1 .. Latest :
    /\ i \in live => Files(i) \subseteq stored
    /\ snapshots[i].at >= now - Retention \/ i > Latest - RetainLast => i \in live
=============================================================================
