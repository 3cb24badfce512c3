-------------------------- MODULE MaintenanceProofs --------------------------
(***************************************************************************)
(* The table under maintenance, for any number of rows, appends, runs and  *)
(* retries, and any retention.  The invariant says of the snapshots that   *)
(* each is a partition of its rows into files, that rows are only added,   *)
(* and only by DP1; of the attempts, what they have seen and what was      *)
(* committed since; and of the DAG, that its two tasks never overlap.      *)
(***************************************************************************)
EXTENDS Maintenance, FiniteSetTheorems, TLAPS

Writers  == {"dp1"} \cup Compactors
Snapshot == [files : SUBSET (SUBSET Nat), at : Nat, by : Writers]
Running  == {"read", "counted", "planned", "rewritten", "expired", "removed"}
Attempt  == [phase : Running \cup Ended,
             why : {"", "died", "conflict", "changed", "not_reduced"},
             from : Nat, to : Nat, before : Nat, fileCount : Nat, inputs : SUBSET (SUBSET Nat)]
Expiry   == [phase : Running \cup Ended, why : {"", "died", "increased", "latest_removed"},
             started : Nat, count : Nat, latest : Nat, to : Nat]
DagRun   == [task : 0 .. 2, tries : Nat, runs : Nat]

\* Type invariant.
Types ==
  /\ now \in Nat /\ rows \in Nat /\ manual \in Nat
  /\ snapshots \in Seq(Snapshot) /\ Latest \in Nat \ {0}
  /\ live \in SUBSET (1 .. Latest) /\ stored \in SUBSET (SUBSET Nat)
  /\ compaction \in [Compactors -> Attempt]
  /\ expiry \in Expiry
  /\ dag \in DagRun

\* A snapshot has each of its rows in one file.
IsPartition(files) ==
  /\ IsFiniteSet(files) /\ IsFiniteSet(UNION files)
  /\ \A f \in files : f # {}
  /\ \A f, g \in files : f \cap g # {} => f = g

Partitions == \A i \in 1 .. Latest : IsPartition(Files(i))

\* Rows are never lost from one snapshot to a later one, and only DP1 adds some.
RowsGrow ==
  /\ RowsOf(Latest) = 1 .. rows
  /\ \A i, j \in 1 .. Latest : i <= j =>
       /\ RowsOf(i) \subseteq RowsOf(j)
       /\ ~CommittedBetween(i, j, {"dp1"}) => RowsOf(i) = RowsOf(j)

Readable ==
  /\ Latest \in live
  /\ \A i \in live : Files(i) \subseteq stored
  /\ \A i \in 1 .. Latest : snapshots[i].at >= now - Retention \/ i > Latest - RetainLast => i \in live

TableInv == Partitions /\ RowsGrow /\ Readable

\* What an attempt has seen.
Seen(a) ==
  /\ a.phase # "idle" => a.from \in 1 .. Latest /\ a.before = Cardinality(RowsOf(a.from))
  /\ a.phase \in {"done", "failed"} => a.to \in a.from .. Latest
  /\ a.phase = "done" => RowsOf(a.from) = RowsOf(a.to)

\* What was committed since the DAG's attempt began, if something is not as it was.
Explained(a) ==
  /\ a.phase = "planned" /\ ~(a.inputs \subseteq Files(Latest)) =>
       CommittedBetween(a.from, Latest, {"dp1", "make"})
  /\ a.phase = "failed" /\ a.why # "died" => CommittedBetween(a.from, a.to, {"dp1", "make"})

CompactionInv ==
  /\ \A c \in Compactors : Seen(compaction[c])
  /\ Explained(compaction["airflow"])
  /\ compaction["airflow"].phase \in Running => dag.task = 1

\* What the expiration has seen, and what was committed since.
Watched(e) ==
  /\ e.phase # "idle" => e.latest \in 1 .. Latest
  /\ e.phase \in {"done", "failed"} => e.to \in e.latest .. Latest
  /\ e.phase \in Running =>
       /\ e.started <= now
       /\ Latest = e.latest => Cardinality(live) <= e.count
       /\ Latest # e.latest => CommittedBetween(e.latest, Latest, {"dp1", "make"})
  /\ e.phase = "failed" /\ e.why # "died" => CommittedBetween(e.latest, e.to, {"dp1", "make"})

ExpiryInv == Watched(expiry) /\ (expiry.phase \in Running => dag.task = 2)

IInv == Types /\ TableInv /\ CompactionInv /\ ExpiryInv

-----------------------------------------------------------------------------
(* Commits *)

\* Snapshots are only added.
Extended ==
  /\ Latest' \in Nat /\ Latest <= Latest'
  /\ \A i \in 1 .. Latest : snapshots'[i] = snapshots[i]

LEMMA Appending ==
  ASSUME NEW S, NEW s \in Seq(S), NEW e \in S
  PROVE  /\ Append(s, e) \in Seq(S) /\ Len(Append(s, e)) = Len(s) + 1
         /\ \A i \in 1 .. Len(s) : Append(s, e)[i] = s[i]
         /\ Append(s, e)[Len(s) + 1] = e
OBVIOUS

LEMMA Committed ==
  ASSUME Types, NEW files \in SUBSET (SUBSET Nat), NEW by \in Writers, Commit(files, by)
  PROVE  /\ snapshots' \in Seq(Snapshot) /\ Latest' = Latest + 1 /\ Extended
         /\ snapshots'[Latest + 1] = [files |-> files, at |-> now, by |-> by]
         /\ live' = live \cup {Latest + 1} /\ live' \in SUBSET (1 .. Latest')
         /\ stored' = stored \cup files /\ stored' \in SUBSET (SUBSET Nat)
<1>1. [files |-> files, at |-> now, by |-> by] \in Snapshot
  BY DEF Snapshot, Types
<1>2. snapshots' \in Seq(Snapshot) /\ Latest' = Latest + 1
      /\ (\A i \in 1 .. Latest : snapshots'[i] = snapshots[i])
      /\ snapshots'[Latest + 1] = [files |-> files, at |-> now, by |-> by]
  <2>1. snapshots \in Seq(Snapshot)
    BY DEF Types
  <2>2. snapshots' = Append(snapshots, [files |-> files, at |-> now, by |-> by])
    BY DEF Commit
  <2> QED BY <1>1, <2>1, <2>2, Appending DEF Latest
<1>3. live' = live \cup {Latest + 1} /\ stored' = stored \cup files
  BY DEF Commit
<1>4. live' \in SUBSET (1 .. Latest')
  BY <1>2, <1>3 DEF Types
<1>5. stored' \in SUBSET (SUBSET Nat)
  BY <1>3 DEF Types
<1>6. Extended
  BY <1>2 DEF Types, Extended
<1> QED BY <1>2, <1>3, <1>4, <1>5, <1>6

LEMMA BetweenStays ==
  ASSUME Types, Extended, NEW from \in 1 .. Latest, NEW to \in Nat, to <= Latest, NEW by
  PROVE  CommittedBetween(from, to, by)' <=> CommittedBetween(from, to, by)
BY DEF CommittedBetween, Extended, Types

LEMMA BetweenGrows ==
  ASSUME Types, NEW files \in SUBSET (SUBSET Nat), NEW w \in Writers, Commit(files, w),
         NEW from \in 1 .. Latest, NEW by
  PROVE  CommittedBetween(from, Latest, by)' <=> CommittedBetween(from, Latest, by) \/ w \in by
<1>1. PICK n \in Nat \ {0} : n = Latest
  BY DEF Types
<1>2. /\ Latest' = n + 1 /\ snapshots'[n + 1] = [files |-> files, at |-> now, by |-> w]
      /\ \A i \in 1 .. n : snapshots'[i] = snapshots[i]
  BY <1>1, Committed DEF Extended
<1>3. \A i \in from + 1 .. n + 1 : i \in 1 .. n \/ i = n + 1
  BY <1>1
<1>4. from \in 1 .. n /\ from + 1 .. n \subseteq from + 1 .. n + 1 /\ n + 1 \in from + 1 .. n + 1
  BY <1>1
<1>5. snapshots'[n + 1].by = w
  BY <1>2
<1>6. ASSUME CommittedBetween(from, Latest, by)' PROVE CommittedBetween(from, Latest, by) \/ w \in by
  <2>1. PICK i \in from + 1 .. n + 1 : snapshots'[i].by \in by
    BY <1>6, <1>2 DEF CommittedBetween
  <2>2. CASE i = n + 1
    BY <2>1, <2>2, <1>5
  <2>3. CASE i \in 1 .. n
    <3>1. i \in from + 1 .. n /\ snapshots[i].by \in by
      BY <2>1, <2>3, <1>2, <1>4
    <3> QED BY <3>1, <1>1 DEF CommittedBetween
  <2> QED BY <2>2, <2>3, <1>3
<1>7. ASSUME CommittedBetween(from, Latest, by) PROVE CommittedBetween(from, Latest, by)'
  <2>1. PICK i \in from + 1 .. n : snapshots[i].by \in by
    BY <1>7, <1>1 DEF CommittedBetween
  <2>2. i \in from + 1 .. n + 1 /\ snapshots'[i].by \in by
    BY <2>1, <1>4, <1>2
  <2> QED BY <2>2, <1>2 DEF CommittedBetween
<1>8. ASSUME w \in by PROVE CommittedBetween(from, Latest, by)'
  BY <1>8, <1>2, <1>4, <1>5 DEF CommittedBetween
<1> QED BY <1>6, <1>7, <1>8

\* What an attempt has seen does not change.
LEMMA SeenStays == ASSUME Types, Extended, NEW a \in Attempt, Seen(a) PROVE Seen(a)'
<1>1. ASSUME NEW i \in 1 .. Latest PROVE RowsOf(i)' = RowsOf(i)
  BY DEF RowsOf, Files, Extended
<1>2. a.from \in Nat /\ a.to \in Nat
  BY DEF Attempt
<1> QED BY <1>1, <1>2 DEF Seen, Extended, Types

\* A commit that keeps what was there, with one row more if it is DP1's.
LEMMA CommitKeepsTable ==
  ASSUME Types, TableInv, NEW files \in SUBSET (SUBSET Nat), NEW by \in Writers, Commit(files, by),
         now' = now, IsPartition(files), rows' \in Nat,
         UNION files = 1 .. rows', by = "dp1" => rows <= rows', by # "dp1" => rows' = rows
  PROVE  TableInv'
<1>1. PICK n \in Nat \ {0} : n = Latest /\ live \subseteq 1 .. n /\ rows \in Nat
  BY DEF Types
<1>2. /\ Latest' = n + 1 /\ snapshots'[n + 1] = [files |-> files, at |-> now, by |-> by]
      /\ \A i \in 1 .. n : snapshots'[i] = snapshots[i]
      /\ live' = live \cup {n + 1} /\ stored' = stored \cup files /\ Extended
  BY <1>1, Committed DEF Extended
<1>3. /\ \A i \in 1 .. n : Files(i)' = Files(i) /\ RowsOf(i)' = RowsOf(i)
      /\ Files(n + 1)' = files /\ RowsOf(n + 1)' = UNION files
  <2>1. \A i \in 1 .. n : Files(i)' = Files(i)
    BY <1>2 DEF Files
  <2>2. Files(n + 1)' = files
    BY <1>2 DEF Files
  <2> QED BY <2>1, <2>2 DEF RowsOf
<1>4. \A i \in 1 .. Latest' : i \in 1 .. n \/ i = n + 1
  BY <1>2, <1>1
<1>5. Partitions'
  <2>1. ASSUME NEW i \in 1 .. Latest' PROVE IsPartition(Files(i)')
    <3>1. CASE i \in 1 .. n
      BY <3>1, <1>1, <1>3 DEF TableInv, Partitions
    <3>2. CASE i = n + 1
      BY <3>2, <1>3
    <3> QED BY <3>1, <3>2, <1>4
  <2> QED BY <2>1 DEF Partitions, IsPartition
<1>6. RowsGrow'
  <2>1. RowsOf(Latest)' = 1 .. rows'
    BY <1>2 DEF RowsOf, Files
  <2>2. ASSUME NEW i \in 1 .. Latest', NEW j \in 1 .. Latest', i <= j
        PROVE  /\ RowsOf(i)' \subseteq RowsOf(j)'
               /\ ~CommittedBetween(i, j, {"dp1"})' => RowsOf(i)' = RowsOf(j)'
    <3>1. CASE j \in 1 .. n
      <4>1. i \in 1 .. n
        BY <3>1, <2>2, <1>4, <1>1
      <4>2. CommittedBetween(i, j, {"dp1"})' <=> CommittedBetween(i, j, {"dp1"})
        BY <3>1, <4>1, <1>2, <1>1, BetweenStays
      <4> QED BY <3>1, <4>1, <4>2, <2>2, <1>1, <1>3 DEF TableInv, RowsGrow
    <3>2. CASE j = n + 1 /\ i \in 1 .. n
      <4>1. CommittedBetween(i, j, {"dp1"})' <=> CommittedBetween(i, Latest, {"dp1"}) \/ by = "dp1"
        <5>1. CommittedBetween(i, Latest, {"dp1"})'
                <=> CommittedBetween(i, Latest, {"dp1"}) \/ by \in {"dp1"}
          BY <3>2, <1>1, BetweenGrows
        <5> QED BY <5>1, <3>2, <1>2 DEF CommittedBetween
      <4>2. /\ RowsOf(i) \subseteq RowsOf(Latest) /\ RowsOf(Latest) = 1 .. rows
            /\ ~CommittedBetween(i, Latest, {"dp1"}) => RowsOf(i) = RowsOf(Latest)
        BY <3>2, <1>1 DEF TableInv, RowsGrow
      <4>3. 1 .. rows \subseteq 1 .. rows'
        BY <1>1
      <4>4. RowsOf(i)' = RowsOf(i) /\ RowsOf(j)' = 1 .. rows'
        BY <3>2, <1>3
      <4> QED BY <4>1, <4>2, <4>3, <4>4
    <3>3. CASE i = n + 1 /\ j = n + 1
      BY <3>3
    <3> QED BY <3>1, <3>2, <3>3, <1>4, <1>1
  <2> QED BY <2>1, <2>2 DEF RowsGrow
<1>7. Readable'
  <2>1. ASSUME NEW i \in live' PROVE Files(i)' \subseteq stored'
    BY <1>2, <1>1, <1>3 DEF TableInv, Readable
  <2>2. ASSUME NEW i \in 1 .. Latest', snapshots'[i].at >= now' - Retention \/ i > Latest' - RetainLast
        PROVE  i \in live'
    <3>1. CASE i = n + 1
      BY <3>1, <1>2
    <3>2. CASE i \in 1 .. n
      <4>1. snapshots[i].at >= now - Retention \/ i > n - RetainLast
        BY <3>2, <2>2, <1>2, <1>1, MaintenanceAssumption
      <4> QED BY <3>2, <4>1, <1>2, <1>1 DEF TableInv, Readable
    <3> QED BY <3>1, <3>2, <1>4
  <2>3. Latest' \in live'
    BY <1>2
  <2> QED BY <2>1, <2>2, <2>3 DEF Readable
<1> QED BY <1>5, <1>6, <1>7 DEF TableInv

\* A step without a commit.
LEMMA QuietKeepsTable ==
  ASSUME Types, TableInv, UNCHANGED table, rows' = rows, now' \in Nat, now <= now'
  PROVE  TableInv' /\ Extended
<1>1. Extended
  BY DEF table, Extended, Latest, Types
<1>2. Partitions' /\ RowsGrow'
  BY DEF TableInv, Partitions, RowsGrow, CommittedBetween, Latest, Files, RowsOf, table
<1>3. Readable'
  <2>1. ASSUME NEW i \in 1 .. Latest, snapshots[i].at >= now' - Retention PROVE snapshots[i].at >= now - Retention
    <3>1. snapshots[i] \in Snapshot
      BY DEF Types, Latest
    <3>2. snapshots[i].at \in Nat
      BY <3>1 DEF Snapshot
    <3> QED BY <3>2, <2>1, MaintenanceAssumption DEF Types
  <2> QED BY <2>1 DEF TableInv, Readable, Latest, Files, table
<1> QED BY <1>1, <1>2, <1>3 DEF TableInv

LEMMA FiniteRows ==
  ASSUME Types, TableInv, NEW i \in 1 .. Latest
  PROVE  /\ IsFiniteSet(RowsOf(i)) /\ Cardinality(RowsOf(i)) \in Nat
         /\ Cardinality(Files(i)) \in Nat
BY FS_CardinalityType DEF TableInv, Partitions, IsPartition, RowsOf

LEMMA FiniteLive == ASSUME Types PROVE IsFiniteSet(live) /\ Cardinality(live) \in Nat
<1>1. IsFiniteSet(1 .. Latest)
  BY FS_Interval DEF Types
<1> QED BY <1>1, FS_Subset, FS_CardinalityType DEF Types

\* A commit of DP1 or of make explains what it changes.
LEMMA ExplainedGrows ==
  ASSUME Types, NEW files \in SUBSET (SUBSET Nat), NEW w \in {"dp1", "make"}, Commit(files, w),
         NEW a \in Attempt, Seen(a), Explained(a)
  PROVE  Explained(a)'
<1>1. w \in Writers
  BY DEF Writers, Compactors
<1>2. ASSUME a.phase = "planned" PROVE CommittedBetween(a.from, Latest, {"dp1", "make"})'
  <2>1. a.from \in 1 .. Latest
    BY <1>2 DEF Seen
  <2> QED BY <1>1, <2>1, BetweenGrows
<1>3. ASSUME a.phase = "failed", a.why # "died" PROVE CommittedBetween(a.from, a.to, {"dp1", "make"})'
  <2>0. a.from \in Nat /\ a.to \in Nat /\ Latest \in Nat
    BY DEF Types, Attempt
  <2>1. a.from \in 1 .. Latest /\ a.to <= Latest
    BY <1>3, <2>0 DEF Seen
  <2>2. Extended
    BY <1>1, Committed
  <2> QED BY <1>3, <2>0, <2>1, <2>2, BetweenStays DEF Explained
<1> QED BY <1>2, <1>3 DEF Explained

LEMMA ExplainedQuiet ==
  ASSUME UNCHANGED table, NEW a, Explained(a) PROVE Explained(a)'
BY DEF Explained, CommittedBetween, Files, Latest, table

LEMMA WatchedGrows ==
  ASSUME Types, NEW files \in SUBSET (SUBSET Nat), NEW w \in Writers, Commit(files, w), now' = now,
         NEW e \in Expiry, Watched(e), e.phase \in Running => w \in {"dp1", "make"}
  PROVE  Watched(e)'
<1>1. Latest' = Latest + 1 /\ Extended
  BY Committed
<1>2. e.latest \in Nat /\ e.to \in Nat /\ Latest \in Nat
  BY DEF Types, Expiry
<1>3. ASSUME e.phase \in Running
      PROVE  Latest' # e.latest /\ CommittedBetween(e.latest, Latest, {"dp1", "make"})'
  <2>1. e.latest \in 1 .. Latest
    BY <1>3 DEF Watched, Running
  <2>2. Latest' # e.latest
    BY <2>1, <1>1, <1>2
  <2> QED BY <1>3, <2>1, <2>2, BetweenGrows
<1>4. ASSUME e.phase = "failed", e.why # "died"
      PROVE  CommittedBetween(e.latest, e.to, {"dp1", "make"})'
  <2>1. e.latest \in 1 .. Latest /\ e.to \in Nat /\ e.to <= Latest
    BY <1>4, <1>2 DEF Watched
  <2> QED BY <1>1, <1>4, <2>1, BetweenStays DEF Watched
<1>5. /\ e.phase # "idle" => e.latest \in 1 .. Latest'
      /\ e.phase \in {"done", "failed"} => e.to \in e.latest .. Latest'
  BY <1>1, <1>2 DEF Watched
<1> QED BY <1>3, <1>4, <1>5 DEF Watched

LEMMA WatchedQuiet ==
  ASSUME Types, UNCHANGED snapshots, live' \subseteq live, now' \in Nat, now <= now',
         NEW e \in Expiry, Watched(e)
  PROVE  Watched(e)'
<1>1. Latest' = Latest
  BY DEF Latest
<1>2. Cardinality(live') <= Cardinality(live) /\ Cardinality(live') \in Nat /\ Cardinality(live) \in Nat
  BY FiniteLive, FS_Subset, FS_CardinalityType
<1>3. e.started \in Nat /\ e.count \in Nat /\ now \in Nat
  BY DEF Expiry, Types
<1>4. \A from, to, by : CommittedBetween(from, to, by)' <=> CommittedBetween(from, to, by)
  BY DEF CommittedBetween
<1> QED BY <1>1, <1>2, <1>3, <1>4 DEF Watched

-----------------------------------------------------------------------------
(* Files *)

\* A row of its own file is added.
LEMMA Appended ==
  ASSUME NEW n \in Nat, NEW files \in SUBSET (SUBSET Nat), IsPartition(files), UNION files = 1 .. n
  PROVE  LET new == files \cup {{n + 1}}
         IN  /\ new \in SUBSET (SUBSET Nat) /\ IsPartition(new) /\ UNION new = 1 .. n + 1
<1> DEFINE new == files \cup {{n + 1}}
<1>1. new \in SUBSET (SUBSET Nat)
  OBVIOUS
<1>2. UNION new = 1 .. n + 1
  <2>1. UNION new = (1 .. n) \cup {n + 1}
    OBVIOUS
  <2> QED BY <2>1
<1>3. IsFiniteSet(new) /\ IsFiniteSet(UNION new)
  <2>1. IsFiniteSet(files)
    BY DEF IsPartition
  <2>2. IsFiniteSet(new)
    BY <2>1, FS_AddElement
  <2>3. IsFiniteSet(1 .. n + 1)
    BY FS_Interval
  <2> QED BY <2>2, <2>3, <1>2
<1>4. \A f \in files : n + 1 \notin f
  <2>1. n + 1 \notin UNION files
    OBVIOUS
  <2> QED BY <2>1
<1>5. ASSUME NEW f \in new, NEW g \in new, f \cap g # {} PROVE f = g
  <2>1. CASE f \in files /\ g \in files
    BY <1>5, <2>1 DEF IsPartition
  <2>2. CASE f = {n + 1} /\ g \in files
    BY <1>4, <1>5, <2>2
  <2>3. CASE f \in files /\ g = {n + 1}
    BY <1>4, <1>5, <2>3
  <2> QED BY <1>5, <2>1, <2>2, <2>3
<1>6. \A f \in new : f # {}
  BY DEF IsPartition
<1> QED BY <1>1, <1>2, <1>3, <1>5, <1>6 DEF IsPartition

\* Some files become one.
LEMMA Replaced ==
  ASSUME NEW files \in SUBSET (SUBSET Nat), IsPartition(files), NEW inputs \in SUBSET files, inputs # {}
  PROVE  LET new == (files \ inputs) \cup Rewritten(inputs)
         IN  new \in SUBSET (SUBSET Nat) /\ IsPartition(new) /\ UNION new = UNION files
<1> DEFINE one == UNION inputs
           new == (files \ inputs) \cup {one}
<1>1. new \in SUBSET (SUBSET Nat)
  <2>1. one \in SUBSET Nat
    OBVIOUS
  <2> QED BY <2>1
<1>2. UNION new = UNION files
  <2>1. ASSUME NEW x \in UNION new PROVE x \in UNION files
    OBVIOUS
  <2>2. ASSUME NEW x \in UNION files PROVE x \in UNION new
    <3>1. PICK f \in files : x \in f
      OBVIOUS
    <3>2. CASE f \in inputs
      <4>1. x \in one /\ one \in new
        BY <3>1, <3>2
      <4> QED BY <4>1
    <3>3. CASE f \notin inputs
      BY <3>1, <3>3
    <3> QED BY <3>2, <3>3
  <2> QED BY <2>1, <2>2
<1>3. IsFiniteSet(new) /\ IsFiniteSet(UNION new)
  <2>1. IsFiniteSet(files) /\ files \ inputs \in SUBSET files
    BY DEF IsPartition
  <2>2. IsFiniteSet(files \ inputs)
    BY <2>1, FS_Subset
  <2>3. IsFiniteSet(new)
    BY <2>2, FS_AddElement
  <2>4. IsFiniteSet(UNION files)
    BY DEF IsPartition
  <2> QED BY <2>3, <2>4, <1>2
<1>4. \A f \in new : f # {}
  <2>1. \A f \in files : f # {}
    BY DEF IsPartition
  <2>2. one # {}
    BY <2>1
  <2> QED BY <2>1, <2>2
<1>5. ASSUME NEW f \in files \ inputs PROVE f \cap one = {}
  <2>1. ASSUME NEW x \in f, x \in one PROVE FALSE
    <3>1. PICK g \in inputs : x \in g
      BY <2>1
    <3>2. f \in files /\ g \in files /\ f \cap g # {}
      BY <3>1
    <3> QED BY <3>1, <3>2 DEF IsPartition
  <2> QED BY <2>1
<1>6. ASSUME NEW f \in new, NEW g \in new, f \cap g # {} PROVE f = g
  <2>1. CASE f \in files \ inputs /\ g \in files \ inputs
    BY <1>6, <2>1 DEF IsPartition
  <2>2. CASE f = one /\ g \in files \ inputs
    BY <1>5, <1>6, <2>2
  <2>3. CASE f \in files \ inputs /\ g = one
    BY <1>5, <1>6, <2>3
  <2> QED BY <1>6, <2>1, <2>2, <2>3
<1>7. IsPartition(new)
  BY <1>3, <1>4, <1>6 DEF IsPartition
<1> QED BY <1>1, <1>2, <1>7 DEF Rewritten

-----------------------------------------------------------------------------
(* Steps *)

LEMMA InitInv == Init => IInv
<1> SUFFICES ASSUME Init PROVE IInv
  OBVIOUS
<1>1. /\ Latest = 1 /\ Files(1) = {{1}} /\ RowsOf(1) = {1} /\ 1 .. 1 = {1}
      /\ snapshots[1].at = 0 /\ now = 0 /\ rows = 1 /\ live = {1} /\ stored = {{1}}
  BY DEF Init, Latest, Files, RowsOf
<1>2. [files |-> {{1}}, at |-> 0, by |-> "dp1"] \in Snapshot
  BY DEF Snapshot, Writers
<1>3. snapshots \in Seq(Snapshot)
  BY <1>2 DEF Init
<1>4. NoCompaction \in Attempt /\ NoCompaction.phase = "idle"
  BY DEF NoCompaction, Attempt, Ended
<1>5. NoExpiry \in Expiry /\ NoExpiry.phase = "idle"
  BY DEF NoExpiry, Expiry, Ended
<1>6. Types
  BY <1>1, <1>3, <1>4, <1>5 DEF Init, Types, DagRun
<1>7. IsPartition({{1}})
  <2>1. IsFiniteSet({1}) /\ IsFiniteSet({{1}}) /\ UNION {{1}} = {1}
    BY FS_Singleton
  <2> QED BY <2>1 DEF IsPartition
<1>8. TableInv
  <2>1. Partitions
    BY <1>1, <1>7 DEF Partitions
  <2>2. RowsGrow
    BY <1>1 DEF RowsGrow
  <2>3. Readable
    BY <1>1 DEF Readable
  <2> QED BY <2>1, <2>2, <2>3 DEF TableInv
<1>9. CompactionInv
  <2>1. \A c \in Compactors : compaction[c].phase = "idle"
    BY <1>4 DEF Init
  <2> QED BY <2>1 DEF CompactionInv, Seen, Explained, Running, Compactors
<1>10. ExpiryInv
  <2>1. expiry.phase = "idle"
    BY <1>5 DEF Init
  <2> QED BY <2>1 DEF ExpiryInv, Watched, Running
<1> QED BY <1>6, <1>8, <1>9, <1>10 DEF IInv

LEMMA Reported == ASSUME Types, NEW success \in BOOLEAN, Report(success) PROVE dag' \in DagRun
<1>1. dag \in DagRun /\ dag.task \in 0 .. 2 /\ dag.tries \in Nat
  BY DEF Types, DagRun
<1>2. CASE success
  <2>1. PICK next \in 0 .. 2 : next = IF dag.task = 1 THEN 2 ELSE 0
    OBVIOUS
  <2>2. dag' = [dag EXCEPT !.task = next, !.tries = 0]
    BY <1>2, <2>1 DEF Report
  <2> QED BY <1>1, <2>2 DEF DagRun
<1>3. CASE ~success /\ dag.tries < Retries
  <2>1. dag' = [dag EXCEPT !.tries = @ + 1]
    BY <1>3 DEF Report
  <2> QED BY <1>1, <2>1 DEF DagRun
<1>4. CASE ~success /\ ~(dag.tries < Retries)
  <2>1. dag' = [dag EXCEPT !.task = 0]
    BY <1>4 DEF Report
  <2> QED BY <1>1, <2>1 DEF DagRun
<1> QED BY <1>2, <1>3, <1>4

\* A step of a compaction that commits nothing.
LEMMA QuietCompaction ==
  ASSUME IInv, UNCHANGED <<now, table, rows, expiry>>, manual' \in Nat,
         NEW c \in Compactors, NEW a \in Attempt, Set(c, a), Seen(a), dag' \in DagRun,
         c = "airflow" => Explained(a) /\ dag.task = 1 /\ (a.phase \in Running => dag'.task = 1),
         c # "airflow" => dag' = dag
  PROVE  IInv'
<1>1. Types /\ TableInv /\ CompactionInv /\ ExpiryInv
  BY DEF IInv
<1>2. /\ compaction' \in [Compactors -> Attempt] /\ compaction'[c] = a
      /\ \A d \in Compactors : d # c => compaction'[d] = compaction[d]
  BY <1>1 DEF Set, Types
<1>3. Types'
  BY <1>1, <1>2 DEF Types, table, Latest
<1>4. TableInv' /\ Extended
  BY <1>1, QuietKeepsTable DEF Types
<1>5. CompactionInv'
  <2>1. ASSUME NEW d \in Compactors PROVE Seen(compaction[d])'
    <3>1. CASE d = c
      <4>1. Seen(a)'
        BY <1>1, <1>4, SeenStays
      <4> QED BY <4>1, <3>1, <1>2
    <3>2. CASE d # c
      <4>1. PICK b \in Attempt : b = compaction[d]
        BY <1>1 DEF Types
      <4>2. Seen(b)'
        BY <1>1, <1>4, <4>1, SeenStays DEF CompactionInv
      <4> QED BY <4>1, <4>2, <3>2, <1>2
    <3> QED BY <3>1, <3>2
  <2>2. Explained(compaction["airflow"])'
    <3>1. PICK b \in Attempt : b = compaction'["airflow"] /\ Explained(b)
      BY <1>1, <1>2 DEF Types, CompactionInv, Compactors
    <3>2. Explained(b)'
      BY <3>1, ExplainedQuiet
    <3> QED BY <3>1, <3>2
  <2>3. compaction'["airflow"].phase \in Running => dag'.task = 1
    BY <1>1, <1>2 DEF CompactionInv, Compactors
  <2> QED BY <2>1, <2>2, <2>3 DEF CompactionInv
<1>6. ExpiryInv'
  <2>1. PICK e \in Expiry : e = expiry
    BY <1>1 DEF Types
  <2>2. Watched(e)'
    BY <1>1, <2>1, WatchedQuiet DEF ExpiryInv, Types, table
  <2>3. expiry'.phase \in Running => dag'.task = 2
    BY <1>1 DEF ExpiryInv, Types, DagRun
  <2> QED BY <2>1, <2>2, <2>3 DEF ExpiryInv
<1> QED BY <1>3, <1>4, <1>5, <1>6 DEF IInv

\* A commit that keeps the rows, or adds one if it is DP1's.
LEMMA CommitStep ==
  ASSUME IInv, NEW files \in SUBSET (SUBSET Nat), NEW w \in Writers, Commit(files, w),
         UNCHANGED <<now, expiry, dag, manual>>, rows' \in Nat, IsPartition(files),
         UNION files = 1 .. rows', w = "dp1" => rows <= rows', w # "dp1" => rows' = rows,
         compaction' \in [Compactors -> Attempt],
         \A c \in Compactors : Seen(compaction'[c]),
         Explained(compaction'["airflow"]) \/ compaction'["airflow"].phase = "rewritten",
         compaction'["airflow"].phase \in Running => dag.task = 1,
         w = "airflow" => compaction'["airflow"].phase = "rewritten"
  PROVE  IInv'
<1>1. Types /\ TableInv /\ CompactionInv /\ ExpiryInv
  BY DEF IInv
<1>2. /\ snapshots' \in Seq(Snapshot) /\ Latest' = Latest + 1 /\ Extended
      /\ live' \in SUBSET (1 .. Latest') /\ stored' \in SUBSET (SUBSET Nat)
  BY <1>1, Committed
<1>3. Types'
  BY <1>1, <1>2 DEF Types
<1>4. TableInv'
  BY <1>1, CommitKeepsTable
<1>5. CompactionInv'
  <2>1. ASSUME NEW c \in Compactors PROVE Seen(compaction[c])'
    <3>1. PICK b \in Attempt : b = compaction'[c]
      OBVIOUS
    <3>2. Seen(b)'
      BY <3>1, <1>1, <1>2, SeenStays
    <3> QED BY <3>1, <3>2
  <2>2. Explained(compaction["airflow"])'
    <3>1. PICK b \in Attempt : b = compaction'["airflow"] /\ Seen(b)
      BY DEF Compactors
    <3>2. CASE b.phase = "rewritten"
      <4>1. Explained(b)'
        BY <3>2 DEF Explained
      <4> QED BY <3>1, <4>1
    <3>3. CASE b.phase # "rewritten"
      <4>1. w \in {"dp1", "make"} /\ Explained(b)
        BY <3>1, <3>3 DEF Writers, Compactors
      <4>2. Explained(b)'
        BY <3>1, <4>1, <1>1, ExplainedGrows
      <4> QED BY <3>1, <4>2
    <3> QED BY <3>2, <3>3
  <2>3. (compaction["airflow"].phase \in Running => dag.task = 1)'
    OBVIOUS
  <2> QED BY <2>1, <2>2, <2>3 DEF CompactionInv
<1>6. ExpiryInv'
  <2>1. PICK e \in Expiry : e = expiry /\ Watched(e)
    BY <1>1 DEF Types, ExpiryInv
  <2>2. e.phase \in Running => w \in {"dp1", "make"}
    <3>1. e.phase \in Running => dag.task = 2
      BY <1>1, <2>1 DEF ExpiryInv
    <3>2. w = "airflow" => dag.task = 1
      BY DEF Running
    <3> QED BY <3>1, <3>2 DEF Writers, Compactors
  <2>3. Watched(e)'
    BY <1>1, <2>1, <2>2, WatchedGrows
  <2>4. (expiry.phase \in Running => dag.task = 2)'
    BY <1>1 DEF ExpiryInv
  <2> QED BY <2>1, <2>3, <2>4 DEF ExpiryInv
<1> QED BY <1>3, <1>4, <1>5, <1>6 DEF IInv

\* A step of the expiration, which commits nothing.
LEMMA QuietExpiry ==
  ASSUME IInv, UNCHANGED <<now, snapshots, rows, compaction, manual>>,
         live' \subseteq live, stored' \in SUBSET (SUBSET Nat), Readable',
         NEW e \in Expiry, expiry' = e, Watched(e)', dag.task = 2, dag' \in DagRun,
         e.phase \in Running => dag'.task = 2
  PROVE  IInv'
<1>1. Types /\ TableInv /\ CompactionInv /\ ExpiryInv
  BY DEF IInv
<1>2. Latest' = Latest /\ Types'
  BY <1>1 DEF Types, Latest
<1>3. TableInv'
  BY <1>1 DEF TableInv, Partitions, RowsGrow, CommittedBetween, Latest, Files, RowsOf
<1>4. CompactionInv'
  <2>1. Extended
    BY <1>1 DEF Extended, Latest, Types
  <2>2. ASSUME NEW c \in Compactors PROVE Seen(compaction[c])'
    <3>1. PICK b \in Attempt : b = compaction[c]
      BY <1>1 DEF Types
    <3>2. Seen(b)'
      BY <3>1, <1>1, <2>1, SeenStays DEF CompactionInv
    <3> QED BY <3>1, <3>2
  <2>3. Explained(compaction["airflow"])'
    BY <1>1 DEF CompactionInv, Explained, CommittedBetween, Files, Latest
  <2>4. (compaction["airflow"].phase \in Running => dag.task = 1)'
    BY <1>1 DEF CompactionInv
  <2> QED BY <2>2, <2>3, <2>4 DEF CompactionInv
<1>5. ExpiryInv'
  BY DEF ExpiryInv
<1> QED BY <1>2, <1>3, <1>4, <1>5 DEF IInv

-----------------------------------------------------------------------------
(* Actions *)

LEMMA TickKeeps == ASSUME IInv, Tick PROVE IInv'
<1>1. Types /\ TableInv /\ CompactionInv /\ ExpiryInv /\ UNCHANGED <<table, rows, compaction, expiry, dag, manual>>
  BY DEF IInv, Tick
<1>2. now' \in Nat /\ now <= now'
  BY <1>1 DEF Tick, Types
<1>3. Types'
  BY <1>1, <1>2 DEF Types, table, Latest
<1>4. TableInv'
  BY <1>1, <1>2, QuietKeepsTable
<1>5. CompactionInv'
  BY <1>1 DEF CompactionInv, Seen, Explained, CommittedBetween, RowsOf, Files, Latest, table
<1>6. ExpiryInv'
  <2>1. PICK e \in Expiry : e = expiry
    BY <1>1 DEF Types
  <2>2. Watched(e)'
    BY <1>1, <1>2, <2>1, WatchedQuiet DEF ExpiryInv, table
  <2> QED BY <1>1, <2>1, <2>2 DEF ExpiryInv
<1> QED BY <1>3, <1>4, <1>5, <1>6 DEF IInv

LEMMA Dp1AppendKeeps == ASSUME IInv, Dp1Append PROVE IInv'
<1>1. Types /\ TableInv /\ CompactionInv
  BY DEF IInv
<1>2. PICK n \in Nat : n = rows
  BY <1>1 DEF Types
<1>3. PICK old \in SUBSET (SUBSET Nat) : old = Files(Latest)
  <2>1. snapshots[Latest] \in Snapshot
    BY <1>1 DEF Types, Latest
  <2> QED BY <2>1 DEF Snapshot, Files
<1>4. IsPartition(old) /\ UNION old = 1 .. n
  BY <1>1, <1>2, <1>3 DEF TableInv, Partitions, RowsGrow, RowsOf, Types
<1>5. PICK files \in SUBSET (SUBSET Nat) :
        files = old \cup {{n + 1}} /\ IsPartition(files) /\ UNION files = 1 .. n + 1
  BY <1>4, Appended
<1>6. /\ Commit(files, "dp1") /\ rows' = n + 1 /\ UNCHANGED <<now, compaction, expiry, dag, manual>>
      /\ "dp1" \in Writers
  BY <1>2, <1>3, <1>5 DEF Dp1Append, Writers
<1>7. /\ compaction' \in [Compactors -> Attempt] /\ \A c \in Compactors : Seen(compaction'[c])
      /\ Explained(compaction'["airflow"])
      /\ compaction'["airflow"].phase \in Running => dag.task = 1
  BY <1>1, <1>6 DEF Types, CompactionInv
<1>8. n + 1 \in Nat /\ n <= n + 1
  OBVIOUS
<1> QED BY <1>2, <1>5, <1>6, <1>7, <1>8, CommitStep

LEMMA ScheduleKeeps == ASSUME IInv, Schedule PROVE IInv'
<1>1. Types /\ TableInv /\ CompactionInv /\ ExpiryInv /\ UNCHANGED <<now, table, rows, compaction, expiry, manual>>
  BY DEF IInv, Schedule
<1>2. dag.task = 0 /\ dag' \in DagRun
  BY <1>1 DEF Schedule, Types, DagRun
<1>3. Types'
  BY <1>1, <1>2 DEF Types, table, Latest
<1>4. TableInv'
  BY <1>1, QuietKeepsTable DEF Types
<1>5. CompactionInv'
  <2>1. /\ \A c \in Compactors : Seen(compaction[c])'
        /\ Explained(compaction["airflow"])'
    BY <1>1 DEF CompactionInv, Seen, Explained, CommittedBetween, RowsOf, Files, Latest, table
  <2>2. (compaction["airflow"].phase \in Running => dag.task = 1)'
    BY <1>1, <1>2 DEF CompactionInv
  <2> QED BY <2>1, <2>2 DEF CompactionInv
<1>6. ExpiryInv'
  BY <1>1, <1>2 DEF ExpiryInv, Watched, CommittedBetween, Latest, table
<1> QED BY <1>3, <1>4, <1>5, <1>6 DEF IInv

LEMMA StartCompactionKeeps ==
  ASSUME IInv, NEW c \in Compactors, StartCompaction(c) PROVE IInv'
<1>1. Types /\ TableInv /\ Latest \in 1 .. Latest
  BY DEF IInv, Types
<1>2. PICK n \in Nat : n = Cardinality(RowsOf(Latest))
  BY <1>1, FiniteRows
<1>3. PICK a \in Attempt : /\ a = [NoCompaction EXCEPT !.phase = "read", !.from = Latest, !.before = n]
                           /\ a.phase = "read" /\ a.from = Latest /\ a.before = n
  <2>1. NoCompaction \in Attempt /\ Latest \in Nat
    BY <1>1 DEF Attempt, NoCompaction, Ended
  <2> DEFINE a == [NoCompaction EXCEPT !.phase = "read", !.from = Latest, !.before = n]
  <2>2. a \in Attempt
    BY <2>1 DEF Attempt, Running
  <2>3. a.phase = "read" /\ a.from = Latest /\ a.before = n
    BY DEF NoCompaction
  <2> QED BY <2>2, <2>3
<1>4. Set(c, a) /\ UNCHANGED <<now, table, rows, expiry, dag>> /\ manual' \in Nat
  BY <1>1, <1>2, <1>3 DEF StartCompaction, Types
<1>5. Seen(a) /\ Explained(a)
  BY <1>1, <1>2, <1>3 DEF Seen, Explained
<1>6. c = "airflow" => dag.task = 1
  BY DEF StartCompaction
<1>7. dag' \in DagRun
  BY <1>1, <1>4 DEF Types
<1> QED BY <1>4, <1>5, <1>6, <1>7, QuietCompaction

LEMMA CountFilesKeeps ==
  ASSUME IInv, NEW c \in Compactors, CountFiles(c) PROVE IInv'
<1>1. Types /\ TableInv /\ CompactionInv /\ Latest \in 1 .. Latest
  BY DEF IInv, Types
<1>2. PICK n \in Nat : n = Cardinality(Files(Latest))
  BY <1>1, FiniteRows
<1>3. PICK b \in Attempt : b = compaction[c] /\ b.phase = "read" /\ Seen(b)
  BY <1>1 DEF CountFiles, Compacts, Types, CompactionInv
<1>4. PICK a \in Attempt : /\ a = [b EXCEPT !.phase = "counted", !.fileCount = n]
                           /\ a.phase = "counted" /\ a.from = b.from /\ a.before = b.before
  <2> DEFINE a == [b EXCEPT !.phase = "counted", !.fileCount = n]
  <2>1. a \in Attempt
    BY DEF Attempt, Running
  <2>2. a.phase = "counted" /\ a.from = b.from /\ a.before = b.before
    BY DEF Attempt
  <2> QED BY <2>1, <2>2
<1>5. Set(c, a) /\ UNCHANGED <<now, table, rows, expiry, dag, manual>>
  BY <1>2, <1>3, <1>4 DEF CountFiles
<1>6. Seen(a) /\ Explained(a)
  BY <1>3, <1>4 DEF Seen, Explained
<1>7. c = "airflow" => dag.task = 1
  BY <1>1, <1>3 DEF CompactionInv, Running
<1>8. dag' \in DagRun /\ manual' \in Nat
  BY <1>1, <1>5 DEF Types
<1> QED BY <1>5, <1>6, <1>7, <1>8, QuietCompaction

LEMMA PlanRewriteKeeps ==
  ASSUME IInv, NEW c \in Compactors, PlanRewrite(c) PROVE IInv'
<1>1. Types /\ TableInv /\ CompactionInv /\ Latest \in 1 .. Latest
  BY DEF IInv, Types
<1>2. Files(Latest) \in SUBSET (SUBSET Nat)
  <2>1. snapshots[Latest] \in Snapshot
    BY <1>1 DEF Types, Latest
  <2> QED BY <2>1 DEF Snapshot, Files
<1>3. PICK inputs \in SUBSET Files(Latest) :
        inputs = IF Cardinality(Files(Latest)) >= MinInputFiles THEN Files(Latest) ELSE {}
  OBVIOUS
<1>4. PICK b \in Attempt : b = compaction[c] /\ b.phase = "counted" /\ Seen(b)
  BY <1>1 DEF PlanRewrite, Compacts, Types, CompactionInv
<1>5. PICK a \in Attempt : /\ a = [b EXCEPT !.phase = "planned", !.inputs = inputs]
                           /\ a.phase = "planned" /\ a.from = b.from /\ a.before = b.before
                           /\ a.inputs = inputs
  <2> DEFINE a == [b EXCEPT !.phase = "planned", !.inputs = inputs]
  <2>1. inputs \in SUBSET (SUBSET Nat)
    BY <1>2
  <2>2. a \in Attempt
    BY <2>1 DEF Attempt, Running
  <2>3. a.phase = "planned" /\ a.from = b.from /\ a.before = b.before /\ a.inputs = inputs
    BY DEF Attempt
  <2> QED BY <2>2, <2>3
<1>6. Set(c, a) /\ UNCHANGED <<now, table, rows, expiry, dag, manual>>
  BY <1>3, <1>4, <1>5 DEF PlanRewrite
<1>7. Seen(a) /\ Explained(a)
  BY <1>3, <1>4, <1>5 DEF Seen, Explained
<1>8. c = "airflow" => dag.task = 1
  BY <1>1, <1>4 DEF CompactionInv, Running
<1>9. dag' \in DagRun /\ manual' \in Nat
  BY <1>1, <1>6 DEF Types
<1> QED BY <1>6, <1>7, <1>8, <1>9, QuietCompaction

\* A rewrite that replaces files of the current snapshot.
LEMMA RewriteCommits ==
  ASSUME IInv, NEW c \in Compactors, NEW b \in Attempt, b = compaction[c], b.phase = "planned",
         b.inputs \subseteq Files(Latest), b.inputs # {},
         Set(c, [b EXCEPT !.phase = "rewritten"]),
         Commit((Files(Latest) \ b.inputs) \cup Rewritten(b.inputs), c),
         UNCHANGED <<now, rows, expiry, dag, manual>>
  PROVE  IInv'
<1>1. Types /\ TableInv /\ CompactionInv /\ Latest \in 1 .. Latest
  BY DEF IInv, Types
<1>2. PICK old \in SUBSET (SUBSET Nat) : old = Files(Latest)
  <2>1. snapshots[Latest] \in Snapshot
    BY <1>1 DEF Types, Latest
  <2> QED BY <2>1 DEF Snapshot, Files
<1>3. IsPartition(old) /\ UNION old = 1 .. rows
  BY <1>1, <1>2 DEF TableInv, Partitions, RowsGrow, RowsOf
<1>4. PICK files \in SUBSET (SUBSET Nat) :
        /\ files = (old \ b.inputs) \cup Rewritten(b.inputs)
        /\ IsPartition(files) /\ UNION files = 1 .. rows
  <2>1. PICK inputs \in SUBSET old : inputs = b.inputs
    BY <1>2
  <2> DEFINE new == (old \ inputs) \cup Rewritten(inputs)
  <2>2. inputs # {} /\ IsPartition(old)
    BY <1>3, <2>1
  <2>3. new \in SUBSET (SUBSET Nat) /\ IsPartition(new) /\ UNION new = UNION old
    BY <2>2, Replaced
  <2> QED BY <1>3, <2>1, <2>3
<1>5. Commit(files, c) /\ c \in Writers /\ c # "dp1" /\ rows' = rows /\ rows \in Nat
  BY <1>1, <1>2, <1>4 DEF Writers, Compactors, Types
<1>6. PICK a \in Attempt : /\ a = [b EXCEPT !.phase = "rewritten"]
                           /\ a.phase = "rewritten" /\ a.from = b.from /\ a.before = b.before
  <2> DEFINE a == [b EXCEPT !.phase = "rewritten"]
  <2>1. a \in Attempt
    BY DEF Attempt, Running
  <2>2. a.phase = "rewritten" /\ a.from = b.from /\ a.before = b.before
    BY DEF Attempt
  <2> QED BY <2>1, <2>2
<1>7. /\ compaction' \in [Compactors -> Attempt] /\ compaction'[c] = a
      /\ \A d \in Compactors : d # c => compaction'[d] = compaction[d]
  BY <1>1, <1>6 DEF Set, Types
<1>8. Seen(a)
  <2>1. Seen(b)
    BY <1>1 DEF CompactionInv
  <2> QED BY <1>6, <2>1 DEF Seen
<1>9. \A d \in Compactors : Seen(compaction'[d])
  BY <1>1, <1>7, <1>8 DEF CompactionInv
<1>10. Explained(compaction'["airflow"]) \/ compaction'["airflow"].phase = "rewritten"
  <2>1. CASE c = "airflow"
    BY <2>1, <1>6, <1>7
  <2>2. CASE c # "airflow"
    BY <2>2, <1>1, <1>7 DEF CompactionInv, Compactors
  <2> QED BY <2>1, <2>2
<1>11. compaction'["airflow"].phase \in Running => dag.task = 1
  <2>1. CASE c = "airflow"
    BY <2>1, <1>1 DEF CompactionInv, Running
  <2>2. CASE c # "airflow"
    BY <2>2, <1>1, <1>7 DEF CompactionInv, Compactors
  <2> QED BY <2>1, <2>2
<1>12. c = "airflow" => compaction'["airflow"].phase = "rewritten"
  BY <1>6, <1>7
<1> QED BY <1>4, <1>5, <1>7, <1>9, <1>10, <1>11, <1>12, CommitStep

LEMMA UpTo == \A n \in Nat : \A i \in 1 .. n : i <= n /\ n \in i .. n
OBVIOUS

\* An attempt that ends.
LEMMA AttemptEnds ==
  ASSUME Types, NEW b \in Attempt, b.phase \in Running, Seen(b), NEW a \in Attempt,
         a.phase \in {"done", "failed"}, a.from = b.from, a.before = b.before, a.to = Latest,
         a.phase = "done" => RowsOf(b.from) = RowsOf(Latest)
  PROVE  Seen(a)
<1>1. b.from \in 1 .. Latest /\ b.before = Cardinality(RowsOf(b.from))
  BY DEF Seen, Running
<1>2. Latest \in b.from .. Latest
  BY <1>1, UpTo DEF Types
<1> QED BY <1>1, <1>2 DEF Seen

LEMMA CommitRewriteKeeps ==
  ASSUME IInv, NEW c \in Compactors, CommitRewrite(c) PROVE IInv'
<1>1. Types /\ TableInv /\ CompactionInv /\ Latest \in 1 .. Latest
  BY DEF IInv, Types
<1>2. PICK b \in Attempt : b = compaction[c] /\ b.phase = "planned" /\ Seen(b)
  BY <1>1 DEF CommitRewrite, Compacts, Types, CompactionInv
<1>3. c = "airflow" => dag.task = 1
  BY <1>1, <1>2 DEF CompactionInv, Running
<1>4. UNCHANGED <<now, rows, expiry, manual>> /\ manual' \in Nat
  BY <1>1 DEF CommitRewrite, Types
<1>5. CASE b.inputs \subseteq Files(Latest) /\ b.inputs # {}
  <2>1. /\ Set(c, [b EXCEPT !.phase = "rewritten"]) /\ UNCHANGED dag
        /\ Commit((Files(Latest) \ b.inputs) \cup Rewritten(b.inputs), c)
    BY <1>2, <1>5 DEF CommitRewrite
  <2> QED BY <1>2, <1>4, <1>5, <2>1, RewriteCommits
<1>6. CASE b.inputs \subseteq Files(Latest) /\ b.inputs = {}
  <2>1. Set(c, [b EXCEPT !.phase = "rewritten"]) /\ UNCHANGED <<dag, table>>
    BY <1>2, <1>6 DEF CommitRewrite
  <2>2. PICK a \in Attempt : /\ a = [b EXCEPT !.phase = "rewritten"]
                             /\ a.phase = "rewritten" /\ a.from = b.from /\ a.before = b.before
    <3> DEFINE a == [b EXCEPT !.phase = "rewritten"]
    <3>1. a \in Attempt
      BY DEF Attempt, Running
    <3>2. a.phase = "rewritten" /\ a.from = b.from /\ a.before = b.before
      BY DEF Attempt
    <3> QED BY <3>1, <3>2
  <2>3. Seen(a) /\ Explained(a)
    BY <1>2, <2>2 DEF Seen, Explained
  <2>4. dag' \in DagRun
    BY <1>1, <2>1 DEF Types
  <2> QED BY <1>3, <1>4, <2>1, <2>2, <2>3, <2>4, QuietCompaction
<1>7. CASE ~(b.inputs \subseteq Files(Latest))
  <2>1. /\ Set(c, [b EXCEPT !.phase = "failed", !.why = "conflict", !.to = Latest])
        /\ ReportOf(c, FALSE) /\ UNCHANGED table
    BY <1>2, <1>7 DEF CommitRewrite
  <2>2. PICK a \in Attempt : /\ a = [b EXCEPT !.phase = "failed", !.why = "conflict", !.to = Latest]
                             /\ Seen(a) /\ a.phase = "failed" /\ a.from = b.from /\ a.to = Latest
    <3> DEFINE a == [b EXCEPT !.phase = "failed", !.why = "conflict", !.to = Latest]
    <3>1. a \in Attempt
      BY <1>1 DEF Attempt, Ended, Types
    <3>2. a.phase = "failed" /\ a.from = b.from /\ a.before = b.before /\ a.to = Latest
      BY DEF Attempt
    <3>3. b.phase \in Running
      BY <1>2 DEF Running
    <3> HIDE DEF a
    <3>4. Seen(a)
      BY <1>1, <1>2, <3>1, <3>2, <3>3, AttemptEnds
    <3> QED BY <3>1, <3>2, <3>4 DEF a
  <2>4. c = "airflow" => Explained(a)
    BY <1>1, <1>2, <1>7, <2>2 DEF CompactionInv, Explained
  <2>5. dag' \in DagRun /\ (c # "airflow" => dag' = dag)
    BY <1>1, <2>1, Reported DEF ReportOf, Types
  <2>6. a.phase \notin Running
    BY <2>2 DEF Running
  <2> QED BY <1>3, <1>4, <2>1, <2>2, <2>4, <2>5, <2>6, QuietCompaction
<1> QED BY <1>5, <1>6, <1>7

\* Two snapshots with as many rows have the same rows.
LEMMA SameRows ==
  ASSUME Types, TableInv, NEW i \in 1 .. Latest, Cardinality(RowsOf(Latest)) = Cardinality(RowsOf(i))
  PROVE  RowsOf(i) = RowsOf(Latest)
<1>1. RowsOf(i) \subseteq RowsOf(Latest) /\ IsFiniteSet(RowsOf(Latest))
  BY FiniteRows DEF TableInv, RowsGrow, Types
<1> QED BY <1>1, FS_Subset

LEMMA ValidateCompactionKeeps ==
  ASSUME IInv, NEW c \in Compactors, ValidateCompaction(c) PROVE IInv'
<1>1. Types /\ TableInv /\ CompactionInv /\ Latest \in 1 .. Latest
  BY DEF IInv, Types
<1>2. PICK b \in Attempt : b = compaction[c] /\ b.phase = "rewritten" /\ Seen(b)
  BY <1>1 DEF ValidateCompaction, Compacts, Types, CompactionInv
<1>3. b.from \in 1 .. Latest /\ b.before = Cardinality(RowsOf(b.from)) /\ b.phase \in Running
  BY <1>2 DEF Seen, Running
<1>4. PICK w \in {"", "changed", "not_reduced"} : w = Outcome(c)
  BY DEF Outcome
<1>5. PICK p \in {"done", "failed"} : p = IF w = "" THEN "done" ELSE "failed"
  OBVIOUS
<1>6. p = "done" => RowsOf(b.from) = RowsOf(Latest)
  BY <1>1, <1>2, <1>3, <1>4, <1>5, SameRows DEF Outcome
<1>7. PICK a \in Attempt : /\ a = [b EXCEPT !.phase = p, !.why = w, !.to = Latest]
                           /\ Seen(a) /\ a.phase = p /\ a.why = w
                           /\ a.from = b.from /\ a.to = Latest
  <2> DEFINE a == [b EXCEPT !.phase = p, !.why = w, !.to = Latest]
  <2>1. a \in Attempt
    BY <1>1 DEF Attempt, Ended, Types
  <2>2. a.phase = p /\ a.why = w /\ a.from = b.from /\ a.before = b.before /\ a.to = Latest
    BY DEF Attempt
  <2> HIDE DEF a
  <2>3. Seen(a)
    BY <1>1, <1>2, <1>3, <1>6, <2>1, <2>2, AttemptEnds
  <2> QED BY <2>1, <2>2, <2>3 DEF a
<1>8. Set(c, a) /\ UNCHANGED <<now, table, rows, expiry, manual>> /\ ReportOf(c, w = "")
  BY <1>2, <1>4, <1>5, <1>7 DEF ValidateCompaction
<1>9. ASSUME c = "airflow" PROVE Explained(a)
  <2>1. ASSUME p = "failed" PROVE CommittedBetween(b.from, Latest, {"dp1", "make"})
    <3>1. Cardinality(RowsOf(Latest)) # b.before
      BY <2>1, <1>2, <1>4, <1>5, <1>9 DEF Outcome, RequireFileReduction
    <3>2. PICK i \in 1 .. Latest : i = b.from /\ RowsOf(i) # RowsOf(Latest)
      BY <3>1, <1>3
    <3>3. CommittedBetween(b.from, Latest, {"dp1"})
      <4>1. i <= Latest
        BY <1>1, UpTo DEF Types
      <4> QED BY <3>2, <4>1, <1>1 DEF TableInv, RowsGrow
    <3> QED BY <3>3 DEF CommittedBetween
  <2> QED BY <2>1, <1>5, <1>7 DEF Explained
<1>10. dag' \in DagRun /\ (c # "airflow" => dag' = dag) /\ manual' \in Nat
  BY <1>1, <1>8, Reported DEF ReportOf, Types
<1>11. c = "airflow" => dag.task = 1
  BY <1>1, <1>2, <1>3 DEF CompactionInv
<1>12. a.phase \notin Running
  BY <1>7 DEF Running
<1> QED BY <1>7, <1>8, <1>9, <1>10, <1>11, <1>12, QuietCompaction

LEMMA CompactorDiesKeeps ==
  ASSUME IInv, NEW c \in Compactors, CompactorDies(c) PROVE IInv'
<1>1. Types /\ TableInv /\ CompactionInv /\ Latest \in 1 .. Latest
  BY DEF IInv, Types
<1>2. PICK b \in Attempt : b = compaction[c] /\ b.phase \in Running /\ Seen(b)
  BY <1>1 DEF CompactorDies, Types, CompactionInv, Attempt
<1>3. PICK a \in Attempt : /\ a = [b EXCEPT !.phase = "failed", !.why = "died", !.to = Latest]
                           /\ Seen(a) /\ a.phase = "failed" /\ a.why = "died"
  <2> DEFINE a == [b EXCEPT !.phase = "failed", !.why = "died", !.to = Latest]
  <2>1. a \in Attempt
    BY <1>1 DEF Attempt, Ended, Types
  <2>2. /\ a.phase = "failed" /\ a.why = "died" /\ a.from = b.from /\ a.before = b.before
        /\ a.to = Latest
    BY DEF Attempt
  <2> HIDE DEF a
  <2>3. Seen(a)
    BY <1>1, <1>2, <2>1, <2>2, AttemptEnds
  <2> QED BY <2>1, <2>2, <2>3 DEF a
<1>4. Set(c, a) /\ UNCHANGED <<now, table, rows, expiry, manual>> /\ ReportOf(c, FALSE)
  BY <1>2, <1>3 DEF CompactorDies
<1>5. Explained(a) /\ a.phase \notin Running
  BY <1>3 DEF Explained, Running
<1>6. dag' \in DagRun /\ (c # "airflow" => dag' = dag) /\ manual' \in Nat
  BY <1>1, <1>4, Reported DEF ReportOf, Types
<1>7. c = "airflow" => dag.task = 1
  BY <1>1, <1>2 DEF CompactionInv
<1> QED BY <1>3, <1>4, <1>5, <1>6, <1>7, QuietCompaction

LEMMA StartExpiryKeeps == ASSUME IInv, StartExpiry PROVE IInv'
<1>1. Types /\ TableInv /\ Latest \in 1 .. Latest /\ Latest \in Nat /\ now \in Nat
  BY DEF IInv, Types
<1>2. PICK n \in Nat : n = Cardinality(live)
  BY <1>1, FiniteLive
<1>3. PICK e \in Expiry : /\ e = [NoExpiry EXCEPT !.phase = "read", !.started = now, !.count = n, !.latest = Latest]
                          /\ e.phase = "read" /\ e.started = now /\ e.count = n /\ e.latest = Latest
  <2> DEFINE e == [NoExpiry EXCEPT !.phase = "read", !.started = now, !.count = n, !.latest = Latest]
  <2>1. NoExpiry \in Expiry
    BY DEF NoExpiry, Expiry, Ended
  <2>2. e \in Expiry
    BY <1>1, <2>1 DEF Expiry, Running
  <2>3. e.phase = "read" /\ e.started = now /\ e.count = n /\ e.latest = Latest
    BY DEF NoExpiry
  <2> QED BY <2>2, <2>3
<1>4. /\ expiry' = e /\ UNCHANGED <<now, snapshots, rows, compaction, manual, live, stored>>
      /\ dag.task = 2 /\ dag' = dag
  BY <1>2, <1>3 DEF StartExpiry, table
<1>5. Watched(e)
  BY <1>1, <1>2, <1>3 DEF Watched
<1>6. Watched(e)'
  BY <1>1, <1>4, <1>5, WatchedQuiet
<1>7. Readable' /\ live' \subseteq live /\ stored' \in SUBSET (SUBSET Nat) /\ dag' \in DagRun
  BY <1>1, <1>4 DEF TableInv, Readable, Types, Latest, Files
<1> QED BY <1>4, <1>6, <1>7, QuietExpiry

\* The expiration keeps what the retention and retain_last protect.
LEMMA ExpireSnapshotsKeeps == ASSUME IInv, ExpireSnapshots PROVE IInv'
<1>1. Types /\ TableInv /\ ExpiryInv /\ Latest \in 1 .. Latest /\ Latest \in Nat /\ now \in Nat
  BY DEF IInv, Types
<1>2. PICK b \in Expiry : b = expiry /\ b.phase = "read" /\ Watched(b) /\ b.started <= now
  BY <1>1 DEF ExpireSnapshots, Types, ExpiryInv, Watched, Running
<1>3. PICK e \in Expiry : e = [b EXCEPT !.phase = "expired"] /\ e.phase = "expired"
                          /\ e.started = b.started /\ e.count = b.count /\ e.latest = b.latest
  <2> DEFINE e == [b EXCEPT !.phase = "expired"]
  <2>1. e \in Expiry
    BY DEF Expiry, Running
  <2>2. e.phase = "expired" /\ e.started = b.started /\ e.count = b.count /\ e.latest = b.latest
    BY DEF Expiry
  <2> QED BY <2>1, <2>2
<1>4. /\ live' = {i \in live : ~Expired(i)} /\ expiry' = e
      /\ UNCHANGED <<now, snapshots, stored, rows, compaction, dag, manual>>
  BY <1>2, <1>3 DEF ExpireSnapshots
<1>5. live' \subseteq live /\ Latest' = Latest
  BY <1>4 DEF Latest
<1>6. dag.task = 2 /\ dag' \in DagRun
  BY <1>1, <1>2, <1>4 DEF ExpiryInv, Types, Running
<1>7. Watched(e)'
  <2>1. Watched(e)
    BY <1>2, <1>3 DEF Watched, Running
  <2> QED BY <1>1, <1>4, <1>5, <2>1, WatchedQuiet
<1>8. Readable'
  <2>1. ASSUME NEW i \in 1 .. Latest, snapshots[i].at >= now - Retention \/ i > Latest - RetainLast
        PROVE  ~Expired(i)
    <3>1. snapshots[i] \in Snapshot
      BY <1>1 DEF Types, Latest
    <3>2. PICK at \in Nat : at = snapshots[i].at
      BY <3>1 DEF Snapshot
    <3>3. PICK started \in Nat : started = expiry.started /\ started <= now
      BY <1>2 DEF Expiry
    <3>4. PICK n \in Nat : n = Latest /\ i \in 1 .. n
      BY <1>1
    <3>5. ~(at < started - Retention /\ i <= n - RetainLast)
      BY <2>1, <3>2, <3>3, <3>4, <1>1, MaintenanceAssumption
    <3> QED BY <3>2, <3>3, <3>4, <3>5 DEF Expired
  <2>2. Latest > Latest - RetainLast
    BY <1>1, MaintenanceAssumption
  <2>3. Latest \in live'
    BY <1>1, <1>4, <2>1, <2>2 DEF TableInv, Readable
  <2>4. \A i \in live' : Files(i) \subseteq stored
    BY <1>1, <1>5 DEF TableInv, Readable
  <2>5. \A i \in 1 .. Latest : snapshots[i].at >= now - Retention \/ i > Latest - RetainLast => i \in live'
    BY <1>1, <1>4, <2>1 DEF TableInv, Readable
  <2> QED BY <2>3, <2>4, <2>5, <1>4, <1>5 DEF Readable, Files
<1>9. stored' \in SUBSET (SUBSET Nat)
  BY <1>1, <1>4 DEF Types
<1> QED BY <1>3, <1>4, <1>5, <1>6, <1>7, <1>8, <1>9, QuietExpiry

LEMMA RemoveFilesKeeps == ASSUME IInv, RemoveFiles PROVE IInv'
<1>1. Types /\ TableInv /\ ExpiryInv /\ Latest \in Nat /\ now \in Nat
  BY DEF IInv, Types
<1>2. PICK b \in Expiry : b = expiry /\ b.phase = "expired" /\ Watched(b)
  BY <1>1 DEF RemoveFiles, Types, ExpiryInv
<1>3. PICK e \in Expiry : e = [b EXCEPT !.phase = "removed"] /\ e.phase = "removed"
                          /\ e.started = b.started /\ e.count = b.count /\ e.latest = b.latest
  <2> DEFINE e == [b EXCEPT !.phase = "removed"]
  <2>1. e \in Expiry
    BY DEF Expiry, Running
  <2>2. e.phase = "removed" /\ e.started = b.started /\ e.count = b.count /\ e.latest = b.latest
    BY DEF Expiry
  <2> QED BY <2>1, <2>2
<1>4. /\ stored' = stored \ Garbage /\ expiry' = e
      /\ UNCHANGED <<now, snapshots, live, rows, compaction, dag, manual>>
  BY <1>2, <1>3 DEF RemoveFiles
<1>5. dag.task = 2 /\ dag' \in DagRun
  BY <1>1, <1>2, <1>4 DEF ExpiryInv, Types, Running
<1>6. Watched(e)'
  <2>1. Watched(e)
    BY <1>2, <1>3 DEF Watched, Running
  <2> QED BY <1>1, <1>4, <2>1, WatchedQuiet
<1>7. Readable'
  <2>1. ASSUME NEW i \in live PROVE Files(i) \subseteq stored'
    BY <1>1, <1>4 DEF Garbage, TableInv, Readable
  <2> QED BY <1>1, <1>4, <2>1 DEF TableInv, Readable, Latest, Files
<1>8. stored' \in SUBSET (SUBSET Nat) /\ live' \subseteq live
  BY <1>1, <1>4 DEF Types
<1> QED BY <1>3, <1>4, <1>5, <1>6, <1>7, <1>8, QuietExpiry

\* An expiration that ends: whether it fails is explained by what was committed.
LEMMA ExpiryEnds ==
  ASSUME IInv, NEW b \in Expiry, b = expiry, b.phase \in Running,
         NEW e \in Expiry, expiry' = e, e.phase \in {"done", "failed"}, e.latest = b.latest, e.to = Latest,
         e.phase = "failed" /\ e.why # "died" => CommittedBetween(b.latest, Latest, {"dp1", "make"}),
         NEW success \in BOOLEAN, Report(success), UNCHANGED <<now, table, rows, compaction, manual>>
  PROVE  IInv'
<1>1. Types /\ TableInv /\ ExpiryInv /\ now \in Nat /\ UNCHANGED <<live, stored, snapshots>>
  BY DEF IInv, Types, table
<1>2. b.latest \in 1 .. Latest
  BY <1>1 DEF ExpiryInv, Watched, Running
<1>3. Latest \in b.latest .. Latest
  BY <1>1, <1>2, UpTo DEF Types
<1>4. Watched(e)
  BY <1>2, <1>3 DEF Watched, Running
<1>5. Watched(e)'
  BY <1>1, <1>4, WatchedQuiet
<1>6. dag.task = 2 /\ dag' \in DagRun /\ e.phase \notin Running
  BY <1>1, Reported DEF ExpiryInv, Running
<1>7. Readable' /\ stored' \in SUBSET (SUBSET Nat) /\ live' \subseteq live
  BY <1>1 DEF TableInv, Readable, Latest, Files, Types
<1> QED BY <1>1, <1>5, <1>6, <1>7, QuietExpiry

LEMMA NotMore == \A n, m \in Nat : n <= m => ~(n > m)
OBVIOUS

LEMMA ValidateExpiryKeeps == ASSUME IInv, ValidateExpiry PROVE IInv'
<1>1. Types /\ ExpiryInv /\ Latest \in Nat
  BY DEF IInv, Types
<1>2. PICK b \in Expiry : b = expiry /\ b.phase = "removed" /\ Watched(b) /\ b.phase \in Running
  BY <1>1 DEF ValidateExpiry, Types, ExpiryInv, Running
<1>3. PICK w \in {"", "increased", "latest_removed"} : w = ExpiryOutcome
  BY DEF ExpiryOutcome
<1>4. PICK p \in {"done", "failed"} : p = IF w = "" THEN "done" ELSE "failed"
  OBVIOUS
<1>5. PICK e \in Expiry : /\ e = [b EXCEPT !.phase = p, !.why = w, !.to = Latest]
                          /\ e.phase = p /\ e.why = w /\ e.latest = b.latest /\ e.to = Latest
  <2> DEFINE e == [b EXCEPT !.phase = p, !.why = w, !.to = Latest]
  <2>1. e \in Expiry
    BY <1>1 DEF Expiry, Ended
  <2>2. e.phase = p /\ e.why = w /\ e.latest = b.latest /\ e.to = Latest
    BY DEF Expiry
  <2> QED BY <2>1, <2>2
<1>6. expiry' = e /\ Report(w = "") /\ UNCHANGED <<now, table, rows, compaction, manual>>
  BY <1>2, <1>3, <1>4, <1>5 DEF ValidateExpiry
<1>7. ASSUME p = "failed" PROVE CommittedBetween(b.latest, Latest, {"dp1", "make"})
  <2>1. Latest # b.latest
    <3>1. PICK n \in Nat : n = Cardinality(live)
      BY <1>1, FiniteLive
    <3>2. PICK m \in Nat : m = b.count
      BY DEF Expiry
    <3>3. Latest = b.latest => n <= m
      BY <1>2, <3>1, <3>2 DEF Watched
    <3>4. w # ""
      BY <1>4, <1>7
    <3> QED BY <1>2, <1>3, <3>1, <3>2, <3>3, <3>4, NotMore, Zenon DEF ExpiryOutcome
  <2> QED BY <2>1, <1>2 DEF Watched
<1> QED BY <1>2, <1>4, <1>5, <1>6, <1>7, ExpiryEnds

LEMMA ExpiryDiesKeeps == ASSUME IInv, ExpiryDies PROVE IInv'
<1>1. Types /\ Latest \in Nat
  BY DEF IInv, Types
<1>2. PICK b \in Expiry : b = expiry /\ b.phase \in Running
  BY <1>1 DEF ExpiryDies, Types, Expiry
<1>3. PICK e \in Expiry : /\ e = [b EXCEPT !.phase = "failed", !.why = "died", !.to = Latest]
                          /\ e.phase = "failed" /\ e.why = "died" /\ e.latest = b.latest /\ e.to = Latest
  <2> DEFINE e == [b EXCEPT !.phase = "failed", !.why = "died", !.to = Latest]
  <2>1. e \in Expiry
    BY <1>1 DEF Expiry, Ended
  <2>2. e.phase = "failed" /\ e.why = "died" /\ e.latest = b.latest /\ e.to = Latest
    BY DEF Expiry
  <2> QED BY <2>1, <2>2
<1>4. expiry' = e /\ Report(FALSE) /\ UNCHANGED <<now, table, rows, compaction, manual>>
  BY <1>2, <1>3 DEF ExpiryDies
<1> QED BY <1>2, <1>3, <1>4, ExpiryEnds

LEMMA Invariance == Spec => []IInv
<1>1. ASSUME IInv, [Next]_vars PROVE IInv'
  <2>1. CASE Tick  BY <1>1, <2>1, TickKeeps
  <2>2. CASE Dp1Append  BY <1>1, <2>2, Dp1AppendKeeps
  <2>3. CASE Schedule  BY <1>1, <2>3, ScheduleKeeps
  <2>4. ASSUME NEW c \in Compactors, Compaction(c) PROVE IInv'
    BY <1>1, <2>4, StartCompactionKeeps, CountFilesKeeps, PlanRewriteKeeps, CommitRewriteKeeps,
       ValidateCompactionKeeps, CompactorDiesKeeps DEF Compaction
  <2>5. CASE StartExpiry  BY <1>1, <2>5, StartExpiryKeeps
  <2>6. CASE ExpireSnapshots  BY <1>1, <2>6, ExpireSnapshotsKeeps
  <2>7. CASE RemoveFiles  BY <1>1, <2>7, RemoveFilesKeeps
  <2>8. CASE ValidateExpiry  BY <1>1, <2>8, ValidateExpiryKeeps
  <2>9. CASE ExpiryDies  BY <1>1, <2>9, ExpiryDiesKeeps
  <2>10. CASE UNCHANGED vars
    <3>1. Types' /\ TableInv'
      BY <1>1, <2>10 DEF vars, table, IInv, Types, Latest, TableInv, Partitions, RowsGrow, Readable,
         CommittedBetween, RowsOf, Files
    <3>2. CompactionInv'
      BY <1>1, <2>10 DEF vars, table, IInv, CompactionInv, Seen, Explained, CommittedBetween, RowsOf, Files, Latest
    <3>3. ExpiryInv'
      BY <1>1, <2>10 DEF vars, table, IInv, ExpiryInv, Watched, CommittedBetween, Latest
    <3> QED BY <3>1, <3>2, <3>3 DEF IInv
  <2> QED BY <1>1, <2>1, <2>2, <2>3, <2>4, <2>5, <2>6, <2>7, <2>8, <2>9, <2>10 DEF Next
<1> QED BY <1>1, InitInv, PTL DEF Spec

-----------------------------------------------------------------------------
(* Theorems *)

\* The state has its type throughout.
THEOREM Typing == Spec => []Types
<1>1. IInv => Types
  BY DEF IInv
<1> QED BY <1>1, Invariance, PTL

\* No maintenance and no append loses or doubles a row of the table.
THEOREM RowsAreKeptOnce == Spec => []EveryRowOnce
<1>1. ASSUME IInv PROVE EveryRowOnce
  <2>1. Partitions /\ RowsOf(Latest) = 1 .. rows /\ Latest \in 1 .. Latest
    BY <1>1 DEF IInv, Types, TableInv, RowsGrow
  <2>2. PICK files : files = Files(Latest) /\ IsPartition(files) /\ UNION files = 1 .. rows
    BY <2>1 DEF Partitions, RowsOf
  <2>3. ASSUME NEW row \in 1 .. rows PROVE Cardinality({f \in files : row \in f}) = 1
    <3>1. PICK g \in files : row \in g
      BY <2>2
    <3>2. {f \in files : row \in f} = {g}
      BY <2>2, <3>1 DEF IsPartition
    <3> QED BY <3>2, FS_Singleton
  <2> QED BY <2>2, <2>3 DEF EveryRowOnce
<1> QED BY <1>1, Invariance, PTL

\* What a successful compaction validated is true of the snapshots it names.
THEOREM SuccessesAreUnchanged == Spec => []SuccessIsUnchanged
<1>1. IInv => SuccessIsUnchanged
  BY DEF IInv, CompactionInv, Seen, SuccessIsUnchanged, Compacts
<1> QED BY <1>1, Invariance, PTL

\* An attempt fails only because it died or because of a commit of another.
THEOREM UndisturbedAttemptsSucceed == Spec => []UndisturbedSucceeds
<1>1. IInv => UndisturbedSucceeds
  BY DEF IInv, CompactionInv, ExpiryInv, Explained, Watched, UndisturbedSucceeds, Compacts
<1> QED BY <1>1, Invariance, PTL

\* What is in the metadata, and what is young or recent, can be read.
THEOREM SnapshotsStayReadable == Spec => []SnapshotsAreReadable
<1>1. ASSUME IInv PROVE SnapshotsAreReadable
  <2>1. Readable
    BY <1>1 DEF IInv, TableInv
  <2> QED BY <2>1 DEF Readable, SnapshotsAreReadable
<1> QED BY <1>1, Invariance, PTL

=============================================================================
