# CineFlux verification project

TLA+ models of the CineFlux data platform, TLC configurations that check them on
small instances, and TLAPS proofs of what matters most for every instance.

1. The system — 2. Modules — 3. How the models correspond to the code — 4. Runs —
5. Fairness — 6. Proofs — 7. Where code and documents differ — 8. Not modelled, and what could follow

## 1. The system

CineFlux moves synthetic streaming-service data along two paths.

    generator batch --> MinIO landing --> DP1 --> Bronze --> DP2 --> Silver --> dbt --> Gold,
                                                                     features, serving copy
    generator stream --> Kafka --> Flink job --> playback_metrics, content_popularity (PostgreSQL)
                                     \-> DLQ topic

Airflow starts DP1, DP2 (with dbt), DP3 and the Iceberg maintenance jobs; make
targets start the same programs by hand; governance scripts publish to DataHub what
the others left behind. The parts share no memory: they meet in Kafka topics, object
storage, Iceberg tables, PostgreSQL and DataHub, and no lock spans two of them. That
is where the hard behaviours are.

| Part | State it keeps | Operations | What makes it correct |
|---|---|---|---|
| **Flink playback job** (`flink_jobs/pipeline.py`, `functions.py`, `contracts.py`) | source offsets, remembered event ids and their timers, watermarks, window state, sink buffers, checkpoints | read, validate or route to the DLQ, drop late, drop duplicates, fire windows, flush, checkpoint, restore, cancel, resubmit | windows reach the tables through failures; duplicates within the TTL are counted once; only late records are dropped as late; malformed records reach the DLQ; closed windows reach the tables in the end |
| **DP1** (`dp1_ingest_raw.py`, `base.py`, `io/iceberg.py`, `io/landing.py`) | the driver's plan, its landing listing, the rows of its run id in Bronze | list, validate, check for existing rows, append four tables (playback in batches), count | a run's rows are appended once, however often it is retried; a success means they are all there |
| **DP2** (`dp2_bronze_to_silver.py`) | five Silver tables | read Bronze, deduplicate, sessionise, replace each table, validate | the tables come from one reading of Bronze; one row per key, the newest |
| **dbt history and Gold** (`dbt/models/intermediate`, `marts/gold`) | SCD2 dimensions, facts, rollups | full rebuild as SQL | versions neither overlap nor leave gaps; facts meet the version valid at their time; rollups keep totals |
| **dbt features and serving** (`marts/feature`, `marts/serving`) | feature tables, the PostgreSQL copy | rebuild; delete and insert | features look only into the past; the serving copy shows the mart |
| **Airflow DAGs** (`airflow/dags`) | task and DAG-run states | schedule, run, retry | a stage never runs before what it needs; retries are idempotent; DP3's features are of one Gold |
| **Iceberg maintenance** (`compact_iceberg.py`, `expire_iceberg_snapshots.py`) | table files, snapshots | rewrite files, compare counts; expire old snapshots | no row is lost or added; readers keep their snapshot |
| **Generator, batch** (`generator/batch`, `io/minio_writer.py`) | landing objects, the report's counters | cut events into days, sessions and files, inject copies, put once, count | objects are immutable; a rerun changes nothing; no session or event twice; the report counts what is in the bucket; deliveries become histories |
| **Generator, stream** (`generator/stream`, `io/kafka_publisher.py`) | the producer's queue, acknowledgments and errors | generate, delay, duplicate, reorder, publish, flush | success means that every event was written; flags and counts are exact |
| **Governance** (`docker/datahub/scripts`) | DataHub definitions, results, contracts | run Great Expectations, read artifacts, publish, verify | what is shown as passed did pass; contracts are whole |
| **Generator configuration and modes** (`config.py`, `modes.py`) | none | parse, validate, choose a mode | inconsistent settings and unknown deliveries are rejected |
| **Flink start-up** (`kafka_admin.py`, `schema_registry.py`, `cli.py`) | topics, subjects, compatibilities | create if absent, register | they exist as long as a job is active |
| **Flink reset-data** (`Makefile`) | topics and PostgreSQL rows | poll until no job is active, delete, truncate | nothing of an active job is deleted; nothing old is left or comes back |
| **Compose stack, schemas, benchmarks** | services, volumes, contracts | start, health checks | configuration: read for its constants |

`PROJECT.json` lists these parts with their sources and, under `hazards`, each place of
the code where an interleaving, a crash or a boundary can hurt, with the property that
guards it or the reason none does.

## 2. Modules

| Module | Role |
|---|---|
| `PlaybackJob` | the Flink job with its Kafka source, sinks, checkpoints and restarts |
| `FinalTable` | what its output tables promise; `PlaybackJob` implements it |
| `Operations` | submission, cancellation and reset of the job, beside the generator's executions |
| `Dp1Ingest` | DP1 drivers, the landing bucket and Bronze |
| `Warehouse` | DP2's and dbt's transformations as operators from tables to tables; no state |
| `Deliveries` | what the generator's recurring deliveries say of an entity; extends `Warehouse` |
| `Rebuild` | Bronze in any stage of ingestion, and what `Warehouse` builds from it |
| `Dp2Pipeline` | the DP2 and DP3 DAGs executing those transformations table by table, beside DP1 |
| `Maintenance` | compaction and expiration of an Iceberg table, beside DP1 and each other |
| `Batches` | the objects a batch command generates, as operators |
| `Landing` | the batch commands' stat-then-put into the landing bucket, and their report |
| `StreamEvents` | the event stream: schedule, delays, swaps, duplicates |
| `Generator` | the command line: `Batches` through `Landing`, or `StreamEvents` |
| `StreamPublisher` | stream executions, the Kafka publisher and its callbacks |
| `TopicLog` | what the executions of `StreamPublisher` promise of a topic, in terms of its partitions and how they end |
| `Governance` | publication, verification and dbt commands around DataHub |
| `Rounding` | Python's `round` of a quotient, for `Batches` and `StreamEvents` |
| `MC...` | the instances TLC explores, one for each module that needs definitions |
| `...Proofs` | theorems and their proofs, of `PlaybackJob`, `Operations`, `Dp1Ingest`, `Dp2Pipeline`, `Rebuild`, `Maintenance`, `Governance` and, in `GeneratorProofs`, of `Landing`, `Batches`, `StreamEvents` and `StreamPublisher` |

Composition: `Deliveries` → `Rebuild` → `Warehouse` says what the tables are as functions
of what was delivered; `Dp2Pipeline` runs the same operators as the steps of two DAGs with
DP1's appends in between. `Generator` extends `Landing` and `Batches`, giving the former's
objects as what the latter generates, and instantiates `StreamEvents`, which produces the
order in which `StreamPublisher` sends. `Operations` has around the job what `PlaybackJob`
takes for granted, topics and contracts, and of the job only what a reset could lose or
leave. DP1 occurs three times: in full in `Dp1Ingest`, as the appends of a run in
`Dp2Pipeline`, as single appends in `Maintenance`; its own steps before an append are
invisible to the other two.

An operator whose comment starts with "Mutant:" is a deliberately faulty variant of
the definition that follows it. No specification uses one: each serves to show that
a property fails when the code is wrong in that way. Every property of every passing
run has one, listed in `PROJECT.json`.

## 3. How the models correspond to the code

### PlaybackJob

One action per step of the pipeline: `RouteToDlq`, `ValidationFails` (operator 01),
`DropLate`, `DropDuplicate`, `Accept`, `OnTimer` (operator 02), `EmitWatermark`,
`Flush`, `FlushFails`, `SendDlq` (sinks), `TriggerCheckpoint`, `AckJdbc`, `AckDlq`,
`CompleteCheckpoint`, `AbortCheckpoint`, `Crash`, `Restore`, `Cancel`, `Resubmit`,
`Tick`. How the code's state appears:

- `st` is everything a checkpoint contains. `pos` is the source's offsets; `seen` and
  `timers` are `LateAndDuplicateFunction`'s `ValueState` and its processing-time timers;
  `winWm` and `counted` are the window operators' watermark and content. `accepted` and
  `late` are history variables: no guard reads them.
- `wm` is operator 02's watermark. Unlike the windows' it is not checkpointed, so after
  a restore the comparison `event_time <= watermark` lets everything pass until the
  first new watermark; the windows still refuse what they have fired. This is why
  `AcceptedIsCounted` speaks of the time before the first restart only.
- `buf` is what the JDBC sinks have buffered (`sink.buffer-flush.*`), `table` the
  PostgreSQL tables, a row being the set of records it aggregates, so that a lost, an
  extra and a doubled record can be told apart. A flush is an upsert by primary key.
- `dlqBuf` and `dlq` are the DLQ producer's unacknowledged records and the topic, by
  `dlq_id`, which depends only on topic, partition and offset; delivery is at least once.

What is abstracted, and why it is sound:

- A record goes through source, operator 01 and operator 02 into the windows in one
  step. Flink's barriers cut all channels consistently, so what a snapshot holds is the
  effect of exactly the records before its barriers, whichever were in flight. Records in
  different partitions still interleave freely, and watermarks come between any two.
- Barriers are aligned: a sink has all rows that precede its barrier when it acknowledges.
  `flink_smoke.yaml`, `flink_optimized.yaml` and `flink_burst_optimized.yaml` enable unaligned
  checkpoints (`pipeline.py:163`), where such rows may be in the checkpoint as channel state
  instead and reach the sink's buffer again after a restore; those are not modelled.
- The job's parallel instances of operator 02 share the one watermark of the model.
  Each takes the minimum over its inputs; an instance with an older watermark is a
  state in which the watermark was not emitted yet.
- A restart destroys what is outside the checkpoint, while a JDBC sink whose task is
  closed rather than killed flushes on its way out: `CloseSinks` takes any subset.
- The topic is drawn at the start; a record not read yet is one that has not arrived.
- Processing time (`now`) matters for the TTL only. Scaling the TTL and window lengths
  down from production values changes no order of events.
- A message's payload is valid, malformed, or null. Decoding errors differ in the error
  code of the DLQ envelope only.

`FinalTable`: each row of each table starts absent, may appear, and once visible holds
its final value. `PlaybackJob` maps a table row to the number of its records and the set
of their event ids, and the final value to what the whole topic gives for that row. On
topics whose partitions are in order up to the watermark delay (`InTime`) the job
implements it, whatever is replayed. On others a re-execution may drop as late what the
first execution counted, and the row may change.

### Operations

A submission is a client that ensures the topics, subjects and compatibilities of
`Ensured`, in the code's order, one call a step, and then submits; a generator execution
does the same for the source topic and then publishes. Every call may raise, and what was
set up stays. A reset polls the list of jobs, at most `Attempts` times, then deletes
the two topics and truncates the tables, each of which may fail; the deletions are joined
by `;`, so that only the truncation decides how the command ends.

An event is known by its *generation*, the number of times its topic had been deleted when it
was published: a reset is clean if nothing of an earlier generation is left. The job
is reduced to the states a reset asks for, the generations in its memory, and
`robbed`: the faults of the resets that deleted a topic since it was submitted. A submission
while a job is active, which nothing in the Makefile prevents, is left out: two jobs would write
the same tables. A reset is
`fooled` if its poll had no answer (`! curl | grep`, without `pipefail`, takes none for an
empty list) or if a submission ran beside it, and `partial` if a deletion failed.

### Dp1Ingest

A driver is one `spark-submit`, its phases those of `SparkJob.run`: `read` (one dataset
at a time, since Spark lists the objects when it makes each DataFrame),
`validate_input`, then in `write` the `check` of each table for rows of the run,
`decide`, for each append a `lookup` and an `append` (`append_table` asks whether the
table exists, then appends or creates), and `validate_output` per table. Between two of
these steps anything may happen: an object is delivered, a driver dies, a driver of
another run appends. `overlap`, chosen at the start, says whether two drivers of one run
id may be alive at once: not under Airflow, where `max_active_runs` and the task instance
serialise a run's attempts, but with `make spark-dp1` started twice with one id.

A Bronze row remembers which driver committed it. That is not a column: it lets
properties tell two copies of a row apart. One Iceberg commit is atomic. Rows carry the
two facts the code branches on, which append writes them and whether they break the
cutover rule.

### Warehouse, Rebuild, Deliveries

Each DP2 staging function and each dbt model is one operator from sets of rows to a set
of rows; `Rebuild`'s actions append source rows to Bronze in any order, so that every
subset of the landing bucket is a state, and its invariants compare what the operators
build with reference definitions over the raw rows (`Said`, `Longest`) or with other
inputs (`Once`, `Until`). A row keeps the columns some property can tell apart: the
business key, the source's timestamp, one value for all tracked attributes, whether the
filters accept it, and the three columns of the deduplication order. Times are ticks,
a few to an hour, a few hours to a day; a window of n days has n days. Skew-salting and
partition counts, which change no result, are left out. `LandingsAssumption` says what
the generator guarantees: rows of one business key and schema version are copies.

`Deliveries` follows one entity of each dataset through a list of deliveries. What the
seeds draw (the base values, which schema version changes which dataset, scores) is an
argument, and the configurations explored have rising times and schema versions, which
`validate_batch_scenario` and the committed files give. DP1 reads them in order or
newest first.

### Dp2Pipeline

DP2's four tasks with their steps: four reads, input validation, five replacements
and output validation of the driver; one step per dbt model, in any order
that dbt's graph admits (`Refs`); the delete and the insert of the serving copy, which
commit separately; the two validations. DP3's two tasks: one step per feature model, in any
order, and the tests. `FailDp2` and `FailDp3` may hit any step and send the task to its first
step or end the DAG run. A DataFrame is bound to the snapshot its Iceberg table has when
it is made, so a driver's `inputs` do not change under it. dbt tests are those of the
modelled columns; tests that hold of any result of the operators are left to `Rebuild`.

No lock spans the two DAGs and DP3 has no sensor on DP2, so they interleave freely. `calm`,
a history variable, says that no Gold table was replaced since DP3's attempt began to compute.

### Maintenance

One partition of one table, since files are rewritten within a partition, and a file is
the set of its rows. Iceberg's commits are external and modelled by what they
guarantee: they are atomic; a rewrite is planned on one snapshot and committed on the
current one, and conflicts only with a commit that removed its inputs; an expiration
first commits metadata, then removes files that no live snapshot has. All data metrics
of a compaction are represented by the row count, which on a table that only grows
decides the others.

### Batches, Landing, Generator

`Batches` has the arithmetic by which bootstrap divides the base events into days, days
into sessions of up to three events and into files, and a delivery its entities into files:
indexes that run on from day to day, the last and shorter file, the rounded number of copies
injected into each file, the offsets of a session's events. A draw of the seeds is the
parameter `Draw`. A record keeps what tells it from others and what `HistoryIsWhole` is about;
the values of users and content are in `Deliveries`. A snapshot's row carries the delivery's
time only if the schema version is above 1 and changes the entity (`Changed`), else the first
timestamp; the draw is seeded by the schema version, so that two deliveries of one version differ
in nothing but the times of changed rows.

`Landing` has a command's stat and put of each object as two steps, followed by the object's
share of the report; an object appears as a whole. A command may die with a put on its way and
be given again. `Apart` lists the pairs of commands an operator does not start together.

`Generator` gives each command a mode and a delivery; what `GeneratorModeFactory` does not
accept takes no step, and bootstrap has no use for a delivery's id. A behaviour is either one of batch commands, any number at a time, or
one of a stream: they share no state, so that a product would show nothing more. The counters of
the report are those of `_DatasetMetrics` and `StreamEvents`' summary.

### StreamEvents, StreamPublisher

`StreamEvents` replaces the random draws by any draw of the right size, and delays by a
few values, and keeps the arithmetic: rounded capacities, buffer boundaries, swap
partners, the order of swaps before duplicates. The schedule is counted in ticks, one a
divisor of both event spacings; `produced_timestamp` is what `_event` makes of it, accelerated
and rounded to whole milliseconds, so that neighbours in a burst may share theirs. Delays are
whole seconds. `StreamPublisher` has `prepare` as one step
(`Operations` looks into it), the loop of `publish` with `poll(0)`, `flush` and its timeout, and
the delivery callback. The Kafka client and the broker are external: idempotent as the code
configures it, bounded by its queue, and free to give a message up that the partition has got.

### Governance

`Governance` draws the outcome of a suite or a schema check when it runs, keeps the
artifacts that dbt commands leave in `./artifacts/dbt`, and emits the aspects of
each contract one at a time. The entities' enrichment is one step; recipes and the
lineage that Airflow sends are left out. The outcomes of DP2's and of DP3's tests are drawn
separately and read from the one file of the latest command. One publisher runs at a time, which
`make governance-publish` does not enforce.

## 4. Runs

| Run | Question | Bounds, and why they reach the case |
|---|---|---|
| `playback_recovery` | do fired windows reach the tables and malformed records the DLQ? | two faults (one during the recovery from the other), one restart, one tolerated checkpoint failure, one checkpoint; five topics, one with a record that fails the job |
| `playback_event_time` | is only late what is behind its own partition, is everything else counted, are duplicates a TTL apart? | two topics, with records older than, equal to and newer than the watermark and copies on both partitions; a checkpoint, a crash, the clock at the TTL |
| `playback_final_table` | do tables hold only final rows, do closed windows and fired ones get to the tables? | the fairness of section 5; one fault, one checkpoint, a cancel and a second submission; topics closing one and two windows with a duplicate on the other partition, so that a restart may find one partition read to its end and the windows closed by the other alone |
| `playback_null_payload` | can a record alone stop the job? | no fault. Violated, see section 7 |
| `operations` | does an active job keep what it needs, and is a reset clean? | two submissions, two resets of two polls and two executions, each failing anywhere, so that a reset meets a job being cancelled, a second submission and a generator; the code polls ten times, which differs from twice in nothing but waiting |
| `dp1_ingest` | is a run written once, is success exact, are rows appended twice noticed? | three drivers of one run, in turn or overlapping, each may die at any step; six rows in two playback batches, one breaking the cutover; objects arrive at any time |
| `rebuild` | do Silver, Gold and features say what the sources said? | every subset of three hand-made buckets (changes taken back, sessions before any delivery, rows read by two runs, a newer invalid version, busy days) and of the deliveries of 80 draws |
| `dp2_pipeline` | is what a successful task leaves whole? | one DP2 run, on an empty warehouse or one built before, and one DP3 run beside it, one retry per task, cut off anywhere; one DP1 run that appends a late user and its event |
| `maintenance` | is no row lost, no snapshot in use broken, and success what it says? | one DAG run with one retry per task, one manual compaction, two appends, snapshots on both sides of the retention |
| `generator` | is the history in the bucket whole, do objects never change, do flags and reports say what happened? | a bootstrap of 13 events on two days in files of four, so that days, files and sessions end between each other, with a quarter of copies; a delivery of schema version 2 given twice at a time, one of the same day and version that claims its names with another time in the changed row, and two that are refused. Streams of seven events in buffers of three, the last one short; two schedules whose bursts and cycles end between events, and one with several events to a millisecond |
| `stream_publisher` | does success mean written once and in order, and does every execution end? | two executions, three messages on two partitions, a queue of two, so that it fills |
| `governance` | did pass what is shown as passed? | two publications, two dbt commands, verifications at any time; four of the five contracts; the fifth differs from `dp3` in its names |

Two partitions are the least that can progress at different speeds, two keys and two
windows the least that can be confused; three drivers are a writer that dies, one that
writes or reuses, and one more that reads what they left; two attempts are one that is
cut off and one that cleans up. Symmetry is used among DP1's drivers only, which are
interchangeable, and in a safety run only. Constants named `Max...` bound time, faults,
checkpoints, submissions and runs; they occur in the guards of the actions that would
raise the counter and nowhere else.

All configurations set `CHECK_DEADLOCK FALSE` where behaviours end: the topic, the
drivers, the runs and the environment's budget are finite, so a job that has drained its
topic, or drivers that are all done, really have nothing left to do. That they do not stop
*earlier* is the subject of `ClosedWindowsReachTheTables`, `FiredRowsReachTheTables` and
`ExecutionEnds`.

Type correctness is a theorem for every instance of the modules of section 6,
`TypeOK` where the module states it, `Landed` for `Rebuild` and `Types` of the proofs module
elsewhere (`PublisherTypes` for `StreamPublisher`; what a stream has sent is typed in `StreamInv`).

## 5. Fairness

`FairSpec` of `PlaybackJob` assumes weak fairness of: reading each partition (the Kafka
source polls all its splits), the watermark (the generator emits periodically), the
flush of each sink (`sink.buffer-flush.interval`), and the restore (the fixed-delay
restart strategy). Nothing is assumed of checkpoints, faults, timers, cancels or
submissions. Faults are bounded by their budget, as the restart attempts are in the code.
Nothing advances a watermark behind the last record, so windows that are still open at
the end of the topic stay open, and a watermark that was due when a task died is not emitted
again if the restart finds nothing left to read. `FiredRowsReachTheTables` therefore speaks of
fired windows, and `ClosedWindowsReachTheTables` of those that the slowest of the partitions read
since the last start is past. A partition that was *not* read since then must have become
idle for that. It does, while the others are still active: nothing resets its timeout from
the start on, that of the others begins with their last record. The watermark of the *fastest*
partition is not claimed: it may become idle first.

`FairSpec` of `StreamPublisher` assumes weak fairness of the execution's own next step:
`produce` raises on a full queue instead of waiting, `poll(0)` returns at once and `flush`
has a timeout, so no call blocks for ever. Nothing is assumed of the broker.

## 6. Proofs

All proofs are checked by TLAPS from the named `ASSUME`s on constants only, which TLC
evaluates in the runs. What they take from the code:

- `ConfigurationAssumption`, `IsPublisher`, `IsConfiguration` and the like are the validations of `config.py`:
  positive counts, rates below one, unique ids. `DrawAssumption` says that `stable_int` and
  `rng.integers` give numbers below their bound, and `ObjectsAssumption` that the objects `Landing` writes
  are those of `Batches`. `TablesAssumption`: the four datasets are there and finite.
  `GovernanceAssumption`: contracts are different, have assertions, and share none.
- Some theorems have a hypothesis of their own, for what the code does not enforce:
  `ConflictsApart` (the operator does not start conflicting commands together), `Stream!DelayCoversSwaps` (the
  watermark delay is above the delay of events plus the distance of a swap), `SessionsAreDrawn` (a session has one user and one
  content), `DeliveriesRecur` (the bucket has recurring deliveries of a configuration with two schema
  versions, or none), `Publisher!IsPublisher` (an instance's assumption cannot be cited). `ASSUME`s of the
  MC modules have TLC evaluate them on the instances that the runs explore.

Sums and sequences need induction over data. The library states it for operators; the proofs have
it for *sets* instead (`Induction`: a set of numbers that has 0 and with each its successor has all,
from the well-foundedness of `<`; `SetInduction` likewise from that of inclusion), which
quantifies over a set and is within reach of the provers. A recursively defined function is
first shown to exist (`AddsExists`, `FlattenExists`, `IndexesExist`), then to be what its
definition says.

**PlaybackJobProofs.** `Typing`: every reachable state satisfies `TypeOK`, in
particular restarts never exceed the attempts and failed checkpoints never the
tolerated number. Six theorems say what survives recovery. None of the properties is
inductive by itself, and all the invariants are built alike: something said of *one* snapshot
of the job's state is said of the live state, of the last checkpoint and of the snapshot in
progress, which is what makes `Restore` and `CompleteCheckpoint` preserve it.

- `DuplicatesAreApart`, `RememberedHaveOneTimer` (`DedupInv`): accepted records lie before the
  offsets; an id is remembered exactly while a timer is pending, one timer per id, each
  set by an accepted record; an id accepted less than the TTL ago is remembered. A restore is
  harmless exactly because ids, timers and offsets were cut together.
- `DlqIsKept` (`DlqInv`): the malformed records before a snapshot's offsets are in the topic or
  with the producer; once the DLQ sink has acknowledged a checkpoint, those before *its* offsets
  are in the topic.
- `FiredRowsAreKept` (`SinkInv`): the rows that a snapshot regards as fired stand in the table, for
  the live state after its buffer is flushed (`Stands`); a buffer has nothing but fired rows
  (`Buffered`); and what has fired in an earlier snapshot is the same in a later one
  (`Follows`). The last is the heart of it: a fired window takes no further record, so that
  whatever part of whichever buffer reaches the table writes what is there already.
- `LateOnesAreBehind`, `AcceptedOnesAreCounted` (`WatermarkInv`): a partition with records to come
  holds the watermark back by a record of its own (`HeldBack`), so that what is behind the
  watermark is behind its own partition (`Behind`); before the first restart the windows' watermark
  is not ahead of operator 02's (`Together`).

**OperationsProofs.** `JobsKeepTheirTopics` and `ResetsAreClean`, for any number of
submissions, executions, resets and polls, and `Typing`. The invariant: what the client has
ensured so far is there (`FirstAreThere`); a reset that was not fooled runs beside no submission
and, when it deletes, beside no active job, and a job that is not active has nothing in memory
(`Quiet`); between the deletion of the source topic and the truncation the topic has nothing
old (`TopicIsClean`).

**Dp1IngestProofs.** `Typing`; `OneWriter`: drivers of one run that do not overlap never
both append; `ExactSuccess`: a driver that reports success listed exactly the rows that
stand under its run id. The code compares only *counts*, of a listing that may be much
newer than the rows, so the second needs an argument: objects are never removed, so
the listings of successive drivers grow; the one driver that wrote took its rows from
its own listing; hence its rows are a subset of those any later driver lists, and
a subset of equal size is the set. `IngestInv` states this chain step by step (what is
committed, that drivers of a run are serial, who the writer is, and for each phase what
the driver's record means), and the cardinality facts come from `FiniteSetTheorems`.
`OneAppender` is about any overlap: of the drivers of a run that appended, one
succeeds at most. Its invariant `AppenderInv` rests on the users table, the first to be written
and the first to be counted: a driver past that count has found no copy but its own, and
one that counts later finds the other's as well.

**Dp2PipelineProofs.** Of the DAGs, for any deliveries, retries and runs: `SilverOfOneReading`,
`GoldOfOneSilver`, `FeaturesOfOneGold`, `ServingCovers`, and `Typing`. They are about *when*
each table was replaced, hardly about what a transformation computes: the operators of
`Warehouse` stay unexpanded, except that the mart is grouped by its key. Silver tables are
of the driver's reading from the step that replaces each (`SilverInv`); a Gold table is of that
Silver from the moment its model is built, since the models it refers to are built before it and
not again (`GoldInv`); between the delete and the insert the serving copy shares no key with the
mart (`ServingInv`); a feature table is of Gold while the run is calm (`FeatureInv`).
`SuccessesAreComplete` adds what the tests have seen: tables stay finite (`FiniteInv`), a DAG run past
its tests has tables that passed them (`TestedInv`), and a fact table with as many rows as there are
sessions has one for each (`AsManyFacts`), which is what the count in the code is worth.

**RebuildProofs.** `FactsResolve` and `UserHistory`, for every finite landing bucket whose rows
satisfy `IsSource` (in particular `Copies`), and whatever part of it is in Bronze. The invariant
is only that Bronze holds landed rows (`BronzeIsLanded`); the work is in lemmas about the
operators of `Warehouse`. A finite totally preordered set has a greatest element (`Greatest`, from
the well-founded inclusion of finite sets), hence `Newest`, `Latest`, `Min` and `Max` are what their
names say; Silver has one row per entity and time (`DeduplicateStages`), whose latest says what the
source said (`SaidIs`); the timeline has at each time the profile and the plan of that time
(`UserTimelineIs`), and leaving out its repetitions changes no state (`ChangesOnlyIs`); a dimension
has exactly one valid version at each time from its first version or first play on (`OneIsValid`):
its versions neither overlap nor leave gaps. Then a session finds one surrogate key in each dimension
(`OneSurrogateKey`). Four more theorems compare what is built with what would be built of other rows:

- `FeaturesAreStable`: leaving out what happened from a time on changes no feature row before it. The dimension,
  the facts and the two rollups are cut at that time one after the other (`DimensionUntil`, `FactsUntil`,
  `EngagementUntil`, `TrendingUntil`); hours and days that are over have all their sessions (`HourIsOver`,
  `DayIsOver`), and a version that begins later was not the valid one earlier.
- `IngestionIsUndone`: Gold is the same as if every source row had been ingested once. Deduplication
  chooses another copy but the same values (`DeduplicateOnce`), so sessions, staged rows and timelines are
  alike (`SessionsOnce`, `UserTimelineOnce`), and a dimension depends on nothing but those (`DimensionAlike`).
- `RollupsAddUp`: the watch seconds and plays of both rollups are those of the sessions. A sum over a finite
  set is the same in every order (`AddsUnique`), hence over its groups (`TotalOfGroups`); a session has one
  fact with its numbers (`SessionRows`, `FactCarriesSession`), and facts are grouped without loss (`RowsAddUp`).
- `DeliveriesAreHistory`: in whatever order deliveries of two schema versions were ingested, the history has a
  new version exactly where a delivery changed the entity, and the current one says what the last delivery
  said (`ChangedAlike`, `SaidOfDelivery`, `LatestOfDeliveries`, `CurrentVersions`). With three schema versions
  the statement is false, as section 7 explains.

**MaintenanceProofs.** `RowsAreKeptOnce`, `SuccessesAreUnchanged`, `UndisturbedAttemptsSucceed`,
`SnapshotsStayReadable`, and `Typing`, for any number of rows, appends, attempts and any
retention. Of the snapshots the invariant says that each is a partition of its rows into files
(`Partitions`), that rows are only added, and only by DP1 (`RowsGrow`), and that live
snapshots have their files (`Readable`); of the attempts, what they have counted (`Seen`, `Watched`)
and what must have been committed if they find it changed (`Explained`); and that the DAG's two
tasks never overlap, without which the expiration would see the compaction's commit and fail.
That a compaction whose row count is unchanged has the same *rows* follows from `RowsGrow`.

**GeneratorProofs**, in four parts.

*Landing.* `Typing`; `Immutable`: an object once stored never changes, and
`DoneStored`: the bucket holds all objects of every command that ended well. Both take
the hypothesis `ConflictsApart`, that two commands which disagree on an object do not run
at the same time, and section 7 says what happens without it; commands that agree may
run together in any number. The inductive invariant adds what stat-then-put needs: what
lies behind a command's position is stored as the command has it (`Behind`), a command
about to put will not replace other bytes (`PutIsSafe`), and conflicting commands are
never both running (`RunApart`). `PutIsSafe` is the one another command's put could break
between a stat and a put, and `ConflictsApart` is used exactly there.

*StreamPublisher.* `WritesInOrder` and `SuccessIsDelivery`, for any executions, partitions and
messages. `PublisherInv`: acknowledgments, errors, reports not yet served and messages still queued,
summed over the partitions, are the messages published so far (`Progress`); as long as none was
given up, each is in its queue or its partition (`NothingLost`); the log and the queue behind it hold
an execution's messages in order and none twice (`InOrder`). Success compares two *counts* only; that
nothing is outstanding then follows from the sums (`NothingOutstanding`).

*StreamEvents.* `OrderIsFlagged`: an event is flagged as out of order exactly if one of a greater index
was sent before it, and what is behind an earlier event in its `produced_timestamp` is flagged;
`OnlyMarkedAreLate`: an event that is not marked as late is behind no event sent before it by the
watermark delay, under `Stream!DelayCoversSwaps`. The job takes its watermarks from earlier events of a
partition, less the delay, periodically and as the minimum over partitions; none of them is past an event
that is behind no earlier one by the delay. The converse is not claimed, see section 7. The schedule
grows with the index, at the edges of bursts and cycles too, however the capacities are rounded
(`OffsetGrows`), and rounded to milliseconds it does not decrease (`RoundGrows`, `MillisecondsGrow`); in a buffer each swapped event and its
partner are neighbours that no other swap touches (`NoTwoAnchors`, `OrderOfBuffer`); so a stream holds every
event of the buffers so far, in an order where an event may only precede a younger one, its retry, or the
event it was swapped with (`Streamed`, the heart of `StreamInv`).

*Batches.* `SummariesAreTrue`: `rows_after_dedup` is the number of different rows in the bucket, although it
is added up object by object; and `HistoriesAreWhole`: a bootstrap that ended well, however often it was cut
off, leaves each of the `BaseCount` events, each session whole, in order and within its day, and all before
the cutover. Files share a day's rows out without overlap or gap (`FilesShare`), days share the events
and the session numbers (`DaysFollow`, `AllEvents`, `DayOfEvent`), copies add no row (`CopiesAddNone`), so
that no key is in two objects (`KeysApart`) and the counters are right at every step of every command
(`Counted`); an event belongs to one position of one day (`OneEvent`), a session to one day (`OneSession`).
The second holds because sessions are counted *up* (`(count + 2) \div 3`) where a day ends in the middle of one.

**GovernanceProofs.** `SuccessesHaveEvidence`, for any contracts and any number of publications,
and `Typing`. The invariant `Carried` follows the evidence of a success from the suite into the
artifacts, from them to the publisher and from there to DataHub. `ContractsAreComplete`: a contract that DataHub
shows has a definition and a result of each of its assertions; the aspects are a sequence flattened twice, in which
a contract comes after all that belongs to it (`EmitsOfIs`, `EmitsIs`). `VerifiedArePassing`: a verification
that passed while nothing was published has looked at every assertion of every contract (`ChecksIs`).

Only model-checked:

- `ClosedWindowsReachTheTables`, `FiredRowsReachTheTables`, `ExecutionEnds` and the refinement of `FinalTable`:
  liveness under fairness is beyond the prover, and the refinement's final table is given by
  what the whole topic counts.

## 7. Where code and documents differ

A run shows the first of these. The others were met while modelling: properties are
stated so that they hold of the code, and this list says what they leave out.

- **A null payload stops the job** (`playback_null_payload`). A record without a value
  makes operator 01 raise inside its own exception handler, `bytes(None)` at
  `functions.py:97`, so that it is replayed after every restart until the job fails; the
  docstring at line 76 promises one event or one DLQ envelope.
- **A complete run may be refused as partial.** `dp1_ingest_raw.py:158` compares the counts
  of the retry's listing with the rows of the earlier one: once the bucket has grown, a
  run whose output is complete and validated fails with "partial Bronze output".
- **Overlapping drivers can hide a loss.** If two drivers of one run id overlap and one dies
  half way, a later driver may find equal counts with a row twice and another missing, and
  report success (`dp1_ingest_raw.py:201`). `SuccessIsExact` and `OneWriterPerRun` therefore
  exclude overlap; `OneAppenderSucceeds` is what is left with it.
- **Features contain what was watched later in a session.** A session counts in the hour it
  started with the watch time and completion of all its events
  (`mart_content_trending.sql:16`). `FeaturesArePointInTime` is about later sessions.
- **Features of two Golds.** DP3 reads Gold tables one after the other and has no sensor on DP2
  (`dp3_offline_features.py:21`): when DP2 replaces them meanwhile, the two feature tables
  are of different Golds, and the run succeeds. `FeaturesAreOfOneGold` is about calm runs.
- **A row of the mart may have no feature row**: `feat_content_popularity.sql` joins its rollups with
  the viewers of sessions that resolve in the dimensions as they are now, and drops the others.
  `FeaturesArePointInTime` compares the rows there are.
- **The serving copy keeps rows that left the mart.** A session that moves to an earlier
  hour, because an earlier event of it was delivered late, leaves its old row in
  PostgreSQL (`publish_mart_content_trending.sql`). `ServingCoversTheMart` is one inclusion.
- **`days_since_last_playback` is always 0**: its row exists on active days only
  (`feat_user_engagement.sql:49-50`). It is not in the model.
- **A compaction is blamed for an append.** `compact_iceberg.py:113` compares counts before
  and after, whoever committed in between; `UndisturbedSucceeds` excludes such attempts.
- **A reset can take the topics of an active job.** `flink_jobs/README.md:39` says that the command
  refuses while a job is active, but a poll without an answer counts as an empty list
  (`Makefile:362`, a negated `curl | grep` without `pipefail`), and nothing stops a submission beside
  it. Such a reset is `fooled`, and both properties of `Operations` exclude it.
- **A reset whose deletions failed ends well**, since the commands are joined by `;`:
  the old events are still in the topic, and the next job reads them. `ResetIsClean` excludes it.
- **After a restart, accepted records may go uncounted.** Operator 02 has no watermark until
  the next one arrives while the restored windows keep theirs (`functions.py:133`): records that
  it lets through are dropped by the windows. `AcceptedIsCounted` ends with the first restart.
- **A slow partition's backlog is dropped as late** once its idle timeout lets the watermark pass
  (`pipeline.py:174`). `LateIsJustified` assumes that no partition with records to come is idle.
- **Two deliveries of a day with one schema version** claim the same object names
  (`batch/generator.py:321`). If the version is above 1 and changes an entity, the bytes differ by
  the time of that row and the second is refused, as the runs show; otherwise they are equal, and
  the second ends well and leaves nothing of its own (`MCGenerator` states both). **Another
  `history_days`** under the same prefix leaves the objects of two bootstraps side by side; the runs
  give one bootstrap only.
- **Not every swap can be observed.** `stream/generator.py:143` speaks of "observable arrival-order
  violations", but `produced_timestamp` is rounded to milliseconds (lines 129-130): where events are
  less than a millisecond of event time apart, as in `stream_demo.yaml`, a flagged one may have
  the same one as its partner. `FlaggedIsOvertaken` therefore compares indexes, and timestamps in one direction.
- **Not every event marked as late is dropped**: the watermark is emitted periodically and is the
  minimum over partitions, so that a marked event may pass, and an invalid one goes to the DLQ before operator 02
  looks at its time. `docs/ProcessingJobs.md:267-271` has 5% marked and 4.84% dropped. `OnlyMarkedIsLate` is
  one direction.
- **Two conflicting batch commands at once both succeed**, and the second replaces the
  object of the first: `minio_writer.py:74` puts without a condition. `Apart` excludes it.
- **A change of one delivery is taken back by the next.** A third delivery with another
  schema version makes its snapshot from the base values and the first timestamp
  (`batch/generator.py:189`), so the dimension keeps the second version as current.
  The committed configurations have two deliveries; `HistoryIsDeliveries` covers those and
  a third of the same version.
- **A failing suite is never shown.** `run_gx` raises and `publish.sh` stops before anything
  is emitted, so DataHub keeps the last success. Likewise the dbt tests of the DAGs leave
  no artifacts where `publish_governance.py` reads them. `SuccessHasEvidence` says that a
  success shown did happen, not that it is the latest result.

## 8. Not modelled, and what could follow

Not modelled, with the reason:

- **Compose stack and service configuration**: deployment of third-party services, no logic beyond
  ordering. **Storage schemas and benchmarks**: DDL and queries; schemas are read for keys and
  columns. The **skew benchmark** of DP2 writes nothing.
- **Generator configuration** is static validation. What it rules out is stated as assumptions
  (`IsBatch`, `IsStream`, `LandingAssumption`) and the modes' choice is in `Generator`; reading YAML,
  the types of single fields and environment variables are left out.
- **Generator report**: the approximate distinct counts and the histograms of cities and genres.
- **Governance**: ingestion recipes, and the lineage that Airflow and Spark send, which nothing
  modelled reads.
- **dbt tests and columns** that only copy or rename, among them the features' `created` timestamps
  and their test against the event's, and `days_since_last_playback`.
- The **reading of settings** of the Flink and Spark jobs, but for the values that the models have as
  constants.

What could follow, in this order:

1. **Refinement.** The steps of `PlaybackJob` as steps of `FinalTable`, of which the final table (what the
   whole topic counts) is the hard part; DP1 as an atomic append per run that succeeds; the
   landing bucket as an atomic put-if-absent, which `Immutable` nearly is.
2. **Recurring deliveries of more than two schema versions**, with the history they do get.
