------------------------------ MODULE PlaybackJob ------------------------------
(***************************************************************************)
(* The Flink playback job: Kafka source -> contract validation (operator   *)
(* 01, with its dead-letter side output) -> late and duplicate policy      *)
(* (operator 02, keyed by event_id) -> five-minute windows -> two JDBC     *)
(* upsert tables, with checkpoints, bounded restarts and resubmission.     *)
(*                                                                         *)
(* A record is named by its Kafka coordinates <<partition, offset>>.  The  *)
(* topic is drawn at the start and stays fixed: a record that has not been *)
(* read yet is one that has not arrived yet.  Everything a checkpoint      *)
(* persists is one record variable, st; a restore replaces st by the last  *)
(* completed checkpoint and loses every other volatile variable.           *)
(***************************************************************************)
EXTENDS Integers, FiniteSets, Sequences

CONSTANTS
  Partitions,         \* partitions of the source topic
  Ids,                \* event ids
  Keys,               \* user and content ids, the group-by keys of the sinks
  MaxTime,            \* event and Kafka timestamps are 0..MaxTime
  Logs,               \* the source topics to explore
  LateHandling,       \* processing.late_handling_enabled
  DedupEnabled,       \* processing.dedup_enabled
  Ttl,                \* processing.dedup_ttl_minutes
  WatermarkDelay,     \* processing.watermark_seconds
  WindowSize,         \* processing.window_minutes
  RestartAttempts,    \* restart_attempts
  TolerableFailures,  \* checkpoint.tolerable_failures
  SlowPartitions,     \* may a partition that still has records to come idle out?
  MaxNow,             \* bound: ticks of processing time
  MaxCheckpoints,     \* bound: checkpoints triggered
  MaxFaults,          \* bound: faults of the environment
  MaxSubmissions      \* bound: submissions of the job

Times    == 0 .. MaxTime
Payloads == {"valid", "malformed", "null"}
Message  == [payload : Payloads, id : Ids, user : Keys, content : Keys,
             ts : Times, kts : Times]
Record   == Partitions \X (Nat \ {0})
Sinks    == {"playback_metrics", "content_popularity"}
WindowOf(time) == time \div WindowSize
Rows     == {WindowOf(t) : t \in Times} \X Keys

ASSUME TimesAssumption ==
  /\ MaxTime \in Nat
  /\ WindowSize \in Nat \ {0}
  /\ Ttl \in Nat \ {0}
  /\ WatermarkDelay \in Nat
ASSUME FlagsAssumption ==
  LateHandling \in BOOLEAN /\ DedupEnabled \in BOOLEAN /\ SlowPartitions \in BOOLEAN
ASSUME BoundsAssumption ==
  /\ RestartAttempts \in Nat /\ TolerableFailures \in Nat
  /\ MaxNow \in Nat /\ MaxCheckpoints \in Nat
  /\ MaxFaults \in Nat /\ MaxSubmissions \in Nat \ {0}
ASSUME LogsAssumption == \A L \in Logs : L \in [Partitions -> Seq(Message)]

VARIABLES
  log,          \* [Partitions -> Seq(Message)]: the source topic
  st,           \* state a checkpoint covers, see JobState
  ckpt,         \* last completed checkpoint, or the empty state
  pending,      \* the checkpoint in progress, or NoCheckpoint
  status,       \* of the job
  restarts,     \* restarts used by this submission
  ckptFailures, \* consecutive failed checkpoints
  heads,        \* highest Kafka timestamp read from each partition since the start
  wm,           \* current watermark of operator 02, lost by a restart
  buf,          \* rows each JDBC sink has buffered
  table,        \* the two PostgreSQL tables
  dlqBuf,       \* DLQ records the Kafka producer has not had acknowledged
  dlq,          \* the DLQ topic, as the set of its dlq_ids
  now,          \* processing time
  used          \* how much of each bound is spent

vars == <<log, st, ckpt, pending, status, restarts, ckptFailures, heads, wm,
          buf, table, dlqBuf, dlq, now, used>>

NoTime == -1           \* below every timestamp: no watermark, no record read
DlqSink  == "dlq"

Msg(r) == log[r[1]][r[2]]
KeyOf(sink, m) == IF sink = "playback_metrics" THEN m.user ELSE m.content

\* State in the checkpoint.  seen and timers are keyed state of operator 02,
\* winWm and counted are state of the window operators (a window's content is
\* the part of counted that falls into it).  accepted and late are history
\* variables: what operator 02 let through, and when, and what it dropped.
JobState == [pos : [Partitions -> Nat], seen : SUBSET Ids,
             timers : SUBSET [id : Ids, at : Nat],
             winWm : Int, counted : SUBSET Record,
             accepted : SUBSET [rec : Record, at : Nat], late : SUBSET Record]

EmptyState == [pos |-> [p \in Partitions |-> 0], seen |-> {}, timers |-> {},
               winWm |-> NoTime, counted |-> {}, accepted |-> {}, late |-> {}]

NoCheckpoint == [on |-> FALSE, unacked |-> {}, snap |-> EmptyState]

NoRows == [s \in Sinks |-> [row \in Rows |-> {}]]

-----------------------------------------------------------------------------
(* Windows *)

\* A tumbling window fires when the watermark reaches its last instant.
Fired(window, watermark) == (window + 1) * WindowSize - 1 <= watermark

\* The records one output row aggregates.
RowOf(sink, row, records) ==
  {r \in records : WindowOf(Msg(r).ts) = row[1] /\ KeyOf(sink, Msg(r)) = row[2]}

-----------------------------------------------------------------------------
(* Submission *)

Init ==
  /\ log \in Logs
  /\ st = EmptyState /\ ckpt = EmptyState /\ pending = NoCheckpoint
  /\ status = "running" /\ restarts = 0 /\ ckptFailures = 0
  /\ heads = [p \in Partitions |-> NoTime] /\ wm = NoTime
  /\ buf = NoRows /\ table = NoRows
  /\ dlqBuf = {} /\ dlq = {}
  /\ now = 0
  /\ used = [checkpoints |-> 0, faults |-> 0, submissions |-> 1]

\* What the end of the tasks destroys: everything outside the checkpoint.
LoseTasks ==
  /\ buf' = NoRows /\ dlqBuf' = {} /\ pending' = NoCheckpoint
  /\ heads' = [p \in Partitions |-> NoTime] /\ wm' = NoTime

\* INSERT ... ON CONFLICT (primary key) DO UPDATE, for the rows in batch.
Upserted(s, batch) ==
  [row \in Rows |->
     IF row \in batch /\ buf[s][row] # {} THEN buf[s][row] ELSE table[s][row]]

\* A sink whose task is closed, not killed, flushes its buffer on the way out.
CloseSinks ==
  \E closed \in SUBSET Sinks :
    table' = [s \in Sinks |-> IF s \in closed THEN Upserted(s, Rows) ELSE table[s]]

\* fixed_delay_restart: restart while attempts are left, then fail the job.
Failover ==
  /\ LoseTasks
  /\ IF restarts < RestartAttempts
     THEN status' = "restarting" /\ restarts' = restarts + 1
     ELSE status' = "failed" /\ UNCHANGED restarts

\* Mutant: the state of the window operators is not restored.
RestoreWithoutWindows ==
  /\ status = "restarting"
  /\ status' = "running" /\ st' = [ckpt EXCEPT !.counted = {}]
  /\ UNCHANGED <<log, ckpt, pending, restarts, ckptFailures, heads, wm, buf,
                 table, dlqBuf, dlq, now, used>>

\* Mutant: the remembered event ids are kept outside the checkpoint.
RestoreWithoutSeenIds ==
  /\ status = "restarting"
  /\ status' = "running" /\ st' = [ckpt EXCEPT !.seen = {}, !.timers = {}]
  /\ UNCHANGED <<log, ckpt, pending, restarts, ckptFailures, heads, wm, buf,
                 table, dlqBuf, dlq, now, used>>

\* The tasks restart from the last completed checkpoint.
Restore ==
  /\ status = "restarting"
  /\ status' = "running" /\ st' = ckpt
  /\ UNCHANGED <<log, ckpt, pending, restarts, ckptFailures, heads, wm, buf,
                 table, dlqBuf, dlq, now, used>>

\* make flink-cancel
Cancel ==
  /\ status = "running"
  /\ used.submissions < MaxSubmissions
  /\ status' = "cancelled" /\ LoseTasks /\ CloseSinks
  /\ UNCHANGED <<log, st, ckpt, restarts, ckptFailures, dlq, now, used>>

\* make flink-submit: a new job, which never starts from a retained checkpoint.
Resubmit ==
  /\ status \in {"failed", "cancelled"}
  /\ used.submissions < MaxSubmissions
  /\ used' = [used EXCEPT !.submissions = @ + 1]
  /\ st' = EmptyState /\ ckpt' = EmptyState
  /\ status' = "running" /\ restarts' = 0 /\ ckptFailures' = 0
  /\ UNCHANGED <<log, pending, heads, wm, buf, table, dlqBuf, dlq, now>>

-----------------------------------------------------------------------------
(* Source and operator 01: contract validation *)

HasNext(p) == status = "running" /\ st.pos[p] < Len(log[p])
Next1(p)   == <<p, st.pos[p] + 1>>

\* decode_playback accepts the payload; every other payload is a violation.
Decodes(m) == m.payload = "valid"

\* The source stamps every record, malformed ones too, before operator 01.
Consume(p) ==
  /\ heads' = [heads EXCEPT ![p] = IF Msg(Next1(p)).kts > @ THEN Msg(Next1(p)).kts ELSE @]
  /\ UNCHANGED <<log, ckpt, pending, status, restarts, ckptFailures, wm, buf,
                 table, dlq, now, used>>

\* The dlq_id of an envelope depends on the Kafka coordinates only, so the
\* envelope of a replayed record is the one it had before.
DlqId(p) == Next1(p)

RouteToDlq(p) ==
  /\ HasNext(p) /\ Msg(Next1(p)).payload = "malformed"
  /\ st' = [st EXCEPT !.pos[p] = @ + 1]
  /\ dlqBuf' = dlqBuf \cup {DlqId(p)}
  /\ Consume(p)

\* bytes(None) raises in the handler of the exception it raised: the operator
\* fails and the record is read again after the restart.
ValidationFails(p) ==
  /\ HasNext(p) /\ Msg(Next1(p)).payload = "null"
  /\ Failover /\ CloseSinks
  /\ UNCHANGED <<log, st, ckpt, ckptFailures, dlq, now, used>>

-----------------------------------------------------------------------------
(* Operator 02: LateAndDuplicateFunction *)

\* Mutant: the comparison misses an event exactly at the watermark.
IsLateStrictly(m) == LateHandling /\ m.ts < wm

IsLate(m) == LateHandling /\ m.ts <= wm
IsDuplicate(m) == DedupEnabled /\ m.id \in st.seen

DropLate(p) ==
  /\ HasNext(p) /\ Decodes(Msg(Next1(p))) /\ IsLate(Msg(Next1(p)))
  /\ st' = [st EXCEPT !.pos[p] = @ + 1, !.late = @ \cup {Next1(p)}]
  /\ Consume(p) /\ UNCHANGED dlqBuf

DropDuplicate(p) ==
  /\ HasNext(p) /\ Decodes(Msg(Next1(p)))
  /\ ~IsLate(Msg(Next1(p))) /\ IsDuplicate(Msg(Next1(p)))
  /\ st' = [st EXCEPT !.pos[p] = @ + 1]
  /\ Consume(p) /\ UNCHANGED dlqBuf

\* State after a record passes operator 02: the id is remembered until a timer
\* Ttl later, and the window operators count the record unless they have
\* already fired its window.
Accepted(p, r, m) ==
  [st EXCEPT
    !.pos[p] = @ + 1,
    !.seen = IF DedupEnabled THEN @ \cup {m.id} ELSE @,
    !.timers = IF DedupEnabled THEN @ \cup {[id |-> m.id, at |-> now + Ttl]} ELSE @,
    !.accepted = @ \cup {[rec |-> r, at |-> now]},
    !.counted = IF Fired(WindowOf(m.ts), st.winWm) THEN @ ELSE @ \cup {r}]

Accept(p) ==
  /\ HasNext(p) /\ Decodes(Msg(Next1(p)))
  /\ ~IsLate(Msg(Next1(p))) /\ ~IsDuplicate(Msg(Next1(p)))
  /\ st' = Accepted(p, Next1(p), Msg(Next1(p)))
  /\ Consume(p) /\ UNCHANGED dlqBuf

\* on_timer clears the state of its key; a due timer may fire late.
OnTimer ==
  /\ status = "running"
  /\ \E t \in st.timers :
       /\ t.at <= now
       /\ st' = [st EXCEPT !.timers = @ \ {t}, !.seen = @ \ {t.id}]
  /\ UNCHANGED <<log, ckpt, pending, status, restarts, ckptFailures, heads, wm,
                 buf, table, dlqBuf, dlq, now, used>>

-----------------------------------------------------------------------------
(* Watermarks: periodic, the minimum over the partitions that are not idle *)

\* Mutant: no idle timeout.
NeverIdle(p) == FALSE

MayBeIdle(p) == SlowPartitions \/ st.pos[p] = Len(log[p])

\* Mutant: the fastest partition drives the watermark.
EmitFastestWatermark(active) ==
  /\ status = "running"
  /\ \E p \in active :
       /\ heads[p] - WatermarkDelay > wm
       /\ wm' = heads[p] - WatermarkDelay
  /\ st' = [st EXCEPT !.winWm = IF wm' > @ THEN wm' ELSE @]
  /\ UNCHANGED <<log, ckpt, pending, status, restarts, ckptFailures, heads, buf,
                 table, dlqBuf, dlq, now, used>>

\* active holds back the watermark at its slowest partition; every window the
\* watermark passes emits one row per key into both sinks' buffers.
EmitWatermark(active) ==
  /\ status = "running"
  /\ \A p \in Partitions \ active : MayBeIdle(p)
  /\ \E p \in active :
       /\ \A q \in active : heads[p] <= heads[q]
       /\ heads[p] # NoTime
       /\ heads[p] - WatermarkDelay > wm
       /\ wm' = heads[p] - WatermarkDelay
  /\ st' = [st EXCEPT !.winWm = IF wm' > @ THEN wm' ELSE @]
  /\ buf' = [s \in Sinks |-> [row \in Rows |->
               IF Fired(row[1], wm') /\ ~Fired(row[1], st.winWm)
                  /\ RowOf(s, row, st.counted) # {}
               THEN RowOf(s, row, st.counted) ELSE buf[s][row]]]
  /\ UNCHANGED <<log, ckpt, pending, status, restarts, ckptFailures, heads,
                 table, dlqBuf, dlq, now, used>>

-----------------------------------------------------------------------------
(* Sinks *)

\* Mutant: the buffer is flushed by size only.
FlushBySize(s) ==
  /\ status = "running"
  /\ Cardinality({row \in Rows : buf[s][row] # {}}) > 1
  /\ table' = [table EXCEPT ![s] = Upserted(s, Rows)]
  /\ buf' = [buf EXCEPT ![s] = NoRows[s]]
  /\ UNCHANGED <<log, st, ckpt, pending, status, restarts, ckptFailures, heads,
                 wm, dlqBuf, dlq, now, used>>

\* The buffer of a sink is written on an interval or once it is full.
Flush(s) ==
  /\ status = "running"
  /\ buf[s] # NoRows[s]
  /\ table' = [table EXCEPT ![s] = Upserted(s, Rows)]
  /\ buf' = [buf EXCEPT ![s] = NoRows[s]]
  /\ UNCHANGED <<log, st, ckpt, pending, status, restarts, ckptFailures, heads,
                 wm, dlqBuf, dlq, now, used>>

Fault == /\ used.faults < MaxFaults
         /\ used' = [used EXCEPT !.faults = @ + 1]

\* Mutant: the rows that were not written are given up and the job goes on.
FlushFailsQuietly(s) ==
  /\ status = "running" /\ Fault
  /\ buf[s] # NoRows[s]
  /\ \E batch \in SUBSET {row \in Rows : buf[s][row] # {}} :
       table' = [table EXCEPT ![s] = Upserted(s, batch)]
  /\ buf' = [buf EXCEPT ![s] = NoRows[s]]
  /\ UNCHANGED <<log, st, ckpt, pending, status, restarts, ckptFailures, heads, wm,
                 dlqBuf, dlq, now>>

\* The sink's retries are exhausted after some rows were written.
FlushFails(s) ==
  /\ status = "running" /\ Fault
  /\ buf[s] # NoRows[s]
  /\ \E batch \in SUBSET {row \in Rows : buf[s][row] # {}} :
       table' = [table EXCEPT ![s] = Upserted(s, batch)]
  /\ Failover
  /\ UNCHANGED <<log, st, ckpt, ckptFailures, dlq, now>>

SendDlq ==
  /\ status = "running"
  /\ \E r \in dlqBuf : dlqBuf' = dlqBuf \ {r} /\ dlq' = dlq \cup {r}
  /\ UNCHANGED <<log, st, ckpt, pending, status, restarts, ckptFailures, heads,
                 wm, buf, table, now, used>>

-----------------------------------------------------------------------------
(* Checkpoints *)

\* The barriers cut every channel at once: the snapshot is the effect of the
\* records before them.  The checkpoint waits for the three sinks to flush.
TriggerCheckpoint ==
  /\ status = "running" /\ ~pending.on
  /\ used.checkpoints < MaxCheckpoints
  /\ used' = [used EXCEPT !.checkpoints = @ + 1]
  /\ pending' = [on |-> TRUE, unacked |-> Sinks \cup {DlqSink}, snap |-> st]
  /\ UNCHANGED <<log, st, ckpt, status, restarts, ckptFailures, heads, wm, buf,
                 table, dlqBuf, dlq, now>>

Acked(s) == [pending EXCEPT !.unacked = @ \ {s}]

AckJdbc(s) ==
  /\ status = "running" /\ s \in pending.unacked
  /\ table' = [table EXCEPT ![s] = Upserted(s, Rows)]
  /\ buf' = [buf EXCEPT ![s] = NoRows[s]]
  /\ pending' = Acked(s)
  /\ UNCHANGED <<log, st, ckpt, status, restarts, ckptFailures, heads, wm,
                 dlqBuf, dlq, now, used>>

\* Mutant: the DLQ producer acknowledges the barrier without flushing.
AckDlqUnflushed ==
  /\ status = "running" /\ DlqSink \in pending.unacked
  /\ pending' = Acked(DlqSink)
  /\ UNCHANGED <<log, st, ckpt, status, restarts, ckptFailures, heads, wm, buf,
                 table, dlqBuf, dlq, now, used>>

AckDlq ==
  /\ status = "running" /\ DlqSink \in pending.unacked
  /\ dlq' = dlq \cup dlqBuf /\ dlqBuf' = {}
  /\ pending' = Acked(DlqSink)
  /\ UNCHANGED <<log, st, ckpt, status, restarts, ckptFailures, heads, wm, buf,
                 table, now, used>>

CompleteCheckpoint ==
  /\ status = "running" /\ pending.on /\ pending.unacked = {}
  /\ ckpt' = pending.snap /\ pending' = NoCheckpoint /\ ckptFailures' = 0
  /\ UNCHANGED <<log, st, status, restarts, heads, wm, buf, table, dlqBuf, dlq,
                 now, used>>

\* A checkpoint times out.  Past the tolerated number the job fails over.
AbortCheckpoint ==
  /\ status = "running" /\ pending.on /\ Fault
  /\ IF ckptFailures < TolerableFailures
     THEN /\ ckptFailures' = ckptFailures + 1
          /\ pending' = NoCheckpoint
          /\ UNCHANGED <<status, restarts, heads, wm, buf, table, dlqBuf>>
     ELSE Failover /\ CloseSinks /\ ckptFailures' = 0
  /\ UNCHANGED <<log, st, ckpt, dlq, now>>

-----------------------------------------------------------------------------
(* Environment *)

\* A TaskManager or an operator is lost.
Crash ==
  /\ status = "running" /\ Fault
  /\ Failover /\ CloseSinks
  /\ UNCHANGED <<log, st, ckpt, ckptFailures, dlq, now>>

Tick ==
  /\ now < MaxNow /\ now' = now + 1
  /\ UNCHANGED <<log, st, ckpt, pending, status, restarts, ckptFailures, heads,
                 wm, buf, table, dlqBuf, dlq, used>>

Read(p) ==
  RouteToDlq(p) \/ ValidationFails(p) \/ DropLate(p) \/ DropDuplicate(p) \/ Accept(p)

Watermark == \E active \in SUBSET Partitions : EmitWatermark(active)

Next ==
  \/ \E p \in Partitions : RouteToDlq(p)
  \/ \E p \in Partitions : ValidationFails(p)
  \/ \E p \in Partitions : DropLate(p)
  \/ \E p \in Partitions : DropDuplicate(p)
  \/ \E p \in Partitions : Accept(p)
  \/ OnTimer
  \/ Watermark
  \/ \E s \in Sinks : Flush(s)
  \/ \E s \in Sinks : FlushFails(s)
  \/ SendDlq
  \/ TriggerCheckpoint
  \/ \E s \in Sinks : AckJdbc(s)
  \/ AckDlq
  \/ CompleteCheckpoint
  \/ AbortCheckpoint
  \/ Crash
  \/ Restore
  \/ Cancel
  \/ Resubmit
  \/ Tick

Spec == Init /\ [][Next]_vars

\* The source polls every partition, the sinks flush on an interval, watermarks
\* are periodic and the restart strategy restarts: none of them waits forever.
Fairness ==
  /\ \A p \in Partitions : WF_vars(Read(p))
  /\ WF_vars(Watermark)
  /\ \A s \in Sinks : WF_vars(Flush(s))
  /\ WF_vars(Restore)

FairSpec == Spec /\ Fairness
-----------------------------------------------------------------------------
(* Properties *)

TypeOK ==
  /\ log \in [Partitions -> Seq(Message)]
  /\ st \in JobState /\ ckpt \in JobState
  /\ pending \in [on : BOOLEAN, unacked : SUBSET (Sinks \cup {DlqSink}), snap : JobState]
  /\ status \in {"running", "restarting", "failed", "cancelled"}
  /\ restarts \in 0 .. RestartAttempts /\ ckptFailures \in 0 .. TolerableFailures
  /\ heads \in [Partitions -> Times \cup {NoTime}]
  /\ wm \in Int
  /\ buf \in [Sinks -> [Rows -> SUBSET Record]]
  /\ table \in [Sinks -> [Rows -> SUBSET Record]]
  /\ dlqBuf \in SUBSET Record /\ dlq \in SUBSET Record
  /\ now \in 0 .. MaxNow
  /\ used \in [checkpoints : 0 .. MaxCheckpoints, faults : 0 .. MaxFaults,
                submissions : 1 .. MaxSubmissions]

\* Operator 02 never lets two records with one event_id through less than the
\* TTL apart, even when a restore replays records: the checkpoint holds the
\* remembered ids of exactly the records before its source offsets.
DuplicatesApartByTtl ==
  DedupEnabled =>
    \A a, b \in st.accepted :
      a # b /\ Msg(a.rec).id = Msg(b.rec).id =>
        a.rec # b.rec /\ (a.at + Ttl <= b.at \/ b.at + Ttl <= a.at)

\* Dedup state is neither leaked nor cleared early: an id is remembered exactly
\* while one timer is pending for it, that of the last record accepted with it.
RememberedIdsHaveOneTimer ==
  /\ \A id \in Ids : id \in st.seen <=> \E t \in st.timers : t.id = id
  /\ \A t, u \in st.timers : t.id = u.id => t = u
  /\ \A t \in st.timers :
       \E a \in st.accepted : Msg(a.rec).id = t.id /\ t.at = a.at + Ttl

\* A record operator 02 drops as late is behind its own partition: a record
\* before it in the same partition is ahead of its event time by the delay.
\* Holds while no partition with records to come is taken for idle.
LateIsJustified ==
  ~SlowPartitions =>
    \A r \in st.late :
      \E o \in 1 .. r[2] - 1 : log[r[1]][o].kts - WatermarkDelay >= Msg(r).ts

\* Until the first restart the window operators count every record operator 02
\* lets through: no record is dropped past the late_events_dropped counter.
AcceptedIsCounted ==
  LateHandling /\ restarts = 0 => \A a \in st.accepted : a.rec \in st.counted

\* What the tables will hold once the sinks' buffers are flushed.
Published(s, row) == IF buf[s][row] # {} THEN buf[s][row] ELSE table[s][row]

\* A window the job's state regards as fired has its row, with the records the
\* state counted, in the table or on its way there.  So a checkpoint never
\* covers a window whose rows it has not flushed.
FiredRowsArePublished ==
  status = "running" =>
    \A s \in Sinks : \A row \in Rows :
      Fired(row[1], st.winWm) /\ RowOf(s, row, st.counted) # {} =>
        Published(s, row) = RowOf(s, row, st.counted)

\* Every malformed record the last checkpoint has moved past is in the DLQ: a
\* restore never skips one.
DlqIsDurable ==
  \A p \in Partitions : \A o \in 1 .. ckpt.pos[p] :
    log[p][o].payload = "malformed" => <<p, o>> \in dlq

\* "Yield one accepted event or one encoded DLQ envelope" (process_element):
\* whatever the payload, validation alone never brings the job down.
ValidationNeverStopsTheJob == used.faults = 0 => status # "failed"

\* Of the partitions that were read since the last start, the one that is behind.
Slowest(p) == heads[p] # NoTime /\ \A q \in Partitions : heads[q] # NoTime => heads[p] <= heads[q]

\* Unless the job has failed or is cancelled, a window that the slowest of the read
\* partitions is past by the delay ends up in the tables.  A partition that has
\* nothing to read after a restart must not hold the watermark back for ever: its
\* idle timeout runs from the restart on, those of the others from their last record.
ClosedWindowsReachTheTables ==
  <>[](\/ status \in {"failed", "cancelled"}
       \/ \A p \in Partitions : Slowest(p) => \A s \in Sinks : \A row \in Rows :
            Fired(row[1], heads[p] - WatermarkDelay) /\ RowOf(s, row, st.counted) # {} =>
              table[s][row] = RowOf(s, row, st.counted))

\* Unless the job has failed or is cancelled, the rows of fired windows end up
\* in the tables.
FiredRowsReachTheTables ==
  <>[](\/ status \in {"failed", "cancelled"}
       \/ \A s \in Sinks : \A row \in Rows :
            Fired(row[1], st.winWm) /\ RowOf(s, row, st.counted) # {} =>
              table[s][row] = RowOf(s, row, st.counted))

-----------------------------------------------------------------------------
(* Refinement: on a topic that is InTime, its partitions in order up to the  *)
(* watermark delay, the tables only ever hold final rows, see FinalTable.    *)

InTime(topic) ==
  \A p \in Partitions : \A i, j \in 1 .. Len(topic[p]) :
    i < j /\ topic[p][j].payload = "valid" =>
      topic[p][j].ts > topic[p][i].kts - WatermarkDelay

ValidRecords ==
  {r \in UNION {{p} \X (1 .. Len(log[p])) : p \in Partitions} : Decodes(Msg(r))}

\* What COUNT(*) and the distinct counts of one row are computed from.
Aggregate(records) ==
  [events |-> Cardinality(records), ids |-> {Msg(r).id : r \in records}]

\* The value of a row once every valid record of the topic is counted, each
\* event once when the job deduplicates.
FinalRow(s, row, valid) ==
  LET records == RowOf(s, row, valid)
      ids     == {Msg(r).id : r \in records}
  IN  [events |-> IF DedupEnabled THEN Cardinality(ids) ELSE Cardinality(records),
       ids    |-> ids]

Final    == LET valid == ValidRecords
            IN  [s \in Sinks |-> [row \in Rows |-> FinalRow(s, row, valid)]]
Observed == [s \in Sinks |-> [row \in Rows |-> Aggregate(table[s][row])]]

Tables == INSTANCE FinalTable WITH final <- Final, rows <- Observed

\* The job implements the abstract table: every row appears complete and is
\* never retracted, through crashes, replays and resubmissions.
ImplementsFinalTable == Tables!Spec
=============================================================================
