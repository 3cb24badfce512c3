-------------------------- MODULE PlaybackJobProofs --------------------------
(***************************************************************************)
(* What holds of PlaybackJob for every topic, every configuration and any  *)
(* number of faults, checkpoints and submissions: its types, and, across   *)
(* every recovery, that deduplication is exact within the TTL, that fired  *)
(* windows and malformed records are where they belong, and that only what *)
(* is late is dropped as late.                                             *)
(***************************************************************************)
EXTENDS PlaybackJob, TLAPS

-----------------------------------------------------------------------------
(* Types *)

LEMMA EmptyStateType == EmptyState \in JobState
BY DEF EmptyState, JobState, NoTime

LEMMA NoRowsType == NoRows \in [Sinks -> [Rows -> SUBSET Record]]
BY DEF NoRows

LEMMA NoCheckpointType ==
  NoCheckpoint \in [on : BOOLEAN, unacked : SUBSET (Sinks \cup {DlqSink}), snap : JobState]
BY EmptyStateType DEF NoCheckpoint

\* A record that can be read is a message, at the next coordinates.
LEMMA NextType ==
  ASSUME TypeOK, NEW p \in Partitions, HasNext(p)
  PROVE  /\ Next1(p) \in Record
         /\ Msg(Next1(p)) \in Message
<1>1. st.pos[p] \in Nat /\ log[p] \in Seq(Message)
  BY DEF TypeOK, JobState
<1>2. st.pos[p] + 1 \in 1 .. Len(log[p])
  BY <1>1 DEF HasNext
<1>3. log[p][st.pos[p] + 1] \in Message
  BY <1>1, <1>2
<1> QED
  BY <1>1, <1>3 DEF Next1, Msg, Record

\* Consuming a record leaves every other variable well typed.
LEMMA ConsumeType ==
  ASSUME TypeOK, NEW p \in Partitions, HasNext(p), Consume(p),
         st' \in JobState, dlqBuf' \in SUBSET Record
  PROVE  TypeOK'
<1>1. Msg(Next1(p)).kts \in Times
  BY NextType DEF Message
<1>2. heads' \in [Partitions -> Times \cup {NoTime}]
  BY <1>1 DEF Consume, TypeOK
<1> QED
  BY <1>2 DEF Consume, TypeOK

\* Writing any part of a sink's buffer gives a table of the same type.
LEMMA UpsertedType ==
  ASSUME TypeOK, NEW s \in Sinks, NEW batch
  PROVE  Upserted(s, batch) \in [Rows -> SUBSET Record]
BY DEF TypeOK, Upserted

\* So does closing the sinks with their tasks.
LEMMA CloseSinksType ==
  ASSUME TypeOK, CloseSinks
  PROVE  table' \in [Sinks -> [Rows -> SUBSET Record]]
<1>1. PICK closed \in SUBSET Sinks :
        table' = [s \in Sinks |-> IF s \in closed THEN Upserted(s, Rows) ELSE table[s]]
  BY DEF CloseSinks
<1>2. ASSUME NEW s \in Sinks PROVE table[s] \in [Rows -> SUBSET Record]
  BY DEF TypeOK
<1> QED
  BY <1>1, <1>2, UpsertedType

\* The end of the tasks leaves their variables in their initial, typed state.
LEMMA LoseTasksType ==
  ASSUME LoseTasks
  PROVE  /\ buf' \in [Sinks -> [Rows -> SUBSET Record]]
         /\ dlqBuf' \in SUBSET Record
         /\ pending' \in [on : BOOLEAN, unacked : SUBSET (Sinks \cup {DlqSink}), snap : JobState]
         /\ heads' \in [Partitions -> Times \cup {NoTime}]
         /\ wm' \in Int
BY NoRowsType, NoCheckpointType DEF LoseTasks, NoTime

\* A failover keeps the types, whatever was written to the tables before it.
LEMMA FailoverType ==
  ASSUME TypeOK, Failover, table' \in [Sinks -> [Rows -> SUBSET Record]],
         st' = st, ckpt' = ckpt, log' = log, dlq' = dlq, now' = now,
         ckptFailures' \in 0 .. TolerableFailures,
         used' \in [checkpoints : 0 .. MaxCheckpoints, faults : 0 .. MaxFaults,
                    submissions : 1 .. MaxSubmissions]
  PROVE  TypeOK'
<1>1. LoseTasks
  BY DEF Failover
<1>2. /\ status' \in {"running", "restarting", "failed", "cancelled"}
      /\ restarts' \in 0 .. RestartAttempts
  BY BoundsAssumption DEF Failover, TypeOK
<1> QED
  BY <1>1, <1>2, LoseTasksType DEF TypeOK

\* Spending a fault stays within its bound.
LEMMA FaultType ==
  ASSUME TypeOK, Fault
  PROVE  used' \in [checkpoints : 0 .. MaxCheckpoints, faults : 0 .. MaxFaults,
                    submissions : 1 .. MaxSubmissions]
<1>1. /\ used \in [checkpoints : 0 .. MaxCheckpoints, faults : 0 .. MaxFaults,
                   submissions : 1 .. MaxSubmissions]
      /\ MaxFaults \in Nat
  BY BoundsAssumption DEF TypeOK
<1>2. used.faults + 1 \in 0 .. MaxFaults
  BY <1>1 DEF Fault
<1> QED
  BY <1>1, <1>2 DEF Fault

\* The state after a record passes operator 02.
LEMMA AcceptedType ==
  ASSUME st \in JobState, NEW p \in Partitions, NEW r \in Record, NEW m,
         m.id \in Ids, now \in Nat, now + Ttl \in Nat
  PROVE  Accepted(p, r, m) \in JobState
<1> DEFINE seen     == IF DedupEnabled THEN st.seen \cup {m.id} ELSE st.seen
           timers   == IF DedupEnabled THEN st.timers \cup {[id |-> m.id, at |-> now + Ttl]}
                       ELSE st.timers
           accepted == st.accepted \cup {[rec |-> r, at |-> now]}
           counted  == IF Fired(WindowOf(m.ts), st.winWm) THEN st.counted
                       ELSE st.counted \cup {r}
           pos      == [st.pos EXCEPT ![p] = @ + 1]
<1>1. pos \in [Partitions -> Nat] /\ seen \in SUBSET Ids
  BY DEF JobState
<1>2. timers \in SUBSET [id : Ids, at : Nat]
  BY DEF JobState
<1>3. accepted \in SUBSET [rec : Record, at : Nat]
  BY DEF JobState
<1>4. counted \in SUBSET Record
  BY DEF JobState
<1>5. Accepted(p, r, m) = [st EXCEPT !.pos = pos, !.seen = seen, !.timers = timers,
                                     !.accepted = accepted, !.counted = counted]
  BY DEF Accepted
<1> HIDE DEF seen, timers, accepted, counted, pos
<1> QED
  BY <1>1, <1>2, <1>3, <1>4, <1>5 DEF JobState

\* Reading a record: the five outcomes of operators 01 and 02.
LEMMA ReadType ==
  ASSUME TypeOK, NEW p \in Partitions, Read(p)
  PROVE  TypeOK'
<1>0. st \in JobState
  BY DEF TypeOK
<1>1. CASE RouteToDlq(p)
  <2>1. HasNext(p) /\ Consume(p)
    BY <1>1 DEF RouteToDlq
  <2>2. st' \in JobState
    BY <1>0, <1>1 DEF RouteToDlq, JobState
  <2>3. dlqBuf' \in SUBSET Record
    BY <1>1, <2>1, NextType DEF RouteToDlq, DlqId, TypeOK
  <2> QED
    BY <2>1, <2>2, <2>3, ConsumeType
<1>2. CASE ValidationFails(p)
  <2>1. table' \in [Sinks -> [Rows -> SUBSET Record]]
    BY <1>2, CloseSinksType DEF ValidationFails
  <2> QED
    BY <1>2, <2>1, FailoverType DEF ValidationFails, TypeOK
<1>3. CASE DropLate(p)
  <2>1. HasNext(p) /\ Consume(p)
    BY <1>3 DEF DropLate
  <2>2. Next1(p) \in Record
    BY <2>1, NextType
  <2>3. st.late \cup {Next1(p)} \in SUBSET Record
    BY <1>0, <2>2 DEF JobState
  <2>4. [st.pos EXCEPT ![p] = @ + 1] \in [Partitions -> Nat]
    BY <1>0 DEF JobState
  <2>5. st' = [st EXCEPT !.pos = [st.pos EXCEPT ![p] = @ + 1], !.late = @ \cup {Next1(p)}]
    BY <1>3 DEF DropLate
  <2>6. st' \in JobState
    BY <1>0, <2>3, <2>4, <2>5 DEF JobState
  <2> QED
    BY <1>3, <2>1, <2>6, ConsumeType DEF DropLate, TypeOK
<1>4. CASE DropDuplicate(p)
  <2>1. HasNext(p) /\ Consume(p)
    BY <1>4 DEF DropDuplicate
  <2>2. st' \in JobState
    BY <1>0, <1>4 DEF DropDuplicate, JobState
  <2> QED
    BY <1>4, <2>1, <2>2, ConsumeType DEF DropDuplicate, TypeOK
<1>5. CASE Accept(p)
  <2>1. HasNext(p) /\ Consume(p)
    BY <1>5 DEF Accept
  <2>2. Next1(p) \in Record /\ Msg(Next1(p)).id \in Ids
    BY <2>1, NextType DEF Message
  <2>3. now \in Nat /\ now + Ttl \in Nat
    BY TimesAssumption, BoundsAssumption DEF TypeOK
  <2>4. Accepted(p, Next1(p), Msg(Next1(p))) \in JobState
    BY <1>0, <2>2, <2>3, AcceptedType
  <2> QED
    BY <1>5, <2>1, <2>4, ConsumeType DEF Accept, TypeOK
<1> QED
  BY <1>1, <1>2, <1>3, <1>4, <1>5 DEF Read

\* Firing the windows the watermark passes.
LEMMA EmitWatermarkType ==
  ASSUME TypeOK, NEW active \in SUBSET Partitions, EmitWatermark(active)
  PROVE  TypeOK'
<1>1. PICK p \in active : wm' = heads[p] - WatermarkDelay
  BY DEF EmitWatermark
<1>2. heads[p] \in Int
  BY TimesAssumption DEF TypeOK, Times, NoTime
<1>3. wm' \in Int
  BY <1>1, <1>2, TimesAssumption
<1>4. st' = [st EXCEPT !.winWm = IF wm' > @ THEN wm' ELSE @]
  BY DEF EmitWatermark
<1>5. st' \in JobState
  BY <1>3, <1>4 DEF TypeOK, JobState
<1>6. ASSUME NEW s \in Sinks, NEW row \in Rows
      PROVE  RowOf(s, row, st.counted) \in SUBSET Record
  BY DEF TypeOK, JobState, RowOf
<1>7. buf' \in [Sinks -> [Rows -> SUBSET Record]]
  <2>1. ASSUME NEW s \in Sinks, NEW row \in Rows
        PROVE  buf[s][row] \in SUBSET Record
    BY DEF TypeOK
  <2> QED
    BY <1>6, <2>1 DEF EmitWatermark
<1> QED
  BY <1>3, <1>5, <1>7 DEF EmitWatermark, TypeOK

\* Writing a sink's buffer out and emptying it.
LEMMA WrittenType ==
  ASSUME TypeOK, NEW s \in Sinks,
         table' = [table EXCEPT ![s] = Upserted(s, Rows)],
         buf' = [buf EXCEPT ![s] = NoRows[s]]
  PROVE  /\ table' \in [Sinks -> [Rows -> SUBSET Record]]
         /\ buf' \in [Sinks -> [Rows -> SUBSET Record]]
<1>1. NoRows[s] \in [Rows -> SUBSET Record]
  BY NoRowsType
<1> QED
  BY <1>1, UpsertedType DEF TypeOK

\* Every step keeps the types of the job's variables.
LEMMA TypeStep == TypeOK /\ [Next]_vars => TypeOK'
<1> SUFFICES ASSUME TypeOK, [Next]_vars PROVE TypeOK'
  OBVIOUS
<1>1. ASSUME NEW p \in Partitions, Read(p) PROVE TypeOK'
  BY <1>1, ReadType
<1>2. CASE OnTimer
  <2>1. PICK t \in st.timers :
          st' = [st EXCEPT !.timers = @ \ {t}, !.seen = @ \ {t.id}]
    BY <1>2 DEF OnTimer
  <2>2. st' \in JobState
    BY <2>1 DEF TypeOK, JobState
  <2> QED
    BY <1>2, <2>2 DEF OnTimer, TypeOK
<1>3. CASE Watermark
  BY <1>3, EmitWatermarkType DEF Watermark
<1>4. ASSUME NEW s \in Sinks, Flush(s) PROVE TypeOK'
  BY <1>4, WrittenType DEF Flush, TypeOK
<1>5. ASSUME NEW s \in Sinks, FlushFails(s) PROVE TypeOK'
  <2>1. PICK batch : table' = [table EXCEPT ![s] = Upserted(s, batch)]
    BY <1>5 DEF FlushFails
  <2>2. table' \in [Sinks -> [Rows -> SUBSET Record]]
    BY <2>1, UpsertedType DEF TypeOK
  <2> QED
    BY <1>5, <2>2, FaultType, FailoverType DEF FlushFails, TypeOK
<1>6. CASE SendDlq
  BY <1>6 DEF SendDlq, TypeOK
<1>7. CASE TriggerCheckpoint
  <2>1. pending' \in [on : BOOLEAN, unacked : SUBSET (Sinks \cup {DlqSink}), snap : JobState]
    BY <1>7 DEF TriggerCheckpoint, TypeOK
  <2>2. used.checkpoints + 1 \in 0 .. MaxCheckpoints
    BY <1>7, BoundsAssumption DEF TriggerCheckpoint, TypeOK
  <2> QED
    BY <1>7, <2>1, <2>2 DEF TriggerCheckpoint, TypeOK
<1>8. ASSUME NEW s \in Sinks, AckJdbc(s) PROVE TypeOK'
  <2>1. pending' \in [on : BOOLEAN, unacked : SUBSET (Sinks \cup {DlqSink}), snap : JobState]
    BY <1>8 DEF AckJdbc, Acked, TypeOK
  <2> QED
    BY <1>8, <2>1, WrittenType DEF AckJdbc, TypeOK
<1>9. CASE AckDlq
  <2>1. pending' \in [on : BOOLEAN, unacked : SUBSET (Sinks \cup {DlqSink}), snap : JobState]
    BY <1>9 DEF AckDlq, Acked, TypeOK
  <2> QED
    BY <1>9, <2>1 DEF AckDlq, TypeOK
<1>10. CASE CompleteCheckpoint
  BY <1>10, NoCheckpointType, BoundsAssumption DEF CompleteCheckpoint, TypeOK
<1>11. CASE AbortCheckpoint
  <2>1. CASE ckptFailures < TolerableFailures
    <3>1. ckptFailures + 1 \in 0 .. TolerableFailures
      BY <2>1, BoundsAssumption DEF TypeOK
    <3> QED
      BY <1>11, <2>1, <3>1, FaultType, NoCheckpointType DEF AbortCheckpoint, TypeOK
  <2>2. CASE ~(ckptFailures < TolerableFailures)
    <3>1. Failover /\ CloseSinks /\ ckptFailures' \in 0 .. TolerableFailures
      BY <1>11, <2>2, BoundsAssumption DEF AbortCheckpoint
    <3> QED
      BY <1>11, <3>1, FaultType, CloseSinksType, FailoverType DEF AbortCheckpoint
  <2> QED
    BY <2>1, <2>2
<1>12. CASE Crash
  BY <1>12, FaultType, CloseSinksType, FailoverType DEF Crash, TypeOK
<1>13. CASE Restore
  BY <1>13 DEF Restore, TypeOK
<1>14. CASE Cancel
  BY <1>14, LoseTasksType, CloseSinksType DEF Cancel, TypeOK
<1>15. CASE Resubmit
  <2>1. used.submissions + 1 \in 1 .. MaxSubmissions
    BY <1>15, BoundsAssumption DEF Resubmit, TypeOK
  <2>2. restarts' \in 0 .. RestartAttempts /\ ckptFailures' \in 0 .. TolerableFailures
    BY <1>15, BoundsAssumption DEF Resubmit
  <2>3. used' \in [checkpoints : 0 .. MaxCheckpoints, faults : 0 .. MaxFaults,
                   submissions : 1 .. MaxSubmissions]
    BY <1>15, <2>1 DEF Resubmit, TypeOK
  <2>4. st' \in JobState /\ ckpt' \in JobState
    BY <1>15, EmptyStateType DEF Resubmit
  <2> QED
    BY <1>15, <2>2, <2>3, <2>4 DEF Resubmit, TypeOK
<1>16. CASE Tick
  BY <1>16, BoundsAssumption DEF Tick, TypeOK
<1>17. CASE UNCHANGED vars
  BY <1>17 DEF vars, TypeOK, Msg
<1> QED
  BY <1>1, <1>2, <1>3, <1>4, <1>5, <1>6, <1>7, <1>8, <1>9, <1>10, <1>11, <1>12,
     <1>13, <1>14, <1>15, <1>16, <1>17 DEF Next, Read

\* Type correctness of the job, for every topic and configuration.
THEOREM Typing == Spec => []TypeOK
<1>1. Init => TypeOK
  BY EmptyStateType, NoRowsType, NoCheckpointType, BoundsAssumption, LogsAssumption
  DEF Init, TypeOK, NoTime
<1> QED
  BY <1>1, TypeStep, PTL DEF Spec

-----------------------------------------------------------------------------
(* Deduplication.  The invariant is about one snapshot S of the job's state, *)
(* so that it holds alike of the live state, of the checkpoint a restore     *)
(* goes back to and of the one in progress.                                  *)

IdAt(topic, r) == topic[r[1]][r[2]].id

\* Nothing accepted is in the future or past the source offsets; an id is
\* remembered exactly while it has its one timer, and a timer comes from an
\* accepted record; an accepted record is either a TTL old or covered by a
\* timer; records with one id are apart.
AcceptedInPast(S, n) ==
  \A a \in S.accepted : a.at <= n /\ a.rec[2] <= S.pos[a.rec[1]]
SeenHasTimer(S) ==
  \A id \in Ids : id \in S.seen <=> \E t \in S.timers : t.id = id
OneTimerPerId(S) ==
  \A t, u \in S.timers : t.id = u.id => t = u
TimerHasRecord(S, topic) ==
  \A t \in S.timers : \E a \in S.accepted : IdAt(topic, a.rec) = t.id /\ t.at = a.at + Ttl
ExpiredOrCovered(S, topic, n) ==
  \A a \in S.accepted :
    a.at + Ttl <= n \/ \E t \in S.timers : t.id = IdAt(topic, a.rec) /\ a.at + Ttl <= t.at
Apart(S, topic) ==
  \A a, b \in S.accepted :
    a # b /\ IdAt(topic, a.rec) = IdAt(topic, b.rec) =>
      a.rec # b.rec /\ (a.at + Ttl <= b.at \/ b.at + Ttl <= a.at)

DedupState(S, topic, n) ==
  /\ AcceptedInPast(S, n)
  /\ SeenHasTimer(S) /\ OneTimerPerId(S) /\ TimerHasRecord(S, topic)
  /\ DedupEnabled => ExpiredOrCovered(S, topic, n) /\ Apart(S, topic)

DedupInv ==
  DedupState(st, log, now) /\ DedupState(ckpt, log, now) /\ DedupState(pending.snap, log, now)

\* The state a job starts from satisfies it.
LEMMA DedupEmpty == ASSUME NEW topic, NEW n PROVE DedupState(EmptyState, topic, n)
BY DEF DedupState, EmptyState, AcceptedInPast, SeenHasTimer, OneTimerPerId,
       TimerHasRecord, ExpiredOrCovered, Apart

\* It keeps holding of a snapshot as time passes.
LEMMA DedupLater ==
  ASSUME NEW S \in JobState, NEW topic, NEW n \in Nat, NEW m \in Nat, n <= m,
         DedupState(S, topic, n)
  PROVE  DedupState(S, topic, m)
<1>1. ASSUME NEW a \in S.accepted PROVE a.at \in Nat
  BY DEF JobState
<1>2. AcceptedInPast(S, m)
  BY <1>1 DEF DedupState, AcceptedInPast
<1>3. DedupEnabled => ExpiredOrCovered(S, topic, m)
  BY <1>1, TimesAssumption DEF DedupState, ExpiredOrCovered
<1> QED
  BY <1>2, <1>3 DEF DedupState

\* Moving the source offsets forward alone keeps it.
LEMMA DedupFrame ==
  ASSUME NEW S \in JobState, NEW T \in JobState, NEW topic, NEW n \in Nat,
         DedupState(S, topic, n),
         T.accepted = S.accepted, T.seen = S.seen, T.timers = S.timers,
         \A p \in Partitions : S.pos[p] <= T.pos[p]
  PROVE  DedupState(T, topic, n)
<1>1. ASSUME NEW a \in S.accepted
      PROVE  a.rec[1] \in Partitions /\ a.rec[2] \in Nat
  BY DEF JobState, Record
<1>2. ASSUME NEW p \in Partitions PROVE S.pos[p] \in Nat /\ T.pos[p] \in Nat
  BY DEF JobState
<1>3. AcceptedInPast(T, n)
  BY <1>1, <1>2 DEF DedupState, AcceptedInPast
<1> QED
  BY <1>3 DEF DedupState, SeenHasTimer, OneTimerPerId, TimerHasRecord,
              ExpiredOrCovered, Apart

\* A due timer forgets its id: every record it covers is a TTL old by then.
LEMMA DedupTimer ==
  ASSUME NEW S \in JobState, NEW T \in JobState, NEW topic, NEW n \in Nat,
         DedupState(S, topic, n), NEW t \in S.timers, t.at <= n,
         T = [S EXCEPT !.timers = @ \ {t}, !.seen = @ \ {t.id}]
  PROVE  DedupState(T, topic, n)
<1>1. /\ T.accepted = S.accepted /\ T.pos = S.pos
      /\ T.timers = S.timers \ {t} /\ T.seen = S.seen \ {t.id}
  BY DEF JobState
<1>2. SeenHasTimer(T) /\ OneTimerPerId(T)
  BY <1>1 DEF DedupState, SeenHasTimer, OneTimerPerId
<1>3. AcceptedInPast(T, n) /\ TimerHasRecord(T, topic) /\ (DedupEnabled => Apart(T, topic))
  BY <1>1 DEF DedupState, AcceptedInPast, TimerHasRecord, Apart
<1>4. ASSUME DedupEnabled, NEW a \in S.accepted
      PROVE  \/ a.at + Ttl <= n
             \/ \E u \in T.timers : u.id = IdAt(topic, a.rec) /\ a.at + Ttl <= u.at
  <2>1. a.at \in Nat /\ t.at \in Nat
    BY DEF JobState
  <2>2. CASE a.at + Ttl <= n
    BY <2>2
  <2>3. ASSUME NEW u \in S.timers, u.id = IdAt(topic, a.rec), a.at + Ttl <= u.at
        PROVE  a.at + Ttl <= n \/ u \in T.timers
    BY <1>1, <2>1, <2>3, TimesAssumption
  <2> QED
    BY <1>4, <2>2, <2>3 DEF DedupState, ExpiredOrCovered
<1> QED
  BY <1>1, <1>2, <1>3, <1>4 DEF DedupState, ExpiredOrCovered

\* Accepting a record whose id is not remembered: every earlier record with that
\* id is a TTL old, because no timer covers it.
LEMMA DedupAccept ==
  ASSUME NEW S \in JobState, NEW T \in JobState, NEW topic, NEW n \in Nat,
         DedupState(S, topic, n),
         NEW p \in Partitions, NEW r, r = <<p, S.pos[p] + 1>>,
         NEW id \in Ids, IdAt(topic, r) = id, DedupEnabled => id \notin S.seen,
         T.pos = [S.pos EXCEPT ![p] = @ + 1],
         T.accepted = S.accepted \cup {[rec |-> r, at |-> n]},
         IF DedupEnabled
         THEN /\ T.seen = S.seen \cup {id}
              /\ T.timers = S.timers \cup {[id |-> id, at |-> n + Ttl]}
         ELSE T.seen = S.seen /\ T.timers = S.timers
  PROVE  DedupState(T, topic, n)
<1> DEFINE new == [rec |-> r, at |-> n]
           timer == [id |-> id, at |-> n + Ttl]
<1>0. \A q \in Partitions : S.pos[q] \in Nat
  BY DEF JobState
<1>1. \A a \in S.accepted : /\ a.at \in Nat /\ a.rec[1] \in Partitions /\ a.rec[2] \in Nat
                            /\ a.at <= n /\ a.rec[2] <= S.pos[a.rec[1]]
  BY DEF JobState, Record, DedupState, AcceptedInPast
<1>2. AcceptedInPast(T, n)
  <2>1. ASSUME NEW a \in S.accepted PROVE a.at <= n /\ a.rec[2] <= T.pos[a.rec[1]]
    BY <1>0, <1>1 DEF JobState
  <2>2. new.at <= n /\ new.rec[2] <= T.pos[new.rec[1]]
    BY <1>0 DEF JobState
  <2> QED
    BY <2>1, <2>2 DEF AcceptedInPast
<1>3. DedupEnabled => \A t \in S.timers : t.id # id
  BY DEF DedupState, SeenHasTimer
<1>4. SeenHasTimer(T) /\ OneTimerPerId(T)
  <2>1. CASE DedupEnabled
    <3>1. \A t \in T.timers : t \in S.timers \/ t = timer
      BY <2>1
    <3>2. timer \in T.timers /\ timer.id = id
      BY <2>1
    <3>3. OneTimerPerId(T)
      BY <1>3, <2>1, <3>1, <3>2 DEF DedupState, OneTimerPerId
    <3>4. SeenHasTimer(T)
      BY <2>1, <3>1, <3>2 DEF DedupState, SeenHasTimer
    <3> QED
      BY <3>3, <3>4
  <2>2. CASE ~DedupEnabled
    BY <2>2 DEF DedupState, SeenHasTimer, OneTimerPerId
  <2> QED
    BY <2>1, <2>2
<1>5. TimerHasRecord(T, topic)
  <2>1. ASSUME NEW t \in S.timers
        PROVE  \E a \in T.accepted : IdAt(topic, a.rec) = t.id /\ t.at = a.at + Ttl
    BY DEF DedupState, TimerHasRecord
  <2>2. new \in T.accepted /\ IdAt(topic, new.rec) = timer.id /\ timer.at = new.at + Ttl
    OBVIOUS
  <2>3. \A t \in T.timers : t \in S.timers \/ t = timer
    OBVIOUS
  <2> QED
    BY <2>1, <2>2, <2>3 DEF TimerHasRecord
<1>6. ASSUME DedupEnabled PROVE ExpiredOrCovered(T, topic, n)
  <2>1. ASSUME NEW a \in S.accepted
        PROVE  \/ a.at + Ttl <= n
               \/ \E t \in T.timers : t.id = IdAt(topic, a.rec) /\ a.at + Ttl <= t.at
    BY <1>6 DEF DedupState, ExpiredOrCovered
  <2>2. timer \in T.timers /\ timer.id = IdAt(topic, new.rec) /\ new.at + Ttl <= timer.at
    BY <1>6, TimesAssumption
  <2>3. \A a \in T.accepted : a \in S.accepted \/ a = new
    OBVIOUS
  <2> QED
    BY <2>1, <2>2, <2>3 DEF ExpiredOrCovered
<1>7. ASSUME DedupEnabled PROVE Apart(T, topic)
  <2>1. ASSUME NEW a \in S.accepted PROVE a.rec # r
    BY <1>0, <1>1
  <2>2. ASSUME NEW a \in S.accepted, IdAt(topic, a.rec) = id PROVE a.at + Ttl <= n
    BY <1>3, <1>7, <2>2 DEF DedupState, ExpiredOrCovered
  <2>3. \A a \in T.accepted : a \in S.accepted \/ a = new
    OBVIOUS
  <2>4. new.rec = r /\ new.at = n
    OBVIOUS
  <2> HIDE DEF new
  <2> QED
    BY <1>7, <2>1, <2>2, <2>3, <2>4 DEF DedupState, Apart
<1> QED
  BY <1>2, <1>4, <1>5, <1>6, <1>7 DEF DedupState

\* Every step keeps the deduplication invariant.
LEMMA DedupStep == TypeOK /\ TypeOK' /\ DedupInv /\ [Next]_vars => DedupInv'
<1> SUFFICES ASSUME TypeOK, TypeOK', DedupInv, [Next]_vars PROVE DedupInv'
  OBVIOUS
<1>0. /\ st \in JobState /\ ckpt \in JobState /\ pending.snap \in JobState
      /\ st' \in JobState /\ ckpt' \in JobState /\ pending'.snap \in JobState
      /\ now \in Nat /\ now' \in Nat
  BY BoundsAssumption DEF TypeOK
<1>1. DedupState(EmptyState, log, now) /\ NoCheckpoint.snap = EmptyState
  BY DedupEmpty DEF NoCheckpoint
\* The steps that lose the tasks or leave the state alone.
<1>2. ASSUME UNCHANGED <<log, now>>,
             st' \in {st, ckpt, EmptyState},
             ckpt' \in {ckpt, pending.snap, EmptyState},
             pending'.snap \in {pending.snap, st, EmptyState}
      PROVE  DedupInv'
  BY <1>1, <1>2 DEF DedupInv
\* The steps that only change the live state.
<1>3. ASSUME UNCHANGED <<log, now, ckpt, pending>>, DedupState(st', log, now)
      PROVE  DedupInv'
  BY <1>3 DEF DedupInv
<1>4. ASSUME NEW p \in Partitions, RouteToDlq(p) \/ DropLate(p) \/ DropDuplicate(p)
      PROVE  DedupInv'
  <2>1. UNCHANGED <<log, now, ckpt, pending>>
    BY <1>4 DEF RouteToDlq, DropLate, DropDuplicate, Consume
  <2>2. /\ st'.accepted = st.accepted /\ st'.seen = st.seen /\ st'.timers = st.timers
        /\ st'.pos = [st.pos EXCEPT ![p] = @ + 1]
    BY <1>0, <1>4 DEF RouteToDlq, DropLate, DropDuplicate, JobState
  <2>3. \A q \in Partitions : st.pos[q] <= st'.pos[q]
    BY <1>0, <2>2 DEF JobState
  <2> QED
    BY <1>0, <1>3, <2>1, <2>2, <2>3, DedupFrame DEF DedupInv
<1>5. ASSUME NEW p \in Partitions, ValidationFails(p) PROVE DedupInv'
  BY <1>1, <1>2, <1>5 DEF ValidationFails, Failover, LoseTasks
<1>6. ASSUME NEW p \in Partitions, Accept(p) PROVE DedupInv'
  <2> DEFINE r == Next1(p)
             id == Msg(r).id
  <2>1. UNCHANGED <<log, now, ckpt, pending>> /\ HasNext(p)
    BY <1>6 DEF Accept, Consume
  <2>2. r = <<p, st.pos[p] + 1>> /\ id \in Ids /\ IdAt(log, r) = id
    BY <2>1, NextType DEF Next1, Msg, IdAt, Message
  <2>3. DedupEnabled => id \notin st.seen
    BY <1>6 DEF Accept, IsDuplicate
  <2>4. st' = Accepted(p, r, Msg(r))
    BY <1>6 DEF Accept
  <2>5. /\ st'.pos = [st.pos EXCEPT ![p] = @ + 1]
        /\ st'.accepted = st.accepted \cup {[rec |-> r, at |-> now]}
    BY <1>0, <2>4 DEF Accepted, JobState
  <2>6. IF DedupEnabled
        THEN /\ st'.seen = st.seen \cup {id}
             /\ st'.timers = st.timers \cup {[id |-> id, at |-> now + Ttl]}
        ELSE st'.seen = st.seen /\ st'.timers = st.timers
    BY <1>0, <2>4 DEF Accepted, JobState
  <2> HIDE DEF r, id
  <2>7. DedupState(st', log, now)
    BY <1>0, <2>2, <2>3, <2>5, <2>6, DedupAccept DEF DedupInv
  <2> QED
    BY <1>3, <2>1, <2>7
<1>7. CASE OnTimer
  <2>1. PICK t \in st.timers :
          t.at <= now /\ st' = [st EXCEPT !.timers = @ \ {t}, !.seen = @ \ {t.id}]
    BY <1>7 DEF OnTimer
  <2>2. DedupState(st', log, now)
    BY <1>0, <2>1, DedupTimer DEF DedupInv
  <2> QED
    BY <1>3, <1>7, <2>2 DEF OnTimer
<1>8. CASE Watermark
  <2>1. PICK active : EmitWatermark(active)
    BY <1>8 DEF Watermark
  <2>2. /\ st'.accepted = st.accepted /\ st'.seen = st.seen /\ st'.timers = st.timers
        /\ st'.pos = st.pos
    BY <1>0, <2>1 DEF EmitWatermark, JobState
  <2>3. \A q \in Partitions : st.pos[q] <= st'.pos[q]
    BY <1>0, <2>2 DEF JobState
  <2>4. DedupState(st', log, now)
    BY <1>0, <2>2, <2>3, DedupFrame DEF DedupInv
  <2> QED
    BY <1>3, <2>1, <2>4 DEF EmitWatermark
<1>9. ASSUME NEW s \in Sinks, Flush(s) \/ FlushFails(s) \/ AckJdbc(s) PROVE DedupInv'
  <2>1. UNCHANGED <<log, now, st, ckpt>>
    BY <1>9 DEF Flush, FlushFails, AckJdbc
  <2>2. pending'.snap \in {pending.snap, EmptyState}
    BY <1>1, <1>9 DEF Flush, FlushFails, AckJdbc, Acked, Failover, LoseTasks, TypeOK
  <2> QED
    BY <1>2, <2>1, <2>2
<1>10. CASE SendDlq \/ TriggerCheckpoint
  BY <1>2, <1>10 DEF SendDlq, TriggerCheckpoint
<1>11. CASE AckDlq
  <2>1. pending'.snap = pending.snap
    BY <1>11 DEF AckDlq, Acked, TypeOK
  <2> QED
    BY <1>2, <1>11, <2>1 DEF AckDlq
<1>12. CASE CompleteCheckpoint
  BY <1>1, <1>2, <1>12 DEF CompleteCheckpoint
<1>13. CASE AbortCheckpoint
  BY <1>1, <1>2, <1>13 DEF AbortCheckpoint, Failover, LoseTasks
<1>14. CASE Crash \/ Cancel
  BY <1>1, <1>2, <1>14 DEF Crash, Cancel, Failover, LoseTasks
<1>15. CASE Restore \/ Resubmit
  BY <1>2, <1>15 DEF Restore, Resubmit
<1>16. CASE Tick
  <2>1. UNCHANGED <<log, st, ckpt, pending>> /\ now <= now'
    BY <1>0, <1>16 DEF Tick
  <2> QED
    BY <1>0, <2>1, DedupLater DEF DedupInv
<1>17. CASE UNCHANGED vars
  BY <1>2, <1>17 DEF vars
<1> QED
  BY <1>4, <1>5, <1>6, <1>7, <1>8, <1>9, <1>10, <1>11, <1>12, <1>13, <1>14, <1>15,
     <1>16, <1>17 DEF Next

\* The deduplication invariant holds of every behaviour.
LEMMA Dedup == Spec => []DedupInv
<1>1. Init => DedupInv
  BY DedupEmpty DEF Init, DedupInv, NoCheckpoint
<1> QED
  BY <1>1, Typing, DedupStep, PTL DEF Spec

\* Operator 02 deduplicates exactly within the TTL, through any number of
\* crashes, restores, failed checkpoints and resubmissions.
THEOREM DuplicatesAreApart == Spec => []DuplicatesApartByTtl
<1>1. DedupInv => DuplicatesApartByTtl
  BY DEF DedupInv, DedupState, Apart, IdAt, DuplicatesApartByTtl, Msg
<1> QED
  BY <1>1, Dedup, PTL

\* No deduplication state is leaked and none is cleared early.
THEOREM RememberedHaveOneTimer == Spec => []RememberedIdsHaveOneTimer
<1>1. DedupInv => RememberedIdsHaveOneTimer
  BY DEF DedupInv, DedupState, SeenHasTimer, OneTimerPerId, TimerHasRecord, IdAt,
         RememberedIdsHaveOneTimer, Msg
<1> QED
  BY <1>1, Dedup, PTL

-----------------------------------------------------------------------------
(* The DLQ.  What lies behind the offsets of a snapshot is in the topic, or  *)
(* still with the producer as long as the snapshot is not a checkpoint.      *)

Routed(S, stored) ==
  \A p \in Partitions : \A o \in 1 .. S.pos[p] :
    log[p][o].payload = "malformed" => <<p, o>> \in stored

DlqInv ==
  /\ Routed(ckpt, dlq)
  /\ status = "running" => Routed(st, dlq \cup dlqBuf)
  /\ pending.on => /\ status = "running" /\ Routed(pending.snap, dlq \cup dlqBuf)
                   /\ DlqSink \notin pending.unacked => Routed(pending.snap, dlq)

\* It is kept by whatever changes neither offsets nor what is stored.
LEMMA DlqFrame ==
  ASSUME DlqInv, UNCHANGED <<log, ckpt, dlq>>,
         \/ status' = "running" /\ UNCHANGED <<status, dlqBuf>> /\ st'.pos = st.pos
         \/ status' # "running" /\ ~pending'.on,
         ~pending'.on \/ pending' = pending
         \/ /\ pending'.on = pending.on /\ pending'.snap = pending.snap
            /\ DlqSink \notin pending'.unacked => DlqSink \notin pending.unacked
  PROVE  DlqInv'
BY DEF DlqInv, Routed

\* Every step keeps the invariant.
LEMMA DlqStep == TypeOK /\ DlqInv /\ [Next]_vars => DlqInv'
<1> SUFFICES ASSUME TypeOK, DlqInv, [Next]_vars PROVE DlqInv'
  OBVIOUS
<1>0. /\ st \in JobState /\ ckpt \in JobState
      /\ pending \in [on : BOOLEAN, unacked : SUBSET (Sinks \cup {DlqSink}), snap : JobState]
      /\ ~NoCheckpoint.on /\ DlqSink \notin Sinks
  BY DEF TypeOK, NoCheckpoint, Sinks, DlqSink
\* The steps that consume a record without routing it.
<1>1. ASSUME NEW p \in Partitions, HasNext(p), Consume(p),
             st'.pos = [st.pos EXCEPT ![p] = @ + 1], dlqBuf \subseteq dlqBuf',
             Msg(Next1(p)).payload = "malformed" => Next1(p) \in dlqBuf'
      PROVE  DlqInv'
  <2>1. UNCHANGED <<log, ckpt, pending, status, dlq>> /\ status = "running"
    BY <1>1 DEF Consume, HasNext
  <2>2. ASSUME NEW q \in Partitions, NEW o \in 1 .. st'.pos[q], log[q][o].payload = "malformed"
        PROVE  <<q, o>> \in dlq \cup dlqBuf'
    <3>1. st.pos[q] \in Nat
      BY <1>0 DEF JobState
    <3>2. CASE o \in 1 .. st.pos[q]
      BY <1>1, <2>1, <2>2, <3>2 DEF DlqInv, Routed
    <3>3. CASE o \notin 1 .. st.pos[q]
      <4>1. q = p /\ o = st.pos[p] + 1
        BY <1>0, <1>1, <2>2, <3>1, <3>3 DEF JobState
      <4> QED BY <1>1, <2>2, <4>1 DEF Msg, Next1
    <3> QED BY <3>2, <3>3
  <2>3. Routed(st, dlq \cup dlqBuf)'
    BY <2>1, <2>2 DEF Routed
  <2>4. pending.on => Routed(pending.snap, dlq \cup dlqBuf)'
    BY <1>1, <2>1 DEF DlqInv, Routed
  <2> QED BY <2>1, <2>3, <2>4 DEF DlqInv, Routed
<1>2. ASSUME NEW p \in Partitions, Read(p), ~ValidationFails(p) PROVE DlqInv'
  <2>1. CASE RouteToDlq(p)
    BY <1>0, <1>1, <2>1 DEF RouteToDlq, DlqId, JobState
  <2>2. CASE DropLate(p)
    BY <1>0, <1>1, <2>2 DEF DropLate, Decodes, JobState
  <2>3. CASE DropDuplicate(p)
    BY <1>0, <1>1, <2>3 DEF DropDuplicate, Decodes, JobState
  <2>4. CASE Accept(p)
    BY <1>0, <1>1, <2>4 DEF Accept, Accepted, Decodes, JobState
  <2> QED BY <1>2, <2>1, <2>2, <2>3, <2>4 DEF Read
\* The steps that lose the tasks.
<1>3. ASSUME Failover \/ (LoseTasks /\ status' = "cancelled"), UNCHANGED <<log, ckpt, dlq>>
      PROVE  DlqInv'
  BY <1>0, <1>3, DlqFrame DEF Failover, LoseTasks
<1>4. ASSUME NEW p \in Partitions, ValidationFails(p) PROVE DlqInv'
  BY <1>3, <1>4 DEF ValidationFails
<1>5. CASE OnTimer \/ Watermark \/ TriggerCheckpoint
  <2>1. CASE OnTimer \/ Watermark
    <3>1. st'.pos = st.pos
      BY <1>0, <2>1 DEF OnTimer, Watermark, EmitWatermark, JobState
    <3> QED BY <2>1, <3>1, DlqFrame DEF OnTimer, Watermark, EmitWatermark
  <2>2. CASE TriggerCheckpoint
    BY <2>2 DEF TriggerCheckpoint, DlqInv, Routed
  <2> QED BY <1>5, <2>1, <2>2
<1>6. ASSUME NEW s \in Sinks, Flush(s) \/ AckJdbc(s) PROVE DlqInv'
  <2>1. CASE Flush(s)
    BY <2>1, DlqFrame DEF Flush
  <2>2. CASE AckJdbc(s)
    <3>1. /\ pending'.on = pending.on /\ pending'.snap = pending.snap
          /\ DlqSink \notin pending'.unacked => DlqSink \notin pending.unacked
      BY <1>0, <2>2 DEF AckJdbc, Acked
    <3> QED BY <2>2, <3>1, DlqFrame DEF AckJdbc
  <2> QED BY <1>6, <2>1, <2>2
<1>7. ASSUME NEW s \in Sinks, FlushFails(s) PROVE DlqInv'
  BY <1>3, <1>7 DEF FlushFails
<1>8. CASE SendDlq \/ AckDlq
  <2>1. /\ UNCHANGED <<log, st, ckpt, status>> /\ dlq \subseteq dlq'
        /\ dlq \cup dlqBuf = (dlq \cup dlqBuf)'
    BY <1>8 DEF SendDlq, AckDlq
  <2>2. Routed(ckpt, dlq)' /\ (status' = "running" => Routed(st, dlq \cup dlqBuf)')
    BY <2>1 DEF DlqInv, Routed
  <2>3. CASE SendDlq
    BY <2>1, <2>2, <2>3 DEF SendDlq, DlqInv, Routed
  <2>4. CASE AckDlq
    <3>1. pending'.on = pending.on /\ pending'.snap = pending.snap /\ dlq' = dlq \cup dlqBuf
      BY <1>0, <2>4 DEF AckDlq, Acked
    <3>2. pending'.on => Routed(pending.snap, dlq \cup dlqBuf)
      BY <3>1 DEF DlqInv
    <3>3. pending'.on => Routed(pending.snap, dlq)' /\ Routed(pending.snap, dlq \cup dlqBuf)'
      BY <2>1, <3>1, <3>2 DEF Routed
    <3> QED BY <2>1, <2>2, <3>1, <3>3 DEF DlqInv
  <2> QED BY <1>8, <2>3, <2>4
<1>9. CASE CompleteCheckpoint
  BY <1>0, <1>9 DEF CompleteCheckpoint, DlqInv, Routed
<1>10. CASE AbortCheckpoint
  <2>1. CASE ckptFailures < TolerableFailures
    BY <1>0, <1>10, <2>1, DlqFrame DEF AbortCheckpoint
  <2>2. CASE ~(ckptFailures < TolerableFailures)
    BY <1>3, <1>10, <2>2 DEF AbortCheckpoint
  <2> QED BY <2>1, <2>2
<1>11. CASE Crash \/ Cancel
  BY <1>3, <1>11 DEF Crash, Cancel
<1>12. CASE Restore \/ Resubmit
  <2>1. CASE Restore
    BY <2>1 DEF Restore, DlqInv, Routed
  <2>2. CASE Resubmit
    <3>1. Routed(EmptyState, dlq)' /\ Routed(EmptyState, dlq \cup dlqBuf)'
      BY DEF Routed, EmptyState
    <3>2. ~pending.on
      BY <2>2 DEF Resubmit, DlqInv
    <3> QED BY <2>2, <3>1, <3>2 DEF Resubmit, DlqInv, Routed
  <2> QED BY <1>12, <2>1, <2>2
<1>13. CASE Tick \/ UNCHANGED vars
  BY <1>13 DEF Tick, vars, DlqInv, Routed
<1> QED
  BY <1>2, <1>4, <1>5, <1>6, <1>7, <1>8, <1>9, <1>10, <1>11, <1>12, <1>13 DEF Next, Read

\* No malformed record behind the last checkpoint is missing in the DLQ.
THEOREM DlqIsKept == Spec => []DlqIsDurable
<1>1. Init => DlqInv
  BY DEF Init, DlqInv, Routed, EmptyState, NoCheckpoint
<1>2. DlqInv => DlqIsDurable
  BY DEF DlqInv, Routed, DlqIsDurable
<1> QED
  BY <1>1, <1>2, Typing, DlqStep, PTL DEF Spec

-----------------------------------------------------------------------------
(* The JDBC sinks.  Of a sink s of the job, on a topic: b is its buffer, t   *)
(* its table, and S and T are snapshots of the job.                          *)

RowIn(topic, s, row, records) ==
  {r \in records : /\ WindowOf(topic[r[1]][r[2]].ts) = row[1]
                   /\ KeyOf(s, topic[r[1]][r[2]]) = row[2]}

\* What the table shows once the buffer is flushed.
Shown(b, t) == [row \in Rows |-> IF b[row] # {} THEN b[row] ELSE t[row]]

\* The fired rows of a snapshot stand in a table.
Stands(S, topic, s, t) ==
  \A row \in Rows :
    Fired(row[1], S.winWm) /\ RowIn(topic, s, row, S.counted) # {} =>
      t[row] = RowIn(topic, s, row, S.counted)

\* A buffer has nothing but fired rows.
Buffered(S, topic, s, b) ==
  \A row \in Rows :
    b[row] # {} => Fired(row[1], S.winWm) /\ b[row] = RowIn(topic, s, row, S.counted)

\* T may come after S: what has fired stays as it is.
Follows(S, T, topic) ==
  \A row \in Rows : Fired(row[1], S.winWm) =>
    /\ Fired(row[1], T.winWm)
    /\ \A s \in Sinks : RowIn(topic, s, row, S.counted) = RowIn(topic, s, row, T.counted)

SinkInv ==
  /\ \A s \in Sinks : Stands(ckpt, log, s, table[s])
  /\ status = "running" =>
       /\ Follows(ckpt, st, log)
       /\ \A s \in Sinks : /\ Buffered(st, log, s, buf[s])
                           /\ Stands(st, log, s, Shown(buf[s], table[s]))
  /\ status # "running" => buf = NoRows /\ ~pending.on
  /\ pending.on =>
       /\ Follows(pending.snap, st, log)
       /\ \A s \in Sinks \ pending.unacked : Stands(pending.snap, log, s, table[s])

\* A row of the buffer that is written is one the snapshot before it knows as it is.
LEMMA StandsWritten ==
  ASSUME NEW topic, NEW s \in Sinks, NEW S, NEW T, NEW b, NEW t, NEW u,
         Follows(S, T, topic), Buffered(T, topic, s, b), Stands(S, topic, s, t),
         \A row \in Rows : u[row] = t[row] \/ (b[row] # {} /\ u[row] = b[row])
  PROVE  Stands(S, topic, s, u)
BY DEF Follows, Buffered, Stands

LEMMA FollowsOn ==
  ASSUME NEW topic, NEW R, NEW S, NEW T, Follows(R, S, topic), Follows(S, T, topic)
  PROVE  Follows(R, T, topic)
BY DEF Follows

LEMMA FollowsItself == ASSUME NEW topic, NEW S PROVE Follows(S, S, topic)
BY DEF Follows

\* What stands of a snapshot stands of every one before it.
LEMMA StandsBefore ==
  ASSUME NEW topic, NEW s \in Sinks, NEW S, NEW T, NEW t,
         Follows(S, T, topic), Stands(T, topic, s, t)
  PROVE  Stands(S, topic, s, t)
BY DEF Follows, Stands

\* Flushing a buffer shows what was shown before.
LEMMA ShownFlushed ==
  ASSUME NEW s \in Sinks
  PROVE  /\ Upserted(s, Rows) = Shown(buf[s], table[s])
         /\ \A t \in [Rows -> SUBSET Record] : Shown(NoRows[s], t) = t
<1>1. \A row \in Rows : NoRows[s][row] = {}
  BY DEF NoRows
<1> QED BY <1>1 DEF Upserted, Shown

\* The rows a sink writes are in its table or in its buffer.
LEMMA UpsertedRow ==
  ASSUME NEW s \in Sinks, NEW batch, NEW row \in Rows
  PROVE  LET u == Upserted(s, batch)
         IN  u[row] = table[s][row] \/ (buf[s][row] # {} /\ u[row] = buf[s][row])
BY DEF Upserted

\* A window that is not closed yet may count one more record.
LEMMA FollowsCount ==
  ASSUME NEW topic, NEW S, NEW T, NEW r, T.winWm = S.winWm,
         \/ T.counted = S.counted
         \/ /\ T.counted = S.counted \cup {r}
            /\ ~Fired(WindowOf(topic[r[1]][r[2]].ts), S.winWm)
  PROVE  Follows(S, T, topic)
<1>1. ASSUME NEW row \in Rows, NEW s \in Sinks, Fired(row[1], S.winWm)
      PROVE  RowIn(topic, s, row, S.counted) = RowIn(topic, s, row, T.counted)
  BY <1>1 DEF RowIn
<1> QED BY <1>1 DEF Follows

\* Without a later watermark nothing else has to stand or be buffered.
LEMMA SameWatermark ==
  ASSUME NEW topic, NEW s \in Sinks, NEW S, NEW T, NEW b, NEW t,
         T.winWm = S.winWm, Follows(S, T, topic)
  PROVE  /\ Buffered(S, topic, s, b) => Buffered(T, topic, s, b)
         /\ Stands(S, topic, s, t) => Stands(T, topic, s, t)
BY DEF Follows, Buffered, Stands

\* A later watermark fires more windows.
LEMMA FiredLater ==
  ASSUME NEW window, NEW x \in Int, NEW y \in Int, window \in Nat, x <= y, Fired(window, x)
  PROVE  Fired(window, y)
<1>1. (window + 1) * WindowSize - 1 \in Int
  BY TimesAssumption
<1> HIDE DEF Fired
<1> DEFINE last == (window + 1) * WindowSize - 1
<1>2. last <= x
  BY DEF Fired
<1> HIDE DEF last
<1>3. last \in Int
  BY <1>1 DEF last
<1>4. last <= y
  BY <1>2, <1>3
<1> QED BY <1>4 DEF Fired, last

\* Every step keeps the invariant.
LEMMA SinkStep == TypeOK /\ TypeOK' /\ SinkInv /\ [Next]_vars => SinkInv'
<1> SUFFICES ASSUME TypeOK, TypeOK', SinkInv, [Next]_vars PROVE SinkInv'
  OBVIOUS
<1>0. /\ st \in JobState /\ ckpt \in JobState
      /\ pending \in [on : BOOLEAN, unacked : SUBSET (Sinks \cup {DlqSink}), snap : JobState]
      /\ ~NoCheckpoint.on
      /\ buf \in [Sinks -> [Rows -> SUBSET Record]]
      /\ table \in [Sinks -> [Rows -> SUBSET Record]]
      /\ table' \in [Sinks -> [Rows -> SUBSET Record]]
  BY DEF TypeOK, NoCheckpoint
\* A running job that consumes a record.
<1>1. ASSUME NEW p \in Partitions, Consume(p), HasNext(p),
             st'.winWm = st.winWm, Follows(st, st', log)
      PROVE  SinkInv'
  <2>1. UNCHANGED <<log, ckpt, pending, status, buf, table>> /\ status = "running"
    BY <1>1 DEF Consume, HasNext
  <2>2. Follows(ckpt, st', log) /\ (pending.on => Follows(pending.snap, st', log))
    BY <1>1, <2>1, FollowsOn DEF SinkInv
  <2>3. ASSUME NEW s \in Sinks
        PROVE  Buffered(st', log, s, buf[s]) /\ Stands(st', log, s, Shown(buf[s], table[s]))
    BY <1>1, <2>1, SameWatermark DEF SinkInv
  <2> QED BY <2>1, <2>2, <2>3 DEF SinkInv
<1>2. ASSUME NEW p \in Partitions, Read(p), ~ValidationFails(p) PROVE SinkInv'
  <2>1. CASE RouteToDlq(p) \/ DropLate(p) \/ DropDuplicate(p)
    <3>1. Consume(p) /\ HasNext(p) /\ st'.winWm = st.winWm /\ st'.counted = st.counted
      BY <1>0, <2>1 DEF RouteToDlq, DropLate, DropDuplicate, JobState
    <3> QED BY <1>1, <3>1, FollowsCount
  <2>2. CASE Accept(p)
    <3> DEFINE r == Next1(p)
    <3>1. Consume(p) /\ HasNext(p) /\ st' = Accepted(p, r, Msg(r))
      BY <2>2 DEF Accept
    <3>2. /\ st'.winWm = st.winWm
          /\ \/ st'.counted = st.counted
             \/ st'.counted = st.counted \cup {r} /\ ~Fired(WindowOf(Msg(r).ts), st.winWm)
      BY <1>0, <3>1 DEF Accepted, JobState
    <3> HIDE DEF r
    <3>3. Follows(st, st', log)
      BY <3>2, FollowsCount DEF Msg
    <3> QED BY <1>1, <3>1, <3>2, <3>3
  <2> QED BY <1>2, <2>1, <2>2 DEF Read
\* The tasks end after each sink has written some rows of its buffer.
<1>3. ASSUME LoseTasks, status = "running", status' # "running", UNCHANGED <<log, ckpt>>,
             \A s \in Sinks : \A row \in Rows :
               \/ table'[s][row] = table[s][row]
               \/ buf[s][row] # {} /\ table'[s][row] = buf[s][row]
      PROVE  SinkInv'
  <2>1. ASSUME NEW s \in Sinks PROVE Stands(ckpt, log, s, table'[s])
    <3>1. /\ Follows(ckpt, st, log) /\ Buffered(st, log, s, buf[s])
          /\ Stands(ckpt, log, s, table[s])
      BY <1>3 DEF SinkInv
    <3> QED BY <1>3, <3>1, StandsWritten
  <2>2. buf' = NoRows /\ ~pending'.on
    BY <1>0, <1>3 DEF LoseTasks
  <2> QED BY <1>3, <2>1, <2>2 DEF SinkInv, NoRows
<1>4. ASSUME CloseSinks
      PROVE  \A s \in Sinks : \A row \in Rows :
               \/ table'[s][row] = table[s][row]
               \/ buf[s][row] # {} /\ table'[s][row] = buf[s][row]
  BY <1>4, UpsertedRow DEF CloseSinks
<1>5. ASSUME Failover, CloseSinks, status = "running", UNCHANGED <<log, ckpt>> PROVE SinkInv'
  <2>1. LoseTasks /\ status' # "running"
    BY <1>5 DEF Failover
  <2> QED BY <1>3, <1>4, <1>5, <2>1
<1>6. ASSUME NEW p \in Partitions, ValidationFails(p) PROVE SinkInv'
  BY <1>5, <1>6 DEF ValidationFails, HasNext
<1>7. CASE OnTimer
  <2>1. st'.winWm = st.winWm /\ st'.counted = st.counted
    BY <1>0, <1>7 DEF OnTimer, JobState
  <2>2. UNCHANGED <<log, ckpt, pending, status, buf, table>>
    BY <1>7 DEF OnTimer
  <2> QED BY <2>1, <2>2 DEF SinkInv, Follows, Buffered, Stands
<1>8. ASSUME NEW active \in SUBSET Partitions, EmitWatermark(active) PROVE SinkInv'
  <2>1. /\ UNCHANGED <<log, ckpt, pending, status, table>> /\ status = "running"
        /\ st.winWm \in Int /\ wm \in Int /\ wm' \in Int
    BY <1>0, <1>8 DEF EmitWatermark, JobState, TypeOK
  <2>2. /\ st'.counted = st.counted
        /\ st'.winWm = IF wm' > st.winWm THEN wm' ELSE st.winWm
    BY <1>0, <1>8 DEF EmitWatermark, JobState
  <2>3. ASSUME NEW row \in Rows
        PROVE  /\ Fired(row[1], st.winWm) => Fired(row[1], st'.winWm)
               /\ Fired(row[1], st'.winWm) => Fired(row[1], st.winWm) \/ Fired(row[1], wm')
               /\ Fired(row[1], wm') => Fired(row[1], st'.winWm)
    <3>1. row[1] \in Nat
      BY TimesAssumption DEF Rows, Times, WindowOf
    <3> QED BY <2>1, <2>2, <3>1, FiredLater
  <2>4. Follows(st, st', log)
    BY <2>2, <2>3 DEF Follows
  <2>5. Follows(ckpt, st', log) /\ (pending.on => Follows(pending.snap, st', log))
    BY <2>1, <2>4, FollowsOn DEF SinkInv
  <2>6. ASSUME NEW s \in Sinks, NEW row \in Rows
        PROVE  buf'[s][row] = IF Fired(row[1], wm') /\ ~Fired(row[1], st.winWm)
                                 /\ RowIn(log, s, row, st.counted) # {}
                              THEN RowIn(log, s, row, st.counted) ELSE buf[s][row]
    BY <1>8 DEF EmitWatermark, RowOf, RowIn, Msg
  <2>7. ASSUME NEW s \in Sinks
        PROVE  Buffered(st', log, s, buf'[s]) /\ Stands(st', log, s, Shown(buf'[s], table[s]))
    <3>1. Buffered(st, log, s, buf[s]) /\ Stands(st, log, s, Shown(buf[s], table[s]))
      BY <2>1 DEF SinkInv
    <3>2. Buffered(st', log, s, buf'[s])
      BY <2>2, <2>3, <2>6, <3>1 DEF Buffered
    <3>3. ASSUME NEW row \in Rows, Fired(row[1], st'.winWm), RowIn(log, s, row, st.counted) # {}
          PROVE  Shown(buf'[s], table[s])[row] = RowIn(log, s, row, st.counted)
      <4>1. CASE Fired(row[1], st.winWm)
        BY <2>6, <3>1, <3>3, <4>1 DEF Stands, Shown
      <4>2. CASE ~Fired(row[1], st.winWm)
        BY <2>3, <2>6, <3>3, <4>2 DEF Shown
      <4> QED BY <4>1, <4>2
    <3> QED BY <2>2, <3>2, <3>3 DEF Stands
  <2> QED BY <2>1, <2>5, <2>7 DEF SinkInv
\* One sink of a running job writes its whole buffer.
<1>9. ASSUME NEW s \in Sinks, status = "running",
             table' = [table EXCEPT ![s] = Upserted(s, Rows)],
             buf' = [buf EXCEPT ![s] = NoRows[s]],
             UNCHANGED <<log, st, ckpt, status>>,
             pending'.on = pending.on /\ pending'.snap = pending.snap,
             pending.unacked \subseteq pending'.unacked \cup {s}
      PROVE  SinkInv'
  <2>1. Upserted(s, Rows) = Shown(buf[s], table[s]) /\ Shown(NoRows[s], table'[s]) = table'[s]
    BY <1>0, ShownFlushed
  <2>2. table'[s] = Shown(buf[s], table[s]) /\ buf'[s] = NoRows[s]
    BY <1>0, <1>9, <2>1
  <2>3. \A q \in Sinks \ {s} : table'[q] = table[q] /\ buf'[q] = buf[q]
    BY <1>0, <1>9
  <2>4. ASSUME NEW q \in Sinks
        PROVE  Buffered(st, log, q, buf'[q]) /\ Stands(st, log, q, Shown(buf'[q], table'[q]))
    <3>1. Buffered(st, log, s, NoRows[s])
      BY DEF Buffered, NoRows
    <3> QED BY <1>9, <2>1, <2>2, <2>3, <3>1 DEF SinkInv
  <2>5. ASSUME NEW q \in Sinks, NEW S, Follows(S, st, log), Stands(S, log, q, table[q]) \/ q = s
        PROVE  Stands(S, log, q, table'[q])
    BY <1>9, <2>2, <2>3, <2>5, StandsBefore DEF SinkInv
  <2>6. \A q \in Sinks : Stands(ckpt, log, q, table'[q])
    BY <1>9, <2>5 DEF SinkInv
  <2>7. ASSUME pending.on, NEW q \in Sinks \ pending'.unacked
        PROVE  Stands(pending.snap, log, q, table'[q])
    BY <1>9, <2>5, <2>7 DEF SinkInv
  <2> QED BY <1>9, <2>4, <2>6, <2>7 DEF SinkInv
<1>10. ASSUME NEW s \in Sinks, Flush(s) \/ AckJdbc(s) PROVE SinkInv'
  <2>1. CASE Flush(s)
    BY <1>9, <2>1 DEF Flush
  <2>2. CASE AckJdbc(s)
    <3>1. /\ pending'.on = pending.on /\ pending'.snap = pending.snap
          /\ pending.unacked \subseteq pending'.unacked \cup {s}
      BY <1>0, <2>2 DEF AckJdbc, Acked
    <3> QED BY <1>9, <2>2, <3>1 DEF AckJdbc
  <2> QED BY <1>10, <2>1, <2>2
<1>11. ASSUME NEW s \in Sinks, FlushFails(s) PROVE SinkInv'
  <2>1. PICK batch : table' = [table EXCEPT ![s] = Upserted(s, batch)]
    BY <1>11 DEF FlushFails
  <2>2. \A q \in Sinks : \A row \in Rows :
          \/ table'[q][row] = table[q][row]
          \/ buf[q][row] # {} /\ table'[q][row] = buf[q][row]
    BY <1>0, <2>1, UpsertedRow
  <2>3. LoseTasks /\ status = "running" /\ status' # "running" /\ UNCHANGED <<log, ckpt>>
    BY <1>11 DEF FlushFails, Failover
  <2> QED BY <1>3, <2>2, <2>3
<1>12. CASE SendDlq
  BY <1>12 DEF SendDlq, SinkInv
<1>13. CASE TriggerCheckpoint
  <2>1. Follows(st, st, log)
    BY FollowsItself
  <2>2. /\ UNCHANGED <<log, st, ckpt, status, buf, table>> /\ status = "running"
        /\ pending'.snap = st /\ Sinks \ pending'.unacked = {}
    BY <1>13 DEF TriggerCheckpoint
  <2> QED BY <2>1, <2>2 DEF SinkInv
<1>14. CASE AckDlq
  <2>1. /\ pending'.on = pending.on /\ pending'.snap = pending.snap
        /\ Sinks \ pending'.unacked = Sinks \ pending.unacked
    BY <1>0, <1>14 DEF AckDlq, Acked, Sinks, DlqSink
  <2> QED BY <1>14, <2>1 DEF AckDlq, SinkInv
<1>15. CASE CompleteCheckpoint
  BY <1>0, <1>15 DEF CompleteCheckpoint, SinkInv
<1>16. CASE AbortCheckpoint
  <2>1. CASE ckptFailures < TolerableFailures
    BY <1>0, <1>16, <2>1 DEF AbortCheckpoint, SinkInv
  <2>2. CASE ~(ckptFailures < TolerableFailures)
    BY <1>5, <1>16, <2>2 DEF AbortCheckpoint
  <2> QED BY <2>1, <2>2
<1>17. CASE Crash \/ Cancel
  <2>1. CASE Crash
    BY <1>5, <2>1 DEF Crash
  <2>2. CASE Cancel
    BY <1>3, <1>4, <2>2 DEF Cancel
  <2> QED BY <1>17, <2>1, <2>2
<1>18. CASE Restore
  <2>1. UNCHANGED <<log, ckpt, pending, buf, table>> /\ st' = ckpt /\ buf = NoRows /\ ~pending.on
    BY <1>18 DEF Restore, SinkInv
  <2>2. ASSUME NEW s \in Sinks
        PROVE  Buffered(ckpt, log, s, buf[s]) /\ Shown(buf[s], table[s]) = table[s]
    BY <1>0, <2>1, ShownFlushed DEF Buffered, NoRows
  <2> QED BY <2>1, <2>2, FollowsItself DEF SinkInv
<1>19. CASE Resubmit
  <2>1. /\ UNCHANGED <<log, pending, buf, table>> /\ st' = EmptyState /\ ckpt' = EmptyState
        /\ buf = NoRows /\ ~pending.on
    BY <1>19 DEF Resubmit, SinkInv
  <2>2. ASSUME NEW s \in Sinks, NEW t
        PROVE  Buffered(EmptyState, log, s, buf[s]) /\ Stands(EmptyState, log, s, t)
    BY <2>1 DEF Buffered, NoRows, Stands, RowIn, EmptyState
  <2> QED BY <2>1, <2>2, FollowsItself DEF SinkInv
<1>20. CASE Tick \/ UNCHANGED vars
  BY <1>20 DEF Tick, vars, SinkInv
<1> QED
  BY <1>2, <1>6, <1>7, <1>8, <1>10, <1>11, <1>12, <1>13, <1>14, <1>15, <1>16, <1>17,
     <1>18, <1>19, <1>20 DEF Next, Read, Watermark

\* What the state of a running job has fired is in the tables or about to be.
THEOREM FiredRowsAreKept == Spec => []FiredRowsArePublished
<1>1. Init => SinkInv
  <2>1. ASSUME NEW s \in Sinks, NEW t
        PROVE  Buffered(EmptyState, log, s, NoRows[s]) /\ Stands(EmptyState, log, s, t)
    BY DEF Buffered, NoRows, Stands, RowIn, EmptyState
  <2> QED BY <2>1, FollowsItself DEF Init, SinkInv, NoCheckpoint
<1>2. SinkInv => FiredRowsArePublished
  BY DEF SinkInv, Stands, Shown, FiredRowsArePublished, Published, RowOf, RowIn, Msg
<1> QED
  BY <1>1, <1>2, Typing, SinkStep, PTL DEF Spec

-----------------------------------------------------------------------------
(* Watermarks of operator 02 and of the windows *)

\* What was dropped as late was behind its own partition.
Behind(S, topic) ==
  \A r \in S.late :
    \E o \in 1 .. r[2] - 1 : topic[r[1]][o].kts - WatermarkDelay >= topic[r[1]][r[2]].ts

\* A partition with records to come holds the watermark back, by a record read.
HeldBack ==
  \A p \in Partitions :
    /\ heads[p] # NoTime => \E o \in 1 .. st.pos[p] : log[p][o].kts = heads[p]
    /\ ~SlowPartitions /\ st.pos[p] < Len(log[p]) /\ wm # NoTime =>
         heads[p] # NoTime /\ wm <= heads[p] - WatermarkDelay

\* Before the first restart the windows are not ahead of operator 02.
Together ==
  LateHandling /\ restarts = 0 => /\ \A a \in st.accepted : a.rec \in st.counted
                                  /\ status = "running" => st.winWm <= wm

WatermarkInv ==
  /\ ~SlowPartitions => Behind(st, log) /\ Behind(ckpt, log) /\ Behind(pending.snap, log)
  /\ status = "running" => HeldBack
  /\ status # "running" => wm = NoTime /\ \A p \in Partitions : heads[p] = NoTime
  /\ status = "restarting" => restarts > 0
  /\ Together

\* A window ends behind each of its instants.
LEMMA WindowEnd ==
  ASSUME NEW t \in Nat
  PROVE  (WindowOf(t) + 1) * WindowSize - 1 >= t
<1> DEFINE w == WindowSize
<1>1. w \in Nat \ {0}
  BY TimesAssumption
<1> HIDE DEF w
<1>2. (t \div w + 1) * w - 1 >= t
  BY <1>1
<1> QED BY <1>2 DEF WindowOf, w

\* So a record ahead of the watermark is in an open window.
LEMMA OpenWindow ==
  ASSUME NEW t \in Nat, NEW x \in Int, x < t
  PROVE  ~Fired(WindowOf(t), x)
<1> DEFINE last == (WindowOf(t) + 1) * WindowSize - 1
<1>1. last >= t /\ last \in Int
  BY WindowEnd, TimesAssumption DEF WindowOf
<1>2. Fired(WindowOf(t), x) => last <= x
  BY DEF Fired
<1> HIDE DEF last
<1> QED BY <1>1, <1>2

\* Every step keeps the invariant.
LEMMA WatermarkStep == TypeOK /\ TypeOK' /\ WatermarkInv /\ [Next]_vars => WatermarkInv'
<1> SUFFICES ASSUME TypeOK, TypeOK', WatermarkInv, [Next]_vars PROVE WatermarkInv'
  OBVIOUS
<1>0. /\ st \in JobState /\ ckpt \in JobState /\ pending.snap \in JobState
      /\ heads \in [Partitions -> Times \cup {NoTime}] /\ wm \in Int /\ restarts \in Nat
      /\ log \in [Partitions -> Seq(Message)]
  BY BoundsAssumption DEF TypeOK
<1>1. /\ Behind(EmptyState, log) /\ NoCheckpoint.snap = EmptyState
      /\ EmptyState.accepted = {} /\ EmptyState.winWm = NoTime
  BY DEF Behind, NoCheckpoint, EmptyState
<1>2. /\ NoTime = -1 /\ \A x \in Times : x \in Nat
      /\ \A q \in Partitions : heads[q] \in Int /\ (heads[q] # NoTime => heads[q] \in Nat)
  <2>1. NoTime = -1 /\ \A x \in Times : x \in Nat
    BY TimesAssumption DEF NoTime, Times
  <2>2. ASSUME NEW q \in Partitions PROVE heads[q] \in Times \/ heads[q] = NoTime
    BY <1>0
  <2> QED BY <2>1, <2>2
\* The steps of a running job that consume a record.
<1>3. ASSUME NEW p \in Partitions, Consume(p), HasNext(p),
             st'.pos = [st.pos EXCEPT ![p] = @ + 1], st'.winWm = st.winWm,
             ~SlowPartitions /\ Behind(st, log) => Behind(st', log),
             LateHandling /\ restarts = 0 => \A a \in st'.accepted : a.rec \in st'.counted
      PROVE  WatermarkInv'
  <2>1. UNCHANGED <<log, ckpt, pending, status, restarts, wm>> /\ status = "running"
    BY <1>3 DEF Consume, HasNext
  <2> DEFINE n == st.pos[p] + 1
             k == log[p][n].kts
  <2>2. st.pos[p] \in Nat /\ n \in 1 .. Len(log[p]) /\ st'.pos[p] = n
    BY <1>0, <1>3 DEF HasNext, JobState
  <2>3. k \in Nat
    <3>1. k = Msg(Next1(p)).kts /\ Msg(Next1(p)) \in Message
      BY <1>3, NextType DEF Msg, Next1
    <3> HIDE DEF k
    <3>2. k \in Times
      BY <3>1 DEF Message
    <3> QED BY <1>2, <3>2
  <2>4. heads' = [heads EXCEPT ![p] = IF k > @ THEN k ELSE @]
    BY <1>3 DEF Consume, Msg, Next1
  <2> HIDE DEF k
  <2>5. ASSUME NEW q \in Partitions, heads'[q] # NoTime
        PROVE  \E o \in 1 .. st'.pos[q] : log[q][o].kts = heads'[q]
    <3>1. CASE q # p
      <4>1. heads'[q] = heads[q] /\ st'.pos[q] = st.pos[q]
        BY <1>0, <1>3, <2>4, <3>1 DEF JobState
      <4> QED BY <2>1, <2>5, <4>1 DEF WatermarkInv, HeldBack
    <3>2. CASE q = p
      <4>1. CASE heads'[p] = k
        BY <2>2, <4>1, <3>2 DEF k
      <4>2. CASE heads'[p] # k
        <5>1. heads'[p] = heads[p]
          BY <1>0, <2>4, <4>2
        <5>2. PICK o \in 1 .. st.pos[p] : log[p][o].kts = heads[p]
          BY <2>1, <2>5, <3>2, <5>1 DEF WatermarkInv, HeldBack
        <5> QED BY <2>2, <3>2, <5>1, <5>2
      <4> QED BY <4>1, <4>2
    <3> QED BY <3>1, <3>2
  <2>6. ASSUME NEW q \in Partitions, ~SlowPartitions, st'.pos[q] < Len(log[q]), wm # NoTime
        PROVE  heads'[q] # NoTime /\ wm <= heads'[q] - WatermarkDelay
    <3>1. st.pos[q] < Len(log[q])
      BY <1>0, <1>3, <2>2, <2>6 DEF JobState
    <3>2. heads[q] # NoTime /\ wm <= heads[q] - WatermarkDelay
      BY <2>1, <2>6, <3>1 DEF WatermarkInv, HeldBack
    <3>3. heads[q] \in Nat /\ heads'[q] \in Nat /\ heads'[q] >= heads[q]
      BY <1>0, <1>2, <2>3, <2>4, <3>2
    <3> QED BY <1>0, <1>2, <3>2, <3>3, TimesAssumption
  <2>7. HeldBack'
    BY <2>1, <2>5, <2>6 DEF HeldBack
  <2>8. Together'
    BY <1>3, <2>1 DEF WatermarkInv, Together
  <2> QED BY <1>3, <2>1, <2>7, <2>8 DEF WatermarkInv
<1>4. ASSUME NEW p \in Partitions, RouteToDlq(p) \/ DropDuplicate(p) PROVE WatermarkInv'
  <2>1. Consume(p) /\ HasNext(p) /\ UNCHANGED restarts
    BY <1>4 DEF RouteToDlq, DropDuplicate, Consume
  <2>2. /\ st'.pos = [st.pos EXCEPT ![p] = @ + 1] /\ st'.winWm = st.winWm
        /\ st'.late = st.late /\ st'.accepted = st.accepted /\ st'.counted = st.counted
    BY <1>0, <1>4 DEF RouteToDlq, DropDuplicate, JobState
  <2> QED BY <1>3, <2>1, <2>2 DEF Behind, WatermarkInv, Together
<1>5. ASSUME NEW p \in Partitions, DropLate(p) PROVE WatermarkInv'
  <2> DEFINE r == Next1(p)
  <2>1. /\ Consume(p) /\ HasNext(p) /\ status = "running" /\ Msg(r).ts <= wm
        /\ r = <<p, st.pos[p] + 1>> /\ Msg(r) \in Message
    BY <1>5, NextType DEF DropLate, IsLate, HasNext, Next1
  <2>2. /\ st'.pos = [st.pos EXCEPT ![p] = @ + 1] /\ st'.winWm = st.winWm
        /\ st'.late = st.late \cup {r} /\ st'.accepted = st.accepted /\ st'.counted = st.counted
    BY <1>0, <1>5 DEF DropLate, JobState
  <2> HIDE DEF r
  <2>3. ASSUME ~SlowPartitions
        PROVE  \E o \in 1 .. r[2] - 1 : log[r[1]][o].kts - WatermarkDelay >= Msg(r).ts
    <3>0. Msg(r).ts \in Times /\ st.pos[p] \in Nat
      BY <1>0, <2>1 DEF Message, JobState
    <3>1. Msg(r).ts \in Nat /\ wm # NoTime /\ st.pos[p] \in Nat
      BY <1>0, <1>2, <2>1, <3>0
    <3>2. heads[p] # NoTime /\ wm <= heads[p] - WatermarkDelay
      BY <2>1, <2>3, <3>1 DEF HasNext, WatermarkInv, HeldBack
    <3>3. PICK o \in 1 .. st.pos[p] : log[p][o].kts = heads[p]
      BY <2>1, <3>2 DEF WatermarkInv, HeldBack
    <3>4. heads[p] \in Int
      BY <1>2
    <3>5. log[p][o].kts - WatermarkDelay >= Msg(r).ts
      BY <1>0, <2>1, <3>1, <3>2, <3>3, <3>4, TimesAssumption
    <3>6. o \in 1 .. r[2] - 1 /\ r[1] = p
      BY <2>1, <3>1
    <3> QED BY <3>5, <3>6
  <2>4. ASSUME ~SlowPartitions PROVE Behind(st', log)
    BY <2>2, <2>3, <2>4 DEF Behind, WatermarkInv, Msg
  <2>6. \A a \in st'.accepted : LateHandling /\ restarts = 0 => a.rec \in st'.counted
    BY <2>2 DEF WatermarkInv, Together
  <2> QED BY <1>3, <2>1, <2>2, <2>4, <2>6
<1>6. ASSUME NEW p \in Partitions, Accept(p) PROVE WatermarkInv'
  <2> DEFINE r == Next1(p)
             t == Msg(r).ts
  <2>1. /\ Consume(p) /\ HasNext(p) /\ status = "running" /\ UNCHANGED restarts
        /\ st' = Accepted(p, r, Msg(r)) /\ (LateHandling => ~(t <= wm))
    BY <1>6 DEF Accept, IsLate, HasNext, Consume
  <2>2. t \in Nat
    BY <1>2, <2>1, NextType DEF Message
  <2>3. /\ st'.pos = [st.pos EXCEPT ![p] = @ + 1] /\ st'.winWm = st.winWm
        /\ st'.late = st.late /\ st'.accepted = st.accepted \cup {[rec |-> r, at |-> now]}
        /\ st'.counted = IF Fired(WindowOf(t), st.winWm) THEN st.counted ELSE st.counted \cup {r}
    BY <1>0, <2>1 DEF Accepted, JobState
  <2> HIDE DEF r, t
  <2>4. ASSUME LateHandling, restarts = 0 PROVE ~Fired(WindowOf(t), st.winWm)
    <3>1. st.winWm \in Int /\ st.winWm <= wm
      BY <1>0, <2>1, <2>4 DEF JobState, WatermarkInv, Together
    <3>2. st.winWm < t
      BY <1>0, <2>1, <2>2, <2>4, <3>1
    <3> QED BY <2>2, <3>1, <3>2, OpenWindow
  <2>5. ASSUME LateHandling, restarts = 0, NEW a \in st'.accepted PROVE a.rec \in st'.counted
    BY <2>3, <2>4, <2>5 DEF WatermarkInv, Together
  <2> QED BY <1>3, <2>1, <2>3, <2>5 DEF Behind
\* The steps that lose the tasks.
<1>7. ASSUME LoseTasks, UNCHANGED <<log, st, ckpt>>, status' # "running",
             status' = "restarting" => restarts' = restarts + 1,
             status' # "restarting" => restarts' = restarts
      PROVE  WatermarkInv'
  <2>1. /\ wm' = NoTime /\ \A p \in Partitions : heads'[p] = NoTime
        /\ pending'.snap = EmptyState
    BY <1>1, <1>7 DEF LoseTasks
  <2>2. Together' /\ (status' = "restarting" => restarts' > 0)
    BY <1>0, <1>7 DEF WatermarkInv, Together
  <2> QED BY <1>1, <1>7, <2>1, <2>2 DEF WatermarkInv
<1>8. ASSUME Failover, UNCHANGED <<log, st, ckpt>> PROVE WatermarkInv'
  BY <1>7, <1>8 DEF Failover
<1>9. ASSUME NEW p \in Partitions, ValidationFails(p) PROVE WatermarkInv'
  BY <1>8, <1>9 DEF ValidationFails
\* The steps that leave operator 02 and its watermark alone.
<1>10. ASSUME UNCHANGED <<log, status, restarts, heads, wm>>, st'.pos = st.pos,
              st'.winWm = st.winWm, st'.late = st.late, st'.accepted = st.accepted,
              st'.counted = st.counted, ckpt' \in {ckpt, pending.snap},
              pending'.snap \in {pending.snap, st, EmptyState}
       PROVE  WatermarkInv'
  <2>1. ~SlowPartitions => Behind(st', log) /\ Behind(ckpt', log) /\ Behind(pending'.snap, log)
    BY <1>1, <1>10 DEF WatermarkInv, Behind
  <2> QED BY <1>10, <2>1 DEF WatermarkInv, HeldBack, Together
<1>11. CASE OnTimer
  <2>1. /\ st'.pos = st.pos /\ st'.winWm = st.winWm /\ st'.late = st.late
        /\ st'.accepted = st.accepted /\ st'.counted = st.counted
    BY <1>0, <1>11 DEF OnTimer, JobState
  <2> QED BY <1>10, <1>11, <2>1 DEF OnTimer
<1>12. ASSUME NEW active \in SUBSET Partitions, EmitWatermark(active) PROVE WatermarkInv'
  <2>1. PICK p \in active : /\ \A q \in active : heads[p] <= heads[q]
                            /\ heads[p] # NoTime /\ heads[p] - WatermarkDelay > wm
                            /\ wm' = heads[p] - WatermarkDelay
    BY <1>12 DEF EmitWatermark
  <2>2. /\ UNCHANGED <<log, ckpt, pending, status, restarts, heads>> /\ status = "running"
        /\ \A q \in Partitions \ active : MayBeIdle(q)
    BY <1>12 DEF EmitWatermark
  <2>3. /\ st'.pos = st.pos /\ st'.late = st.late /\ st'.accepted = st.accepted
        /\ st'.counted = st.counted /\ st'.winWm = IF wm' > st.winWm THEN wm' ELSE st.winWm
    BY <1>0, <1>12 DEF EmitWatermark, JobState
  <2>4. heads[p] \in Nat /\ wm' \in Int /\ st.winWm \in Int
    <3>1. heads[p] \in Nat /\ st.winWm \in Int
      BY <1>0, <1>2, <2>1 DEF JobState
    <3> QED BY <2>1, <3>1, TimesAssumption
  <2>5. ASSUME NEW q \in Partitions, ~SlowPartitions, st.pos[q] < Len(log[q])
        PROVE  heads[q] # NoTime /\ wm' <= heads[q] - WatermarkDelay
    <3>1. q \in active
      BY <1>0, <2>2, <2>5 DEF MayBeIdle, JobState
    <3>2. heads[q] \in Int /\ heads[p] <= heads[q]
      BY <1>0, <1>2, <2>1, <3>1
    <3> QED BY <1>2, <2>1, <2>4, <3>2, TimesAssumption
  <2>6. HeldBack'
    BY <2>2, <2>3, <2>5 DEF WatermarkInv, HeldBack
  <2>7. Together'
    <3>1. st.winWm <= wm => st'.winWm <= wm'
      BY <1>0, <2>1, <2>3, <2>4, TimesAssumption
    <3> QED BY <2>2, <2>3, <3>1 DEF WatermarkInv, Together
  <2> QED BY <2>2, <2>3, <2>6, <2>7 DEF WatermarkInv, Behind
<1>13. ASSUME NEW s \in Sinks, Flush(s) \/ AckJdbc(s) PROVE WatermarkInv'
  <2>1. pending'.snap = pending.snap
    BY <1>13 DEF Flush, AckJdbc, Acked, TypeOK
  <2> QED BY <1>10, <1>13, <2>1 DEF Flush, AckJdbc
<1>14. ASSUME NEW s \in Sinks, FlushFails(s) PROVE WatermarkInv'
  BY <1>8, <1>14 DEF FlushFails
<1>15. CASE SendDlq \/ TriggerCheckpoint \/ CompleteCheckpoint
  BY <1>1, <1>10, <1>15 DEF SendDlq, TriggerCheckpoint, CompleteCheckpoint
<1>16. CASE AckDlq
  <2>1. pending'.snap = pending.snap
    BY <1>16 DEF AckDlq, Acked, TypeOK
  <2> QED BY <1>10, <1>16, <2>1 DEF AckDlq
<1>17. CASE AbortCheckpoint
  <2>1. CASE ckptFailures < TolerableFailures
    BY <1>1, <1>10, <1>17, <2>1 DEF AbortCheckpoint
  <2>2. CASE ~(ckptFailures < TolerableFailures)
    BY <1>8, <1>17, <2>2 DEF AbortCheckpoint
  <2> QED BY <2>1, <2>2
<1>18. CASE Crash \/ Cancel
  BY <1>7, <1>8, <1>18 DEF Crash, Cancel
\* A job that starts has read nothing and has no watermark yet.
<1>19. CASE Restore
  BY <1>0, <1>19 DEF Restore, WatermarkInv, HeldBack, Together
<1>20. CASE Resubmit
  <2>1. st'.accepted = {} /\ st'.winWm = NoTime
    BY <1>1, <1>20 DEF Resubmit
  <2>2. wm' = NoTime /\ \A p \in Partitions : heads'[p] = NoTime
    BY <1>20 DEF Resubmit, WatermarkInv
  <2>3. Together' /\ HeldBack'
    BY <1>2, <2>1, <2>2 DEF Together, HeldBack
  <2> QED BY <1>1, <1>20, <2>3 DEF Resubmit, WatermarkInv
<1>21. CASE Tick \/ UNCHANGED vars
  BY <1>10, <1>21 DEF Tick, vars
<1> QED
  BY <1>4, <1>5, <1>6, <1>9, <1>11, <1>12, <1>13, <1>14, <1>15, <1>16, <1>17, <1>18,
     <1>19, <1>20, <1>21 DEF Next, Read, Watermark

\* The invariant holds of every behaviour.
LEMMA Watermarks == Spec => []WatermarkInv
<1>1. Init => WatermarkInv
  BY TimesAssumption DEF Init, WatermarkInv, Behind, HeldBack, Together, EmptyState, NoCheckpoint, NoTime
<1> QED BY <1>1, Typing, WatermarkStep, PTL DEF Spec

\* Only what is behind its own partition is dropped as late.
THEOREM LateOnesAreBehind == Spec => []LateIsJustified
<1>1. WatermarkInv => LateIsJustified
  BY DEF WatermarkInv, Behind, LateIsJustified, Msg
<1> QED BY <1>1, Watermarks, PTL

\* Until the first restart what operator 02 lets through is counted.
THEOREM AcceptedOnesAreCounted == Spec => []AcceptedIsCounted
<1>1. WatermarkInv => AcceptedIsCounted
  BY DEF WatermarkInv, Together, AcceptedIsCounted
<1> QED BY <1>1, Watermarks, PTL
=============================================================================
