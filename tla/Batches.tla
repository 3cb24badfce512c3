------------------------------ MODULE Batches ------------------------------
(***************************************************************************)
(* The objects a batch command generates: the historical playback events   *)
(* of bootstrap, cut into days and files, and the files of a recurring     *)
(* delivery.  A record is what tells it from others; the values of users   *)
(* and content are those of Deliveries.  Time is in seconds from the start *)
(* of the history.                                                         *)
(***************************************************************************)
EXTENDS Rounding, Sequences, SequencesExt

CONSTANTS
  HistoryDays, BaseCount,  \* history_days, base_playback_event_count
  RowsPerFile,             \* rows_per_file
  RateNum, RateDen,        \* duplicate_rate as a fraction
  Draw(_, _, _),           \* what the seed gives below a bound for an index and a salt
  Deliveries,              \* deliveries by id: [date, at, schema]
  Changed(_, _, _)         \* does a schema version change this entity of a dataset?

\* What BatchConfig asks.
IsBatch ==
  /\ {HistoryDays, BaseCount, RowsPerFile, RateDen} \subseteq Nat \ {0}
  /\ RateNum \in Nat /\ RateNum < RateDen

DaySeconds == 86400
Cutover    == HistoryDays * DaySeconds

\* range(0, count, rows_per_file)
Files(count)   == (count + RowsPerFile - 1) \div RowsPerFile
Size(count, k) == LET left == count - k * RowsPerFile
                  IN  IF left < RowsPerFile THEN left ELSE RowsPerFile

\* DuplicateInjector.apply, its copies drawn from the rows of the object.
Copied(rows, salt) ==
  LET count == Round(Len(rows) * RateNum, RateDen - RateNum)
  IN  [j \in 1 .. count |-> rows[1 + Draw(j, Len(rows), salt)]]

-----------------------------------------------------------------------------
(* bootstrap_objects *)

\* divmod: the first days have one event more.
DayCount(day) ==
  BaseCount \div HistoryDays + (IF day < BaseCount % HistoryDays THEN 1 ELSE 0)

\* Mutant: a session that the end of the day cuts off is not counted.
WholeSessions(count) == count \div 3

Sessions(count) == (count + 2) \div 3

\* The indexes when the loop comes to a day.
Indexes[day \in 0 .. HistoryDays] ==
  IF day = 0 THEN [event |-> 0, session |-> 0, file |-> 0]
  ELSE LET before == Indexes[day - 1]
           count  == DayCount(day - 1)
       IN  [event   |-> before.event + count,
            session |-> before.session + Sessions(count),
            file    |-> before.file + Files(count)]

\* Three events to a session: started, progressed, completed.
Offset(session, phase) ==
  LET progressed == 60 + Draw(session, 1200, 29)
  IN  CASE phase = 0 -> 0
        [] phase = 1 -> progressed
        [] phase = 2 -> progressed + 300 + Draw(session, 3600, 31)

WatchSeconds(session, phase) ==
  LET runtime    == 4800 + Draw(session, 3201, 37)
      progressed == Offset(session, 1)
  IN  CASE phase = 0 -> 0
        [] phase = 1 -> IF progressed < runtime THEN progressed ELSE runtime - 1
        [] phase = 2 -> runtime

\* The event at a position of a day.
Playback(day, position) ==
  LET session == Indexes[day].session + position \div 3
      phase   == position % 3
  IN  [key     |-> <<"event", Indexes[day].event + position>>,
       session |-> session, phase |-> phase, watch |-> WatchSeconds(session, phase),
       time    |-> day * DaySeconds + Draw(session, 72000, 23) + Offset(session, phase)]

PlaybackRecords(day, k) ==
  [i \in 1 .. Size(DayCount(day), k) |-> Playback(day, k * RowsPerFile + i - 1)]

\* Mutant: duplicates are injected into the day before it is cut into files.
CopiesOfDay(day, k) ==
  Copied([i \in 1 .. DayCount(day) |-> Playback(day, i - 1)], k)

CopiesOfFile(day, k) == Copied(PlaybackRecords(day, k), k)

PlaybackFile(day, k) ==
  [name    |-> <<"playback_events", day, Indexes[day].file + k>>,
   records |-> PlaybackRecords(day, k) \o CopiesOfFile(day, k)]

BootstrapObjects ==
  FlattenSeq([d \in 1 .. HistoryDays |->
    [k \in 1 .. Files(DayCount(d - 1)) |-> PlaybackFile(d - 1, k - 1)]])

-----------------------------------------------------------------------------
(* recurring_objects *)

FirstTimestamp == Min({Deliveries[d].at : d \in DOMAIN Deliveries})

\* _recurring_object_name: not the delivery_id.
RecurringName(dataset, delivery, k) == <<dataset, delivery.date, delivery.schema, k>>

\* A snapshot row is known by its entity, its schema and source_updated_timestamp, the
\* delivery's time only if its schema version, which seeds the draw, changes the
\* entity: two deliveries of one schema version differ in nothing else.
SnapshotRow(dataset, entity, delivery) ==
  LET changed == delivery.schema > 1 /\ Changed(dataset, entity, delivery.schema)
  IN  [key |-> <<dataset, entity>>, schema |-> delivery.schema, changed |-> changed,
       at |-> IF changed THEN delivery.at ELSE FirstTimestamp]

SnapshotFile(dataset, count, delivery, k) ==
  LET rows == [i \in 1 .. Size(count, k) |->
                 SnapshotRow(dataset, k * RowsPerFile + i - 1, delivery)]
  IN  [name    |-> RecurringName(dataset, delivery, k),
       records |-> rows \o Copied(rows, k)]

RecurringFiles(users, contents, delivery) ==
  LET All(dataset, count) ==
        [k \in 1 .. Files(count) |-> SnapshotFile(dataset, count, delivery, k - 1)]
  IN  All("users", users) \o All("subscriptions", users) \o All("content", contents)
=============================================================================
