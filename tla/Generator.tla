----------------------------- MODULE Generator -----------------------------
(***************************************************************************)
(* The generator's command line.  A command runs one of three modes:       *)
(* bootstrap and recurring_batch write the objects of Batches to the       *)
(* landing bucket as Landing says; stream sends the events of              *)
(* StreamEvents.  Batch commands and streams share no state, so that a     *)
(* behaviour is one of the former, any number of them at a time, or one of *)
(* the latter.                                                             *)
(***************************************************************************)
EXTENDS Landing, Batches

CONSTANTS
  Requested,               \* of each batch command: mode and delivery_id, or None
  None,
  UserCount, ContentCount,
  Count, BufferSize, Invalids, Lates, Swaps, Duplicates,  \* of StreamEvents
  Schedules, Delays, LateDelays, WatermarkDelay           \* likewise

VARIABLES
  mode,               \* "batch" or "stream"
  plan, start, sent   \* of StreamEvents

Stream == INSTANCE StreamEvents

ASSUME ConfigurationAssumption ==
  IsBatch /\ Stream!IsStream /\ {UserCount, ContentCount} \subseteq Nat \ {0}

\* stable_int and rng.integers give numbers below their bound: those of a session, and
\* those of the copies in a file.
ASSUME DrawAssumption ==
  /\ \A session \in 0 .. BaseCount - 1 :
     \A d \in {<<72000, 23>>, <<1200, 29>>, <<3600, 31>>, <<3201, 37>>} :
       Draw(session, d[1], d[2]) \in 0 .. d[1] - 1
  /\ \A size \in 1 .. RowsPerFile, file \in 0 .. BaseCount + UserCount + ContentCount :
     \A j \in 1 .. Round(size * RateNum, RateDen - RateNum) :
       Draw(j, size, file) \in 0 .. size - 1

\* GeneratorModeFactory.create: what it does not accept is an error before any work.
Accepted(request) ==
  \/ request.mode = "bootstrap"
  \/ request.mode = "recurring_batch" /\ request.delivery \in DOMAIN Deliveries

\* What the collector and the writer see of generated objects.
Serialized(objects) ==
  [i \in DOMAIN objects |->
     LET rows == objects[i].records
     IN  [name |-> objects[i].name, bytes |-> rows, rows |-> Len(rows),
          keys |-> Cardinality({rows[j].key : j \in DOMAIN rows})]]

\* The objects of each command; bootstrap has no use for a delivery, and the objects
\* of a command that is not accepted do not matter.
Generated ==
  [c \in Commands |->
     Serialized(IF Requested[c].mode = "recurring_batch" /\ Requested[c].delivery \in DOMAIN Deliveries
                THEN RecurringFiles(UserCount, ContentCount, Deliveries[Requested[c].delivery])
                ELSE BootstrapObjects)]

ASSUME ObjectsAssumption == Objects = Generated

allVars == <<vars, mode, plan, start, sent>>

GeneratorInit ==
  /\ Init
  /\ \/ mode = "batch" /\ plan = <<>> /\ start = 0 /\ sent = <<>>
     \/ mode = "stream" /\ Stream!Init

BatchStep ==
  /\ mode = "batch"
  /\ \E c \in Commands : Accepted(Requested[c]) /\ Step(c)
  /\ UNCHANGED <<mode, plan, start, sent>>

StreamStep ==
  /\ mode = "stream" /\ Stream!YieldBuffer
  /\ UNCHANGED <<vars, mode>>

GeneratorNext == BatchStep \/ StreamStep

GeneratorSpec == GeneratorInit /\ [][GeneratorNext]_allVars

-----------------------------------------------------------------------------
(* Properties *)

FlaggedIsOvertaken == Stream!FlaggedIsOvertaken
OnlyMarkedIsLate == Stream!OnlyMarkedIsLate

\* The rows in the bucket under the names of a command.
RowsOf(c) ==
  UNION {Range(store[Objects[c][i].name]) : i \in DOMAIN Objects[c]}

\* Once a bootstrap has ended well, however often it was cut off and given again,
\* the bucket holds each of the BaseCount events, as one and the same row in all
\* its copies; a session has its first one to three events in order, within a
\* day, whichever files they are in, is no session of another day, and is over
\* before the cutover.
HistoryIsWhole ==
  \A c \in Commands : pc[c] = "done" /\ Requested[c].mode = "bootstrap" =>
    LET rows  == RowsOf(c)
        Of(r) == {o \in rows : o.session = r.session}
    IN  /\ {r.key : r \in rows} = {<<"event", i>> : i \in 0 .. BaseCount - 1}
        /\ Cardinality(rows) = BaseCount
        /\ \A r \in rows :
             /\ r.time < Cutover
             /\ {o.phase : o \in Of(r)} = 0 .. Cardinality(Of(r)) - 1
             /\ \A o \in Of(r) :
                  /\ o.time \div DaySeconds = r.time \div DaySeconds
                  /\ o.phase < r.phase => o.time < r.time /\ o.watch <= r.watch

\* rows_after_dedup in the report of a command, which is computed from counters of
\* one object at a time, is the number of different rows it has in the bucket; for
\* a stream, the number of different valid events it sent.
SummaryIsTrue ==
  /\ \A c \in Commands : pc[c] = "done" =>
       /\ report[c].files = Len(Objects[c]) /\ report[c].uploaded <= report[c].files
       /\ report[c].rows - report[c].duplicates = Cardinality({r.key : r \in RowsOf(c)})
  /\ Stream!SummaryIsTrue
=============================================================================
