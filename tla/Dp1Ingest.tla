------------------------------- MODULE Dp1Ingest -------------------------------
(***************************************************************************)
(* DP1: Spark drivers that ingest the landing bucket into the four         *)
(* append-only Bronze tables.  A driver lists the landing objects of each  *)
(* dataset, validates them, checks whether its pipeline run id already has *)
(* rows in Bronze, appends one dataset after the other, and counts what is *)
(* there.  Each of these is a step of its own: deliveries to the landing   *)
(* bucket, drivers of other runs and, when overlap holds, other drivers of *)
(* the same run come in between.                                           *)
(***************************************************************************)
EXTENDS Integers, FiniteSets

CONSTANTS
  Runs,             \* pipeline run ids
  Drivers,          \* spark-submit processes
  Rows,             \* source rows that may be delivered, see Row
  Delivered,        \* those already in the landing bucket at the start
  PlaybackBatches,  \* playback_write_batches
  Overlaps          \* whether drivers of a run may overlap, see overlap

\* write appends in this order, the playback events in hash batches.
Steps    == 1 .. 3 + PlaybackBatches
Datasets == 1 .. 4      \* users, subscriptions, content, playback_events
DatasetOf(step) == IF step <= 3 THEN step ELSE 4

\* A row of an immutable landing object: the step that appends it, and whether
\* its event_timestamp violates the cutover.
Row == [id : STRING, step : Steps, afterCutover : BOOLEAN]

ASSUME BatchesAssumption == PlaybackBatches \in Nat \ {0}
ASSUME RowsAssumption    == Rows \subseteq Row /\ IsFiniteSet(Rows) /\ Delivered \subseteq Rows
ASSUME DriversAssumption == IsFiniteSet(Drivers)
ASSUME OverlapsAssumption == Overlaps \subseteq BOOLEAN

VARIABLES
  landing,  \* rows in the landing bucket
  created,  \* datasets whose Bronze table exists
  bronze,   \* committed rows, as <<the driver that appended it, row>>
  driver,   \* [Drivers -> Driver]
  overlap   \* may two drivers of one run id be alive at once?  Airflow retries
            \* one after the other, make spark-dp1 may be started twice

vars == <<landing, created, bronze, driver, overlap>>

Phases == {"idle", "read", "validate_input", "check", "decide", "lookup",
           "append", "validate_output", "done", "failed"}
Active == Phases \ {"idle", "done", "failed"}

\* at is the dataset or the step the phase has got to.
Driver == [phase : Phases, run : Runs, validateOnly : BOOLEAN, at : Nat,
           input : SUBSET Rows, existing : [Datasets -> Nat], found : BOOLEAN]

In(rows, dataset) == {row \in rows : DatasetOf(row.step) = dataset}

\* The rows of a table that carry one pipeline run id.
Copies(run, dataset) ==
  {copy \in bronze : driver[copy[1]].run = run /\ DatasetOf(copy[2].step) = dataset}
Output(run) == {copy[2] : copy \in {c \in bronze : driver[c[1]].run = run}}

InputCount(d, dataset) == Cardinality(In(driver[d].input, dataset))

Init ==
  /\ landing = Delivered /\ created = {} /\ bronze = {} /\ overlap \in Overlaps
  /\ \E run \in Runs :
       driver = [d \in Drivers |->
                   [phase |-> "idle", run |-> run, validateOnly |-> FALSE, at |-> 1,
                    input |-> {}, existing |-> [x \in Datasets |-> 0],
                    found |-> FALSE]]

\* The generator puts one more object.
Deliver ==
  /\ \E row \in Rows \ landing : landing' = landing \cup {row}
  /\ UNCHANGED <<created, bronze, driver, overlap>>

Move(d, phase, at) ==
  driver' = [driver EXCEPT ![d].phase = phase, ![d].at = at]

\* cli.main, from Airflow or make.
Start(d, run, validateOnly) ==
  /\ driver[d].phase = "idle"
  /\ overlap \/ \A e \in Drivers : driver[e].phase \in Active => driver[e].run # run
  /\ driver' = [driver EXCEPT ![d].phase = "read", ![d].run = run,
                              ![d].validateOnly = validateOnly]
  /\ UNCHANGED <<landing, created, bronze, overlap>>

\* The objects of one dataset are listed when its DataFrame is made; counting and
\* appending it later reads the same objects.
Read(d) ==
  /\ driver[d].phase = "read"
  /\ driver' = [driver EXCEPT
                  ![d].input = @ \cup In(landing, driver[d].at),
                  ![d].phase = IF driver[d].at = 4 THEN "validate_input" ELSE "read",
                  ![d].at = IF @ = 4 THEN 1 ELSE @ + 1]
  /\ UNCHANGED <<landing, created, bronze, overlap>>

InputIsValid(d) ==
  /\ \A dataset \in Datasets : In(driver[d].input, dataset) # {}
  /\ \A row \in driver[d].input : ~row.afterCutover

ValidateInput(d) ==
  /\ driver[d].phase = "validate_input"
  /\ Move(d, IF ~InputIsValid(d) THEN "failed"
             ELSE IF driver[d].validateOnly THEN "validate_output" ELSE "check", 1)
  /\ UNCHANGED <<landing, created, bronze, overlap>>

\* How many rows of the run each table already has; none if it does not exist.
Check(d) ==
  /\ driver[d].phase = "check"
  /\ driver' = [driver EXCEPT
                  ![d].existing[driver[d].at] =
                     IF driver[d].at \in created
                     THEN Cardinality(Copies(driver[d].run, driver[d].at)) ELSE 0,
                  ![d].phase = IF driver[d].at = 4 THEN "decide" ELSE "check",
                  ![d].at = IF @ = 4 THEN 1 ELSE @ + 1]
  /\ UNCHANGED <<landing, created, bronze, overlap>>

\* Mutant: a partial output is appended to.
DecideToResume(d) ==
  /\ driver[d].phase = "decide"
  /\ IF \A dataset \in Datasets : driver[d].existing[dataset] = InputCount(d, dataset)
     THEN Move(d, "validate_output", 1)
     ELSE Move(d, "lookup", 1)
  /\ UNCHANGED <<landing, created, bronze, overlap>>

\* Reuse a complete output, refuse a partial one, append when there is none.
Decide(d) ==
  /\ driver[d].phase = "decide"
  /\ IF \A dataset \in Datasets : driver[d].existing[dataset] = InputCount(d, dataset)
     THEN Move(d, "validate_output", 1)
     ELSE IF \E dataset \in Datasets : driver[d].existing[dataset] # 0
     THEN Move(d, "failed", 1)
     ELSE Move(d, "lookup", 1)
  /\ UNCHANGED <<landing, created, bronze, overlap>>

\* append looks the table up, then appends to it or creates it with the rows.
Lookup(d) ==
  /\ driver[d].phase = "lookup"
  /\ driver' = [driver EXCEPT ![d].phase = "append",
                              ![d].found = DatasetOf(driver[d].at) \in created]
  /\ UNCHANGED <<landing, created, bronze, overlap>>

Batch(d) == {row \in driver[d].input : row.step = driver[d].at}

\* One Iceberg commit: an append, or the creation of the table with its rows.
Append(d) ==
  /\ driver[d].phase = "append"
  /\ driver[d].found \/ DatasetOf(driver[d].at) \notin created
  /\ bronze' = bronze \cup {<<d, row>> : row \in Batch(d)}
  /\ created' = created \cup {DatasetOf(driver[d].at)}
  /\ IF driver[d].at = 3 + PlaybackBatches
     THEN Move(d, "validate_output", 1)
     ELSE Move(d, "lookup", driver[d].at + 1)
  /\ UNCHANGED <<landing, overlap>>

\* Another driver has created the table since the lookup.
CreateFails(d) ==
  /\ driver[d].phase = "append"
  /\ ~driver[d].found /\ DatasetOf(driver[d].at) \in created
  /\ Move(d, "failed", 1)
  /\ UNCHANGED <<landing, created, bronze, overlap>>

\* Mutant: the last table is not validated.
ValidateOutputOfThree(d) ==
  /\ driver[d].phase = "validate_output"
  /\ IF /\ driver[d].at \in created
        /\ Cardinality(Copies(driver[d].run, driver[d].at)) = InputCount(d, driver[d].at)
     THEN IF driver[d].at = 3 THEN Move(d, "done", 1)
          ELSE Move(d, "validate_output", driver[d].at + 1)
     ELSE Move(d, "failed", 1)
  /\ UNCHANGED <<landing, created, bronze, overlap>>

\* Mutant: the output count need only cover the input.
ValidateOutputCovered(d) ==
  /\ driver[d].phase = "validate_output"
  /\ IF /\ driver[d].at \in created
        /\ Cardinality(Copies(driver[d].run, driver[d].at)) >= InputCount(d, driver[d].at)
     THEN IF driver[d].at = 4 THEN Move(d, "done", 1)
          ELSE Move(d, "validate_output", driver[d].at + 1)
     ELSE Move(d, "failed", 1)
  /\ UNCHANGED <<landing, created, bronze, overlap>>

\* Each table must have as many rows of the run as the dataset has.
ValidateOutput(d) ==
  /\ driver[d].phase = "validate_output"
  /\ IF /\ driver[d].at \in created
        /\ Cardinality(Copies(driver[d].run, driver[d].at)) = InputCount(d, driver[d].at)
     THEN IF driver[d].at = 4 THEN Move(d, "done", 1)
          ELSE Move(d, "validate_output", driver[d].at + 1)
     ELSE Move(d, "failed", 1)
  /\ UNCHANGED <<landing, created, bronze, overlap>>

\* The driver dies, or a Spark, catalog or storage call raises, at any step.
Die(d) ==
  /\ driver[d].phase \in Active
  /\ Move(d, "failed", 1)
  /\ UNCHANGED <<landing, created, bronze, overlap>>

Next ==
  \/ Deliver
  \/ \E d \in Drivers, run \in Runs, v \in BOOLEAN : Start(d, run, v)
  \/ \E d \in Drivers : Read(d)
  \/ \E d \in Drivers : ValidateInput(d)
  \/ \E d \in Drivers : Check(d)
  \/ \E d \in Drivers : Decide(d)
  \/ \E d \in Drivers : Lookup(d)
  \/ \E d \in Drivers : Append(d)
  \/ \E d \in Drivers : CreateFails(d)
  \/ \E d \in Drivers : ValidateOutput(d)
  \/ \E d \in Drivers : Die(d)

Spec == Init /\ [][Next]_vars
-----------------------------------------------------------------------------
(* Properties *)

TypeOK ==
  /\ landing \subseteq Rows /\ created \subseteq Datasets
  /\ bronze \subseteq Drivers \X Rows
  /\ driver \in [Drivers -> Driver]
  /\ \A d \in Drivers : driver[d].phase \in Active => driver[d].at \in Steps
  /\ overlap \in Overlaps

\* A run is written by one driver only, so no retry appends a row of the run a
\* second time.  Holds while the drivers of one run do not overlap.
OneWriterPerRun ==
  ~overlap =>
    \A b, c \in bronze : driver[b[1]].run = driver[c[1]].run => b[1] = c[1]

\* A driver that reports success, whether it appended the rows, reused them or
\* only validated them, leaves exactly the rows it listed under its run id,
\* although it only compares counts and may have listed them much later.
SuccessIsExact ==
  ~overlap =>
    \A d \in Drivers : driver[d].phase = "done" => Output(driver[d].run) = driver[d].input

Appended(d) == \E copy \in bronze : copy[1] = d

\* However the drivers of one run overlap, at most one that appended reports
\* success: rows appended twice are always noticed by one of the two.
OneAppenderSucceeds ==
  \A d, e \in Drivers :
    /\ driver[d].phase = "done" /\ driver[e].phase = "done"
    /\ driver[d].run = driver[e].run
    /\ Appended(d) /\ Appended(e)
    => d = e
=============================================================================
