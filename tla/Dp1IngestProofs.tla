--------------------------- MODULE Dp1IngestProofs ---------------------------
(***************************************************************************)
(* What holds of Dp1Ingest for every set of rows, any number of drivers,   *)
(* runs and write batches: its types; while the drivers of one run do not  *)
(* overlap, that a run is written once and that success is exact; however  *)
(* they overlap, that of those that appended one succeeds at most.         *)
(***************************************************************************)
EXTENDS Dp1Ingest, FiniteSetTheorems, TLAPS

-----------------------------------------------------------------------------
(* Sets and counts *)

\* The rows of one run in one table are finitely many.
LEMMA CopiesFinite ==
  ASSUME bronze \subseteq Drivers \X Rows, NEW run, NEW dataset
  PROVE  /\ IsFiniteSet(Copies(run, dataset))
         /\ Cardinality(Copies(run, dataset)) \in Nat
<1>1. IsFiniteSet(Drivers \X Rows)
  BY RowsAssumption, DriversAssumption, FS_Product
<1>2. Copies(run, dataset) \in SUBSET (Drivers \X Rows)
  BY DEF Copies
<1> QED
  BY <1>1, <1>2, FS_Subset, FS_CardinalityType

\* Copies of distinct rows of I that are as many as I are copies of all of I.
LEMMA SameCount ==
  ASSUME NEW C, NEW I, IsFiniteSet(I),
         \A c \in C : c[2] \in I,
         \A b, c \in C : b[2] = c[2] => b = c,
         Cardinality(C) = Cardinality(I)
  PROVE  \A row \in I : \E c \in C : c[2] = row
<1> DEFINE f == [c \in C |-> c[2]]
<1>1. f \in Injection(C, I)
  BY DEF Injection, IsInjective
<1>2. f \in Surjection(C, I)
  BY <1>1, FS_Injection
<1> QED
  BY <1>2 DEF Surjection

-----------------------------------------------------------------------------
(* Types *)

AtOK(d) ==
  /\ driver[d].phase \in {"idle", "validate_input", "decide"} => driver[d].at = 1
  /\ driver[d].phase \in {"read", "check", "validate_output"} => driver[d].at \in Datasets
  /\ driver[d].phase \in {"lookup", "append"} => driver[d].at \in Steps

TypeInv ==
  /\ landing \subseteq Rows /\ created \subseteq Datasets
  /\ bronze \subseteq Drivers \X Rows
  /\ driver \in [Drivers -> Driver]
  /\ \A d \in Drivers : AtOK(d)
  /\ overlap \in Overlaps

\* The steps that change one driver only, to one of the right type.
LEMMA DriverType ==
  ASSUME TypeInv, NEW d \in Drivers, NEW new \in Driver,
         UNCHANGED <<landing, created, bronze, overlap>>,
         driver' = [driver EXCEPT ![d] = new],
         new.phase \in {"idle", "validate_input", "decide"} => new.at = 1,
         new.phase \in {"read", "check", "validate_output"} => new.at \in Datasets,
         new.phase \in {"lookup", "append"} => new.at \in Steps
  PROVE  TypeInv'
BY DEF TypeInv, AtOK

\* Every dataset is a step.
LEMMA DatasetsAreSteps ==
  /\ \A dataset \in Datasets : dataset \in Steps
  /\ \A step \in Steps : DatasetOf(step) \in Datasets
BY BatchesAssumption DEF Datasets, Steps, DatasetOf

\* A move to a phase, at a dataset or step that fits it.
LEMMA MoveType ==
  ASSUME TypeInv, NEW d \in Drivers, NEW phase \in Phases, NEW at \in Nat, Move(d, phase, at),
         UNCHANGED <<landing, created, bronze, overlap>>,
         phase \in {"idle", "validate_input", "decide"} => at = 1,
         phase \in {"read", "check", "validate_output"} => at \in Datasets,
         phase \in {"lookup", "append"} => at \in Steps
  PROVE  TypeInv'
<1> DEFINE new == [driver[d] EXCEPT !.phase = phase, !.at = at]
<1>1. driver' = [driver EXCEPT ![d] = new]
  BY DEF Move, TypeInv
<1>2. new \in Driver /\ new.phase = phase /\ new.at = at
  BY DEF TypeInv, Driver
<1> HIDE DEF new
<1> QED
  BY <1>1, <1>2, DriverType

\* Every step keeps the types.
LEMMA TypeStep == TypeInv /\ [Next]_vars => TypeInv'
<1> SUFFICES ASSUME TypeInv, [Next]_vars PROVE TypeInv'
  OBVIOUS
<1>1. CASE Deliver
  BY <1>1 DEF Deliver, TypeInv, AtOK
<1>2. ASSUME NEW d \in Drivers, NEW run \in Runs, NEW v \in BOOLEAN, Start(d, run, v)
      PROVE  TypeInv'
  <2> DEFINE new == [driver[d] EXCEPT !.phase = "read", !.run = run, !.validateOnly = v]
  <2>1. driver' = [driver EXCEPT ![d] = new]
    BY <1>2 DEF Start, TypeInv
  <2>2. "read" \in Phases /\ driver[d] \in Driver /\ driver[d].at \in Datasets
    BY <1>2 DEF Start, TypeInv, AtOK, Phases, Datasets
  <2>3. new \in Driver /\ new.phase = "read" /\ new.at \in Datasets
    BY <2>2 DEF Driver
  <2> HIDE DEF new
  <2> QED
    BY <1>2, <2>1, <2>3, DriverType DEF Start
<1>3. ASSUME NEW d \in Drivers, Read(d) PROVE TypeInv'
  <2> DEFINE phase == IF driver[d].at = 4 THEN "validate_input" ELSE "read"
             at    == IF driver[d].at = 4 THEN 1 ELSE driver[d].at + 1
             new   == [driver[d] EXCEPT !.input = @ \cup In(landing, driver[d].at),
                                        !.phase = phase, !.at = at]
  <2>1. driver' = [driver EXCEPT ![d] = new]
    BY <1>3 DEF Read, TypeInv
  <2>2. driver[d].at \in Datasets /\ In(landing, driver[d].at) \subseteq Rows
    BY <1>3 DEF Read, TypeInv, AtOK, In
  <2>3. (phase = "validate_input" /\ at = 1) \/ (phase = "read" /\ at \in Datasets)
    BY <2>2 DEF Datasets
  <2>4. phase \in Phases /\ at \in Nat /\ driver[d] \in Driver
    BY <2>3 DEF Phases, Datasets, TypeInv
  <2> HIDE DEF phase, at
  <2>5. new \in Driver /\ new.phase = phase /\ new.at = at
    BY <2>2, <2>4 DEF Driver
  <2> HIDE DEF new
  <2> QED
    BY <1>3, <2>1, <2>3, <2>5, DriverType DEF Read
<1>4. ASSUME NEW d \in Drivers, ValidateInput(d) PROVE TypeInv'
  BY <1>4, MoveType DEF ValidateInput, Phases, Datasets
<1>5. ASSUME NEW d \in Drivers, Check(d) PROVE TypeInv'
  <2> DEFINE count == IF driver[d].at \in created
                      THEN Cardinality(Copies(driver[d].run, driver[d].at)) ELSE 0
             phase == IF driver[d].at = 4 THEN "decide" ELSE "check"
             at    == IF driver[d].at = 4 THEN 1 ELSE driver[d].at + 1
             new   == [driver[d] EXCEPT !.existing = [@ EXCEPT ![driver[d].at] = count],
                                        !.phase = phase, !.at = at]
  <2>1. driver' = [driver EXCEPT ![d] = new]
    BY <1>5 DEF Check, TypeInv
  <2>2. driver[d].at \in Datasets /\ count \in Nat
    BY <1>5, CopiesFinite DEF Check, TypeInv, AtOK
  <2> HIDE DEF count
  <2>3. (phase = "decide" /\ at = 1) \/ (phase = "check" /\ at \in Datasets)
    BY <2>2 DEF Datasets
  <2>4. phase \in Phases /\ at \in Nat /\ driver[d] \in Driver
    BY <2>3 DEF Phases, Datasets, TypeInv
  <2> HIDE DEF phase, at
  <2>5. new \in Driver /\ new.phase = phase /\ new.at = at
    BY <2>2, <2>4 DEF Driver
  <2> HIDE DEF new
  <2> QED
    BY <1>5, <2>1, <2>3, <2>5, DriverType DEF Check
<1>6. ASSUME NEW d \in Drivers, Decide(d) PROVE TypeInv'
  BY <1>6, MoveType, DatasetsAreSteps DEF Decide, Phases, Datasets
<1>7. ASSUME NEW d \in Drivers, Lookup(d) PROVE TypeInv'
  <2> DEFINE found == DatasetOf(driver[d].at) \in created
             new   == [driver[d] EXCEPT !.phase = "append", !.found = found]
  <2>1. driver' = [driver EXCEPT ![d] = new]
    BY <1>7 DEF Lookup, TypeInv
  <2>2. "append" \in Phases /\ driver[d] \in Driver /\ driver[d].at \in Steps
    BY <1>7 DEF Lookup, TypeInv, AtOK, Phases
  <2>3. found \in BOOLEAN
    OBVIOUS
  <2> HIDE DEF found
  <2>4. new \in Driver /\ new.phase = "append" /\ new.at \in Steps
    BY <2>2, <2>3 DEF Driver
  <2> HIDE DEF new
  <2> QED
    BY <1>7, <2>1, <2>4, DriverType DEF Lookup
<1>8. ASSUME NEW d \in Drivers, Append(d) PROVE TypeInv'
  <2> DEFINE phase == IF driver[d].at = 3 + PlaybackBatches THEN "validate_output" ELSE "lookup"
             at    == IF driver[d].at = 3 + PlaybackBatches THEN 1 ELSE driver[d].at + 1
  <2>1. driver' = [driver EXCEPT ![d].phase = phase, ![d].at = at]
    BY <1>8 DEF Append, Move
  <2>2. driver[d].at \in Steps
    BY <1>8 DEF Append, TypeInv, AtOK
  <2>3. (phase = "validate_output" /\ at \in Datasets) \/ (phase = "lookup" /\ at \in Steps)
    BY <2>2, BatchesAssumption DEF Steps, Datasets
  <2>4. at \in Nat /\ phase \in Phases
    BY <2>3 DEF Datasets, Steps, Phases
  <2> HIDE DEF phase, at
  <2> DEFINE new == [driver[d] EXCEPT !.phase = phase, !.at = at]
  <2>5. driver' = [driver EXCEPT ![d] = new]
    BY <2>1 DEF TypeInv
  <2>6. new \in Driver /\ new.phase = phase /\ new.at = at
    BY <2>4 DEF Driver, TypeInv
  <2> HIDE DEF new
  <2>7. driver' \in [Drivers -> Driver] /\ \A e \in Drivers : AtOK(e)'
    BY <2>3, <2>5, <2>6 DEF TypeInv, AtOK
  <2>8. Batch(d) \subseteq Rows
    BY DEF Batch, TypeInv, Driver
  <2>9. bronze' \subseteq Drivers \X Rows
    BY <1>8, <2>8 DEF Append, TypeInv
  <2>10. created' \subseteq Datasets
    BY <1>8, <2>2, DatasetsAreSteps DEF Append, TypeInv
  <2> QED
    BY <1>8, <2>7, <2>9, <2>10 DEF Append, TypeInv
<1>9. ASSUME NEW d \in Drivers, CreateFails(d) \/ Die(d) PROVE TypeInv'
  BY <1>9, MoveType DEF CreateFails, Die, Phases
<1>10. ASSUME NEW d \in Drivers, ValidateOutput(d) PROVE TypeInv'
  <2>1. driver[d].at \in Datasets
    BY <1>10 DEF ValidateOutput, TypeInv, AtOK
  <2>2. CASE Move(d, "validate_output", driver[d].at + 1) /\ driver[d].at # 4
    <3>1. driver[d].at + 1 \in Datasets /\ driver[d].at + 1 \in Nat
      BY <2>1, <2>2 DEF Datasets
    <3> QED
      BY <1>10, <2>2, <3>1, MoveType DEF ValidateOutput, Phases
  <2>3. CASE Move(d, "done", 1) \/ Move(d, "failed", 1)
    BY <1>10, <2>3, MoveType DEF ValidateOutput, Phases
  <2> QED
    BY <1>10, <2>2, <2>3 DEF ValidateOutput
<1>11. CASE UNCHANGED vars
  BY <1>11 DEF vars, TypeInv, AtOK
<1> QED
  BY <1>1, <1>2, <1>3, <1>4, <1>5, <1>6, <1>7, <1>8, <1>9, <1>10, <1>11 DEF Next

\* The types hold of every behaviour, with the range of each driver's cursor.
LEMMA Types == Spec => []TypeInv
<1>1. Init => TypeInv
  BY RowsAssumption DEF Init, TypeInv, AtOK, Driver, Phases
<1> QED
  BY <1>1, TypeStep, PTL DEF Spec

\* Type correctness of DP1, for any number of rows, drivers, runs and batches.
THEOREM Typing == Spec => []TypeOK
<1>1. TypeInv => TypeOK
  BY DatasetsAreSteps, BatchesAssumption
  DEF TypeInv, TypeOK, AtOK, Active, Phases, Driver, Steps
<1> QED
  BY <1>1, Types, PTL

-----------------------------------------------------------------------------
(* One writer per run, and exact success, while drivers of a run do not      *)
(* overlap.  The counts a driver compares say something about rows only      *)
(* because every row of its run in the datasets it has listed is one of its  *)
(* inputs: the landing bucket only grows, and an earlier driver of the run   *)
(* listed it earlier.                                                        *)

SameRun(d, e) == driver[d].run = driver[e].run

\* A dataset whose objects the driver has listed.
Listed(d, dataset) ==
  /\ driver[d].phase \in Active \cup {"done"}
  /\ driver[d].phase = "read" => dataset < driver[d].at

Known(d, dataset) ==
  driver[d].existing[dataset] = Cardinality(Copies(driver[d].run, dataset))

Stored(d, dataset) ==
  \A row \in In(driver[d].input, dataset) :
    \E copy \in bronze : driver[copy[1]].run = driver[d].run /\ copy[2] = row

Fresh(d) ==
  /\ \A copy \in bronze : SameRun(copy[1], d) => copy[1] = d
  /\ \A e \in Drivers : SameRun(e, d) => driver[e].phase # "done"

CommitInv ==
  \A copy \in bronze : /\ driver[copy[1]].phase # "idle"
                       /\ copy[2] \in driver[copy[1]].input
                       /\ DatasetOf(copy[2].step) \in created
SerialInv ==
  \A d, e \in Drivers :
    driver[d].phase \in Active /\ driver[e].phase \in Active /\ SameRun(d, e) => d = e
WriterInv ==
  \A b, c \in bronze : SameRun(b[1], c[1]) => b[1] = c[1]
InputInv(d) ==
  /\ driver[d].input \subseteq landing
  /\ driver[d].phase \in {"check", "decide", "lookup", "append", "validate_output", "done"}
       => driver[d].input # {}
ListedInv(d) ==
  \A copy \in bronze :
    SameRun(copy[1], d) /\ Listed(d, DatasetOf(copy[2].step)) => copy[2] \in driver[d].input
CheckedInv(d) ==
  /\ driver[d].phase = "check" => \A x \in Datasets : x < driver[d].at => Known(d, x)
  /\ driver[d].phase = "decide" => \A x \in Datasets : Known(d, x)
FreshInv(d) ==
  driver[d].phase \in {"lookup", "append"} => Fresh(d)
ValidatedInv(d) ==
  /\ driver[d].phase = "validate_output" => \A x \in Datasets : x < driver[d].at => Stored(d, x)
  /\ driver[d].phase = "done" => \A x \in Datasets : Stored(d, x)

DriverInv(d) ==
  InputInv(d) /\ ListedInv(d) /\ CheckedInv(d) /\ FreshInv(d) /\ ValidatedInv(d)

IngestInv == CommitInv /\ SerialInv /\ WriterInv /\ \A d \in Drivers : DriverInv(d)

\* A step of one active driver that has read its input and writes nothing.
LEMMA LocalStep ==
  ASSUME TypeInv, IngestInv, NEW d \in Drivers, NEW new \in Driver,
         UNCHANGED <<landing, created, bronze, overlap>>,
         driver' = [driver EXCEPT ![d] = new],
         new.run = driver[d].run, new.input = driver[d].input,
         driver[d].phase \in Active, new.phase \notin {"idle", "read"},
         driver[d].phase = "read" => new.phase = "failed",
         new.phase \in {"check", "decide", "lookup", "append", "validate_output", "done"}
           => driver[d].input # {},
         new.phase = "check" => \A x \in Datasets :
           x < new.at => new.existing[x] = Cardinality(Copies(driver[d].run, x)),
         new.phase = "decide" => \A x \in Datasets :
           new.existing[x] = Cardinality(Copies(driver[d].run, x)),
         new.phase \in {"lookup", "append"} => Fresh(d),
         new.phase = "validate_output" => \A x \in Datasets : x < new.at => Stored(d, x),
         new.phase = "done" => \A x \in Datasets : Stored(d, x)
  PROVE  IngestInv'
<1>1. /\ driver'[d] = new
      /\ \A e \in Drivers : e # d => driver'[e] = driver[e]
      /\ \A e \in Drivers : driver'[e].run = driver[e].run /\ driver'[e].input = driver[e].input
      /\ \A e \in Drivers : driver'[e].phase = "idle" => driver[e].phase = "idle"
  BY DEF TypeInv
<1>2. \A copy \in bronze : copy[1] \in Drivers
  BY DEF TypeInv
<1>3. \A run, x : Copies(run, x)' = Copies(run, x)
  BY <1>1, <1>2 DEF Copies
<1>4. CommitInv'
  BY <1>1, <1>2 DEF IngestInv, CommitInv
<1>5. SerialInv'
  BY <1>1 DEF IngestInv, SerialInv, SameRun, Active
<1>6. WriterInv'
  BY <1>1, <1>2 DEF IngestInv, WriterInv, SameRun
<1>7. ASSUME NEW e \in Drivers PROVE InputInv(e)'
  BY <1>1 DEF IngestInv, DriverInv, InputInv
<1>8. ASSUME NEW e \in Drivers PROVE ListedInv(e)'
  <2>1. ASSUME NEW x, Listed(e, x)' PROVE Listed(e, x)
    <3>1. "failed" \notin Active \cup {"done"}
      BY DEF Active
    <3>2. CASE e # d
      BY <1>1, <2>1, <3>2 DEF Listed
    <3>3. CASE e = d
      BY <1>1, <2>1, <3>1, <3>3 DEF Listed
    <3> QED
      BY <3>2, <3>3
  <2> QED
    BY <1>1, <1>2, <2>1 DEF IngestInv, DriverInv, ListedInv, SameRun
<1>9. ASSUME NEW e \in Drivers PROVE CheckedInv(e)'
  <2>1. CASE e # d
    BY <1>1, <1>3, <2>1 DEF IngestInv, DriverInv, CheckedInv, Known
  <2>2. CASE e = d
    BY <1>1, <1>3, <2>2 DEF CheckedInv, Known
  <2> QED
    BY <2>1, <2>2
<1>10. ASSUME NEW e \in Drivers, e # d, driver[e].phase \in {"lookup", "append"}, SameRun(e, d)
       PROVE  FALSE
  BY <1>10 DEF IngestInv, SerialInv, Active, Phases, SameRun
<1>11. ASSUME NEW e \in Drivers PROVE FreshInv(e)'
  <2>1. CASE e # d
    BY <1>1, <1>2, <1>10, <2>1 DEF IngestInv, DriverInv, FreshInv, Fresh, SameRun
  <2>2. CASE e = d
    BY <1>1, <1>2, <2>2 DEF FreshInv, Fresh, SameRun
  <2> QED
    BY <2>1, <2>2
<1>12. ASSUME NEW e \in Drivers, NEW x PROVE Stored(e, x)' <=> Stored(e, x)
  BY <1>1, <1>2 DEF Stored, In
<1>13. ASSUME NEW e \in Drivers PROVE ValidatedInv(e)'
  <2>1. CASE e # d
    BY <1>1, <1>12, <2>1 DEF IngestInv, DriverInv, ValidatedInv
  <2>2. CASE e = d
    BY <1>1, <1>12, <2>2 DEF ValidatedInv
  <2> QED
    BY <2>1, <2>2
<1> QED
  BY <1>4, <1>5, <1>6, <1>7, <1>8, <1>9, <1>11, <1>13 DEF IngestInv, DriverInv

\* A driver is not disturbed by a step of another one that writes nothing, reports
\* no success and changes no run with rows.
LEMMA OtherDriver ==
  ASSUME TypeInv, IngestInv, NEW d \in Drivers, NEW e \in Drivers, e # d,
         UNCHANGED <<landing, created, bronze, overlap>>,
         \A f \in Drivers : f # d => driver'[f] = driver[f],
         driver'[d].phase # "done",
         \A copy \in bronze : driver'[copy[1]].run = driver[copy[1]].run
  PROVE  DriverInv(e)'
<1>1. driver'[e] = driver[e]
  OBVIOUS
<1>2. \A run, x : Copies(run, x)' = Copies(run, x)
  BY DEF Copies
<1>3. InputInv(e)' /\ ListedInv(e)'
  BY <1>1 DEF IngestInv, DriverInv, InputInv, ListedInv, Listed, SameRun
<1>4. CheckedInv(e)'
  BY <1>1, <1>2 DEF IngestInv, DriverInv, CheckedInv, Known
<1>5. FreshInv(e)'
  BY <1>1 DEF IngestInv, DriverInv, FreshInv, Fresh, SameRun
<1>6. \A x : Stored(e, x) => Stored(e, x)'
  BY <1>1 DEF Stored, In
<1>7. ValidatedInv(e)'
  BY <1>1, <1>6 DEF IngestInv, DriverInv, ValidatedInv
<1> QED
  BY <1>3, <1>4, <1>5, <1>7 DEF DriverInv

\* A local step that changes the phase and the cursor only.
LEMMA LocalMove ==
  ASSUME TypeInv, IngestInv, NEW d \in Drivers, NEW phase \in Phases, NEW at \in Nat,
         Move(d, phase, at), UNCHANGED <<landing, created, bronze, overlap>>,
         driver[d].phase \in Active, phase \notin {"idle", "read", "decide"},
         driver[d].phase = "read" => phase = "failed",
         phase \in {"check", "lookup", "append", "validate_output", "done"}
           => driver[d].input # {},
         phase = "check" => at = 1,
         phase \in {"lookup", "append"} => Fresh(d),
         phase = "validate_output" => \A x \in Datasets : x < at => Stored(d, x),
         phase = "done" => \A x \in Datasets : Stored(d, x)
  PROVE  IngestInv'
<1> DEFINE new == [driver[d] EXCEPT !.phase = phase, !.at = at]
<1>1. driver' = [driver EXCEPT ![d] = new]
  BY DEF Move, TypeInv
<1>2. /\ new \in Driver /\ new.phase = phase /\ new.at = at
      /\ new.run = driver[d].run /\ new.input = driver[d].input
  BY DEF TypeInv, Driver
<1>3. \A x \in Datasets : ~(x < 1)
  BY DEF Datasets
<1> HIDE DEF new
<1> QED
  BY <1>1, <1>2, <1>3, LocalStep

\* Counting a table of the run when every listed row of it is an input and the
\* run has one writer: as many rows as the dataset are its rows.
LEMMA CountIsStored ==
  ASSUME TypeInv, IngestInv, NEW d \in Drivers, driver[d].phase = "validate_output",
         NEW x \in Datasets, Cardinality(Copies(driver[d].run, x)) = InputCount(d, x)
  PROVE  Stored(d, x)
<1> DEFINE C == Copies(driver[d].run, x)
           I == In(driver[d].input, x)
<1>1. IsFiniteSet(I)
  BY RowsAssumption, FS_Subset DEF In, TypeInv, Driver
<1>2. Listed(d, x)
  BY DEF Listed, Active, Phases
<1>3. \A c \in C : c \in bronze /\ c = <<c[1], c[2]>> /\ SameRun(c[1], d)
                   /\ DatasetOf(c[2].step) = x
  BY DEF Copies, SameRun, TypeInv
<1>4. \A c \in C : c[2] \in I
  BY <1>2, <1>3 DEF IngestInv, DriverInv, ListedInv, In
<1>5. \A b, c \in C : b[2] = c[2] => b = c
  BY <1>3 DEF IngestInv, WriterInv, SameRun
<1>6. Cardinality(C) = Cardinality(I)
  BY DEF InputCount
<1>7. \A row \in I : \E c \in C : c[2] = row
  BY <1>1, <1>4, <1>5, <1>6, SameCount
<1> QED
  BY <1>3, <1>7 DEF Stored, SameRun

\* Every step keeps the invariant.
LEMMA IngestStep == ~overlap /\ TypeInv /\ IngestInv /\ [Next]_vars => IngestInv'
<1> SUFFICES ASSUME ~overlap, TypeInv, IngestInv, [Next]_vars PROVE IngestInv'
  OBVIOUS
<1>0. \A copy \in bronze : /\ copy[1] \in Drivers /\ copy[2] \in Rows
                           /\ DatasetOf(copy[2].step) \in Datasets
  BY RowsAssumption, DatasetsAreSteps DEF TypeInv, Row
<1>1. CASE Deliver
  <2>1. UNCHANGED <<created, bronze, driver, overlap>> /\ landing \subseteq landing'
    BY <1>1 DEF Deliver
  <2>2. (CommitInv /\ SerialInv /\ WriterInv)'
    BY <2>1 DEF IngestInv, CommitInv, SerialInv, WriterInv, SameRun
  <2>3. ASSUME NEW d \in Drivers PROVE DriverInv(d)'
    <3>1. DriverInv(d)
      BY DEF IngestInv
    <3> QED
      BY <2>1, <3>1 DEF DriverInv, InputInv, ListedInv, CheckedInv, FreshInv, ValidatedInv,
                        Listed, Known, Stored, Fresh, SameRun, Copies
  <2> QED
    BY <2>2, <2>3 DEF IngestInv
<1>2. ASSUME NEW d \in Drivers, ValidateInput(d) PROVE IngestInv'
  <2>1. InputIsValid(d) => driver[d].input # {}
    BY DEF InputIsValid, In, Datasets
  <2>2. driver[d].phase \in Active /\ driver[d].phase # "read"
    BY <1>2 DEF ValidateInput, Active, Phases
  <2>3. \A x \in Datasets : ~(x < 1)
    BY DEF Datasets
  <2> QED
    BY <1>2, <2>1, <2>2, <2>3, LocalMove DEF ValidateInput, Phases
<1>3. ASSUME NEW d \in Drivers, Die(d) \/ CreateFails(d) PROVE IngestInv'
  <2>1. driver[d].phase \in Active /\ Move(d, "failed", 1)
    BY <1>3 DEF Die, CreateFails, Active, Phases
  <2> QED
    BY <1>3, <2>1, LocalMove DEF Die, CreateFails, Phases
<1>4. ASSUME NEW d \in Drivers, ValidateOutput(d) PROVE IngestInv'
  <2>1. /\ driver[d].phase \in Active /\ driver[d].phase = "validate_output"
        /\ driver[d].at \in Datasets /\ driver[d].input # {}
    BY <1>4 DEF ValidateOutput, Active, Phases, TypeInv, AtOK, IngestInv, DriverInv, InputInv
  <2>2. CASE Move(d, "failed", 1)
    BY <1>4, <2>1, <2>2, LocalMove DEF ValidateOutput, Phases
  <2>3. CASE ~Move(d, "failed", 1)
    <3>1. Stored(d, driver[d].at)
      BY <1>4, <2>1, <2>3, CountIsStored DEF ValidateOutput
    <3>2. \A x \in Datasets : x < driver[d].at + 1 => Stored(d, x)
      BY <2>1, <3>1 DEF IngestInv, DriverInv, ValidatedInv, Datasets
    <3>3. CASE driver[d].at = 4
      <4>1. \A x \in Datasets : Stored(d, x)
        BY <3>2, <3>3 DEF Datasets
      <4> QED
        BY <1>4, <2>1, <2>3, <3>3, <4>1, LocalMove DEF ValidateOutput, Phases
    <3>4. CASE driver[d].at # 4
      <4>1. driver[d].at + 1 \in Nat
        BY <2>1 DEF Datasets
      <4> QED
        BY <1>4, <2>1, <2>3, <3>2, <3>4, <4>1, LocalMove DEF ValidateOutput, Phases
    <3> QED
      BY <3>3, <3>4
  <2> QED
    BY <2>2, <2>3
<1>5. ASSUME NEW d \in Drivers, Lookup(d) PROVE IngestInv'
  <2> DEFINE found == DatasetOf(driver[d].at) \in created
             new   == [driver[d] EXCEPT !.phase = "append", !.found = found]
  <2>1. driver' = [driver EXCEPT ![d] = new]
    BY <1>5 DEF Lookup, TypeInv
  <2>2. /\ driver[d].phase \in Active /\ driver[d].phase = "lookup" /\ driver[d] \in Driver
        /\ driver[d].input # {} /\ Fresh(d) /\ "append" \in Phases
    BY <1>5 DEF Lookup, Active, Phases, TypeInv, IngestInv, DriverInv, InputInv, FreshInv
  <2>3. found \in BOOLEAN
    OBVIOUS
  <2> HIDE DEF found
  <2>4. /\ new \in Driver /\ new.phase = "append"
        /\ new.run = driver[d].run /\ new.input = driver[d].input
    BY <2>2, <2>3 DEF Driver
  <2> HIDE DEF new
  <2> QED
    BY <1>5, <2>1, <2>2, <2>4, LocalStep DEF Lookup
<1>6. ASSUME NEW d \in Drivers, Check(d) PROVE IngestInv'
  <2> DEFINE count == IF driver[d].at \in created
                      THEN Cardinality(Copies(driver[d].run, driver[d].at)) ELSE 0
             phase == IF driver[d].at = 4 THEN "decide" ELSE "check"
             at    == IF driver[d].at = 4 THEN 1 ELSE driver[d].at + 1
             new   == [driver[d] EXCEPT !.existing = [@ EXCEPT ![driver[d].at] = count],
                                        !.phase = phase, !.at = at]
  <2>1. driver' = [driver EXCEPT ![d] = new]
    BY <1>6 DEF Check, TypeInv
  <2>2. /\ driver[d].phase \in Active /\ driver[d].phase = "check" /\ driver[d] \in Driver
        /\ driver[d].at \in Datasets /\ driver[d].input # {}
    BY <1>6 DEF Check, Active, Phases, TypeInv, AtOK, IngestInv, DriverInv, InputInv
  <2>3. count = Cardinality(Copies(driver[d].run, driver[d].at)) /\ count \in Nat
    <3>1. CASE driver[d].at \in created
      BY <3>1, CopiesFinite DEF TypeInv
    <3>2. CASE driver[d].at \notin created
      <4>1. Copies(driver[d].run, driver[d].at) = {}
        BY <3>2 DEF Copies, IngestInv, CommitInv
      <4> QED
        BY <3>2, <4>1, FS_EmptySet
    <3> QED
      BY <3>1, <3>2
  <2>4. IF driver[d].at = 4 THEN phase = "decide" ELSE phase = "check" /\ at = driver[d].at + 1
    OBVIOUS
  <2>5. phase \in Phases /\ at \in Nat /\ phase \in {"check", "decide"}
    BY <2>2 DEF Phases, Datasets
  <2> HIDE DEF count, phase, at
  <2>6. /\ new \in Driver /\ new.phase = phase /\ new.at = at
        /\ new.run = driver[d].run /\ new.input = driver[d].input
        /\ new.existing = [driver[d].existing EXCEPT ![driver[d].at] = count]
    BY <2>2, <2>3, <2>5 DEF Driver
  <2> HIDE DEF new
  <2>7. \A x \in Datasets : x < driver[d].at => Known(d, x)
    BY <2>2 DEF IngestInv, DriverInv, CheckedInv
  <2>8. \A x \in Datasets : x < driver[d].at \/ x = driver[d].at =>
          new.existing[x] = Cardinality(Copies(driver[d].run, x))
    BY <2>2, <2>3, <2>6, <2>7 DEF Known, Driver
  <2>9. phase = "check" => \A x \in Datasets :
          x < new.at => new.existing[x] = Cardinality(Copies(driver[d].run, x))
    BY <2>2, <2>4, <2>6, <2>8 DEF Datasets
  <2>10. phase = "decide" => \A x \in Datasets :
          new.existing[x] = Cardinality(Copies(driver[d].run, x))
    BY <2>2, <2>4, <2>8 DEF Datasets
  <2> QED
    BY <1>6, <2>1, <2>2, <2>5, <2>6, <2>9, <2>10, LocalStep DEF Check
<1>7. ASSUME NEW d \in Drivers, Decide(d) PROVE IngestInv'
  <2>1. /\ driver[d].phase \in Active /\ driver[d].phase = "decide" /\ driver[d] \in Driver
        /\ driver[d].input # {} /\ \A x \in Datasets : Known(d, x)
    BY <1>7 DEF Decide, Active, Phases, TypeInv, IngestInv, DriverInv, InputInv, CheckedInv
  <2>2. CASE Move(d, "failed", 1)
    BY <1>7, <2>1, <2>2, LocalMove DEF Decide, Phases
  <2>3. CASE Move(d, "validate_output", 1)
    <3>1. \A x \in Datasets : ~(x < 1)
      BY DEF Datasets
    <3> QED
      BY <1>7, <2>1, <2>3, <3>1, LocalMove DEF Decide, Phases
  <2>4. CASE Move(d, "lookup", 1) /\ \A x \in Datasets : driver[d].existing[x] = 0
    <3>1. \A x \in Datasets : Copies(driver[d].run, x) = {}
      BY <2>1, <2>4, CopiesFinite, FS_EmptySet DEF Known, TypeInv
    <3>2. \A copy \in bronze : ~SameRun(copy[1], d)
      BY <1>0, <3>1 DEF Copies, SameRun
    <3>3. ASSUME NEW e \in Drivers, SameRun(e, d), driver[e].phase = "done" PROVE FALSE
      <4>1. PICK row \in driver[e].input : TRUE
        BY <3>3 DEF IngestInv, DriverInv, InputInv
      <4>2. row \in Rows /\ DatasetOf(row.step) \in Datasets
        BY RowsAssumption, DatasetsAreSteps DEF TypeInv, Driver, Row
      <4>3. Stored(e, DatasetOf(row.step)) /\ row \in In(driver[e].input, DatasetOf(row.step))
        BY <3>3, <4>1, <4>2 DEF IngestInv, DriverInv, ValidatedInv, In
      <4> QED
        BY <3>2, <3>3, <4>3 DEF Stored, SameRun
    <3>4. Fresh(d)
      BY <3>2, <3>3 DEF Fresh
    <3> QED
      BY <1>7, <2>1, <2>4, <3>4, LocalMove DEF Decide, Phases
  <2> QED
    BY <1>7, <2>2, <2>3, <2>4 DEF Decide
<1>8. ASSUME NEW d \in Drivers, NEW run \in Runs, NEW v \in BOOLEAN, Start(d, run, v)
      PROVE  IngestInv'
  <2>1. /\ \A e \in Drivers : e # d => driver'[e] = driver[e]
        /\ driver'[d].phase = "read" /\ driver'[d].run = run
        /\ driver'[d].input = driver[d].input /\ driver'[d].at = driver[d].at
    BY <1>8 DEF Start, TypeInv, Driver
  <2>2. UNCHANGED <<landing, created, bronze, overlap>> /\ driver[d].phase = "idle" /\ driver[d].at = 1
    BY <1>8 DEF Start, TypeInv, AtOK
  <2>3. \A copy \in bronze : copy[1] \in Drivers /\ copy[1] # d
    BY <1>0, <2>2 DEF IngestInv, CommitInv
  <2>4. CommitInv'
    BY <2>1, <2>2, <2>3 DEF IngestInv, CommitInv
  <2>5. SerialInv'
    <3>1. ASSUME NEW e \in Drivers, e # d, driver[e].phase \in Active PROVE driver[e].run # run
      BY <1>8, <3>1 DEF Start
    <3> QED
      BY <2>1, <3>1 DEF IngestInv, SerialInv, SameRun
  <2>6. WriterInv'
    BY <2>1, <2>2, <2>3 DEF IngestInv, WriterInv, SameRun
  <2>8. ASSUME NEW e \in Drivers, e # d PROVE DriverInv(e)'
    BY <2>1, <2>2, <2>3, <2>8, OtherDriver
  <2>9. DriverInv(d)'
    <3>1. \A x \in Datasets : ~(x < 1)
      BY DEF Datasets
    <3>2. ListedInv(d)'
      BY <1>0, <2>1, <2>2, <3>1 DEF ListedInv, Listed
    <3> QED
      BY <2>1, <2>2, <3>2 DEF IngestInv, DriverInv, InputInv, CheckedInv, FreshInv, ValidatedInv
  <2> QED
    BY <2>4, <2>5, <2>6, <2>8, <2>9 DEF IngestInv
<1>9. ASSUME NEW d \in Drivers, Read(d) PROVE IngestInv'
  <2> DEFINE x == driver[d].at
  <2>1. /\ \A e \in Drivers : e # d => driver'[e] = driver[e]
        /\ \A e \in Drivers : driver'[e].run = driver[e].run
        /\ driver'[d].input = driver[d].input \cup In(landing, x)
        /\ driver'[d].phase = IF x = 4 THEN "validate_input" ELSE "read"
        /\ driver'[d].at = IF x = 4 THEN 1 ELSE x + 1
    BY <1>9 DEF Read, TypeInv, Driver
  <2>2. UNCHANGED <<landing, created, bronze, overlap>> /\ driver[d].phase = "read" /\ x \in Datasets
    BY <1>9 DEF Read, TypeInv, AtOK
  <2>3. CommitInv'
    BY <1>0, <2>1, <2>2 DEF IngestInv, CommitInv
  <2>4. SerialInv'
    BY <2>1, <2>2 DEF IngestInv, SerialInv, SameRun, Active, Phases
  <2>5. WriterInv'
    BY <1>0, <2>1, <2>2 DEF IngestInv, WriterInv, SameRun
  <2>7. ASSUME NEW e \in Drivers, e # d PROVE DriverInv(e)'
    <3>1. driver'[d].phase # "done"
      BY <2>1
    <3> QED
      BY <1>0, <2>1, <2>2, <2>7, <3>1, OtherDriver
  <2>8. ListedInv(d)'
    <3>1. ASSUME NEW copy \in bronze, SameRun(copy[1], d), Listed(d, DatasetOf(copy[2].step))'
          PROVE  copy[2] \in driver'[d].input
      <4>1. DatasetOf(copy[2].step) < x \/ DatasetOf(copy[2].step) = x
        BY <1>0, <2>1, <2>2, <3>1 DEF Listed, Datasets
      <4>2. CASE DatasetOf(copy[2].step) < x
        <5>1. Listed(d, DatasetOf(copy[2].step))
          BY <2>2, <4>2 DEF Listed, Active, Phases
        <5> QED
          BY <2>1, <3>1, <5>1 DEF IngestInv, DriverInv, ListedInv
      <4>3. CASE DatasetOf(copy[2].step) = x
        <5>1. copy[2] \in landing
          BY <1>0 DEF IngestInv, CommitInv, DriverInv, InputInv
        <5> QED
          BY <2>1, <4>3, <5>1 DEF In
      <4> QED
        BY <4>1, <4>2, <4>3
    <3> QED
      BY <1>0, <2>1, <2>2, <3>1 DEF ListedInv, SameRun
  <2>9. DriverInv(d)'
    <3>1. driver'[d].phase \in {"read", "validate_input"} /\ driver'[d].input \subseteq landing
      BY <2>1 DEF IngestInv, DriverInv, InputInv, In
    <3> QED
      BY <2>2, <2>8, <3>1 DEF DriverInv, InputInv, CheckedInv, FreshInv, ValidatedInv
  <2> QED
    BY <2>3, <2>4, <2>5, <2>7, <2>9 DEF IngestInv
<1>10. ASSUME NEW d \in Drivers, Append(d) PROVE IngestInv'
  <2>1. /\ \A e \in Drivers : e # d => driver'[e] = driver[e]
        /\ \A e \in Drivers : driver'[e].run = driver[e].run /\ driver'[e].input = driver[e].input
        /\ driver'[d].phase \in {"validate_output", "lookup"}
        /\ driver'[d].phase = "validate_output" => driver'[d].at = 1
    <3>1. CASE Move(d, "validate_output", 1)
      BY <3>1 DEF Move, TypeInv, Driver
    <3>2. CASE Move(d, "lookup", driver[d].at + 1)
      BY <3>2 DEF Move, TypeInv, Driver
    <3> QED
      BY <1>10, <3>1, <3>2 DEF Append
  <2>2. /\ landing' = landing /\ bronze' = bronze \cup {<<d, row>> : row \in Batch(d)}
        /\ created' = created \cup {DatasetOf(driver[d].at)}
    BY <1>10 DEF Append
  <2>3. driver[d].phase = "append" /\ driver[d].phase \in Active /\ Fresh(d) /\ driver[d].input # {}
    BY <1>10 DEF Append, Active, Phases, IngestInv, DriverInv, FreshInv, InputInv
  <2>4. \A copy \in bronze' \ bronze :
          copy[1] = d /\ copy[2] \in driver[d].input /\ copy[2].step = driver[d].at
    BY <2>2 DEF Batch
  <2>5. \A copy \in bronze' : (copy \in bronze /\ copy[1] \in Drivers) \/ copy \in bronze' \ bronze
    BY <1>0
  <2>6. CommitInv'
    BY <2>1, <2>2, <2>4, <2>5 DEF IngestInv, CommitInv
  <2>7. driver'[d].phase \in Active
    BY <2>1 DEF Active, Phases
  <2>8. SerialInv'
    BY <2>1, <2>3, <2>7 DEF IngestInv, SerialInv, SameRun
  <2>9. WriterInv'
    BY <2>1, <2>3, <2>4, <2>5 DEF IngestInv, WriterInv, Fresh, SameRun
  <2>10. ASSUME NEW e \in Drivers, e # d, driver[e].phase \in Active \cup {"done"} PROVE ~SameRun(d, e)
    BY <2>3, <2>10 DEF IngestInv, SerialInv, Fresh, SameRun
  <2>11. ASSUME NEW e \in Drivers PROVE InputInv(e)'
    BY <2>1, <2>2, <2>3 DEF IngestInv, DriverInv, InputInv
  <2>12. ASSUME NEW e \in Drivers PROVE ListedInv(e)'
    <3>1. CASE e = d
      BY <1>0, <2>1, <2>3, <2>4, <2>5, <3>1 DEF IngestInv, DriverInv, ListedInv, Listed, Fresh,
         SameRun, CommitInv
    <3>2. CASE e # d
      <4>1. \A x : Listed(e, x)' => Listed(e, x) /\ driver[e].phase \in Active \cup {"done"}
        BY <2>1, <3>2 DEF Listed
      <4> QED
        BY <2>1, <2>4, <2>5, <2>10, <3>2, <4>1 DEF IngestInv, DriverInv, ListedInv, SameRun
    <3> QED
      BY <3>1, <3>2
  <2>13. ASSUME NEW e \in Drivers PROVE CheckedInv(e)'
    <3>1. CASE e = d
      BY <2>1, <3>1 DEF CheckedInv
    <3>2. CASE e # d /\ driver[e].phase \in {"check", "decide"}
      <4>1. ~SameRun(d, e)
        BY <2>10, <3>2 DEF Active, Phases
      <4>2. \A x : Copies(driver[e].run, x)' = Copies(driver[e].run, x)
        BY <2>1, <2>2, <2>4, <2>5, <4>1, <3>2 DEF Copies, SameRun
      <4> QED
        BY <2>1, <3>2, <4>2 DEF IngestInv, DriverInv, CheckedInv, Known
    <3>3. CASE e # d /\ driver[e].phase \notin {"check", "decide"}
      BY <2>1, <3>3 DEF CheckedInv
    <3> QED
      BY <3>1, <3>2, <3>3
  <2>14. ASSUME NEW e \in Drivers PROVE FreshInv(e)'
    <3>1. CASE e = d
      BY <2>1, <2>3, <2>4, <2>5, <3>1 DEF FreshInv, Fresh, SameRun
    <3>2. CASE e # d /\ driver[e].phase \in {"lookup", "append"}
      <4>1. ~SameRun(d, e)
        BY <2>10, <3>2 DEF Active, Phases
      <4> QED
        BY <2>1, <2>4, <2>5, <3>2, <4>1 DEF IngestInv, DriverInv, FreshInv, Fresh, SameRun
    <3>3. CASE e # d /\ driver[e].phase \notin {"lookup", "append"}
      BY <2>1, <3>3 DEF FreshInv
    <3> QED
      BY <3>1, <3>2, <3>3
  <2>15. ASSUME NEW e \in Drivers PROVE ValidatedInv(e)'
    <3>1. CASE e = d
      <4>1. \A x \in Datasets : ~(x < 1)
        BY DEF Datasets
      <4> QED
        BY <2>1, <3>1, <4>1 DEF ValidatedInv
    <3>2. CASE e # d
      <4>1. ASSUME NEW x, Stored(e, x) PROVE Stored(e, x)'
        BY <1>0, <2>1, <2>2, <4>1 DEF Stored, In
      <4> QED
        BY <2>1, <3>2, <4>1 DEF IngestInv, DriverInv, ValidatedInv
    <3> QED
      BY <3>1, <3>2
  <2> QED
    BY <2>6, <2>8, <2>9, <2>11, <2>12, <2>13, <2>14, <2>15 DEF IngestInv, DriverInv
<1>11. CASE UNCHANGED vars
  BY <1>11 DEF vars, IngestInv, CommitInv, SerialInv, WriterInv, DriverInv, InputInv, ListedInv,
     CheckedInv, FreshInv, ValidatedInv, Listed, Known, Stored, Fresh, SameRun, Copies
<1> QED
  BY <1>1, <1>2, <1>3, <1>4, <1>5, <1>6, <1>7, <1>8, <1>9, <1>10, <1>11 DEF Next

\* The invariant holds of every behaviour in which drivers of a run do not overlap.
SerialIngest == ~overlap => IngestInv

LEMMA Ingest == Spec => []SerialIngest
<1>1. Init => SerialIngest
  BY DEF Init, SerialIngest, IngestInv, CommitInv, SerialInv, WriterInv, DriverInv, InputInv,
     ListedInv, CheckedInv, FreshInv, ValidatedInv, Listed, SameRun, Active
<1>2. TypeInv /\ SerialIngest /\ [Next]_vars => SerialIngest'
  <2>1. [Next]_vars => overlap' = overlap
    BY DEF Next, vars, Deliver, Start, Read, ValidateInput, Check, Decide, Lookup, Append,
       CreateFails, ValidateOutput, Die
  <2> QED
    BY <2>1, IngestStep DEF SerialIngest
<1> QED
  BY <1>1, <1>2, Types, PTL DEF Spec

\* No retry, rerun or failure makes a second driver append to a run.
THEOREM OneWriter == Spec => []OneWriterPerRun
<1>1. SerialIngest => OneWriterPerRun
  BY DEF SerialIngest, IngestInv, WriterInv, OneWriterPerRun, SameRun
<1> QED
  BY <1>1, Ingest, PTL

\* Success means that the run's rows in Bronze are those the driver listed.
THEOREM ExactSuccess == Spec => []SuccessIsExact
<1>1. ASSUME TypeInv, IngestInv, NEW d \in Drivers, driver[d].phase = "done"
      PROVE  Output(driver[d].run) = driver[d].input
  <2>1. \A x : Listed(d, x)
    BY <1>1 DEF Listed
  <2>2. Output(driver[d].run) \subseteq driver[d].input
    BY <1>1, <2>1 DEF IngestInv, DriverInv, ListedInv, Output, SameRun
  <2>3. ASSUME NEW row \in driver[d].input PROVE row \in Output(driver[d].run)
    <3>1. DatasetOf(row.step) \in Datasets
      BY <1>1, RowsAssumption, DatasetsAreSteps DEF TypeInv, Driver, Row
    <3>2. Stored(d, DatasetOf(row.step)) /\ row \in In(driver[d].input, DatasetOf(row.step))
      BY <1>1, <3>1 DEF IngestInv, DriverInv, ValidatedInv, In
    <3> QED
      BY <3>2 DEF Stored, Output
  <2> QED
    BY <2>2, <2>3
<1>2. TypeInv /\ SerialIngest => SuccessIsExact
  BY <1>1 DEF SuccessIsExact, SerialIngest
<1> QED
  BY <1>2, Types, Ingest, PTL

-----------------------------------------------------------------------------
(* With overlap: the users table, the first to be written and to be          *)
(* counted, decides.  A driver that appends has written all its users before *)
(* it counts them: one that counts after another has finds more than its     *)
(* own.                                                                      *)

\* Past the count of the users.
Counted(d) ==
  driver[d].phase = "done" \/ (driver[d].phase = "validate_output" /\ driver[d].at # 1)

UsersAreIn(d) == \A row \in In(driver[d].input, 1) : <<d, row>> \in bronze

UsersInv(d) ==
  /\ driver[d].phase \in {"check", "decide", "lookup", "append", "validate_output", "done"} =>
       In(driver[d].input, 1) # {}
  /\ driver[d].phase \in {"idle", "read", "validate_input", "check", "decide"} => ~Appended(d)
  /\ driver[d].phase \in {"lookup", "append"} => driver[d].at = 1 \/ UsersAreIn(d)
  /\ driver[d].phase \in {"validate_output", "done"} => (Appended(d) => UsersAreIn(d))

AppenderInv ==
  /\ \A d \in Drivers : UsersInv(d)
  /\ \A d, e \in Drivers :
       Counted(d) /\ Counted(e) /\ SameRun(d, e) /\ Appended(d) /\ Appended(e) => d = e

\* A driver that finds as many users as it has finds no one else's.
LEMMA OnlyMine ==
  ASSUME TypeInv, NEW d \in Drivers, UsersAreIn(d),
         Cardinality(Copies(driver[d].run, 1)) = InputCount(d, 1)
  PROVE  \A copy \in Copies(driver[d].run, 1) : copy[1] = d
<1> DEFINE I == In(driver[d].input, 1)
           C == Copies(driver[d].run, 1)
           f == [row \in I |-> <<d, row>>]
<1>1. IsFiniteSet(C)
  BY CopiesFinite DEF TypeInv
<1>2. ASSUME NEW row \in I PROVE <<d, row>> \in C
  BY DEF UsersAreIn, Copies, In
<1>3. f \in Injection(I, C)
  BY <1>2 DEF Injection, IsInjective
<1>4. f \in Surjection(I, C)
  BY <1>1, <1>3, FS_Injection DEF InputCount
<1>5. ASSUME NEW copy \in C PROVE copy[1] = d
  <2>1. \A c \in C : \E row \in I : f[row] = c
    BY <1>4, Zenon DEF Surjection
  <2>2. PICK row \in I : f[row] = copy
    BY <2>1, <1>5
  <2>3. copy = <<d, row>>
    BY <2>2
  <2> QED BY <2>3
<1> QED BY <1>5

\* A driver is not disturbed by a step of another one that writes nothing.
LEMMA AppenderFrame ==
  ASSUME TypeInv, AppenderInv, NEW d \in Drivers, bronze' = bronze,
         \A e \in Drivers : e # d => driver'[e] = driver[e],
         UsersInv(d)',
         Counted(d)' => /\ driver'[d].run = driver[d].run
                        /\ \/ Counted(d)
                           \/ \A copy \in Copies(driver[d].run, 1) : copy[1] = d
  PROVE  AppenderInv'
<1>1. \A e \in Drivers : Appended(e)' <=> Appended(e)
  BY DEF Appended
<1>2. ASSUME NEW e \in Drivers, e # d
      PROVE  UsersInv(e)' /\ (Counted(e)' <=> Counted(e))
  BY <1>1, <1>2 DEF AppenderInv, UsersInv, UsersAreIn, Counted
<1>3. ASSUME NEW e \in Drivers, e # d, Counted(d)', Counted(e), SameRun(d, e)',
             Appended(d), Appended(e)
      PROVE  FALSE
  <2>1. SameRun(d, e) /\ driver[d].run = driver[e].run
    BY <1>3 DEF SameRun
  <2>2. CASE Counted(d)
    BY <1>3, <2>1, <2>2 DEF AppenderInv
  <2>3. CASE \A copy \in Copies(driver[d].run, 1) : copy[1] = d
    <3>1. PICK row \in In(driver[e].input, 1) : <<e, row>> \in bronze
      BY <1>3 DEF AppenderInv, UsersInv, UsersAreIn, Counted
    <3>2. <<e, row>> \in Copies(driver[d].run, 1)
      BY <2>1, <3>1 DEF Copies, In
    <3> QED BY <1>3, <2>3, <3>2
  <2> QED BY <1>3, <2>2, <2>3
<1> QED
  BY <1>1, <1>2, <1>3 DEF AppenderInv, SameRun

\* A move of one driver that counts no users.
LEMMA AppenderMove ==
  ASSUME TypeInv, AppenderInv, NEW d \in Drivers, NEW phase, NEW at, Move(d, phase, at),
         bronze' = bronze,
         phase \in {"check", "decide", "lookup", "append", "validate_output", "done"} =>
           In(driver[d].input, 1) # {},
         phase \in {"idle", "read", "validate_input", "check", "decide"} => ~Appended(d),
         phase \in {"lookup", "append"} => at = 1 \/ UsersAreIn(d),
         phase \in {"validate_output", "done"} => (Appended(d) => UsersAreIn(d)),
         phase = "done" \/ (phase = "validate_output" /\ at # 1) =>
           Counted(d) \/ \A copy \in Copies(driver[d].run, 1) : copy[1] = d
  PROVE  AppenderInv'
<1>1. /\ \A e \in Drivers : e # d => driver'[e] = driver[e]
      /\ driver'[d].phase = phase /\ driver'[d].at = at
      /\ driver'[d].run = driver[d].run /\ driver'[d].input = driver[d].input
  BY DEF Move, TypeInv, Driver
<1>2. Appended(d)' <=> Appended(d)
  BY DEF Appended
<1>3. UsersInv(d)'
  BY <1>1, <1>2 DEF UsersInv, UsersAreIn
<1> QED
  BY <1>1, <1>3, AppenderFrame DEF Counted

\* Every step keeps the invariant, with overlap or without.
LEMMA AppenderStep == TypeInv /\ AppenderInv /\ [Next]_vars => AppenderInv'
<1> SUFFICES ASSUME TypeInv, AppenderInv, [Next]_vars PROVE AppenderInv'
  OBVIOUS
<1>1. CASE Deliver \/ UNCHANGED vars
  BY <1>1 DEF Deliver, vars, AppenderInv, UsersInv, UsersAreIn, Counted, Appended, SameRun
<1>2. ASSUME NEW d \in Drivers, NEW run \in Runs, NEW v \in BOOLEAN, Start(d, run, v)
      PROVE  AppenderInv'
  <2>1. /\ \A e \in Drivers : e # d => driver'[e] = driver[e]
        /\ driver'[d].phase = "read" /\ driver[d].phase = "idle" /\ bronze' = bronze
    BY <1>2 DEF Start, TypeInv, Driver
  <2>2. UsersInv(d)' /\ ~Counted(d)'
    BY <2>1 DEF AppenderInv, UsersInv, Appended, Counted
  <2> QED BY <2>1, <2>2, AppenderFrame
<1>3. ASSUME NEW d \in Drivers, Read(d) PROVE AppenderInv'
  <2>1. /\ \A e \in Drivers : e # d => driver'[e] = driver[e]
        /\ driver'[d].phase \in {"read", "validate_input"} /\ driver[d].phase = "read"
        /\ bronze' = bronze
    BY <1>3 DEF Read, TypeInv, Driver
  <2>2. UsersInv(d)' /\ ~Counted(d)'
    BY <2>1 DEF AppenderInv, UsersInv, Appended, Counted
  <2> QED BY <2>1, <2>2, AppenderFrame
<1>4. ASSUME NEW d \in Drivers, ValidateInput(d) PROVE AppenderInv'
  <2>1. /\ driver[d].phase = "validate_input" /\ ~Appended(d) /\ bronze' = bronze
        /\ InputIsValid(d) => In(driver[d].input, 1) # {}
    BY <1>4 DEF ValidateInput, AppenderInv, UsersInv, InputIsValid, Datasets
  <2>2. CASE Move(d, "failed", 1)
    BY <2>1, <2>2, AppenderMove
  <2>3. CASE InputIsValid(d) /\ Move(d, "validate_output", 1)
    BY <2>1, <2>3, AppenderMove
  <2>4. CASE InputIsValid(d) /\ Move(d, "check", 1)
    BY <2>1, <2>4, AppenderMove
  <2> QED BY <1>4, <2>2, <2>3, <2>4 DEF ValidateInput
<1>5. ASSUME NEW d \in Drivers, Check(d) PROVE AppenderInv'
  <2>1. /\ \A e \in Drivers : e # d => driver'[e] = driver[e]
        /\ driver'[d].phase \in {"check", "decide"} /\ driver[d].phase = "check"
        /\ driver'[d].input = driver[d].input /\ bronze' = bronze
    BY <1>5 DEF Check, TypeInv, Driver
  <2>2. UsersInv(d)' /\ ~Counted(d)'
    BY <2>1 DEF AppenderInv, UsersInv, Appended, Counted
  <2> QED BY <2>1, <2>2, AppenderFrame
<1>6. ASSUME NEW d \in Drivers, Decide(d) PROVE AppenderInv'
  <2>1. /\ driver[d].phase = "decide" /\ ~Appended(d) /\ bronze' = bronze
        /\ In(driver[d].input, 1) # {}
    BY <1>6 DEF Decide, AppenderInv, UsersInv
  <2>2. CASE Move(d, "failed", 1)
    BY <2>1, <2>2, AppenderMove
  <2>3. CASE Move(d, "validate_output", 1)
    BY <2>1, <2>3, AppenderMove
  <2>4. CASE Move(d, "lookup", 1)
    BY <2>1, <2>4, AppenderMove
  <2> QED BY <1>6, <2>2, <2>3, <2>4 DEF Decide
<1>7. ASSUME NEW d \in Drivers, Lookup(d) PROVE AppenderInv'
  <2>1. /\ \A e \in Drivers : e # d => driver'[e] = driver[e]
        /\ driver'[d].phase = "append" /\ driver[d].phase = "lookup" /\ bronze' = bronze
        /\ driver'[d].input = driver[d].input /\ driver'[d].at = driver[d].at
    BY <1>7 DEF Lookup, TypeInv, Driver
  <2>2. UsersInv(d)' /\ ~Counted(d)'
    BY <2>1 DEF AppenderInv, UsersInv, UsersAreIn, Appended, Counted
  <2> QED BY <2>1, <2>2, AppenderFrame
<1>8. ASSUME NEW d \in Drivers, Append(d) PROVE AppenderInv'
  <2>1. /\ \A e \in Drivers : e # d => driver'[e] = driver[e]
        /\ driver'[d].run = driver[d].run /\ driver'[d].input = driver[d].input
        /\ \/ driver'[d].phase = "validate_output" /\ driver'[d].at = 1
           \/ driver'[d].phase = "lookup"
    <3>1. CASE Move(d, "validate_output", 1)
      BY <3>1 DEF Move, TypeInv, Driver
    <3>2. CASE Move(d, "lookup", driver[d].at + 1)
      BY <3>2 DEF Move, TypeInv, Driver
    <3> QED BY <1>8, <3>1, <3>2 DEF Append
  <2>2. /\ driver[d].phase = "append" /\ In(driver[d].input, 1) # {}
        /\ driver[d].at = 1 \/ UsersAreIn(d)
        /\ bronze' = bronze \cup {<<d, row>> : row \in Batch(d)}
    BY <1>8 DEF Append, AppenderInv, UsersInv
  <2>3. UsersAreIn(d)'
    <3>1. CASE driver[d].at = 1
      <4>1. ASSUME NEW row \in In(driver[d].input, 1) PROVE row \in Batch(d)
        <5>1. row \in Row /\ DatasetOf(row.step) = 1
          BY RowsAssumption DEF In, TypeInv, Driver
        <5>2. row.step = 1
          BY <5>1, BatchesAssumption DEF Row, Steps, DatasetOf
        <5> QED BY <3>1, <5>2 DEF Batch, In
      <4> QED BY <2>1, <2>2, <4>1 DEF UsersAreIn
    <3>2. CASE UsersAreIn(d)
      BY <2>1, <2>2, <3>2 DEF UsersAreIn
    <3> QED BY <2>2, <3>1, <3>2
  <2>4. UsersInv(d)' /\ ~Counted(d)'
    BY <2>1, <2>2, <2>3 DEF UsersInv, Counted
  <2>5. ASSUME NEW e \in Drivers, e # d
        PROVE  /\ UsersInv(e)' /\ (Counted(e)' <=> Counted(e))
               /\ Appended(e)' <=> Appended(e)
    <3>1. Appended(e)' <=> Appended(e)
      BY <2>2, <2>5 DEF Appended
    <3>2. UsersAreIn(e) => UsersAreIn(e)'
      BY <2>1, <2>2, <2>5 DEF UsersAreIn
    <3> QED BY <2>1, <2>5, <3>1, <3>2 DEF AppenderInv, UsersInv, Counted
  <2> QED BY <2>1, <2>4, <2>5 DEF AppenderInv, SameRun
<1>9. ASSUME NEW d \in Drivers, CreateFails(d) \/ Die(d) PROVE AppenderInv'
  BY <1>9, AppenderMove DEF CreateFails, Die
<1>10. ASSUME NEW d \in Drivers, ValidateOutput(d) PROVE AppenderInv'
  <2>1. /\ driver[d].phase = "validate_output" /\ bronze' = bronze
        /\ In(driver[d].input, 1) # {} /\ (Appended(d) => UsersAreIn(d))
    BY <1>10 DEF ValidateOutput, AppenderInv, UsersInv
  <2>2. CASE Move(d, "failed", 1)
    BY <2>1, <2>2, AppenderMove
  <2>3. CASE ~Move(d, "failed", 1)
    <3>1. PICK phase \in {"validate_output", "done"}, at \in Int : Move(d, phase, at)
      <4>1. driver[d].at + 1 \in Int
        BY <2>1 DEF TypeInv, AtOK, Datasets
      <4> QED BY <1>10, <2>3, <4>1 DEF ValidateOutput
    <3>2. Cardinality(Copies(driver[d].run, driver[d].at)) = InputCount(d, driver[d].at)
      BY <1>10, <2>3 DEF ValidateOutput
    <3>3. CASE Appended(d)
      <4>1. Counted(d) \/ \A copy \in Copies(driver[d].run, 1) : copy[1] = d
        BY <2>1, <3>2, <3>3, OnlyMine DEF Counted
      <4> QED BY <2>1, <3>1, <4>1, AppenderMove
    <3>4. CASE ~Appended(d)
      <4>1. /\ \A e \in Drivers : e # d => driver'[e] = driver[e]
            /\ driver'[d].run = driver[d].run /\ driver'[d].input = driver[d].input
            /\ driver'[d].phase = phase
        BY <3>1 DEF Move, TypeInv, Driver
      <4>2. \A e \in Drivers : Appended(e)' <=> Appended(e)
        BY <2>1 DEF Appended
      <4> QED BY <2>1, <3>1, <3>4, <4>1, <4>2 DEF AppenderInv, UsersInv, UsersAreIn, Counted, SameRun
    <3> QED BY <3>3, <3>4
  <2> QED BY <2>2, <2>3
<1> QED
  BY <1>1, <1>2, <1>3, <1>4, <1>5, <1>6, <1>7, <1>8, <1>9, <1>10 DEF Next

\* However drivers of a run overlap, of those that appended one may succeed.
THEOREM OneAppender == Spec => []OneAppenderSucceeds
<1>1. Init => AppenderInv
  BY DEF Init, AppenderInv, UsersInv, Counted, Appended
<1>2. AppenderInv => OneAppenderSucceeds
  BY DEF AppenderInv, Counted, SameRun, OneAppenderSucceeds
<1> QED
  BY <1>1, <1>2, Types, AppenderStep, PTL DEF Spec
=============================================================================
