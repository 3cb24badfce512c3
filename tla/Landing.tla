------------------------------ MODULE Landing ------------------------------
(***************************************************************************)
(* Batch commands writing their objects into the landing bucket: for each, *)
(* a stat, and then a put unless the object is there, and then its share   *)
(* of the command's report.  A command may die and be given again; others  *)
(* may run beside it.                                                      *)
(***************************************************************************)
EXTENDS Integers, Sequences, FiniteSets

CONSTANTS
  Names, Bytes,  \* object names and contents
  Absent,        \* the content of no object
  Commands,      \* bootstrap or recurring_batch with a configuration
  Objects,       \* of each command, in order: name, bytes, rows and different keys
  Apart          \* sets of two commands that do not run at the same time

Object == [name : Names, bytes : Bytes, rows : Nat, keys : Nat]

ASSUME LandingAssumption ==
  /\ Objects \in [Commands -> Seq(Object)]
  /\ \A c \in Commands : Objects[c] # <<>>
  /\ \A c \in Commands : \A i, j \in DOMAIN Objects[c] :
       Objects[c][i].name = Objects[c][j].name => i = j
  /\ Apart \subseteq SUBSET Commands
  /\ Absent \notin Bytes

VARIABLES
  store,     \* bytes by name, known by their checksum
  pc,        \* of each command
  at,        \* its next object
  report     \* what its summary collector has counted

vars == <<store, pc, at, report>>

NoReport == [rows |-> 0, files |-> 0, uploaded |-> 0, duplicates |-> 0]

Init ==
  /\ store = [n \in Names |-> Absent]
  /\ pc = [c \in Commands |-> "new"]
  /\ at = [c \in Commands |-> 1]
  /\ report = [c \in Commands |-> NoReport]

Current(c) == Objects[c][at[c]]
Stored(c)  == store[Current(c).name]
Goto(c, label) == pc' = [pc EXCEPT ![c] = label]

\* A command given for the first time, or again after it failed.
Start(c) ==
  /\ pc[c] \in {"new", "failed"}
  /\ \A d \in Commands : {c, d} \in Apart => pc[d] \notin {"stat", "put"}
  /\ Goto(c, "stat")
  /\ at' = [at EXCEPT ![c] = 1]
  /\ report' = [report EXCEPT ![c] = NoReport]
  /\ UNCHANGED store

\* BatchSummaryCollector.observe; uploaded is 1 or 0.
Observed(r, object, uploaded) ==
  [rows       |-> r.rows + object.rows,
   files      |-> r.files + 1,
   uploaded   |-> r.uploaded + uploaded,
   duplicates |-> r.duplicates + object.rows - object.keys]

\* The loop of _write_objects.
NextObject(c, uploaded) ==
  /\ at' = [at EXCEPT ![c] = @ + 1]
  /\ report' = [report EXCEPT ![c] = Observed(report[c], Current(c), uploaded)]
  /\ Goto(c, IF at[c] = Len(Objects[c]) THEN "done" ELSE "stat")

-----------------------------------------------------------------------------
(* MinioObjectWriter.write *)

StatAbsent(c) ==
  /\ pc[c] = "stat" /\ Stored(c) = Absent
  /\ Goto(c, "put") /\ UNCHANGED <<store, at, report>>

\* Mutant: an object of the same name is taken for the same object.
SameName(c) == Stored(c) # Absent

\* sha256 of the metadata.
SameBytes(c) == Stored(c) = Current(c).bytes

StatSame(c) ==
  /\ pc[c] = "stat" /\ SameBytes(c)
  /\ NextObject(c, 0) /\ UNCHANGED store

\* Mutant: the writer replaces what the configuration changed.
RefuseNothing(c) ==
  /\ pc[c] = "stat" /\ Stored(c) # Absent /\ ~SameBytes(c)
  /\ Goto(c, "put") /\ UNCHANGED <<store, at, report>>

\* RuntimeError: Refusing to overwrite object with different bytes.
Refuse(c) ==
  /\ pc[c] = "stat" /\ Stored(c) # Absent /\ ~SameBytes(c)
  /\ Goto(c, "failed") /\ UNCHANGED <<store, at, report>>

\* An object appears as a whole; a put replaces.
Put(c) ==
  /\ pc[c] = "put"
  /\ store' = [store EXCEPT ![Current(c).name] = Current(c).bytes]
  /\ NextObject(c, 1)

\* Any other error, or a kill: a put on its way may arrive all the same.
Dies(c) ==
  /\ pc[c] \in {"stat", "put"}
  /\ Goto(c, "failed")
  /\ \/ UNCHANGED store
     \/ pc[c] = "put" /\ store' = [store EXCEPT ![Current(c).name] = Current(c).bytes]
  /\ UNCHANGED <<at, report>>

Step(c) == Start(c) \/ StatAbsent(c) \/ StatSame(c) \/ Refuse(c) \/ Put(c) \/ Dies(c)

Next == \E c \in Commands : Step(c)

Spec == Init /\ [][Next]_vars

-----------------------------------------------------------------------------
(* Properties *)

\* What the operator has to see to: commands that disagree on an object are apart.
ConflictsApart ==
  \A c, d \in Commands :
    \/ {c, d} \in Apart
    \/ \A i \in DOMAIN Objects[c], j \in DOMAIN Objects[d] :
         Objects[c][i].name = Objects[d][j].name => Objects[c][i].bytes = Objects[d][j].bytes

TypeOK ==
  /\ store \in [Names -> Bytes \cup {Absent}]
  /\ report \in [Commands -> [rows : Nat, files : Nat, uploaded : Nat, duplicates : Int]]
  /\ pc \in [Commands -> {"new", "stat", "put", "done", "failed"}]
  /\ \A c \in Commands : at[c] \in 1 .. Len(Objects[c]) + 1 /\ (pc[c] = "done" <=> at[c] > Len(Objects[c]))

\* A command that ended well has its bytes in the bucket, whether it put them or
\* found them, and whatever was given after it: two commands that disagree on an
\* object are never both done.
DoneIsStored ==
  \A c \in Commands : pc[c] = "done" =>
    \A i \in DOMAIN Objects[c] : store[Objects[c][i].name] = Objects[c][i].bytes

\* What is in the bucket never changes: "Store immutable objects and reject conflicting reruns."
ObjectsAreImmutable ==
  [][\A n \in Names : store[n] # Absent => store'[n] = store[n]]_vars
=============================================================================
