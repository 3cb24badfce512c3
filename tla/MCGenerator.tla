---------------------------- MODULE MCGenerator ----------------------------
(***************************************************************************)
(* A bootstrap, a delivery given twice at a time, another one of its day   *)
(* and schema version, and what is not configured; three schedules of the  *)
(* stream, two whose bursts and cycles end between events and one with     *)
(* several events to a millisecond.                                        *)
(***************************************************************************)
EXTENDS Generator

Requests ==
  [bootstrap |-> [mode |-> "bootstrap", delivery |-> None],
   first     |-> [mode |-> "recurring_batch", delivery |-> "update"],
   second    |-> [mode |-> "recurring_batch", delivery |-> "update"],
   sameDay   |-> [mode |-> "recurring_batch", delivery |-> "correction"],
   unknown   |-> [mode |-> "recurring_batch", delivery |-> "unheard"],
   none      |-> [mode |-> "recurring_batch", delivery |-> None]]

TwoOfADay ==
  [initial    |-> [date |-> 1, at |-> 1, schema |-> 1],
   repeated   |-> [date |-> 1, at |-> 2, schema |-> 1],
   update     |-> [date |-> 2, at |-> 3, schema |-> 2],
   correction |-> [date |-> 2, at |-> 4, schema |-> 2]]

\* One user changes, and no content does.
LastUser(dataset, entity, schema) == dataset = "users" /\ entity = 2

NotWithSameDay == {{"sameDay", "first"}, {"sameDay", "second"}}

NamesOf == UNION {{Generated[c][i].name : i \in DOMAIN Generated[c]} : c \in Commands}
BytesOf == UNION {{Generated[c][i].bytes : i \in DOMAIN Generated[c]} : c \in Commands}

\* The smallest values for session 0, the largest for session 1, then mixed.
Extremes(index, bound, salt) ==
  LET large == CASE salt = 23 -> {1, 2} [] salt = 29 -> {1, 3} [] salt = 31 -> {1, 4}
                 [] OTHER -> {1, 3, 5}
  IN  IF index \in large THEN bound - 1 ELSE 0

ThreeSchedules ==
  {[rate |-> 1, cycle |-> 3, num |-> 1, den |-> 2, multiplier |-> 2, acceleration |-> 5],
   [rate |-> 1, cycle |-> 2, num |-> 1, den |-> 4, multiplier |-> 3, acceleration |-> 5],
   [rate |-> 1000, cycle |-> 1, num |-> 1, den |-> 1000, multiplier |-> 4, acceleration |-> 1]}

\* Conflicting commands are apart, and the delays are those OnlyMarkedIsLate is about.
ASSUME ConflictsApart /\ Stream!DelayCoversSwaps

\* Two deliveries of a day with one schema version claim the same names.  They
\* disagree only if that version changes an entity, which the first never does.
ASSUME
  LET FilesOf(delivery) == RecurringFiles(UserCount, ContentCount, Deliveries[delivery])
  IN  FilesOf("initial") = FilesOf("repeated") /\ FilesOf("update") # FilesOf("correction")
=============================================================================
