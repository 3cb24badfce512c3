------------------------------ MODULE TopicLog ------------------------------
(***************************************************************************)
(* What stream executions promise of a Kafka topic, in terms of what can   *)
(* be seen of them: how each of them ended and what the partitions hold.   *)
(***************************************************************************)
EXTENDS Integers, Sequences, FiniteSets

CONSTANTS
  Executions,    \* processes, each with an execution id of its own
  Partitions,
  PartitionOf    \* partition of each message, in the order of events(): by session id

VARIABLES
  phase,      \* of each execution
  log         \* the partitions: <<execution, message>>

\* Where a partition has a message of an execution.
Positions(p, e, i) == {k \in DOMAIN log[p] : log[p][k] = <<e, i>>}

\* "Kafka delivery is complete only after all producer callbacks are acknowledged
\* and flush() returns successfully": an execution that reports success wrote all
\* its messages, each once, to its own partition and to no other.
DoneIsComplete ==
  \A e \in Executions : phase[e] = "done" =>
    \A i \in 1 .. Len(PartitionOf), p \in Partitions :
      Cardinality(Positions(p, e, i)) = IF p = PartitionOf[i] THEN 1 ELSE 0

\* Even a failed execution, whose events the next one sends again, leaves every
\* message at most once and never an older one behind a younger one.
WrittenInOrder ==
  \A p \in Partitions : \A j, k \in DOMAIN log[p] :
    j < k /\ log[p][j][1] = log[p][k][1] => log[p][j][2] < log[p][k][2]
=============================================================================
