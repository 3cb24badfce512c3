-------------------------- MODULE StreamPublisher --------------------------
(***************************************************************************)
(* Stream executions publishing to one Kafka topic: the runner's loop, the *)
(* publisher with its delivery callbacks, the queue of the Kafka client    *)
(* (external) and the partitions of the topic.  The client is idempotent:  *)
(* it delivers the messages of a partition once and in order, or gives one *)
(* up, which may be in the partition all the same.                         *)
(***************************************************************************)
EXTENDS TopicLog, FiniteSetsExt

CONSTANT QueueLimit  \* queue.buffering.max.messages of the client

IsPublisher ==
  /\ IsFiniteSet(Partitions) /\ PartitionOf \in Seq(Partitions) /\ PartitionOf # <<>>
  /\ QueueLimit \in Nat \ {0}

ASSUME PublisherAssumption == IsPublisher

Count == Len(PartitionOf)

VARIABLES
  next,       \* next message of events()
  queue,      \* messages the client holds, by execution and partition
  reports,    \* delivery reports the client holds: [ok, failed]
  acked,      \* _acknowledged_messages
  errors      \* length of _delivery_errors

vars == <<phase, next, queue, reports, acked, errors, log>>
process == <<phase, next>>

NoReports == [ok |-> 0, failed |-> 0]

Init ==
  /\ phase = [e \in Executions |-> "prepare"]
  /\ next = [e \in Executions |-> 1]
  /\ queue = [e \in Executions |-> [p \in Partitions |-> <<>>]]
  /\ reports = [e \in Executions |-> NoReports]
  /\ acked = [e \in Executions |-> 0] /\ errors = [e \in Executions |-> 0]
  /\ log = [p \in Partitions |-> <<>>]

\* len(producer): messages whose report was not served.
Outstanding(e) ==
  FoldSet(LAMBDA p, n : Len(queue[e][p]) + n, reports[e].ok + reports[e].failed, Partitions)

Goto(e, label) == phase' = [phase EXCEPT ![e] = label]

-----------------------------------------------------------------------------
(* KafkaEventPublisher.prepare *)

\* The topic, the subject and its compatibility, which Operations looks into.
Prepare(e) ==
  /\ phase[e] = "prepare" /\ Goto(e, "publish")
  /\ UNCHANGED <<next, queue, reports, acked, errors, log>>

-----------------------------------------------------------------------------
(* _on_delivery, called by poll and flush for every report there is *)

Serve(e) ==
  /\ acked' = [acked EXCEPT ![e] = @ + reports[e].ok]
  /\ errors' = [errors EXCEPT ![e] = @ + reports[e].failed]
  /\ reports' = [reports EXCEPT ![e] = NoReports]

(* The loop of StreamRunner.run *)

Full(e) == Outstanding(e) >= QueueLimit

\* produce and poll(0).
Publish(e) ==
  /\ phase[e] = "publish" /\ ~Full(e)
  /\ queue' = [queue EXCEPT ![e][PartitionOf[next[e]]] = Append(@, next[e])]
  /\ Serve(e)
  /\ next' = [next EXCEPT ![e] = @ + 1]
  /\ Goto(e, IF next[e] = Count THEN "flush" ELSE "publish")
  /\ UNCHANGED log

\* The process ends: what the client holds is lost, but requests on their way to
\* the broker may still be written.
Exit(e, label) ==
  /\ Goto(e, label)
  /\ \E written \in [Partitions -> 0 .. Count] :
       /\ \A p \in Partitions : written[p] <= Len(queue[e][p])
       /\ log' = [p \in Partitions |->
                    log[p] \o [i \in 1 .. written[p] |-> <<e, queue[e][p][i]>>]]
  /\ queue' = [queue EXCEPT ![e] = [p \in Partitions |-> <<>>]]
  /\ UNCHANGED <<next, reports, acked, errors>>

\* BufferError, which nobody catches.
PublishRaises(e) ==
  /\ phase[e] = "publish" /\ Full(e)
  /\ Exit(e, "failed")

\* flush serves the reports that come in.
FlushServes(e) ==
  /\ phase[e] = "flush" /\ reports[e] # NoReports
  /\ Serve(e) /\ UNCHANGED <<process, queue, log>>

\* Mutant: flush waits for ever.
FlushNeverTimesOut(e) == FALSE

FlushTimesOut(e) ==
  /\ phase[e] = "flush" /\ Outstanding(e) > 0
  /\ Exit(e, "failed")

\* Mutant: an empty queue is good enough.
AllQueuedReported(e) == Outstanding(e) = 0

\* No delivery error, and as many acknowledgments as messages.
AllDelivered(e) == errors[e] = 0 /\ acked[e] = Count

FlushReturns(e) ==
  /\ phase[e] = "flush" /\ Outstanding(e) = 0
  /\ Exit(e, IF AllDelivered(e) THEN "done" ELSE "failed")

\* Any other exception in prepare or publish, or a kill.
Dies(e) ==
  /\ phase[e] \notin {"done", "failed"}
  /\ Exit(e, "failed")

-----------------------------------------------------------------------------
(* The Kafka client, its connection and the broker *)

Written(e, p) == log' = [log EXCEPT ![p] = Append(@, <<e, Head(queue[e][p])>>)]
Leaves(e, p) == queue' = [queue EXCEPT ![e][p] = Tail(@)]

\* Mutant: enable.idempotence is off, so a retry after a lost answer writes again.
DeliverAtLeastOnce(e, p) ==
  /\ queue[e][p] # <<>> /\ Len(log[p]) < 2 * Count
  /\ Written(e, p)
  /\ \/ Leaves(e, p) /\ reports' = [reports EXCEPT ![e].ok = @ + 1]
     \/ UNCHANGED <<queue, reports>>
  /\ UNCHANGED <<process, acked, errors>>

Deliver(e, p) ==
  /\ queue[e][p] # <<>>
  /\ Written(e, p) /\ Leaves(e, p)
  /\ reports' = [reports EXCEPT ![e].ok = @ + 1]
  /\ UNCHANGED <<process, acked, errors>>

\* delivery.timeout.ms: the message may be in the partition.
GiveUp(e, p) ==
  /\ queue[e][p] # <<>>
  /\ Written(e, p) \/ UNCHANGED log
  /\ Leaves(e, p)
  /\ reports' = [reports EXCEPT ![e].failed = @ + 1]
  /\ UNCHANGED <<process, acked, errors>>

Flush(e) == FlushServes(e) \/ FlushTimesOut(e) \/ FlushReturns(e)
Run(e) == Prepare(e) \/ Publish(e) \/ PublishRaises(e) \/ Flush(e)

Next ==
  \E e \in Executions :
    \/ Run(e)
    \/ Dies(e)
    \/ \E p \in Partitions : Deliver(e, p) \/ GiveUp(e, p)

Spec == Init /\ [][Next]_vars

\* A process that lives goes on: no call of it blocks for ever.
FairSpec == Spec /\ \A e \in Executions : WF_vars(Run(e))

-----------------------------------------------------------------------------
(* Properties *)

\* An execution ends, whatever the broker does.
ExecutionEnds == \A e \in Executions : <>(phase[e] \in {"done", "failed"})
=============================================================================
