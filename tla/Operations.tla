----------------------------- MODULE Operations -----------------------------
(***************************************************************************)
(* The make targets around the playback job: flink-submit, whose client    *)
(* sets up topics and contracts before it submits, flink-cancel,           *)
(* generator-stream, and flink-reset-data, which polls the list of jobs    *)
(* and then deletes topics and rows one after the other, ending well if    *)
(* only its last command does.  Nothing locks them out of each other.  An  *)
(* event is known by its generation, the number of times the source topic  *)
(* had been deleted when it was published.                                 *)
(***************************************************************************)
EXTENDS Integers, Sequences, FiniteSets, SequencesExt

CONSTANTS
  Attempts,   \* polls of flink-reset-data
  MaxSubmissions, MaxResets, MaxExecutions  \* bounds

ASSUME OperationsAssumption ==
  /\ Attempts \in Nat \ {0}
  /\ {MaxSubmissions, MaxResets, MaxExecutions} \subseteq Nat

Topics   == {"source_topic", "dlq_topic"}
Subjects == {"source_subject", "source_BACKWARD", "dlq_subject", "dlq_BACKWARD"}

Clients == {"flink", "generator"}
Faults  == {"fooled", "partial"}

SourceSetup == <<"source_topic", "source_subject", "source_BACKWARD">>

\* Mutant: the DLQ topic is left to its first record.
EnsuredWithoutDlqTopic(c) == IF c = "flink" THEN SourceSetup \o <<"dlq_subject", "dlq_BACKWARD">>
                             ELSE SourceSetup

\* What submit_pipeline and KafkaEventPublisher.prepare ensure, in order.
Ensured(c) == IF c = "flink" THEN <<"source_topic", "dlq_topic", "source_subject",
                                    "source_BACKWARD", "dlq_subject", "dlq_BACKWARD">>
              ELSE SourceSetup

VARIABLES
  there,      \* the topics, subjects and compatibilities that exist
  client,     \* step of each client in what it ensures, 0 if it does not run
  starts,     \* of each client
  generation, \* deletions of the source topic
  log,        \* generations of the events in the source topic
  tables,     \* generations of the events in rows of the two tables
  job,        \* [state, memory: generations in windows and sink buffers, robbed: faults of
              \* the resets that deleted topics since it was submitted]
  reset       \* [pc, polls, runs, faults: fooled by its poll, partial in its deletions]

vars == <<there, client, starts, generation, log, tables, job, reset>>
clients == <<client, starts>>
data == <<generation, log, tables>>

\* The states flink-reset-data looks for that the model tells apart.
ActiveStates == {"INITIALIZING", "RUNNING", "CANCELLING"}

\* Mutant: a job that is being cancelled is as good as gone.
ListedRunning == job.state \in {"INITIALIZING", "RUNNING"}

Listed == job.state \in ActiveStates
Active == job.state \in ActiveStates

Init ==
  /\ there = {}
  /\ client = [c \in Clients |-> 0] /\ starts = [c \in Clients |-> 0]
  /\ generation = 0 /\ log = {} /\ tables = {}
  /\ job = [state |-> "none", memory |-> {}, robbed |-> {}]
  /\ reset = [pc |-> "idle", polls |-> 0, runs |-> 0, faults |-> {}]

Resetting == reset.pc \in {"poll", "source_topic", "dlq_topic", "truncate"}
Submitting == client["flink"] # 0

-----------------------------------------------------------------------------
(* Clients *)

Goto(c, step) == client' = [client EXCEPT ![c] = step]

Started(c) == Goto(c, 1) /\ starts' = [starts EXCEPT ![c] = @ + 1]

\* One job at a time.  A reset that runs cannot know of it.
StartSubmit ==
  /\ ~Submitting /\ ~Active /\ starts["flink"] < MaxSubmissions
  /\ Started("flink")
  /\ job' = [job EXCEPT !.robbed = {}]
  /\ reset' = [reset EXCEPT !.faults = IF Resetting THEN @ \cup {"fooled"} ELSE @]
  /\ UNCHANGED <<there, data>>

StartExecution ==
  /\ client["generator"] = 0 /\ starts["generator"] < MaxExecutions
  /\ Started("generator")
  /\ UNCHANGED <<there, data, job, reset>>

Ready(c) == client[c] > Len(Ensured(c))

\* ensure_topic and register: what is there already is no error.
Ensure(c) ==
  /\ client[c] # 0 /\ ~Ready(c)
  /\ there' = there \cup {Ensured(c)[client[c]]}
  /\ Goto(c, client[c] + 1)
  /\ UNCHANGED <<starts, data, job, reset>>

\* Any call may raise, which ends the client; what it set up stays.
ClientFails(c) ==
  /\ client[c] # 0 /\ Goto(c, 0)
  /\ UNCHANGED <<there, starts, data, job, reset>>

Publish ==
  /\ Ready("generator") /\ "source_topic" \in there
  /\ log' = log \cup {generation}
  /\ UNCHANGED <<there, clients, generation, tables, job, reset>>

\* The end of the generator; a message to a topic that is gone is given up.
ExecutionEnds ==
  /\ Ready("generator") /\ Goto("generator", 0)
  /\ UNCHANGED <<there, starts, data, job, reset>>

-----------------------------------------------------------------------------
(* The job *)

\* execute_sql of the statement set, detached.
Submit ==
  /\ Ready("flink") /\ Goto("flink", 0)
  /\ job' = [job EXCEPT !.state = "INITIALIZING", !.memory = {}]
  /\ UNCHANGED <<there, starts, data, reset>>

JobRuns ==
  /\ job.state = "INITIALIZING" /\ job' = [job EXCEPT !.state = "RUNNING"]
  /\ UNCHANGED <<there, clients, data, reset>>

\* From the beginning of the topic, whatever the consumer group has committed.
JobReads ==
  /\ job.state = "RUNNING" /\ "source_topic" \in there
  /\ job' = [job EXCEPT !.memory = @ \cup log]
  /\ UNCHANGED <<there, clients, data, reset>>

Flush ==
  /\ job.state = "RUNNING"
  /\ \E part \in SUBSET job.memory : tables' = tables \cup part
  /\ UNCHANGED <<there, clients, generation, log, job, reset>>

Cancel ==
  /\ job.state \in {"INITIALIZING", "RUNNING"}
  /\ job' = [job EXCEPT !.state = "CANCELLING"]
  /\ UNCHANGED <<there, clients, data, reset>>

\* Cancelled or failed: the JDBC sinks flush what they hold when they are closed.
JobEnds ==
  /\ Active
  /\ job' = [job EXCEPT !.state = IF @ = "CANCELLING" THEN "CANCELED" ELSE "FAILED", !.memory = {}]
  /\ \E part \in SUBSET job.memory : tables' = tables \cup part
  /\ UNCHANGED <<there, clients, generation, log, reset>>

-----------------------------------------------------------------------------
(* flink-reset-data *)

StartReset ==
  /\ ~Resetting /\ reset.runs < MaxResets
  /\ reset' = [pc |-> "poll", polls |-> 0, runs |-> reset.runs + 1,
               faults |-> IF Submitting THEN {"fooled"} ELSE {}]
  /\ UNCHANGED <<there, clients, data, job>>

Poll ==
  /\ reset.pc = "poll"
  /\ reset' = [reset EXCEPT !.polls = @ + 1,
                 !.pc = IF ~Listed THEN "source_topic"
                        ELSE IF reset.polls + 1 = Attempts THEN "refused" ELSE "poll"]
  /\ UNCHANGED <<there, clients, data, job>>

\* ! curl | grep: a list that cannot be had is a list without an active job.
PollUnanswered ==
  /\ reset.pc = "poll"
  /\ reset' = [reset EXCEPT !.pc = "source_topic", !.faults = @ \cup {"fooled"}]
  /\ UNCHANGED <<there, clients, data, job>>

\* The commands are joined by ; and what the deletions return is not looked at.
After(step) == IF step = "source_topic" THEN "dlq_topic" ELSE "truncate"

DeleteTopic(topic) ==
  /\ reset.pc = topic
  /\ reset' = [reset EXCEPT !.pc = After(topic)]
  /\ there' = there \ {topic}
  /\ job' = [job EXCEPT !.robbed = @ \cup reset.faults]
  /\ IF topic = "source_topic" THEN log' = {} /\ generation' = generation + 1
     ELSE UNCHANGED <<log, generation>>
  /\ UNCHANGED <<clients, tables>>

DeleteFails(topic) ==
  /\ reset.pc = topic
  /\ reset' = [reset EXCEPT !.pc = After(topic), !.faults = @ \cup {"partial"}]
  /\ UNCHANGED <<there, clients, data, job>>

Truncate ==
  /\ reset.pc = "truncate"
  /\ tables' = {} /\ reset' = [reset EXCEPT !.pc = "done"]
  /\ UNCHANGED <<there, clients, generation, log, job>>

\* TRUNCATE fails, or the command is interrupted.
ResetFails ==
  /\ Resetting /\ reset' = [reset EXCEPT !.pc = "failed"]
  /\ UNCHANGED <<there, clients, data, job>>

Next ==
  \/ StartSubmit \/ StartExecution \/ Publish \/ ExecutionEnds
  \/ \E c \in Clients : Ensure(c) \/ ClientFails(c)
  \/ Submit \/ JobRuns \/ JobReads \/ Flush \/ Cancel \/ JobEnds
  \/ StartReset \/ Poll \/ PollUnanswered \/ Truncate \/ ResetFails
  \/ \E topic \in Topics : DeleteTopic(topic) \/ DeleteFails(topic)

Spec == Init /\ [][Next]_vars

-----------------------------------------------------------------------------
(* Properties *)

TypeOK ==
  /\ there \subseteq Topics \cup Subjects
  /\ client \in [Clients -> 0 .. 7]
  /\ starts \in [Clients -> Nat]
  /\ generation \in Nat /\ log \subseteq Nat /\ tables \subseteq Nat
  /\ job \in [state : {"none", "CANCELED", "FAILED"} \cup ActiveStates,
              memory : SUBSET Nat, robbed : SUBSET Faults]
  /\ reset \in [pc : {"idle", "poll", "source_topic", "dlq_topic", "truncate", "refused", "done", "failed"},
                polls : Nat, runs : Nat, faults : SUBSET Faults]

\* "The reset command refuses to run while a Flink job is active": an active job has
\* the topics and the contracts its client set up, unless a reset deleted them that
\* had no answer to its poll or ran beside the submission.
JobKeepsItsTopics == Active /\ "fooled" \notin job.robbed => Topics \cup Subjects \subseteq there

\* After a reset that was not fooled and whose deletions worked, nothing published
\* before it is in the topic or in the tables, or comes back from a job that was
\* being cancelled, whatever the generator did meanwhile.
ResetIsClean ==
  reset.pc = "done" /\ reset.faults = {} =>
    log \cup tables \cup job.memory \subseteq {generation}
=============================================================================
