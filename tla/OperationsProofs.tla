-------------------------- MODULE OperationsProofs --------------------------
(***************************************************************************)
(* An active job keeps its topics and a reset is clean, for any number of  *)
(* submissions, executions, resets and polls.  What makes it so is that a  *)
(* reset which was not fooled has seen no active job, that none can become *)
(* active without a submission, which fools it, and that a job which is    *)
(* not active holds nothing it could still write.                          *)
(***************************************************************************)
EXTENDS Operations, TLAPS

Deleting == reset.pc \in {"source_topic", "dlq_topic", "truncate"}

\* What the client has ensured so far is there.
FirstAreThere ==
  Submitting /\ "fooled" \notin job.robbed => \A i \in 1 .. client["flink"] - 1 : Ensured("flink")[i] \in there

Quiet ==
  /\ Submitting => ~Active
  /\ ~Active => job.memory = {}
  /\ Resetting /\ "fooled" \notin reset.faults => ~Submitting
  /\ Deleting /\ "fooled" \notin reset.faults => ~Active

\* The topic holds nothing from before its deletion.
TopicIsClean ==
  reset.pc \in {"dlq_topic", "truncate", "done"} /\ "partial" \notin reset.faults => log \subseteq {generation}

IInv == TypeOK /\ FirstAreThere /\ Quiet /\ JobKeepsItsTopics /\ TopicIsClean /\ ResetIsClean

\* The six calls of submit_pipeline ensure both topics and the four entries of the
\* registry, the three of the generator some of them.
LEMMA Calls ==
  ASSUME NEW c \in Clients PROVE Len(Ensured(c)) \in {3, 6} /\ (c = "flink" => Len(Ensured(c)) = 6)
<1>1. CASE c = "flink"
  BY <1>1 DEF Ensured
<1>2. CASE c # "flink"
  BY <1>2 DEF Ensured, SourceSetup
<1> QED BY <1>1, <1>2

LEMMA StepsOfCalls ==
  ASSUME NEW step \in 0 .. 7, NEW calls \in {3, 6}
  PROVE  /\ step # 0 /\ ~(step > calls) => step \in 1 .. calls /\ step + 1 \in 0 .. 7
         /\ calls = 6 /\ step > calls => step = 7
OBVIOUS

LEMMA EnsuredByTheJob ==
  ASSUME NEW item \in Topics \cup Subjects PROVE \E i \in 1 .. 6 : Ensured("flink")[i] = item
<1>1. /\ Ensured("flink")[1] = "source_topic" /\ Ensured("flink")[2] = "dlq_topic"
      /\ Ensured("flink")[3] = "source_subject" /\ Ensured("flink")[4] = "source_BACKWARD"
      /\ Ensured("flink")[5] = "dlq_subject" /\ Ensured("flink")[6] = "dlq_BACKWARD"
  BY DEF Ensured
<1> QED BY <1>1 DEF Topics, Subjects

LEMMA WhatIsEnsured ==
  ASSUME NEW c \in Clients, NEW i \in 1 .. Len(Ensured(c)) PROVE Ensured(c)[i] \in Topics \cup Subjects
<1>1. CASE c = "flink"
  BY <1>1 DEF Ensured, Topics, Subjects
<1>2. CASE c # "flink"
  BY <1>2 DEF Ensured, SourceSetup, Topics, Subjects
<1> QED BY <1>1, <1>2

LEMMA InitInv == Init => IInv
BY OperationsAssumption
   DEF Init, IInv, TypeOK, FirstAreThere, Quiet, JobKeepsItsTopics, TopicIsClean, ResetIsClean,
       Active, ActiveStates, Submitting, Resetting, Deleting, Clients

\* Every step keeps the types.
LEMMA StepKeepsTypes == ASSUME TypeOK, [Next]_vars PROVE TypeOK'
<1> USE OperationsAssumption DEF TypeOK, clients, data
<1>1. "flink" \in Clients /\ "generator" \in Clients
  BY DEF Clients
<1>2. ASSUME NEW c \in Clients, Started(c)
      PROVE  client' \in [Clients -> 0 .. 7] /\ starts' \in [Clients -> Nat]
  BY <1>2 DEF Started, Goto
<1>3. ASSUME NEW c \in Clients, Goto(c, 0) PROVE client' \in [Clients -> 0 .. 7]
  BY <1>3 DEF Goto
<1>4. CASE StartSubmit
  BY <1>4, <1>2, <1>1 DEF StartSubmit, Faults
<1>5. CASE StartExecution
  BY <1>5, <1>2, <1>1 DEF StartExecution
<1>6. CASE Publish
  BY <1>6 DEF Publish
<1>7. CASE ExecutionEnds
  BY <1>7, <1>3, <1>1 DEF ExecutionEnds
<1>8. ASSUME NEW c \in Clients, Ensure(c) PROVE TypeOK'
  <2>1. client[c] \in 1 .. Len(Ensured(c)) /\ client[c] + 1 \in 0 .. 7
    <3>1. Len(Ensured(c)) \in {3, 6}
      BY Calls
    <3>2. client[c] \in 0 .. 7 /\ client[c] # 0 /\ ~(client[c] > Len(Ensured(c)))
      BY <1>8 DEF Ensure, Ready
    <3> QED BY <3>1, <3>2, StepsOfCalls
  <2>2. Ensured(c)[client[c]] \in Topics \cup Subjects
    BY <2>1, WhatIsEnsured
  <2>3. client' \in [Clients -> 0 .. 7]
    BY <1>8, <2>1 DEF Ensure, Goto
  <2> QED BY <1>8, <2>2, <2>3 DEF Ensure
<1>9. ASSUME NEW c \in Clients, ClientFails(c) PROVE TypeOK'
  BY <1>9, <1>3 DEF ClientFails
<1>10. CASE Submit
  <2>1. client' \in [Clients -> 0 .. 7]
    BY <1>10, <1>3, <1>1 DEF Submit
  <2> QED BY <1>10, <2>1 DEF Submit, ActiveStates
<1>11. CASE JobRuns
  BY <1>11 DEF JobRuns, ActiveStates
<1>12. CASE JobReads
  BY <1>12 DEF JobReads, ActiveStates
<1>13. CASE Flush
  BY <1>13 DEF Flush
<1>14. CASE Cancel
  BY <1>14 DEF Cancel, ActiveStates
<1>15. CASE JobEnds
  BY <1>15 DEF JobEnds, ActiveStates
<1>16. CASE StartReset
  BY <1>16 DEF StartReset, Faults
<1>17. CASE Poll
  <2>1. reset.polls + 1 \in Nat
    OBVIOUS
  <2> QED BY <1>17, <2>1 DEF Poll
<1>18. CASE PollUnanswered
  BY <1>18 DEF PollUnanswered, Faults
<1>19. CASE Truncate
  BY <1>19 DEF Truncate
<1>20. CASE ResetFails
  BY <1>20 DEF ResetFails
<1>21. ASSUME NEW topic \in Topics, DeleteTopic(topic) PROVE TypeOK'
  BY <1>21 DEF DeleteTopic, After, Topics
<1>22. ASSUME NEW topic \in Topics, DeleteFails(topic) PROVE TypeOK'
  BY <1>22 DEF DeleteFails, After, Topics, Faults
<1>23. CASE UNCHANGED vars
  BY <1>23 DEF vars
<1> QED BY <1>4, <1>5, <1>6, <1>7, <1>8, <1>9, <1>10, <1>11, <1>12, <1>13, <1>14, <1>15, <1>16,
           <1>17, <1>18, <1>19, <1>20, <1>21, <1>22, <1>23 DEF Next

\* Every step of the clients and of the job keeps the rest of the invariant.
LEMMA ClientsKeepInv ==
  ASSUME IInv, TypeOK',
         StartSubmit \/ StartExecution \/ Publish \/ ExecutionEnds
           \/ (\E c \in Clients : Ensure(c) \/ ClientFails(c)) \/ Submit
  PROVE  IInv'
<1> USE DEF IInv, TypeOK, clients, data, Clients, Active, ActiveStates, Submitting, Resetting, Deleting
<1>1. CASE StartSubmit
  BY <1>1 DEF StartSubmit, Started, Goto, FirstAreThere, Quiet, JobKeepsItsTopics, TopicIsClean, ResetIsClean
<1>2. CASE StartExecution \/ ExecutionEnds
  BY <1>2 DEF StartExecution, ExecutionEnds, Started, Goto, FirstAreThere, Quiet, JobKeepsItsTopics,
              TopicIsClean, ResetIsClean
<1>3. CASE Publish
  BY <1>3 DEF Publish, FirstAreThere, Quiet, JobKeepsItsTopics, TopicIsClean, ResetIsClean
<1>4. ASSUME NEW c \in Clients, Ensure(c) PROVE IInv'
  <2>1. FirstAreThere'
    BY <1>4 DEF Ensure, Goto, FirstAreThere
  <2> QED BY <1>4, <2>1 DEF Ensure, Goto, Quiet, JobKeepsItsTopics, TopicIsClean, ResetIsClean
<1>5. ASSUME NEW c \in Clients, ClientFails(c) PROVE IInv'
  BY <1>5 DEF ClientFails, Goto, FirstAreThere, Quiet, JobKeepsItsTopics, TopicIsClean, ResetIsClean
<1>6. CASE Submit
  <2>1. client["flink"] = 7
    <3>1. Len(Ensured("flink")) \in {3, 6} /\ Len(Ensured("flink")) = 6
      BY Calls
    <3>2. client["flink"] \in 0 .. 7 /\ client["flink"] > Len(Ensured("flink"))
      BY <1>6 DEF Submit, Ready
    <3> QED BY <3>1, <3>2, StepsOfCalls
  <2>2. "fooled" \notin job.robbed => Topics \cup Subjects \subseteq there
    BY <2>1, EnsuredByTheJob DEF FirstAreThere
  <2>3. JobKeepsItsTopics'
    BY <1>6, <2>2 DEF Submit, JobKeepsItsTopics
  <2> QED BY <1>6, <2>1, <2>3 DEF Submit, Goto, FirstAreThere, Quiet, TopicIsClean, ResetIsClean
<1> QED BY <1>1, <1>2, <1>3, <1>4, <1>5, <1>6

LEMMA JobKeepsInv ==
  ASSUME IInv, TypeOK', JobRuns \/ JobReads \/ Flush \/ Cancel \/ JobEnds
  PROVE  IInv'
<1> USE DEF IInv, TypeOK, clients, data, Clients, Active, ActiveStates, Submitting, Resetting, Deleting
<1>1. CASE JobRuns \/ Cancel
  BY <1>1 DEF JobRuns, Cancel, FirstAreThere, Quiet, JobKeepsItsTopics, TopicIsClean, ResetIsClean
<1>2. CASE JobReads
  BY <1>2 DEF JobReads, FirstAreThere, Quiet, JobKeepsItsTopics, TopicIsClean, ResetIsClean
<1>3. CASE Flush
  BY <1>3 DEF Flush, FirstAreThere, Quiet, JobKeepsItsTopics, TopicIsClean, ResetIsClean
<1>4. CASE JobEnds
  BY <1>4 DEF JobEnds, FirstAreThere, Quiet, JobKeepsItsTopics, TopicIsClean, ResetIsClean
<1> QED BY <1>1, <1>2, <1>3, <1>4

\* And every step of a reset.
LEMMA ResetKeepsInv ==
  ASSUME IInv, TypeOK',
         StartReset \/ Poll \/ PollUnanswered \/ Truncate \/ ResetFails
           \/ (\E topic \in Topics : DeleteTopic(topic) \/ DeleteFails(topic))
  PROVE  IInv'
<1> USE DEF IInv, TypeOK, clients, data, Clients, Active, ActiveStates, Submitting, Resetting, Deleting
<1>1. CASE StartReset
  BY <1>1 DEF StartReset, FirstAreThere, Quiet, JobKeepsItsTopics, TopicIsClean, ResetIsClean
<1>2. CASE Poll
  BY <1>2 DEF Poll, Listed, FirstAreThere, Quiet, JobKeepsItsTopics, TopicIsClean, ResetIsClean
<1>3. CASE PollUnanswered
  BY <1>3 DEF PollUnanswered, FirstAreThere, Quiet, JobKeepsItsTopics, TopicIsClean, ResetIsClean
<1>7. CASE ResetFails
  BY <1>7 DEF ResetFails, FirstAreThere, Quiet, JobKeepsItsTopics, TopicIsClean, ResetIsClean
<1>4. CASE Truncate
  BY <1>4 DEF Truncate, FirstAreThere, Quiet, JobKeepsItsTopics, TopicIsClean, ResetIsClean
<1>5. ASSUME NEW topic \in Topics, DeleteTopic(topic) PROVE IInv'
  <2>1. FirstAreThere' /\ JobKeepsItsTopics'
    BY <1>5 DEF DeleteTopic, FirstAreThere, JobKeepsItsTopics, Quiet, Topics
  <2>2. Quiet'
    BY <1>5 DEF DeleteTopic, After, Quiet, Topics
  <2>3. TopicIsClean' /\ ResetIsClean'
    BY <1>5 DEF DeleteTopic, After, TopicIsClean, ResetIsClean, Topics
  <2> QED BY <1>5, <2>1, <2>2, <2>3
<1>6. ASSUME NEW topic \in Topics, DeleteFails(topic) PROVE IInv'
  BY <1>6 DEF DeleteFails, After, FirstAreThere, Quiet, JobKeepsItsTopics, TopicIsClean, ResetIsClean, Topics
<1> QED BY <1>1, <1>2, <1>3, <1>4, <1>5, <1>6, <1>7

LEMMA StepKeepsInv == IInv /\ [Next]_vars => IInv'
<1> SUFFICES ASSUME IInv, [Next]_vars PROVE IInv' OBVIOUS
<1>1. TypeOK'
  BY StepKeepsTypes DEF IInv
<1>2. CASE UNCHANGED vars
  BY <1>2, <1>1 DEF vars, IInv, FirstAreThere, Quiet, JobKeepsItsTopics, TopicIsClean, ResetIsClean,
                    Active, ActiveStates, Submitting, Resetting, Deleting
<1> QED BY <1>1, <1>2, ClientsKeepInv, JobKeepsInv, ResetKeepsInv DEF Next

LEMMA Invariance == Spec => []IInv
BY InitInv, StepKeepsInv, PTL DEF Spec

\* For every number of submissions, executions, resets and polls: an active job
\* keeps its topics and contracts unless a fooled reset deleted them.
THEOREM JobsKeepTheirTopics == Spec => []JobKeepsItsTopics
<1>1. IInv => JobKeepsItsTopics
  BY DEF IInv
<1> QED BY <1>1, Invariance, PTL

\* And a reset that was not fooled and could delete leaves nothing from before it.
THEOREM ResetsAreClean == Spec => []ResetIsClean
<1>1. IInv => ResetIsClean
  BY DEF IInv
<1> QED BY <1>1, Invariance, PTL

\* Type correctness of the operations.
THEOREM Typing == Spec => []TypeOK
<1>1. IInv => TypeOK
  BY DEF IInv
<1> QED BY <1>1, Invariance, PTL
=============================================================================
