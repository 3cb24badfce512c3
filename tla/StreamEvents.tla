---------------------------- MODULE StreamEvents ----------------------------
(***************************************************************************)
(* The generator of the event stream: base events 0..Count-1 on a bursty   *)
(* schedule, some late, some swapped with their neighbour inside a buffer, *)
(* some sent twice, some with an invalid payload.  Which ones is drawn at  *)
(* random once; here any draw of the right size is possible.               *)
(***************************************************************************)
EXTENDS Rounding, Sequences, FiniteSets, SequencesExt, FiniteSetsExt

CONSTANTS
  Count,           \* base_event_count
  BufferSize,      \* out_of_order_buffer_size
  Invalids, Lates, Swaps, Duplicates, \* events drawn, round(Count * rate)
  Schedules,       \* [rate, cycle, num, den, multiplier, acceleration]; num/den is
                   \* duration_ratio, event_time_acceleration a whole number as in the files
  Delays, LateDelays,  \* delays of event time, in seconds
  WatermarkDelay       \* that of the Flink job, likewise

\* What StreamConfig asks.
IsStream ==
  /\ Count \in Nat \ {0} /\ BufferSize \in Nat \ {0, 1}
  /\ {Invalids, Lates, Swaps, Duplicates, WatermarkDelay} \subseteq Nat
  /\ Delays \cup LateDelays \subseteq Nat
  /\ \A s \in Schedules :
       /\ {s.rate, s.cycle, s.num, s.den, s.multiplier, s.acceleration} \subseteq Nat \ {0}
       /\ s.num < s.den /\ s.multiplier > 1

Events == 0 .. Count - 1

-----------------------------------------------------------------------------
(* BurstSchedule.  A tick is 1/(rate * multiplier * den) seconds: all offsets *)
(* are whole numbers of ticks.                                                *)

AtLeastOne(n) == IF n < 1 THEN 1 ELSE n
BurstCapacity(s)  == AtLeastOne(Round(s.rate * s.multiplier * s.cycle * s.num, s.den))
NormalCapacity(s) == AtLeastOne(Round(s.rate * s.cycle * (s.den - s.num), s.den))

\* Mutant: the next cycle starts when the burst is over.
OffsetOfBursts(s, index) ==
  LET capacity == BurstCapacity(s) + NormalCapacity(s)
      within   == index % capacity
      burst    == s.cycle * s.num * s.rate * s.multiplier
      start    == (index \div capacity) * burst
  IN  IF within < BurstCapacity(s) THEN start + within * s.den
      ELSE start + burst + (within - BurstCapacity(s)) * s.multiplier * s.den

Offset(s, index) ==
  LET capacity == BurstCapacity(s) + NormalCapacity(s)
      within   == index % capacity
      start    == (index \div capacity) * s.cycle * s.rate * s.multiplier * s.den
      burst    == s.cycle * s.num * s.rate * s.multiplier
  IN  IF within < BurstCapacity(s) THEN start + within * s.den
      ELSE start + burst + (within - BurstCapacity(s)) * s.multiplier * s.den

-----------------------------------------------------------------------------
(* The draws *)

\* Mutant: the last event of a buffer is a candidate, too.
CandidatesToTheEnd ==
  {i \in Events : (i % BufferSize) % 2 = 0}

\* OutOfOrderIndexSelector: anchors that have a swap partner in their buffer.
SwapCandidates ==
  {i \in Events : (i % BufferSize) % 2 = 0
                    /\ i + 1 \in Events /\ (i + 1) \div BufferSize = i \div BufferSize}

AtMost(n, candidates) == Min({n, Cardinality(candidates)})

\* Any sample of a size: rng.choice without replacement.
Samples(n, candidates) == kSubset(AtMost(n, candidates), candidates)

\* Mutant: events with an invalid payload may be sent twice.
DuplicateCandidatesOfAll(invalid) == Events

DuplicateCandidates(invalid) == Events \ invalid

VARIABLES
  plan,   \* the draws
  start,  \* first event of the next buffer
  sent    \* envelopes yielded

vars == <<plan, start, sent>>

Init ==
  /\ \E schedule \in Schedules :
     \E invalid \in Samples(Invalids, Events) :
     \E late \in Samples(Lates, Events) :
     \E anchors \in Samples(Swaps, SwapCandidates) :
     \E duplicates \in Samples(Duplicates, DuplicateCandidates(invalid)) :
       plan = [schedule |-> schedule, invalid |-> invalid, late |-> late,
               anchors |-> anchors, duplicates |-> duplicates]
  /\ start = 0 /\ sent = <<>>

-----------------------------------------------------------------------------
(* StreamDataGenerator.events *)

Second == 1000

\* produced_timestamp in whole milliseconds from the first event: neighbours in a burst
\* may share theirs.  What floating point adds below a microsecond is left out.
Milliseconds(s, index) ==
  Round(Offset(s, index) * s.acceleration * Second, s.rate * s.multiplier * s.den)

\* The delay is a whole number of seconds, so that event_timestamp is rounded alike.
Envelope(index, delay) ==
  LET produced == Milliseconds(plan.schedule, index)
  IN  [index |-> index, produced |-> produced, time |-> produced - delay * Second,
       late |-> index \in plan.late, outOfOrder |-> index \in plan.anchors,
       invalid |-> index \in plan.invalid, duplicate |-> FALSE]

\* Mutant: a buffer with an anchor is reversed.
ArrangedByReversal(buffer) ==
  IF \E i \in DOMAIN buffer : start + i - 1 \in plan.anchors THEN Reverse(buffer) ELSE buffer

\* _apply_out_of_order_swaps, at even positions that have a next one.
Arranged(buffer) ==
  LET Anchor(position) ==
        /\ position >= 1 /\ position < Len(buffer) /\ position % 2 = 1
        /\ start + position - 1 \in plan.anchors
  IN  [position \in DOMAIN buffer |->
         IF Anchor(position) THEN buffer[position + 1]
         ELSE IF Anchor(position - 1) THEN buffer[position - 1] ELSE buffer[position]]

\* An event and its retry.
Copies(envelope) ==
  IF envelope.index \in plan.duplicates
  THEN <<envelope, [envelope EXCEPT !.duplicate = TRUE]>> ELSE <<envelope>>

DelaysOf(index) == IF index \in plan.late THEN LateDelays ELSE Delays

Stop == Min({start + BufferSize, Count})

YieldBuffer ==
  /\ start < Count
  /\ LET size == Stop - start
     IN  /\ \E delays \in [1 .. size -> Delays \cup LateDelays] :
              /\ \A i \in 1 .. size : delays[i] \in DelaysOf(start + i - 1)
              /\ LET buffer == [i \in 1 .. size |-> Envelope(start + i - 1, delays[i])]
                     arranged == Arranged(buffer)
                 IN  sent' = sent \o FlattenSeq([i \in 1 .. size |-> Copies(arranged[i])])
         /\ start' = Stop
  /\ UNCHANGED plan

Next == YieldBuffer

Spec == Init /\ [][Next]_vars

-----------------------------------------------------------------------------
(* Properties *)

\* build_stream_summary derives rows_after_dedup from counters: it is the number
\* of different valid events sent.
SummaryIsTrue ==
  LET Many(Test(_)) == Cardinality({i \in DOMAIN sent : Test(sent[i])})
      invalid    == Many(LAMBDA e : e.invalid)
      duplicates == Many(LAMBDA e : e.duplicate)
      different  == {sent[i].index : i \in {j \in DOMAIN sent : ~sent[j].invalid}}
  IN  Len(sent) - invalid - duplicates = Cardinality(different)

\* "indexes that are guaranteed to have a following swap partner": an event is flagged
\* as out of order exactly if a younger one was sent before it.  A consumer, who has
\* the produced timestamps only, finds them out of order at flagged events only, at
\* the edges of bursts and cycles, whose capacities are rounded, too; but not at each
\* of them, since a flagged event may share the timestamp of its partner.
FlaggedIsOvertaken ==
  \A i \in DOMAIN sent :
    /\ sent[i].outOfOrder <=> \E j \in 1 .. i - 1 : sent[j].index > sent[i].index
    /\ \A j \in 1 .. i - 1 : sent[j].produced > sent[i].produced => sent[i].outOfOrder

\* The watermark delay is above the delay of events and the distance of those that
\* may be swapped.
DelayCoversSwaps ==
  \A s \in Schedules : \A i, j \in Events :
    j = i \/ (j = i + 1 /\ i \in SwapCandidates) =>
      \A d \in Delays : Milliseconds(s, j) - Milliseconds(s, i) < (WatermarkDelay - d) * Second

\* Under such a delay what the Flink job can drop as late is marked as late: a
\* watermark is at most the delay behind some event that the record's partition had
\* before, and an event that is not marked is not behind any event sent before it
\* by as much.  It says nothing of the converse: the job's watermark is periodic and
\* waits for the slowest partition, so that marked events may pass.
OnlyMarkedIsLate ==
  \A i \in DOMAIN sent : \A j \in 1 .. i - 1 :
    sent[i].time <= sent[j].produced - WatermarkDelay * Second => sent[i].late
=============================================================================
