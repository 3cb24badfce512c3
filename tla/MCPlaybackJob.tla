---------------------------- MODULE MCPlaybackJob ----------------------------
(***************************************************************************)
(* Small topics for PlaybackJob.  Two partitions, windows of two time      *)
(* units, a watermark delay of two.                                        *)
(***************************************************************************)
EXTENDS PlaybackJob

LOCAL M(payload, id, content, ts, kts) ==
  [payload |-> payload, id |-> id, user |-> "k1", content |-> content,
   ts |-> ts, kts |-> kts]

LOCAL Valid(id, ts, kts) == M("valid", id, "k1", ts, kts)
LOCAL Malformed(kts) == M("malformed", "e0", "k1", 0, kts)

\* Topics of the two partitions' contents in first and second.
LOCAL Topics(first, second) ==
  {[p \in Partitions |-> IF p = "p1" THEN x ELSE y] : x \in first, y \in second}

\* In order up to the delay: a swapped pair, a duplicate next to its original
\* and one on the other partition, a malformed record.
InTimeLogs ==
  Topics({<<Valid("e1", 0, 0), Valid("e1", 0, 0), Valid("e2", 2, 3)>>,
          <<Valid("e2", 1, 1), Valid("e1", 0, 1), Valid("e3", 3, 5)>>},
         {<<M("valid", "e4", "k2", 1, 1), Malformed(3)>>,
          <<Valid("e1", 0, 1), Valid("e4", 3, 3)>>})

\* The smallest of them that close two windows, or one.
ShortLogs ==
  Topics({<<Valid("e2", 1, 1), Valid("e1", 0, 1), Valid("e3", 3, 5)>>,
          <<Valid("e1", 0, 1), Malformed(5)>>},
         {<<Valid("e1", 0, 1)>>})

ASSUME \A topic \in InTimeLogs \cup ShortLogs : InTime(topic)

\* Late and out-of-order records, retries of an event on its own partition and
\* on the other one.
UnorderedLogs ==
  Topics({<<Valid("e1", 0, 4), Valid("e2", 1, 4), Valid("e1", 3, 5)>>},
         {<<Valid("e1", 1, 3)>>})
  \cup Topics({<<Valid("e1", 0, 0), Valid("e1", 0, 0)>>},
              {<<Valid("e4", 1, 3), Valid("e1", 1, 4)>>})

\* A record without a value (a Kafka tombstone) between two events.
NullLogs ==
  Topics({<<Valid("e1", 0, 0), M("null", "e0", "k1", 0, 0), Valid("e2", 1, 1)>>},
         {<<Valid("e3", 0, 0)>>})

InTimeOrNullLogs == InTimeLogs \cup NullLogs
=============================================================================
