------------------------------ MODULE FinalTable ------------------------------
(***************************************************************************)
(* What a streaming output table promises its readers: a row appears with  *)
(* its final value and keeps it.  A reader never sees a partial aggregate, *)
(* and no row is counted twice, retracted or rewritten to another value.   *)
(***************************************************************************)
CONSTANTS Sinks, Rows

VARIABLES
  final,  \* [Sinks -> [Rows -> aggregate]]: the value of each row
  rows    \* [Sinks -> [Rows -> aggregate]]: the rows readers can see

NoRow == [events |-> 0, ids |-> {}]

Init == rows = [s \in Sinks |-> [row \in Rows |-> NoRow]]

\* A batch of rows of some sinks becomes visible, each with its final value.
Publish ==
  LET before == rows
      after  == rows'
      value  == final
  IN  /\ \A s \in Sinks : \A row \in Rows :
           after[s][row] \in {before[s][row], value[s][row]}
      /\ UNCHANGED final

Spec == Init /\ [][Publish]_<<final, rows>>
=============================================================================
