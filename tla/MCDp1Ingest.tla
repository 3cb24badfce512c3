----------------------------- MODULE MCDp1Ingest -----------------------------
(***************************************************************************)
(* A small landing bucket for Dp1Ingest: one row of each dataset, a second *)
(* playback row in the next write batch and one after the cutover.         *)
(***************************************************************************)
EXTENDS Dp1Ingest, TLC

LOCAL R(id, step) == [id |-> id, step |-> step, afterCutover |-> FALSE]

Delivery   == {R("u1", 1), R("s1", 2), R("c1", 3), R("e1", 4)}
TwoBatches == Delivery \cup {R("e2", 5), [id |-> "e3", step |-> 4, afterCutover |-> TRUE]}

DriverSymmetry == Permutations(Drivers)
=============================================================================
