------------------------------ MODULE Rounding ------------------------------
(***************************************************************************)
(* Python's round() of the quotient n / d: half to even.                   *)
(***************************************************************************)
EXTENDS Integers

Round(n, d) ==
  LET floor == n \div d
      twice == 2 * (n % d)
  IN  IF twice < d \/ (twice = d /\ floor % 2 = 0) THEN floor ELSE floor + 1
=============================================================================
