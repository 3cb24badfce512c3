---------------------------- MODULE MCGovernance ----------------------------
(***************************************************************************)
(* Four of the five contracts: those of the two features differ in their   *)
(* names only.                                                             *)
(***************************************************************************)
EXTENDS Governance

LOCAL A(name, source) == [name |-> name, source |-> source]

FourContracts == <<"dp1", "dp2", "dp3", "stream">>
TheirAssertions ==
  [dp1 |-> <<A("dp1-schema", "suite"), A("dp1-quality", "suite")>>,
   dp2 |-> <<A("dp2-schema", "catalog"), A("dp2-quality", "dp2_tests")>>,
   dp3 |-> <<A("dp3-schema", "catalog"), A("dp3-quality", "dp3_tests")>>,
   stream |-> <<A("stream-schema", "registry")>>]
=============================================================================
