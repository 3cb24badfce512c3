------------------------- MODULE MCStreamPublisher -------------------------
(***************************************************************************)
(* Three messages of two sessions, one of them alone in its partition.     *)
(***************************************************************************)
EXTENDS StreamPublisher

OneOfThree == <<"p", "q", "p">>
=============================================================================
