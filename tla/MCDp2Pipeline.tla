---------------------------- MODULE MCDp2Pipeline ----------------------------
(***************************************************************************)
(* A small landing bucket for Dp2Pipeline: one session, and one of a user  *)
(* who is delivered late.                                                  *)
(***************************************************************************)
EXTENDS Dp2Pipeline

LOCAL V(key, at) ==
  [key |-> key, at |-> at, state |-> 1, valid |-> TRUE, schema |-> 1,
   ingested |-> 0, source |-> 0]

LOCAL E(event, session, user, at) ==
  [event |-> event, session |-> session, user |-> user, content |-> 1, at |-> at,
   watch |-> event, completes |-> FALSE, valid |-> TRUE, schema |-> 1,
   ingested |-> 0, source |-> 0]

FirstObjects ==
  [users |-> {V(1, 2)}, subscriptions |-> {V(1, 2)}, content |-> {V(1, 2)},
   events |-> {E(2, 1, 1, 3)}]

NewSession == [FirstObjects EXCEPT !.events = @ \cup {E(3, 2, 2, 3)}]
LateUser   == [NewSession EXCEPT !.users = @ \cup {V(2, 2)}]

\* Before and after a first run of DP1.
EmptyOrFirst == {NoRows, FirstObjects}
=============================================================================
