------------------------------ MODULE MCRebuild ------------------------------
(***************************************************************************)
(* Small landing buckets for Rebuild.  Hours of two ticks, days of two     *)
(* hours.                                                                  *)
(***************************************************************************)
EXTENDS Rebuild

LOCAL V(key, at, state, schema, ingested) ==
  [key |-> key, at |-> at, state |-> state, valid |-> TRUE, schema |-> schema,
   ingested |-> ingested, source |-> ingested]
LOCAL Invalid(row) == [row EXCEPT !.valid = FALSE]

LOCAL E(event, session, user, at, watch, ingested) ==
  [event |-> event, session |-> session, user |-> user, content |-> 1, at |-> at,
   watch |-> watch, completes |-> FALSE, valid |-> TRUE, schema |-> 1,
   ingested |-> ingested, source |-> ingested]

\* A user and a subscription that change, one of them back, around two sessions,
\* the first of them before any delivery.
Histories ==
  {[users |-> {V(1, 2, 1, 1, 1), V(1, 4, 1, 2, 2), V(1, 6, 2, 3, 1), V(1, 8, 1, 4, 1)},
    subscriptions |-> {V(1, 1, 1, 1, 1), V(1, 5, 2, 2, 1), Invalid(V(1, 5, 3, 3, 1))},
    content |-> {V(1, 3, 9, 1, 1)},
    events |-> {E(1, 1, 1, 1, 4, 1), E(2, 2, 1, 6, 9, 1)},
    deliveries |-> <<>>]}

\* The same rows read by two runs, and a second schema version of some.
Reingested ==
  {[users |-> {V(1, 2, 1, 1, 1), V(1, 2, 1, 1, 2)},
    subscriptions |-> {V(1, 2, 1, 1, 1), V(1, 2, 1, 1, 2)},
    content |-> {V(1, 2, 9, 1, 1), V(1, 2, 9, 1, 2), V(1, 2, 8, 2, 1),
                 Invalid(V(1, 2, 0, 3, 1))},
    events |-> {E(1, 1, 1, 3, 0, 1), E(1, 1, 1, 3, 0, 2), E(2, 1, 1, 5, 8, 1)},
    deliveries |-> <<>>]}

\* Two users, and sessions in four hours of three days.
Busy ==
  {[users |-> {V(1, 2, 1, 1, 1), V(2, 6, 1, 1, 1)},
    subscriptions |-> {},
    content |-> {V(1, 2, 5, 1, 1), V(1, 7, 4, 2, 1)},
    events |-> {E(1, 1, 1, 1, 1, 1), E(2, 1, 1, 2, 4, 1), E(3, 2, 2, 3, 2, 1),
                E(4, 3, 1, 5, 3, 1), E(5, 4, 2, 8, 5, 1), E(6, 5, 1, 4, 1, 1)},
    deliveries |-> <<>>]}

LOCAL Landing(objects) ==
  [users         |-> {objects[d].users : d \in DOMAIN objects},
   subscriptions |-> {objects[d].subscriptions : d \in DOMAIN objects},
   content       |-> {objects[d].content : d \in DOMAIN objects},
   events        |-> {}, deliveries |-> objects]

\* The committed configuration, and one whose second schema version is delivered
\* twice; DP1 reads the deliveries in order or the newest first.
LOCAL D(at, schema) == [at |-> at, schema |-> schema]
LOCAL Configurations == {<<D(2, 1), D(4, 2)>>, <<D(2, 1), D(4, 2), D(6, 2)>>}
LOCAL Orders(p) == {[d \in DOMAIN p |-> d], [d \in DOMAIN p |-> Max(DOMAIN p) + 1 - d]}

\* Draws that differ for the user, or for the content.
LOCAL Changes(users, subscriptions, content) ==
  [users |-> [s \in 1 .. 2 |-> users], subscriptions |-> [s \in 1 .. 2 |-> subscriptions],
   content |-> [s \in 1 .. 2 |-> content]]
LOCAL Draw(changed, score, tier, offset, run) ==
  [changed |-> changed, score |-> [s \in 1 .. 2 |-> score], optIn |-> 1, tier |-> tier,
   offset |-> offset, run |-> run]
LOCAL Draws(p) ==
  {Draw(Changes(u, s, FALSE), 0, tier, 6, run) :
     u \in BOOLEAN, s \in BOOLEAN, tier \in 1 .. 3, run \in Orders(p)}
  \cup {Draw(Changes(FALSE, FALSE, c), score, 1, offset, run) :
     c \in BOOLEAN, score \in 0 .. 2, offset \in {5, 6}, run \in Orders(p)}

Recurring ==
  {Landing(RecurringObjects(p, w)) : <<p, w>> \in
     UNION {{p} \X Draws(p) : p \in Configurations}}

Everything == Histories \cup Reingested \cup Busy \cup Recurring

ASSUME SessionsAreDrawn

ASSUME \A p \in Configurations : \A w \in Draws(p) :
         IsRecurring(Landing(RecurringObjects(p, w)), p, w)
=============================================================================
