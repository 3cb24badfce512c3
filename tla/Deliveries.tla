----------------------------- MODULE Deliveries -----------------------------
(***************************************************************************)
(* The recurring deliveries of the generator, one entity of each dataset   *)
(* at a time: entities do not depend on each other.  Every delivery is a   *)
(* full snapshot made again from the seeds.  p is a configuration, a list  *)
(* of deliveries [at, schema]; w is what the seeds draw: the base values,  *)
(* and the changes and the score of each schema version.                   *)
(***************************************************************************)
EXTENDS Warehouse

CONSTANT Introduced  \* schema_evolution.introduced_schema_version

ASSUME IntroducedAssumption == Introduced \in Nat /\ Introduced >= 2

Schemas(p) == {p[d].schema : d \in DOMAIN p}

\* What validate_batch_scenario asks, and what the configurations have: later
\* deliveries have later times and no older schema.
IsConfiguration(p) ==
  /\ {1, Introduced} \subseteq Schemas(p)
  /\ \A d, e \in DOMAIN p : d < e => p[d].at < p[e].at /\ p[d].schema <= p[e].schema

\* change_rng is seeded by the schema version alone.
Changed(p, w, dataset, d) == p[d].schema > 1 /\ w.changed[dataset][p[d].schema]

FirstTimestamp(p) == Min({p[d].at : d \in DOMAIN p})

\* Mutant: the time of the record does not move with its change.
UpdatedAtFirst(p, w, dataset, d) == FirstTimestamp(p)

\* source_updated_timestamp
UpdatedAt(p, w, dataset, d) ==
  IF Changed(p, w, dataset, d) THEN p[d].at ELSE FirstTimestamp(p)

\* marketing_opt_in is flipped, and the language with it.
UserState(p, w, d) == IF Changed(p, w, "users", d) THEN 3 - w.optIn ELSE w.optIn

\* basic, standard and premium, which stays.
Tier(p, w, d) ==
  IF Changed(p, w, "subscriptions", d) /\ w.tier < 3 THEN w.tier + 1 ELSE w.tier

\* offset is the position of the content in its file; a null score is Nothing.
Available(p, w, d) == ~(Changed(p, w, "content", d) /\ w.offset % 5 = 0)
CriticScore(p, w, d) == IF p[d].schema >= Introduced THEN w.score[p[d].schema] ELSE Nothing

\* One number for an availability and a score.
ContentState(p, w, d) == 2 * CriticScore(p, w, d) + (IF Available(p, w, d) THEN 1 ELSE 2)

\* The rows of a delivery, read by the DP1 run w.run[d].
Snapshot(p, w, d) ==
  LET Row(dataset, state) ==
        [key |-> 1, at |-> UpdatedAt(p, w, dataset, d), state |-> state, valid |-> TRUE,
         schema |-> p[d].schema, ingested |-> w.run[d], source |-> d]
  IN  [at            |-> p[d].at,
       users         |-> Row("users", UserState(p, w, d)),
       subscriptions |-> Row("subscriptions", Tier(p, w, d)),
       content       |-> Row("content", ContentState(p, w, d))]

RecurringObjects(p, w) == [d \in DOMAIN p |-> Snapshot(p, w, d)]
=============================================================================
