------------------------------- MODULE Rebuild -------------------------------
(***************************************************************************)
(* Silver, Gold and the features as functions of Bronze.  Rows arrive in   *)
(* Bronze in any order and any number of them may be missing when the      *)
(* tables are rebuilt: every state is a Bronze that DP2 and dbt may find.  *)
(* The properties compare what they build with what the source rows say.   *)
(***************************************************************************)
EXTENDS Deliveries

CONSTANTS
  Landings,  \* the source rows to explore, and the deliveries they come from, if any
  LastTime   \* times are 0..LastTime

\* Two rows with one business key and schema version are copies of each other,
\* see DuplicateInjector: they differ in when and whence they were ingested.
Copies(rows) ==
  \A a, b \in rows : BusinessKey(a) = BusinessKey(b) /\ a.schema = b.schema =>
    b = [a EXCEPT !.ingested = b.ingested, !.source = b.source]

\* Finitely many rows of a kind.
IsSource(rows, Kind) ==
  /\ IsFiniteSet(rows) /\ Copies(rows)
  /\ \A r \in rows : r \in Kind /\ r.at <= LastTime

ASSUME LandingsAssumption ==
  /\ LastTime \in Nat /\ LastTime < EndOfTime
  /\ \A l \in Landings :
       /\ \A table \in {l.users, l.subscriptions, l.content} : IsSource(table, Version)
       /\ IsSource(l.events, Event)
       /\ \A d \in DOMAIN l.deliveries : \A dataset \in {"users", "subscriptions", "content"} :
            l.deliveries[d][dataset] \in l[dataset]

\* What both generators write: session_entities draws the user and the content of an
\* event from its session, and payload_schema_version is always 1.
SessionsAreDrawn ==
  \A l \in Landings : \A a, b \in Valid(l.events) :
    /\ a.schema = b.schema
    /\ a.session = b.session => a.user = b.user /\ a.content = b.content

\* Landing l holds what the recurring deliveries of configuration p write for draws w.
\* Like the configurations there are, p has no other schema versions than the two it
\* must have: the change of a version is drawn whatever the versions before it drew.
IsRecurring(l, p, w) ==
  /\ IsFiniteSet(DOMAIN p) /\ DOMAIN p \subseteq Nat
  /\ \A d \in DOMAIN p : p[d].at \in 0 .. LastTime /\ p[d].schema \in {1, Introduced}
  /\ IsConfiguration(p)
  /\ l.deliveries = RecurringObjects(p, w)
  /\ \A dataset \in {"users", "subscriptions", "content"} :
       l[dataset] = {l.deliveries[d][dataset] : d \in DOMAIN p}

VARIABLES
  landing,  \* the source rows of this behaviour
  bronze    \* those DP1 has appended

vars == <<landing, bronze>>

Init ==
  /\ landing \in Landings
  /\ bronze = [users |-> {}, subscriptions |-> {}, content |-> {}, events |-> {}]

Append(dataset) ==
  /\ \E row \in landing[dataset] \ bronze[dataset] :
       bronze' = [bronze EXCEPT ![dataset] = @ \cup {row}]
  /\ UNCHANGED landing

Next == \E dataset \in DOMAIN bronze : Append(dataset)

Spec == Init /\ [][Next]_vars

-----------------------------------------------------------------------------
(* The tables built from Bronze tables b. *)

Silver(b) ==
  LET events  == StageEvents(b.events)
      content == StageContent(b.content)
  IN  [users |-> StageUsers(b.users), subscriptions |-> StageSubscriptions(b.subscriptions),
       content |-> content, events |-> events, sessions |-> BuildSessions(events, content)]

\* Gold from Silver tables s.
Gold(s) ==
  LET users   == DimUser(s.users, s.subscriptions, s.sessions)
      content == DimContent(s.content, s.sessions)
      facts   == Facts(s.sessions, users, content)
  IN  [users |-> users, content |-> content, facts |-> facts,
       engagement |-> Engagement(facts), trending |-> Trending(facts)]

\* Of a dimension, what does not say when it was ingested.
Undated(dimension) == {[v EXCEPT !.created = 0] : v \in dimension}

-----------------------------------------------------------------------------
(* Properties *)

Times == 0 .. LastTime

\* Reference: the state a source says an entity had, from the raw rows.
Said(rows, key, time) ==
  LET known == {r \in rows : r.key = key /\ r.at <= time}
      best  == {r \in known : \A o \in known \ {r} :
                  o.at < r.at \/ (o.at = r.at /\ ~Supersedes(o, r))}
  IN  {r.state : r \in best}

SaidOrNull(rows, key, time) ==
  IF Said(rows, key, time) = {} THEN {Nothing} ELSE Said(rows, key, time)

\* From the first profile of a user on, exactly one version of dim_user is valid
\* at any time, with the profile and the subscription the sources gave for it.
UserHistoryIsAsOf ==
  LET silver == Silver(bronze)
      gold   == Gold(silver)
  IN  \A u \in {r.key : r \in bronze.users} : \A t \in Times :
        Said(bronze.users, u, t) # {} =>
          LET valid == ValidAt(gold.users, u, t)
          IN  /\ Cardinality(valid) = 1
              /\ {v.state : v \in valid} =
                   Said(bronze.users, u, t)
                     \X SaidOrNull(Valid(bronze.subscriptions), u, t)

\* "allowing every fact row to resolve a time-valid dimension key": a session is
\* one fact row, and once its user and its content are known, also when both
\* were delivered after it was played, the row resolves to both.
EveryFactResolves ==
  LET silver == Silver(bronze)
      gold   == Gold(silver)
  IN  \A s \in silver.sessions :
        LET rows == {f \in gold.facts : f.play = s}
        IN  /\ Cardinality(rows) = 1
            /\ \A f \in rows :
                 /\ f.userSk # NoKey    <=> \E r \in bronze.users : r.key = s.user
                 /\ f.contentSk # NoKey <=> \E r \in Valid(bronze.content) : r.key = s.content

\* The events of the users and the content that Bronze b knows.
PlaysOfKnown(b) ==
  {e \in Valid(b.events) : /\ \E r \in b.users : r.key = e.user
                           /\ \E r \in Valid(b.content) : r.key = e.content}

LongestWatch(events, session) == Max({e.watch : e \in {x \in events : x.session = session}})

LongestWatches(events) ==
  MapThenSumSet(LAMBDA session : LongestWatch(events, session), {e.session : e \in events})

\* assert_gold_rollup_totals, from the sources: each rollup counts each session
\* with a known user and content once, with the longest watch time it reported.
RollupsKeepTotals ==
  LET gold  == Gold(Silver(bronze))
      known == PlaysOfKnown(bronze)
  IN  \A rollup \in {gold.engagement, gold.trending} :
        /\ PlaysIn(rollup) = Cardinality({e.session : e \in known})
        /\ WatchIn(rollup) = LongestWatches(known)

\* A row ingested by another run is no other row: Gold depends on what the
\* sources say, not on which DP1 runs read it how often or in which order.
ReingestionChangesNothing ==
  LET Once(rows) == {[r EXCEPT !.ingested = 1, !.source = 1] : r \in rows}
      gold == Gold(Silver(bronze))
      once == Gold(Silver([d \in DOMAIN bronze |-> Once(bronze[d])]))
  IN  /\ gold.facts = once.facts /\ gold.trending = once.trending
      /\ Undated(gold.users) = Undated(once.users)
      /\ Undated(gold.content) = Undated(once.content)

\* The deliveries whose row of a dataset is in Bronze.
Ingested(dataset) ==
  {d \in DOMAIN landing.deliveries : landing.deliveries[d][dataset] \in bronze[dataset]}

\* "Earlier deliveries remain available so later processing can derive source
\* history and SCD Type 2 dimensions": whatever the order in which DP1 ran on the
\* deliveries, the user history says at the time of each what it said, and the
\* current version of the content is that of the newest delivery in Bronze.
HistoryIsDeliveries ==
  LET gold == Gold(Silver(bronze))
      Delivered(d) == landing.deliveries[d]
      Current == {v.state : v \in {x \in gold.content : x.to = EndOfTime}}
  IN  /\ \A d \in Ingested("users") \cap Ingested("subscriptions") :
           {v.state : v \in ValidAt(gold.users, 1, Delivered(d).at)} =
             {<<Delivered(d).users.state, Delivered(d).subscriptions.state>>}
      /\ Ingested("content") # {} =>
           Current = {<<Delivered(Max(Ingested("content"))).content.state>>}

\* A feature row is computed from the sessions that started before its time:
\* the sessions after it never change it.
FeaturesArePointInTime ==
  LET silver == Silver(bronze)
      gold   == Gold(silver)
      Until(time) == Gold([silver EXCEPT !.sessions = {s \in @ : s.started < time}])
      Popularity(g) == ContentFeatures(g.trending, g.facts, g.users, g.content)
  IN  /\ \A f \in Popularity(gold) : f \in Popularity(Until(f.time))
      /\ \A f \in UserFeatures(gold.engagement) :
           f \in UserFeatures(Until(f.time).engagement)
=============================================================================
