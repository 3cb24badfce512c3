------------------------------ MODULE Warehouse ------------------------------
(***************************************************************************)
(* What DP2 and the dbt models compute: Silver from Bronze, Gold from      *)
(* Silver, offline features and the serving copy from Gold.  Every table   *)
(* is a set of records and every model an operator from tables to a table. *)
(* Time is counted in ticks, Hour of them to an hour, DayHours hours to a  *)
(* day; windows of n days keep their n.                                    *)
(***************************************************************************)
EXTENDS Integers, FiniteSets, FiniteSetsExt

CONSTANTS
  Hour,                 \* ticks of an hour
  DayHours,             \* hours of a day, 24
  WeekDays, MonthDays,  \* the 7 and 30 days of the features
  CompletionPercent,    \* completion_threshold
  EndOfTime             \* 9999-12-31, the end of a current version

ASSUME ClockAssumption ==
  /\ {Hour, DayHours, WeekDays, MonthDays, EndOfTime} \subseteq Nat \ {0}
  /\ CompletionPercent \in 1 .. 100

\* A Bronze row of users, subscriptions or content: key identifies the entity,
\* at is source_updated_timestamp, state the tracked attributes (of content, its
\* runtime), valid what the filters of DP2 ask.  source stands for the order of
\* _ingestion_id and _record_hash.
Version == [key : Nat, at : Nat, state : Nat, valid : BOOLEAN,
            schema : Nat, ingested : Nat, source : Nat]

\* A Bronze row of playback events.
Event == [event : Nat, session : Nat, user : Nat, content : Nat, at : Nat,
          watch : Nat, completes : BOOLEAN, valid : BOOLEAN,
          schema : Nat, ingested : Nat, source : Nat]

Nothing == 0          \* SQL NULL for a state
NoKey   == <<>>       \* SQL NULL for a surrogate key

HourOf(time) == time \div Hour
DayOf(time)  == HourOf(time) \div DayHours

-----------------------------------------------------------------------------
(* DP2: Bronze to Silver *)

\* Mutant: the ingestion time is compared before the schema version.
SupersedesByTime(a, b) ==
  \/ a.ingested > b.ingested
  \/ a.ingested = b.ingested /\ a.schema > b.schema
  \/ a.ingested = b.ingested /\ a.schema = b.schema /\ a.source > b.source

\* _schema_version, _ingested_at, _ingestion_id, _record_hash, all descending.
Supersedes(a, b) ==
  \/ a.schema > b.schema
  \/ a.schema = b.schema /\ a.ingested > b.ingested
  \/ a.schema = b.schema /\ a.ingested = b.ingested /\ a.source > b.source

Newest(rows) == CHOOSE r \in rows : \A o \in rows \ {r} : ~Supersedes(o, r)

\* The keys each table is deduplicated by.
VersionKey(r)  == <<r.key, r.at>>
BusinessKey(r) == IF "event" \in DOMAIN r THEN r.event ELSE VersionKey(r)

Deduplicate(rows) ==
  {Newest({o \in rows : BusinessKey(o) = k}) : k \in {BusinessKey(r) : r \in rows}}

Valid(rows) == {r \in rows : r.valid}

StageUsers(rows)         == Deduplicate(rows)
StageSubscriptions(rows) == Deduplicate(Valid(rows))

\* Mutant: rows are filtered after the newest one was selected.
StageContentFilteringLast(rows) == Valid(Deduplicate(rows))

StageContent(rows) == Deduplicate(Valid(rows))

StageEvents(rows)  == Deduplicate(Valid(rows))

Latest(versions) == CHOOSE v \in versions : \A o \in versions : o.at <= v.at

\* The runtime of the current version; 0, which completes nothing, without one.
Runtime(content, id) ==
  LET versions == {v \in content : v.key = id}
  IN  IF versions = {} THEN 0 ELSE Latest(versions).state

\* One row per session, user and content.
BuildSessions(events, content) ==
  LET Session(group) ==
        LET e       == CHOOSE e \in group : TRUE
            watch   == Max({x.watch : x \in group})
            runtime == Runtime(content, e.content)
        IN  [session |-> e.session, user |-> e.user, content |-> e.content,
             started |-> Min({x.at : x \in group}),
             ended   |-> Max({x.at : x \in group}),
             watch   |-> watch,
             completed |-> \/ \E x \in group : x.completes
                           \/ runtime > 0 /\ watch * 100 >= CompletionPercent * runtime,
             events  |-> Cardinality(group)]
      Grain(e) == <<e.session, e.user, e.content>>
  IN  {Session({e \in events : Grain(e) = g}) : g \in {Grain(e) : e \in events}}

-----------------------------------------------------------------------------
(* dbt: histories and dimensions *)

AsOf(rows, key, time) == {r \in rows : r.key = key /\ r.at <= time}

\* int_user_timeline: at each change of a user or its subscription, the latest
\* profile and, if there is one, the latest subscription.
UserTimeline(users, subscriptions) ==
  LET Resolved(u, t) ==
        LET profile == Latest(AsOf(users, u, t))
            plans   == AsOf(subscriptions, u, t)
            plan    == IF plans = {} THEN Nothing ELSE Latest(plans).state
            seen    == {profile.ingested}
                         \cup IF plans = {} THEN {} ELSE {Latest(plans).ingested}
        IN  [key |-> u, at |-> t, state |-> <<profile.state, plan>>, created |-> Max(seen)]
      changes == {VersionKey(r) : r \in users \cup subscriptions}
  IN  {Resolved(c[1], c[2]) : c \in {x \in changes : AsOf(users, x[1], x[2]) # {}}}

ContentTimeline(content) ==
  {[key |-> v.key, at |-> v.at, state |-> <<v.state>>, created |-> v.ingested] : v \in content}

\* int_dim_*_history: versions that repeat the state before them are dropped.
ChangesOnly(history) ==
  {v \in history :
     LET before == {o \in history : o.key = v.key /\ o.at < v.at}
     IN  before = {} \/ Latest(before).state # v.state}

\* Mutant: every version is taken back to the first playback.
DimensionBackdatingAll(history, plays) ==
  LET Next(v)  == {o.at : o \in {x \in history : x.key = v.key /\ x.at > v.at}}
      From(v)  == Min({v.at} \cup {p.at : p \in {x \in plays : x.key = v.key}})
  IN  {[key |-> v.key, state |-> v.state, from |-> From(v),
        to |-> IF Next(v) = {} THEN EndOfTime ELSE Min(Next(v)),
        created |-> v.created] : v \in history}

\* dim_user, dim_content: the first version reaches back to the first playback,
\* each version ends where the next one starts.
Dimension(history, plays) ==
  LET Next(v)  == {o.at : o \in {x \in history : x.key = v.key /\ x.at > v.at}}
      First(v) == \A o \in history : o.key = v.key => v.at <= o.at
      From(v)  == IF First(v)
                  THEN Min({v.at} \cup {p.at : p \in {x \in plays : x.key = v.key}})
                  ELSE v.at
  IN  {[key |-> v.key, state |-> v.state, from |-> From(v),
        to |-> IF Next(v) = {} THEN EndOfTime ELSE Min(Next(v)),
        created |-> v.created] : v \in history}

DimUser(users, subscriptions, sessions) ==
  Dimension(ChangesOnly(UserTimeline(users, subscriptions)),
            {[key |-> s.user, at |-> s.started] : s \in sessions})

DimContent(content, sessions) ==
  Dimension(ChangesOnly(ContentTimeline(content)),
            {[key |-> s.content, at |-> s.started] : s \in sessions})

-----------------------------------------------------------------------------
(* dbt: fact and rollups *)

\* Mutant: a version is valid at both of its ends.
ValidAtClosed(dimension, key, time) ==
  {v \in dimension : v.key = key /\ v.from <= time /\ time <= v.to}

ValidAt(dimension, key, time) ==
  {v \in dimension : v.key = key /\ v.from <= time /\ time < v.to}

\* The surrogate keys a left join finds; NULL when there is none.
SurrogateKeys(dimension, key, time) ==
  LET found == ValidAt(dimension, key, time)
  IN  IF found = {} THEN {NoKey} ELSE {<<v.key, v.from>> : v \in found}

Facts(sessions, dimUser, dimContent) ==
  UNION {{[play |-> s, userSk |-> u, contentSk |-> c] :
            u \in SurrogateKeys(dimUser, s.user, s.started),
            c \in SurrogateKeys(dimContent, s.content, s.started)} : s \in sessions}

Keys(dimension) == {<<v.key, v.from>> : v \in dimension}

\* The inner joins of the rollups with both dimensions.
Resolved(facts) == {f \in facts : f.userSk # NoKey /\ f.contentSk # NoKey}

Watch(facts)     == MapThenSumSet(LAMBDA f : f.play.watch, facts)
Completed(facts) == Cardinality({f \in facts : f.play.completed})
Viewers(facts)   == {f.play.user : f \in facts}

\* obt_user_content_engagement: per user, content and day.
Engagement(facts) ==
  LET joined   == Resolved(facts)
      Grain(f) == <<f.play.user, f.play.content, DayOf(f.play.started)>>
      Rollup(g) ==
        LET group == {f \in joined : Grain(f) = g}
        IN  [user |-> g[1], content |-> g[2], day |-> g[3], plays |-> Cardinality(group),
             completed |-> Completed(group), watch |-> Watch(group)]
  IN  {Rollup(g) : g \in {Grain(f) : f \in joined}}

Score(row) == 3600 * (row.plays + 2 * row.completed) + row.watch

\* mart_content_trending: per content and hour, ranked within the hour.
Trending(facts) ==
  LET joined   == Resolved(facts)
      Grain(f) == <<HourOf(f.play.started), f.play.content>>
      Rollup(g) ==
        LET group == {f \in joined : Grain(f) = g}
        IN  [window |-> g[1], content |-> g[2], plays |-> Cardinality(group),
             viewers |-> Cardinality(Viewers(group)),
             completed |-> Completed(group), watch |-> Watch(group)]
  IN  {Rollup(g) : g \in {Grain(f) : f \in joined}}

Rank(row, mart) ==
  1 + Cardinality({o \in mart : o.window = row.window
                     /\ \/ Score(o) > Score(row)
                        \/ Score(o) = Score(row) /\ o.content < row.content})

-----------------------------------------------------------------------------
(* dbt: features and the serving copy *)

PlaysIn(rows)     == MapThenSumSet(LAMBDA r : r.plays, rows)
CompletedIn(rows) == MapThenSumSet(LAMBDA r : r.completed, rows)
WatchIn(rows)     == MapThenSumSet(LAMBDA r : r.watch, rows)

\* Mutant: the window is shifted by an hour.
HoursAround(mart, a, hours) ==
  {r \in mart : r.content = a.content /\ r.window \in a.window - hours + 2 .. a.window + 1}

\* The rows of one content in the hours up to that of row a.
HoursUntil(mart, a, hours) ==
  {r \in mart : r.content = a.content /\ r.window \in a.window - hours + 1 .. a.window}

\* feat_content_popularity: one row per row of the mart, at the end of its hour,
\* if a fact of its last 24 hours resolves in the dimensions as they are now.
ContentFeatures(mart, facts, users, content) ==
  LET Before(a, hours) == HoursUntil(mart, a, hours)
      End(a)   == (a.window + 1) * Hour
      sessions == {f \in facts : f.userSk \in Keys(users) /\ f.contentSk \in Keys(content)}
      Seen(a)  == {f \in sessions :
                     /\ f.play.content = a.content
                     /\ f.play.started \in End(a) - DayHours * Hour .. End(a) - 1}
  IN  {[content |-> a.content, time |-> End(a),
        plays1h   |-> PlaysIn(Before(a, 1)),
        plays24h  |-> PlaysIn(Before(a, DayHours)),
        viewers24h |-> Cardinality(Viewers(Seen(a))),
        completion7d |-> <<CompletedIn(Before(a, WeekDays * DayHours)),
                           PlaysIn(Before(a, WeekDays * DayHours))>>,
        score24h  |-> MapThenSumSet(Score, Before(a, DayHours))]
         : a \in {m \in mart : Seen(m) # {}}}

\* feat_user_engagement: one row per user and active day, at the end of the day.
UserFeatures(engagement) ==
  LET Before(a, days) == {r \in engagement : r.user = a[1] /\ r.day \in a[2] - days + 1 .. a[2]}
  IN  {[user |-> a[1], time |-> (a[2] + 1) * DayHours * Hour,
        watch24h |-> WatchIn(Before(a, 1)),
        watch7d  |-> WatchIn(Before(a, WeekDays)),
        plays7d  |-> PlaysIn(Before(a, WeekDays)),
        completed30d |-> CompletedIn(Before(a, MonthDays)),
        contents30d  |-> Cardinality({r.content : r \in Before(a, MonthDays)})]
         : a \in {<<r.user, r.day>> : r \in engagement}}

\* publish_mart_content_trending, delete and insert by window and content.
MartKey(row) == <<row.window, row.content>>

\* Mutant: rows are appended, as by the strategy append.
UnpublishNothing(serving, mart) == serving

Unpublish(serving, mart) ==
  {r \in serving : MartKey(r) \notin {MartKey(m) : m \in mart}}
=============================================================================
