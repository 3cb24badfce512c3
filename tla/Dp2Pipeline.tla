----------------------------- MODULE Dp2Pipeline -----------------------------
(***************************************************************************)
(* The DAG dp2_bronze_to_gold, run while DP1 appends to Bronze: the DP2    *)
(* driver reads four Bronze tables and replaces five Silver tables one by  *)
(* one; dbt rebuilds the Gold tables and publishes the trending mart to    *)
(* PostgreSQL; then Silver and Gold are validated.  The DAG                *)
(* dp3_offline_features rebuilds the features from Gold, whatever dp2 is   *)
(* doing.  Any task may fail at any of its steps and is retried from the   *)
(* first one.                                                              *)
(***************************************************************************)
EXTENDS Warehouse, Sequences

CONSTANTS
  Rows,        \* source rows: a function from dataset to rows
  Delivered,   \* those in the landing bucket at the start
  Starts,      \* Bronze tables to start with, of which DP2 has run once
  Retries,     \* pipeline_retries
  MaxIngests,  \* bound: DP1 runs
  MaxDp2Runs,  \* bound: runs of dp2_bronze_to_gold
  MaxDp3Runs   \* bound: runs of dp3_offline_features

\* The order in which DP1 appends and DP2 reads.
Datasets     == <<"users", "subscriptions", "content", "events">>
SilverTables == <<"users", "subscriptions", "content", "events", "sessions">>
Dp2Tasks     == <<"bronze_to_silver", "gold_and_serving", "silver_quality",
                  "gold_and_serving_tests">>
Dp3Tasks     == <<"compute_offline_features", "feature_contract_tests">>

\* Mutant: mart_content_trending names the table of the facts instead of the model.
RefsWithTableName ==
  [users |-> {}, content |-> {}, facts |-> {"users", "content"},
   engagement |-> {"facts"}, trending |-> {"users", "content"},
   delete |-> {"trending"}, insert |-> {"delete"}]

\* The dbt models of dp2 and the models each of them refers to.  The incremental
\* publication is two statements, each committed by itself.
Refs == [users |-> {}, content |-> {}, facts |-> {"users", "content"},
         engagement |-> {"facts"}, trending |-> {"facts"},
         delete |-> {"trending"}, insert |-> {"delete"}]

Features == {"engagement", "popularity"}

ASSUME BoundsAssumption ==
  {Retries, MaxIngests, MaxDp2Runs, MaxDp3Runs} \subseteq Nat

ASSUME TablesAssumption ==
  \A tables \in {Delivered} \cup Starts :
    /\ DOMAIN tables = {Datasets[i] : i \in 1 .. 4}
    /\ \A d \in DOMAIN tables : IsFiniteSet(tables[d])

VARIABLES
  landing,  \* delivered rows of each dataset
  bronze,   \* [dataset -> rows]
  dp1,      \* the DP1 run in progress: at is the dataset it appends next, or 0
  inputs,   \* Bronze as the DP2 driver has read it
  silver,   \* [table -> rows]
  gold,     \* the dbt tables
  serving,  \* mart_content_trending in PostgreSQL
  features, \* [model -> rows]
  dp2, dp3, \* the DAG runs: state, task, attempt of the task; the step of the
            \* attempt or, under dbt, the models it has built
  calm      \* no Gold table was replaced since dp3 began to compute

vars == <<landing, bronze, dp1, inputs, silver, gold, serving, features, dp2, dp3, calm>>
sources == <<landing, bronze, dp1>>
offline == <<features, dp3, calm>>

NoRows == [d \in {Datasets[i] : i \in 1 .. 4} |-> {}]
NoRun  == [state |-> "none", runs |-> 0, task |-> 1, tries |-> 0, step |-> 0, built |-> {}]

\* transform, on the tables read.
Transformed(tables) ==
  LET events  == StageEvents(tables.events)
      content == StageContent(tables.content)
  IN  [users |-> StageUsers(tables.users),
       subscriptions |-> StageSubscriptions(tables.subscriptions),
       content |-> content, events |-> events, sessions |-> BuildSessions(events, content)]

\* dbt's tables, from Silver tables s and the Gold tables g they refer to.
Table(model, s, g) ==
  CASE model = "users"      -> DimUser(s.users, s.subscriptions, s.sessions)
    [] model = "content"    -> DimContent(s.content, s.sessions)
    [] model = "facts"      -> Facts(s.sessions, g.users, g.content)
    [] model = "engagement" -> Engagement(g.facts)
    [] model = "trending"   -> Trending(g.facts)

GoldOf(s) ==
  LET users   == Table("users", s, {})
      content == Table("content", s, {})
      facts   == Table("facts", s, [users |-> users, content |-> content])
      Rollup(m) == Table(m, s, [facts |-> facts])
  IN  [users |-> users, content |-> content, facts |-> facts,
       engagement |-> Rollup("engagement"), trending |-> Rollup("trending")]

Init ==
  /\ landing = Delivered /\ bronze \in Starts
  /\ dp1 = [at |-> 0, rows |-> NoRows, run |-> 0]
  /\ inputs = bronze
  /\ silver = Transformed(inputs)
  /\ gold = GoldOf(silver)
  /\ serving = gold.trending
  /\ features = [f \in Features |-> {}]
  /\ dp2 = NoRun /\ dp3 = NoRun /\ calm = FALSE

-----------------------------------------------------------------------------
(* Landing and DP1, see Dp1Ingest for its steps. *)

Deliver ==
  /\ \E d \in DOMAIN landing : \E row \in Rows[d] \ landing[d] :
       landing' = [landing EXCEPT ![d] = @ \cup {row}]
  /\ UNCHANGED <<bronze, dp1, inputs, silver, gold, serving, dp2, offline>>

Dp1Start ==
  /\ dp1.at = 0 /\ dp1.run < MaxIngests
  /\ \A d \in DOMAIN landing : landing[d] # {}
  /\ dp1' = [at |-> 1, rows |-> landing, run |-> dp1.run + 1]
  /\ UNCHANGED <<landing, bronze, inputs, silver, gold, serving, dp2, offline>>

\* Every row is appended again by every run, with the run's _ingested_at.
Dp1Append ==
  /\ dp1.at \in 1 .. 4
  /\ LET d == Datasets[dp1.at]
     IN  bronze' = [bronze EXCEPT
           ![d] = @ \cup {[row EXCEPT !.ingested = dp1.run] : row \in dp1.rows[d]}]
  /\ dp1' = [dp1 EXCEPT !.at = IF @ = 4 THEN 0 ELSE @ + 1]
  /\ UNCHANGED <<landing, inputs, silver, gold, serving, dp2, offline>>

Dp1Dies ==
  /\ dp1.at # 0
  /\ dp1' = [dp1 EXCEPT !.at = 0]
  /\ UNCHANGED <<landing, bronze, inputs, silver, gold, serving, dp2, offline>>

-----------------------------------------------------------------------------
(* Airflow.  Both DAGs have max_active_runs = 1; nothing orders a run of one  *)
(* against a run of the other.                                                *)

Started(run) ==
  [state |-> "running", runs |-> run.runs + 1, task |-> 1, tries |-> 0, step |-> 0, built |-> {}]

\* The DAG run goes on to its next task.
Finished(run, tasks) ==
  IF run.task = Len(tasks) THEN [run EXCEPT !.state = "success"]
  ELSE [run EXCEPT !.task = @ + 1, !.tries = 0, !.step = 0, !.built = {}]

\* Mutant: the second task starts when the first is done, whatever its state.
RetriedOrAllDone(run) ==
  IF run.tries < Retries THEN [run EXCEPT !.tries = @ + 1, !.step = 0, !.built = {}]
  ELSE IF run.task > 1 THEN [run EXCEPT !.state = "failed"]
  ELSE [run EXCEPT !.task = 2, !.tries = 0, !.step = 0, !.built = {}]

\* up_for_retry, from the first step of the task, or failed.
Retried(run) ==
  IF run.tries < Retries THEN [run EXCEPT !.tries = @ + 1, !.step = 0, !.built = {}]
  ELSE [run EXCEPT !.state = "failed"]

Dp2At(task) == dp2.state = "running" /\ Dp2Tasks[dp2.task] = task
Dp3At(task) == dp3.state = "running" /\ Dp3Tasks[dp3.task] = task

TriggerDp2 ==
  /\ dp2.state # "running" /\ dp2.runs < MaxDp2Runs
  /\ dp2' = Started(dp2)
  /\ UNCHANGED <<sources, inputs, silver, gold, serving, offline>>

TriggerDp3 ==
  /\ dp3.state # "running" /\ dp3.runs < MaxDp3Runs
  /\ dp3' = Started(dp3)
  /\ UNCHANGED <<sources, inputs, silver, gold, serving, features, calm, dp2>>

\* A driver, a container or a service dies; of dbt, a model fails, those that
\* refer to it are skipped and the others are built.
FailDp2 ==
  /\ dp2.state = "running"
  /\ dp2' = Retried(dp2)
  /\ UNCHANGED <<sources, inputs, silver, gold, serving, offline>>

FailDp3 ==
  /\ dp3.state = "running"
  /\ dp3' = Retried(dp3)
  /\ UNCHANGED <<sources, inputs, silver, gold, serving, features, calm, dp2>>

-----------------------------------------------------------------------------
(* bronze_to_silver: the DP2 driver *)

Stepped == [dp2 EXCEPT !.step = @ + 1]

\* A DataFrame is bound to the snapshot its table has when it is made.
ReadBronze ==
  /\ \E i \in 1 .. 4 :
       /\ Dp2At("bronze_to_silver") /\ dp2.step = i - 1
       /\ inputs' = [inputs EXCEPT ![Datasets[i]] = bronze[Datasets[i]]]
  /\ dp2' = Stepped
  /\ UNCHANGED <<sources, silver, gold, serving, offline>>

InputIsValid(tables) == \A d \in DOMAIN tables : tables[d] # {}

ValidateInput ==
  /\ Dp2At("bronze_to_silver") /\ dp2.step = 4
  /\ dp2' = IF InputIsValid(inputs) THEN Stepped ELSE Retried(dp2)
  /\ UNCHANGED <<sources, inputs, silver, gold, serving, offline>>

\* Mutant: each write evaluates its DataFrame on the current Bronze.
ReplaceSilverFromNow ==
  /\ \E i \in 1 .. 5 :
       /\ Dp2At("bronze_to_silver") /\ dp2.step = 4 + i
       /\ silver' = [silver EXCEPT ![SilverTables[i]] = Transformed(bronze)[SilverTables[i]]]
  /\ dp2' = Stepped
  /\ UNCHANGED <<sources, inputs, gold, serving, offline>>

ReplaceSilver ==
  /\ \E i \in 1 .. 5 :
       /\ Dp2At("bronze_to_silver") /\ dp2.step = 4 + i
       /\ silver' = [silver EXCEPT ![SilverTables[i]] = Transformed(inputs)[SilverTables[i]]]
  /\ dp2' = Stepped
  /\ UNCHANGED <<sources, inputs, gold, serving, offline>>

\* Business keys are unique; a session must not have two users or contents.
SilverIsUnique ==
  \A s, t \in silver.sessions : s.session = t.session => s = t

ValidateOutput ==
  /\ Dp2At("bronze_to_silver") /\ dp2.step = 10
  /\ dp2' = IF SilverIsUnique THEN Finished(dp2, Dp2Tasks) ELSE Retried(dp2)
  /\ UNCHANGED <<sources, inputs, silver, gold, serving, offline>>

-----------------------------------------------------------------------------
(* gold_and_serving: dbt run.  A model is built when those it refers to are,  *)
(* in any order that keeps this (DBT_THREADS of them at a time).              *)

Ready(model) ==
  /\ Dp2At("gold_and_serving")
  /\ model \notin dp2.built /\ Refs[model] \subseteq dp2.built

Built(model) ==
  LET built == dp2.built \cup {model}
  IN  IF built = DOMAIN Refs THEN Finished(dp2, Dp2Tasks) ELSE [dp2 EXCEPT !.built = built]

RunModel ==
  /\ \E model \in DOMAIN gold :
       /\ Ready(model)
       /\ gold' = [gold EXCEPT ![model] = Table(model, silver, gold)]
       /\ dp2' = Built(model)
  /\ calm' = FALSE
  /\ UNCHANGED <<sources, inputs, silver, serving, features, dp3>>

PublishDelete ==
  /\ Ready("delete")
  /\ serving' = Unpublish(serving, gold.trending)
  /\ dp2' = Built("delete")
  /\ UNCHANGED <<sources, inputs, silver, gold, offline>>

PublishInsert ==
  /\ Ready("insert")
  /\ serving' = serving \cup gold.trending
  /\ dp2' = Built("insert")
  /\ UNCHANGED <<sources, inputs, silver, gold, offline>>

-----------------------------------------------------------------------------
(* validate *)

\* dp2 --validate-only reads Bronze, too.
SilverQuality ==
  /\ Dp2At("silver_quality")
  /\ dp2' = IF InputIsValid(bronze) /\ SilverIsUnique THEN Finished(dp2, Dp2Tasks)
            ELSE Retried(dp2)
  /\ UNCHANGED <<sources, inputs, silver, gold, serving, offline>>

\* Mutant: user_sk may be null.
GoldTestsOfContent(tables) ==
  /\ \A f \in tables.facts : f.contentSk \in Keys(tables.content)
  /\ \A f, g \in tables.facts : f.play = g.play => f = g

\* The not_null, relationships and unique tests of fact_playback_session, and
\* assert_gold_rollup_totals, which counts facts, not resolved ones.
GoldTests(tables) ==
  /\ \A f \in tables.facts :
       f.userSk \in Keys(tables.users) /\ f.contentSk \in Keys(tables.content)
  /\ \A f, g \in tables.facts : f.play = g.play => f = g
  /\ \A rollup \in {tables.engagement, tables.trending} :
       /\ PlaysIn(rollup) = Cardinality(tables.facts)
       /\ WatchIn(rollup) = Watch(tables.facts)

GoldAndServingTests ==
  /\ Dp2At("gold_and_serving_tests")
  /\ dp2' = IF GoldTests(gold) THEN Finished(dp2, Dp2Tasks) ELSE Retried(dp2)
  /\ UNCHANGED <<sources, inputs, silver, gold, serving, offline>>

-----------------------------------------------------------------------------
(* dp3_offline_features: the two models refer to no other model of the run. *)

Feature(model) ==
  IF model = "engagement" THEN UserFeatures(gold.engagement)
  ELSE ContentFeatures(gold.trending, gold.facts, gold.users, gold.content)

ComputeFeature ==
  /\ Dp3At("compute_offline_features")
  /\ \E model \in Features \ dp3.built :
       LET built == dp3.built \cup {model}
       IN  /\ features' = [features EXCEPT ![model] = Feature(model)]
           /\ dp3' = IF built = Features THEN Finished(dp3, Dp3Tasks)
                     ELSE [dp3 EXCEPT !.built = built]
  /\ calm' = (calm \/ dp3.built = {})
  /\ UNCHANGED <<sources, inputs, silver, gold, serving, dp2>>

\* unique combinations, and rates between 0 and 1.
FeatureTests ==
  /\ \A f, g \in features["engagement"] : f.user = g.user /\ f.time = g.time => f = g
  /\ \A f, g \in features["popularity"] : f.content = g.content /\ f.time = g.time => f = g
  /\ \A f \in features["popularity"] : f.completion7d[1] \in 0 .. f.completion7d[2]

FeatureContractTests ==
  /\ Dp3At("feature_contract_tests")
  /\ dp3' = IF FeatureTests THEN Finished(dp3, Dp3Tasks) ELSE Retried(dp3)
  /\ UNCHANGED <<sources, inputs, silver, gold, serving, features, calm, dp2>>

-----------------------------------------------------------------------------
Next ==
  \/ Deliver
  \/ Dp1Start \/ Dp1Append \/ Dp1Dies
  \/ TriggerDp2 \/ FailDp2
  \/ ReadBronze \/ ValidateInput \/ ReplaceSilver \/ ValidateOutput
  \/ RunModel \/ PublishDelete \/ PublishInsert
  \/ SilverQuality \/ GoldAndServingTests
  \/ TriggerDp3 \/ FailDp3 \/ ComputeFeature \/ FeatureContractTests

Spec == Init /\ [][Next]_vars

-----------------------------------------------------------------------------
(* Properties *)

Past(task) == dp2.runs > 0 /\ dp2.task > task

\* Once bronze_to_silver has succeeded, the five Silver tables are of one driver,
\* that is of one reading of Bronze, whatever earlier attempts and earlier runs
\* left half replaced.
SilverIsOfOneReading == Past(1) => silver = Transformed(inputs)

\* Once gold_and_serving has succeeded, all Gold tables are of that Silver.
GoldIsOfOneSilver ==
  Past(2) => \A model \in DOMAIN gold : gold[model] = Table(model, silver, gold)

\* The primary key of the serving table is kept at every step, and a publication
\* that has succeeded shows the whole mart, also after one that was cut off
\* between its delete and its insert.
ServingCoversTheMart ==
  /\ \A r, s \in serving : MartKey(r) = MartKey(s) => r = s
  /\ Past(2) => gold.trending \subseteq serving

\* A DAG run that succeeds leaves facts that all resolve, and each session of
\* Silver in both rollups once, although DP2 may have read users before and
\* events after an append of DP1.
SuccessIsComplete ==
  dp2.state = "success" =>
    /\ \A f \in gold.facts : f.userSk # NoKey /\ f.contentSk # NoKey
    /\ PlaysIn(gold.engagement) = Cardinality(silver.sessions)
    /\ PlaysIn(gold.trending) = Cardinality(silver.sessions)

\* dp3 has no lock against dp2 and does not look at it.  If no Gold table was
\* replaced since its last attempt began to compute, a run that succeeded leaves
\* both feature tables of one and the same Gold, whatever failed before it and
\* left one of them, or Gold, half rebuilt.
FeaturesAreOfOneGold ==
  dp3.state = "success" /\ calm => \A model \in Features : features[model] = Feature(model)
=============================================================================
