-------------------------- MODULE Dp2PipelineProofs --------------------------
(***************************************************************************)
(* The warehouse's DAGs, for all rows, tables, retries and runs.  The      *)
(* proofs are about when each table was last replaced.  Silver tables are  *)
(* of the driver's reading from the step that replaces each; a Gold table  *)
(* is of Silver from the moment its model is built, as those it refers to  *)
(* are built before and not again; a feature table is of Gold as long as   *)
(* the run is calm.  Of what the transformations compute they only use     *)
(* that every session has a fact and the mart one row per key.             *)
(***************************************************************************)
EXTENDS Dp2Pipeline, FiniteSetTheorems, TLAPS

States      == {"none", "running", "success", "failed"}
SilverNames == {"users", "subscriptions", "content", "events", "sessions"}
GoldNames   == {"users", "content", "facts", "engagement", "trending"}
Models      == GoldNames \cup {"delete", "insert"}

Runs(n, models) ==
  [state : States, runs : Nat, task : 1 .. n, tries : Nat, step : Nat, built : SUBSET models]

\* f is a function on names.
On(f, names) == DOMAIN f = names /\ f = [n \in names |-> f[n]]

\* Type invariant.
Types ==
  /\ On(silver, SilverNames) /\ On(gold, GoldNames) /\ On(features, Features)
  /\ dp2 \in Runs(4, Models) /\ dp3 \in Runs(2, Features)
  /\ calm \in BOOLEAN

\* The first tables of Silver, as many as the driver has replaced.
SilverInv ==
  /\ dp2.task = 1 => \A i \in 1 .. 5 : dp2.step > 4 + i =>
       silver[SilverTables[i]] = Transformed(inputs)[SilverTables[i]]
  /\ dp2.task > 1 => silver = Transformed(inputs)

\* The models built so far, with those they refer to.
GoldInv ==
  /\ dp2.task = 2 => \A m \in dp2.built :
       Refs[m] \subseteq dp2.built /\ (m \in GoldNames => gold[m] = Table(m, silver, gold))
  /\ dp2.task > 2 => \A m \in GoldNames : gold[m] = Table(m, silver, gold)

KeysAreUnique(rows) == \A r, s \in rows : MartKey(r) = MartKey(s) => r = s

\* What the delete and the insert have done.
ServingInv ==
  /\ KeysAreUnique(serving) /\ KeysAreUnique(gold.trending)
  /\ dp2.task = 2 /\ "delete" \in dp2.built /\ "insert" \notin dp2.built =>
       \A r \in serving, s \in gold.trending : MartKey(r) # MartKey(s)
  /\ (dp2.task = 2 /\ "insert" \in dp2.built) \/ dp2.task > 2 => gold.trending \subseteq serving

\* The features computed so far in a calm run.
FeatureInv ==
  /\ dp3.state = "success" => dp3.task = 2
  /\ calm /\ dp3.task = 1 => \A m \in dp3.built : features[m] = Feature(m)
  /\ calm /\ dp3.task = 2 => \A m \in Features : features[m] = Feature(m)

IInv == Types /\ SilverInv /\ GoldInv /\ ServingInv /\ FeatureInv

LEMMA SameOn ==
  ASSUME NEW names, NEW f, NEW g, On(f, names), On(g, names), \A n \in names : f[n] = g[n]
  PROVE  f = g
BY DEF On

LEMMA TransformedOn == ASSUME NEW t PROVE On(Transformed(t), SilverNames)
BY DEF Transformed, On, SilverNames

LEMMA TablesOrder ==
  /\ \A i \in 1 .. 5 : SilverTables[i] \in SilverNames
  /\ \A n \in SilverNames : \E i \in 1 .. 5 : n = SilverTables[i]
  /\ \A i, j \in 1 .. 5 : i # j => SilverTables[i] # SilverTables[j]
BY DEF SilverTables, SilverNames

LEMMA TasksOrder ==
  /\ \A t \in 1 .. 4 : /\ Dp2Tasks[t] = "bronze_to_silver" <=> t = 1
                       /\ Dp2Tasks[t] = "gold_and_serving" <=> t = 2
                       /\ Dp2Tasks[t] = "silver_quality" <=> t = 3
                       /\ Dp2Tasks[t] = "gold_and_serving_tests" <=> t = 4
  /\ \A t \in 1 .. 2 : /\ Dp3Tasks[t] = "compute_offline_features" <=> t = 1
                       /\ Dp3Tasks[t] = "feature_contract_tests" <=> t = 2
  /\ Len(Dp2Tasks) = 4 /\ Len(Dp3Tasks) = 2
BY DEF Dp2Tasks, Dp3Tasks

\* The mart has one row for a window and content.
LEMMA TrendingIsUnique == ASSUME NEW facts PROVE KeysAreUnique(Trending(facts))
<1> DEFINE joined   == Resolved(facts)
           Grain(f) == <<HourOf(f.play.started), f.play.content>>
           grains   == {Grain(f) : f \in joined}
           Rollup(g) ==
             LET group == {f \in joined : Grain(f) = g}
             IN  [window |-> g[1], content |-> g[2], plays |-> Cardinality(group),
                  viewers |-> Cardinality(Viewers(group)),
                  completed |-> Completed(group), watch |-> Watch(group)]
<1>1. Trending(facts) = {Rollup(g) : g \in grains}
  BY DEF Trending
<1>2. \A g : MartKey(Rollup(g)) = <<g[1], g[2]>>
  BY DEF MartKey
<1>3. \A g \in grains : g = <<g[1], g[2]>>
  OBVIOUS
<1> HIDE DEF grains, Rollup
<1>4. ASSUME NEW r \in Trending(facts), NEW s \in Trending(facts), MartKey(r) = MartKey(s) PROVE r = s
  <2>1. PICK g \in grains : r = Rollup(g)
    BY <1>1
  <2>2. PICK h \in grains : s = Rollup(h)
    BY <1>1
  <2>3. g = h
    BY <1>2, <1>3, <1>4, <2>1, <2>2
  <2> QED BY <2>1, <2>2, <2>3
<1> QED BY <1>4 DEF KeysAreUnique

-----------------------------------------------------------------------------
(* DAG runs *)

LEMMA StartedRun ==
  ASSUME NEW n \in Nat \ {0}, NEW models, NEW run \in Runs(n, models)
  PROVE  Started(run) \in Runs(n, models) /\ Started(run).task = 1 /\ Started(run).step = 0
         /\ Started(run).built = {} /\ Started(run).state = "running"
BY DEF Started, Runs, States

LEMMA RetriedRun ==
  ASSUME NEW n \in Nat, NEW models, NEW run \in Runs(n, models)
  PROVE  /\ Retried(run) \in Runs(n, models) /\ Retried(run).task = run.task
         /\ Retried(run).step \in {0, run.step} /\ Retried(run).built \in {{}, run.built}
         /\ Retried(run).state \in {run.state, "failed"}
<1>1. CASE run.tries < Retries
  <2>1. PICK t \in Nat : t = run.tries + 1
    BY DEF Runs
  <2>2. Retried(run) = [run EXCEPT !.tries = t, !.step = 0, !.built = {}]
    BY <1>1, <2>1 DEF Retried
  <2> DEFINE new == [run EXCEPT !.tries = t, !.step = 0, !.built = {}]
  <2>3. new \in Runs(n, models) /\ new.task = run.task /\ new.step = 0 /\ new.built = {}
        /\ new.state = run.state
    BY DEF Runs
  <2> QED BY <2>2, <2>3
<1>2. CASE ~(run.tries < Retries)
  <2>1. Retried(run) = [run EXCEPT !.state = "failed"]
    BY <1>2 DEF Retried
  <2> QED BY <2>1 DEF Runs, States
<1> QED BY <1>1, <1>2

LEMMA LastOfDp2 ==
  ASSUME Types, dp2.task = 4
  PROVE  Finished(dp2, Dp2Tasks) \in Runs(4, Models) /\ Finished(dp2, Dp2Tasks).task = 4
<1> DEFINE new == [dp2 EXCEPT !.state = "success"]
<1>1. Finished(dp2, Dp2Tasks) = new
  BY TasksOrder DEF Finished
<1>2. new \in Runs(4, Models) /\ new.task = 4
  BY DEF Runs, States, Types
<1> QED BY <1>1, <1>2

LEMMA NextOfDp2 ==
  ASSUME Types, NEW t \in 1 .. 3, dp2.task = t
  PROVE  /\ Finished(dp2, Dp2Tasks) \in Runs(4, Models) /\ Finished(dp2, Dp2Tasks).task = t + 1
         /\ Finished(dp2, Dp2Tasks).step = 0 /\ Finished(dp2, Dp2Tasks).built = {}
<1>1. PICK n \in 1 .. 4 : n = t + 1
  OBVIOUS
<1> DEFINE new == [dp2 EXCEPT !.task = n, !.tries = 0, !.step = 0, !.built = {}]
<1>2. Finished(dp2, Dp2Tasks) = new
  BY <1>1, TasksOrder DEF Finished
<1>3. new \in Runs(4, Models)
  <2>1. dp2 \in Runs(4, Models)
    BY DEF Types
  <2> QED BY <2>1 DEF Runs
<1>4. new.task = n /\ new.step = 0 /\ new.built = {}
  BY DEF Runs, Types
<1> QED BY <1>1, <1>2, <1>3, <1>4

LEMMA LastOfDp3 ==
  ASSUME Types, dp3.task = 2
  PROVE  /\ Finished(dp3, Dp3Tasks) \in Runs(2, Features) /\ Finished(dp3, Dp3Tasks).task = 2
         /\ Finished(dp3, Dp3Tasks).built = dp3.built
<1> DEFINE new == [dp3 EXCEPT !.state = "success"]
<1>1. Finished(dp3, Dp3Tasks) = new
  BY TasksOrder DEF Finished
<1>2. new \in Runs(2, Features) /\ new.task = 2 /\ new.built = dp3.built
  BY DEF Runs, States, Types
<1> QED BY <1>1, <1>2

LEMMA NextOfDp3 ==
  ASSUME Types, dp3.task = 1
  PROVE  Finished(dp3, Dp3Tasks) \in Runs(2, Features) /\ Finished(dp3, Dp3Tasks).task = 2
<1>1. PICK n \in 1 .. 2 : n = 2
  OBVIOUS
<1>2. dp3 \in Runs(2, Features) /\ {} \in SUBSET Features
  BY DEF Types
<1> DEFINE new == [dp3 EXCEPT !.task = n, !.tries = 0, !.step = 0, !.built = {}]
<1>3. Finished(dp3, Dp3Tasks) = new
  BY <1>1, TasksOrder DEF Finished
<1>4. new \in Runs(2, Features)
  BY <1>2 DEF Runs
<1>5. new.task = n
  BY <1>2 DEF Runs
<1> QED BY <1>1, <1>3, <1>4, <1>5

\* Steps of DP1, and of the DAGs that build nothing.
LEMMA SourceStep ==
  ASSUME IInv, UNCHANGED <<inputs, silver, gold, serving, dp2, offline>> PROVE IInv'
<1>1. Types' /\ SilverInv'
  BY DEF IInv, Types, SilverInv, offline
<1>2. GoldInv' /\ ServingInv'
  BY DEF IInv, GoldInv, ServingInv
<1>3. FeatureInv'
  BY DEF IInv, FeatureInv, Feature, offline
<1> QED BY <1>1, <1>2, <1>3 DEF IInv

LEMMA QuietDp2 ==
  ASSUME IInv, UNCHANGED <<inputs, silver, gold, serving, offline>>, dp2' \in Runs(4, Models),
         \/ dp2'.task = 1 /\ dp2'.step <= 5
         \/ dp2'.task = dp2.task /\ dp2'.step \in {0, dp2.step} /\ dp2'.built \in {{}, dp2.built}
         \/ dp2'.task > 2 /\ dp2.task > 2
  PROVE  IInv'
<1>1. Types' /\ FeatureInv'
  BY DEF IInv, Types, FeatureInv, Feature, offline
<1>2. PICK s \in Nat : s = dp2'.step
  BY DEF Runs
<1>3. PICK t \in 1 .. 4 : t = dp2.task
  BY DEF IInv, Types, Runs
<1>4. CASE dp2'.task = 1 /\ s <= 5
  <2>1. \A i \in 1 .. 5 : ~(s > 4 + i)
    BY <1>4
  <2>2. SilverInv'
    BY <1>2, <1>4, <2>1 DEF SilverInv
  <2>3. GoldInv' /\ ServingInv'
    BY <1>4 DEF IInv, GoldInv, ServingInv, KeysAreUnique
  <2> QED BY <1>1, <2>2, <2>3 DEF IInv
<1>5. CASE dp2'.task = dp2.task /\ dp2'.step \in {0, dp2.step} /\ dp2'.built \in {{}, dp2.built}
  <2>1. SilverInv'
    <3>1. CASE dp2'.step = 0
      <4>1. \A i \in 1 .. 5 : ~(0 > 4 + i)
        OBVIOUS
      <4> QED BY <1>5, <3>1, <4>1 DEF IInv, SilverInv
    <3>2. CASE dp2'.step = dp2.step
      BY <1>5, <3>2 DEF IInv, SilverInv
    <3> QED BY <1>5, <3>1, <3>2
  <2>2. GoldInv'
    BY <1>5 DEF IInv, GoldInv
  <2>3. ServingInv'
    BY <1>5 DEF IInv, ServingInv, KeysAreUnique
  <2> QED BY <1>1, <2>1, <2>2, <2>3 DEF IInv
<1>6. CASE dp2'.task > 2 /\ t > 2
  <2>1. dp2'.task \in {3, 4} /\ dp2.task \in {3, 4}
    BY <1>3, <1>6 DEF Runs
  <2>2. SilverInv' /\ GoldInv' /\ ServingInv'
    BY <2>1 DEF IInv, SilverInv, GoldInv, ServingInv, KeysAreUnique
  <2> QED BY <1>1, <2>2 DEF IInv
<1> QED BY <1>2, <1>3, <1>4, <1>5, <1>6

QuietDp3Outcome ==
  \/ dp3'.task = 1 /\ dp3'.built = {} /\ dp3'.state = "running"
  \/ /\ dp3'.task = dp3.task /\ dp3'.built \in {{}, dp3.built}
     /\ dp3'.state \in {dp3.state, "failed"} \/ dp3.task = 2

LEMMA QuietDp3 ==
  ASSUME IInv, UNCHANGED <<inputs, silver, gold, serving, features, calm, dp2>>,
         dp3' \in Runs(2, Features), QuietDp3Outcome
  PROVE  IInv'
<1>1. Types' /\ SilverInv'
  BY DEF IInv, Types, SilverInv
<1>2. GoldInv' /\ ServingInv'
  BY DEF IInv, GoldInv, ServingInv
<1>3. FeatureInv'
  BY DEF IInv, FeatureInv, Feature, QuietDp3Outcome
<1> QED BY <1>1, <1>2, <1>3 DEF IInv

-----------------------------------------------------------------------------
(* Actions *)

LEMMA InitInv == Init => IInv
<1> SUFFICES ASSUME Init PROVE IInv
  OBVIOUS
<1>1. NoRun \in Runs(4, Models) /\ NoRun \in Runs(2, Features)
  BY DEF NoRun, Runs, States
<1>2. NoRun.task = 1 /\ NoRun.step = 0 /\ NoRun.built = {} /\ NoRun.state = "none"
  BY DEF NoRun
<1>3. On(GoldOf(silver), GoldNames) /\ On([f \in Features |-> {}], Features)
  BY DEF GoldOf, On, GoldNames
<1>4. Types
  BY <1>1, <1>3, TransformedOn DEF Init, Types
<1>5. SilverInv /\ FeatureInv
  <2>1. \A i \in 1 .. 5 : ~(0 > 4 + i)
    OBVIOUS
  <2> QED BY <1>2, <2>1 DEF Init, SilverInv, FeatureInv
<1>6. GoldInv
  BY <1>2 DEF Init, GoldInv
<1>7. ServingInv
  <2>1. PICK facts : gold.trending = Trending(facts)
    BY DEF Init, GoldOf, Table
  <2> QED BY <1>2, <2>1, TrendingIsUnique DEF Init, ServingInv, KeysAreUnique
<1> QED BY <1>4, <1>5, <1>6, <1>7 DEF IInv

LEMMA Dp2QuietKeeps ==
  ASSUME IInv, TriggerDp2 \/ FailDp2 \/ ValidateInput \/ SilverQuality \/ GoldAndServingTests
  PROVE  IInv'
<1>1. dp2 \in Runs(4, Models) /\ dp2.task \in 1 .. 4
  BY DEF IInv, Types, Runs
<1>2. UNCHANGED <<inputs, silver, gold, serving, offline>>
  BY DEF TriggerDp2, FailDp2, ValidateInput, SilverQuality, GoldAndServingTests
<1>3. CASE TriggerDp2
  BY <1>1, <1>2, <1>3, StartedRun, QuietDp2 DEF TriggerDp2
<1>4. ASSUME dp2' = Retried(dp2) PROVE IInv'
  BY <1>1, <1>2, <1>4, RetriedRun, QuietDp2
<1>5. CASE ValidateInput /\ dp2' = Stepped
  <2>1. dp2.task = 1 /\ dp2.step = 4
    BY <1>1, <1>5, TasksOrder DEF ValidateInput, Dp2At
  <2>2. Stepped = [dp2 EXCEPT !.step = 5]
    BY <2>1 DEF Stepped
  <2> DEFINE new == [dp2 EXCEPT !.step = 5]
  <2>3. new \in Runs(4, Models) /\ new.task = 1 /\ new.step = 5
    BY <1>1, <2>1 DEF Runs
  <2> QED BY <1>2, <1>5, <2>2, <2>3, QuietDp2
<1>6. CASE (SilverQuality \/ GoldAndServingTests) /\ dp2' = Finished(dp2, Dp2Tasks)
  <2>1. dp2.task \in {3, 4}
    BY <1>1, <1>6, TasksOrder DEF SilverQuality, GoldAndServingTests, Dp2At
  <2>3. dp2' \in Runs(4, Models) /\ dp2'.task = 4
    <3>1. CASE dp2.task = 4
      BY <1>6, <3>1, LastOfDp2 DEF IInv
    <3>2. CASE dp2.task = 3
      BY <1>6, <3>2, NextOfDp2 DEF IInv
    <3> QED BY <2>1, <3>1, <3>2
  <2> QED BY <1>2, <1>6, <2>1, <2>3, QuietDp2
<1> QED BY <1>3, <1>4, <1>5, <1>6 DEF FailDp2, ValidateInput, SilverQuality, GoldAndServingTests

LEMMA Dp3QuietKeeps ==
  ASSUME IInv, TriggerDp3 \/ FailDp3 \/ FeatureContractTests PROVE IInv'
<1>1. dp3 \in Runs(2, Features)
  BY DEF IInv, Types
<1>2. UNCHANGED <<inputs, silver, gold, serving, features, calm, dp2>>
  BY DEF TriggerDp3, FailDp3, FeatureContractTests
<1>3. CASE TriggerDp3
  BY <1>1, <1>2, <1>3, StartedRun, QuietDp3 DEF TriggerDp3, QuietDp3Outcome
<1>4. ASSUME dp3' = Retried(dp3) PROVE IInv'
  BY <1>1, <1>2, <1>4, RetriedRun, QuietDp3 DEF QuietDp3Outcome
<1>5. CASE FeatureContractTests /\ dp3' = Finished(dp3, Dp3Tasks)
  <2>1. dp3.task = 2
    BY <1>1, <1>5, TasksOrder DEF FeatureContractTests, Dp3At, Runs
  <2>2. /\ dp3' \in Runs(2, Features) /\ dp3'.task = dp3.task /\ dp3'.built = dp3.built
    BY <1>5, <2>1, LastOfDp3 DEF IInv
  <2> QED BY <1>2, <2>1, <2>2, QuietDp3 DEF QuietDp3Outcome
<1> QED BY <1>3, <1>4, <1>5 DEF FailDp3, FeatureContractTests

\* The driver's step that is done, and those before it.
LEMMA SteppedRun ==
  ASSUME Types, NEW k \in Nat, dp2.step = k
  PROVE  /\ Stepped \in Runs(4, Models) /\ Stepped.task = dp2.task /\ Stepped.step = k + 1
         /\ Stepped.built = dp2.built
<1>1. PICK n \in Nat : n = k + 1
  OBVIOUS
<1>2. Stepped = [dp2 EXCEPT !.step = n]
  BY <1>1 DEF Stepped
<1> DEFINE new == [dp2 EXCEPT !.step = n]
<1>3. new \in Runs(4, Models) /\ new.task = dp2.task /\ new.step = n /\ new.built = dp2.built
  BY DEF Runs, Types
<1> QED BY <1>1, <1>2, <1>3

LEMMA ReadBronzeKeeps == ASSUME IInv, ReadBronze PROVE IInv'
<1>1. PICK i \in 1 .. 4 : Dp2At("bronze_to_silver") /\ dp2.step = i - 1
  BY DEF ReadBronze
<1>2. dp2' = Stepped /\ UNCHANGED <<silver, gold, serving, features, dp3, calm>>
  BY DEF ReadBronze, offline
<1>3. dp2.task = 1
  BY <1>1, TasksOrder DEF Dp2At, IInv, Types, Runs
<1>4. PICK k \in Nat : k = i - 1
  OBVIOUS
<1>5. dp2' \in Runs(4, Models) /\ dp2'.task = 1 /\ dp2'.step = i
  BY <1>1, <1>2, <1>3, <1>4, SteppedRun DEF IInv
<1>6. Types' /\ FeatureInv'
  BY <1>2, <1>5 DEF IInv, Types, FeatureInv, Feature
<1>7. SilverInv'
  <2>1. \A j \in 1 .. 5 : ~(i > 4 + j)
    OBVIOUS
  <2> QED BY <1>5, <2>1 DEF SilverInv
<1>8. GoldInv' /\ ServingInv'
  BY <1>2, <1>5 DEF IInv, GoldInv, ServingInv, KeysAreUnique
<1> QED BY <1>6, <1>7, <1>8 DEF IInv

LEMMA ReplaceSilverKeeps == ASSUME IInv, ReplaceSilver PROVE IInv'
<1>1. PICK i \in 1 .. 5 :
        /\ Dp2At("bronze_to_silver") /\ dp2.step = 4 + i
        /\ silver' = [silver EXCEPT ![SilverTables[i]] = Transformed(inputs)[SilverTables[i]]]
  BY DEF ReplaceSilver
<1>2. dp2' = Stepped /\ UNCHANGED <<inputs, gold, serving, features, dp3, calm>>
  BY DEF ReplaceSilver, offline
<1>3. dp2.task = 1
  BY <1>1, TasksOrder DEF Dp2At, IInv, Types, Runs
<1>4. PICK k \in Nat : k = 4 + i
  OBVIOUS
<1>5. dp2' \in Runs(4, Models) /\ dp2'.task = 1 /\ dp2'.step = k + 1
  BY <1>1, <1>2, <1>3, <1>4, SteppedRun DEF IInv
<1>6. /\ On(silver', SilverNames) /\ silver'[SilverTables[i]] = Transformed(inputs)[SilverTables[i]]
      /\ \A n \in SilverNames \ {SilverTables[i]} : silver'[n] = silver[n]
  <2>1. PICK n \in SilverNames : n = SilverTables[i]
    BY TablesOrder
  <2>2. PICK x : x = Transformed(inputs)[n]
    OBVIOUS
  <2>3. On(silver, SilverNames) /\ silver' = [silver EXCEPT ![n] = x]
    BY <1>1, <2>1, <2>2 DEF IInv, Types
  <2>4. On(silver', SilverNames) /\ silver'[n] = x /\ \A m \in SilverNames \ {n} : silver'[m] = silver[m]
    BY <2>3 DEF On
  <2> QED BY <2>1, <2>2, <2>4
<1>7. Types' /\ FeatureInv'
  BY <1>2, <1>5, <1>6 DEF IInv, Types, FeatureInv, Feature
<1>8. SilverInv'
  <2>1. ASSUME NEW j \in 1 .. 5, k + 1 > 4 + j
        PROVE  silver'[SilverTables[j]] = Transformed(inputs)[SilverTables[j]]
    <3>1. CASE j = i
      BY <1>6, <3>1
    <3>2. CASE j # i
      <4>1. k > 4 + j
        BY <2>1, <1>4, <3>2
      <4>2. silver[SilverTables[j]] = Transformed(inputs)[SilverTables[j]]
        BY <4>1, <1>1, <1>3, <1>4 DEF IInv, SilverInv
      <4> QED BY <4>2, <3>2, <1>6, TablesOrder
    <3> QED BY <3>1, <3>2
  <2> QED BY <2>1, <1>2, <1>5 DEF SilverInv
<1>9. GoldInv' /\ ServingInv'
  BY <1>2, <1>5 DEF IInv, GoldInv, ServingInv, KeysAreUnique
<1> QED BY <1>7, <1>8, <1>9 DEF IInv

\* All five tables are replaced when the driver validates its output.
LEMMA ValidateOutputKeeps == ASSUME IInv, ValidateOutput PROVE IInv'
<1>1. UNCHANGED <<inputs, silver, gold, serving, offline>> /\ dp2.step = 10
  BY DEF ValidateOutput
<1>2. dp2.task = 1 /\ dp2 \in Runs(4, Models)
  BY TasksOrder DEF ValidateOutput, Dp2At, IInv, Types, Runs
<1>3. CASE dp2' = Retried(dp2)
  BY <1>1, <1>2, <1>3, RetriedRun, QuietDp2
<1>4. CASE dp2' = Finished(dp2, Dp2Tasks)
  <2>1. dp2' \in Runs(4, Models) /\ dp2'.task = 2 /\ dp2'.built = {}
    BY <1>2, <1>4, NextOfDp2 DEF IInv
  <2>2. silver = Transformed(inputs)
    <3>1. \A i \in 1 .. 5 : 10 > 4 + i
      OBVIOUS
    <3>2. \A i \in 1 .. 5 : silver[SilverTables[i]] = Transformed(inputs)[SilverTables[i]]
      BY <3>1, <1>1, <1>2 DEF IInv, SilverInv
    <3> QED BY <3>2, TablesOrder, TransformedOn, SameOn DEF IInv, Types
  <2>3. Types' /\ FeatureInv'
    BY <1>1, <2>1 DEF IInv, Types, FeatureInv, Feature, offline
  <2>4. SilverInv' /\ GoldInv' /\ ServingInv'
    BY <1>1, <2>1, <2>2 DEF IInv, SilverInv, GoldInv, ServingInv, KeysAreUnique
  <2> QED BY <2>3, <2>4 DEF IInv
<1> QED BY <1>3, <1>4 DEF ValidateOutput

LEMMA BuiltRun ==
  ASSUME Types, dp2.task = 2, NEW m \in Models
  PROVE  /\ Built(m) \in Runs(4, Models)
         /\ \/ dp2.built \cup {m} = Models /\ Built(m).task = 3
            \/ Built(m).task = 2 /\ Built(m).built = dp2.built \cup {m}
<1> DEFINE built == dp2.built \cup {m}
           new == [dp2 EXCEPT !.built = built]
<1>1. DOMAIN Refs = Models
  BY DEF Refs, Models, GoldNames
<1>2. CASE built = Models
  BY <1>1, <1>2, NextOfDp2 DEF Built
<1>3. CASE built # Models
  <2>1. Built(m) = new
    BY <1>1, <1>3 DEF Built
  <2>2. built \in SUBSET Models
    BY DEF Types, Runs
  <2>3. new \in Runs(4, Models) /\ new.task = 2 /\ new.built = built
    BY <2>2 DEF Types, Runs
  <2> QED BY <2>1, <2>3
<1> QED BY <1>2, <1>3

\* A table depends on Silver and on the models it refers to.
LEMMA TableOfRefs ==
  ASSUME NEW m \in GoldNames, NEW s, NEW g, NEW h, \A r \in Refs[m] : g[r] = h[r]
  PROVE  Table(m, s, g) = Table(m, s, h)
<1>1. CASE m = "users"  BY <1>1 DEF Table
<1>2. CASE m = "content"  BY <1>2 DEF Table
<1>3. CASE m = "facts"
  <2>1. g["users"] = h["users"] /\ g["content"] = h["content"]
    BY <1>3 DEF Refs
  <2> QED BY <1>3, <2>1 DEF Table
<1>4. CASE m = "engagement"
  <2>1. g["facts"] = h["facts"]
    BY <1>4 DEF Refs
  <2> QED BY <1>4, <2>1 DEF Table
<1>5. CASE m = "trending"
  <2>1. g["facts"] = h["facts"]
    BY <1>5 DEF Refs
  <2> QED BY <1>5, <2>1 DEF Table
<1> QED BY <1>1, <1>2, <1>3, <1>4, <1>5 DEF GoldNames

LEMMA RunModelKeeps == ASSUME IInv, RunModel PROVE IInv'
<1>1. Types /\ dp2.task = 2
  BY TasksOrder DEF RunModel, Ready, Dp2At, IInv, Types, Runs
<1>2. PICK m \in GoldNames : /\ Ready(m) /\ dp2' = Built(m)
                             /\ gold' = [gold EXCEPT ![m] = Table(m, silver, gold)]
  BY <1>1 DEF RunModel, Types, On
<1>3. calm' = FALSE /\ UNCHANGED <<inputs, silver, serving, features, dp3>>
  BY DEF RunModel
<1>4. PICK t : t = Table(m, silver, gold)
  OBVIOUS
<1>5. On(gold', GoldNames) /\ gold'[m] = t /\ \A k \in GoldNames \ {m} : gold'[k] = gold[k]
  BY <1>1, <1>2, <1>4 DEF On, Types
<1>6. m \notin dp2.built /\ Refs[m] \subseteq dp2.built /\ m \in Models
  BY <1>2 DEF Ready, Models
<1>7. /\ dp2' \in Runs(4, Models)
      /\ \/ dp2.built \cup {m} = Models /\ dp2'.task = 3
         \/ dp2'.task = 2 /\ dp2'.built = dp2.built \cup {m}
  BY <1>1, <1>2, <1>6, BuiltRun
<1>8. Types' /\ FeatureInv'
  BY <1>3, <1>5, <1>7 DEF IInv, Types, FeatureInv
<1>9. SilverInv'
  BY <1>1, <1>3, <1>7 DEF IInv, SilverInv
<1>10. ASSUME NEW k \in dp2.built \cup {m}
       PROVE  Refs[k] \subseteq dp2.built /\ (k \in GoldNames => gold'[k] = Table(k, silver, gold'))
  <2>1. Refs[k] \subseteq dp2.built
    BY <1>1, <1>6, <1>10 DEF IInv, GoldInv
  <2>2. ASSUME k \in GoldNames PROVE gold'[k] = Table(k, silver, gold')
    <3>1. \A r \in Refs[k] : r \in GoldNames /\ r # m
      BY <2>1, <2>2, <1>6 DEF Refs, GoldNames
    <3>2. \A r \in Refs[k] : gold[r] = gold'[r]
      BY <3>1, <1>5
    <3>3. PICK g : g = gold'
      OBVIOUS
    <3>4. Table(k, silver, gold) = Table(k, silver, g)
      BY <2>2, <3>2, <3>3, TableOfRefs
    <3>5. gold'[k] = Table(k, silver, gold)
      BY <1>1, <1>4, <1>5, <1>10, <2>2 DEF IInv, GoldInv
    <3> QED BY <3>3, <3>4, <3>5
  <2> QED BY <2>1, <2>2
<1>11. GoldInv'
  BY <1>3, <1>7, <1>10 DEF GoldInv, Models
<1>12. ServingInv'
  <2>1. KeysAreUnique(gold'["trending"])
    <3>1. CASE m = "trending"
      <4>1. PICK facts : t = Trending(facts)
        BY <1>4, <3>1 DEF Table
      <4> QED BY <1>5, <3>1, <4>1, TrendingIsUnique
    <3>2. CASE m # "trending"
      BY <1>5, <3>2 DEF IInv, ServingInv, GoldNames
    <3> QED BY <3>1, <3>2
  <2>2. "delete" \in dp2.built \/ "insert" \in dp2.built => gold'["trending"] = gold["trending"]
    <3>1. "insert" \in dp2.built => "delete" \in dp2.built
      BY <1>1 DEF IInv, GoldInv, Refs
    <3>2. "delete" \in dp2.built => "trending" \in dp2.built
      BY <1>1 DEF IInv, GoldInv, Refs
    <3> QED BY <3>1, <3>2, <1>5, <1>6 DEF GoldNames
  <2>3. m # "delete" /\ m # "insert"
    BY DEF GoldNames
  <2>4. CASE dp2'.task = 2 /\ dp2'.built = dp2.built \cup {m}
    BY <1>1, <1>3, <2>1, <2>2, <2>3, <2>4 DEF IInv, ServingInv, KeysAreUnique
  <2>5. CASE dp2.built \cup {m} = Models /\ dp2'.task = 3
    <3>1. "insert" \in dp2.built
      BY <2>3, <2>5 DEF Models
    <3> QED BY <1>1, <1>3, <2>1, <2>2, <2>5, <3>1 DEF IInv, ServingInv, KeysAreUnique
  <2> QED BY <1>7, <2>4, <2>5
<1> QED BY <1>8, <1>9, <1>11, <1>12 DEF IInv

LEMMA PublishDeleteKeeps == ASSUME IInv, PublishDelete PROVE IInv'
<1>1. Types /\ dp2.task = 2
  BY TasksOrder DEF PublishDelete, Ready, Dp2At, IInv, Types, Runs
<1>2. /\ dp2' = Built("delete") /\ serving' = Unpublish(serving, gold.trending)
      /\ UNCHANGED <<inputs, silver, gold, features, dp3, calm>>
  BY DEF PublishDelete, offline
<1>3. "delete" \notin dp2.built /\ Refs["delete"] \subseteq dp2.built /\ "delete" \in Models
  BY DEF PublishDelete, Ready, Models
<1>4. "insert" \notin dp2.built
  BY <1>1, <1>3 DEF IInv, GoldInv, Refs
<1>5. dp2' \in Runs(4, Models) /\ dp2'.task = 2 /\ dp2'.built = dp2.built \cup {"delete"}
  <2>1. dp2.built \cup {"delete"} # Models
    BY <1>4 DEF Models
  <2> QED BY <1>1, <1>2, <1>3, <2>1, BuiltRun
<1>6. Types' /\ FeatureInv' /\ SilverInv'
  BY <1>1, <1>2, <1>5 DEF IInv, Types, FeatureInv, Feature, SilverInv
<1>7. GoldInv'
  BY <1>1, <1>2, <1>3, <1>5 DEF IInv, GoldInv, GoldNames
<1>8. ServingInv'
  <2>1. serving' \subseteq serving /\ \A r \in serving', s \in gold.trending : MartKey(r) # MartKey(s)
    BY <1>2 DEF Unpublish
  <2> QED BY <1>2, <1>4, <1>5, <2>1 DEF IInv, ServingInv, KeysAreUnique
<1> QED BY <1>6, <1>7, <1>8 DEF IInv

LEMMA PublishInsertKeeps == ASSUME IInv, PublishInsert PROVE IInv'
<1>1. Types /\ dp2.task = 2
  BY TasksOrder DEF PublishInsert, Ready, Dp2At, IInv, Types, Runs
<1>2. /\ dp2' = Built("insert") /\ serving' = serving \cup gold.trending
      /\ UNCHANGED <<inputs, silver, gold, features, dp3, calm>>
  BY DEF PublishInsert, offline
<1>3. "insert" \notin dp2.built /\ "delete" \in dp2.built /\ "insert" \in Models
  BY DEF PublishInsert, Ready, Models, Refs
<1>4. /\ dp2' \in Runs(4, Models)
      /\ \/ dp2.built \cup {"insert"} = Models /\ dp2'.task = 3
         \/ dp2'.task = 2 /\ dp2'.built = dp2.built \cup {"insert"}
  BY <1>1, <1>2, <1>3, BuiltRun
<1>5. Types' /\ FeatureInv' /\ SilverInv'
  BY <1>1, <1>2, <1>4 DEF IInv, Types, FeatureInv, Feature, SilverInv
<1>6. GoldInv'
  BY <1>1, <1>2, <1>3, <1>4 DEF IInv, GoldInv, GoldNames, Models, Refs
<1>7. ServingInv'
  <2>1. KeysAreUnique(serving')
    BY <1>1, <1>2, <1>3 DEF IInv, ServingInv, KeysAreUnique
  <2>2. gold'.trending \subseteq serving' /\ KeysAreUnique(gold'.trending)
    BY <1>2 DEF IInv, ServingInv
  <2>3. dp2'.task = 2 => "insert" \in dp2'.built
    BY <1>4
  <2> QED BY <2>1, <2>2, <2>3 DEF ServingInv
<1> QED BY <1>5, <1>6, <1>7 DEF IInv

LEMMA ComputeFeatureKeeps == ASSUME IInv, ComputeFeature PROVE IInv'
<1>1. Types /\ dp3.task = 1
  BY TasksOrder DEF ComputeFeature, Dp3At, IInv, Types, Runs
<1>2. PICK m \in Features \ dp3.built :
        /\ features' = [features EXCEPT ![m] = Feature(m)]
        /\ dp3' = IF dp3.built \cup {m} = Features THEN Finished(dp3, Dp3Tasks)
                  ELSE [dp3 EXCEPT !.built = dp3.built \cup {m}]
  BY DEF ComputeFeature
<1>3. calm' = (calm \/ dp3.built = {}) /\ UNCHANGED <<inputs, silver, gold, serving, dp2>>
  BY DEF ComputeFeature
<1>4. PICK t : t = Feature(m)
  OBVIOUS
<1>5. On(features', Features) /\ features'[m] = t /\ \A k \in Features \ {m} : features'[k] = features[k]
  BY <1>1, <1>2, <1>4 DEF On, Types
<1>6. /\ dp3' \in Runs(2, Features)
      /\ \/ dp3'.task = 2 /\ dp3.built \cup {m} = Features
         \/ dp3'.task = 1 /\ dp3'.built = dp3.built \cup {m} /\ dp3'.state = "running"
  <2>1. CASE dp3.built \cup {m} = Features
    BY <1>1, <1>2, <2>1, NextOfDp3
  <2>2. CASE dp3.built \cup {m} # Features
    <3> DEFINE built == dp3.built \cup {m}
               new   == [dp3 EXCEPT !.built = built]
    <3>0. dp3.state = "running"
      BY DEF ComputeFeature, Dp3At
    <3>1. built \in SUBSET Features
      BY <1>1 DEF Types, Runs
    <3>2. new \in Runs(2, Features) /\ new.task = 1 /\ new.built = built
          /\ new.state = "running"
      BY <1>1, <3>0, <3>1 DEF Types, Runs
    <3> QED BY <1>2, <2>2, <3>2
  <2> QED BY <2>1, <2>2
<1>7. Types' /\ SilverInv'
  BY <1>3, <1>5, <1>6 DEF IInv, Types, SilverInv
<1>8. GoldInv' /\ ServingInv'
  BY <1>3 DEF IInv, GoldInv, ServingInv, KeysAreUnique
<1>9. FeatureInv'
  <2>1. ASSUME calm', NEW k \in dp3.built \cup {m} PROVE features'[k] = Feature(k)
    <3>1. CASE k = m
      BY <1>4, <1>5, <3>1
    <3>2. CASE k # m
      <4>1. calm /\ k \in dp3.built
        BY <1>3, <2>1, <3>2
      <4>2. features[k] = Feature(k)
        BY <1>1, <4>1 DEF IInv, FeatureInv
      <4>3. k \in Features
        BY <1>1, <4>1 DEF Types, Runs
      <4> QED BY <1>5, <3>2, <4>2, <4>3
    <3> QED BY <3>1, <3>2
  <2>2. \A k : Feature(k)' = Feature(k)
    BY <1>3 DEF Feature
  <2> QED BY <1>6, <2>1, <2>2 DEF FeatureInv
<1> QED BY <1>7, <1>8, <1>9 DEF IInv

LEMMA Invariance == Spec => []IInv
<1>1. ASSUME IInv, [Next]_vars PROVE IInv'
  <2>1. CASE Deliver \/ Dp1Start \/ Dp1Append \/ Dp1Dies
    BY <1>1, <2>1, SourceStep DEF Deliver, Dp1Start, Dp1Append, Dp1Dies
  <2>2. CASE TriggerDp2 \/ FailDp2 \/ ValidateInput \/ SilverQuality \/ GoldAndServingTests
    BY <1>1, <2>2, Dp2QuietKeeps
  <2>3. CASE TriggerDp3 \/ FailDp3 \/ FeatureContractTests
    BY <1>1, <2>3, Dp3QuietKeeps
  <2>4. CASE ReadBronze  BY <1>1, <2>4, ReadBronzeKeeps
  <2>5. CASE ReplaceSilver  BY <1>1, <2>5, ReplaceSilverKeeps
  <2>6. CASE ValidateOutput  BY <1>1, <2>6, ValidateOutputKeeps
  <2>7. CASE RunModel  BY <1>1, <2>7, RunModelKeeps
  <2>8. CASE PublishDelete  BY <1>1, <2>8, PublishDeleteKeeps
  <2>9. CASE PublishInsert  BY <1>1, <2>9, PublishInsertKeeps
  <2>10. CASE ComputeFeature  BY <1>1, <2>10, ComputeFeatureKeeps
  <2>11. CASE UNCHANGED vars
    BY <1>1, <2>11, SourceStep DEF vars, offline
  <2> QED BY <1>1, <2>1, <2>2, <2>3, <2>4, <2>5, <2>6, <2>7, <2>8, <2>9, <2>10, <2>11 DEF Next
<1> QED BY <1>1, InitInv, PTL DEF Spec

-----------------------------------------------------------------------------
(* Success *)

\* What a function takes from a finite set is finite.
LEMMA FiniteImage ==
  ASSUME NEW S, IsFiniteSet(S), NEW T, NEW g, \A y \in T : \E x \in S : y = g[x]
  PROVE  IsFiniteSet(T)
<1> DEFINE h == [y \in T |-> CHOOSE x \in S : y = g[x]]
<1>1. \A y \in T : h[y] \in S /\ y = g[h[y]]
  OBVIOUS
<1>2. h \in Injection(T, S)
  <2>1. h \in [T -> S]
    OBVIOUS
  <2>2. \A y, z \in T : h[y] = h[z] => y = z
    <3> HIDE DEF h
    <3> QED BY <1>1
  <2> HIDE DEF h
  <2> QED BY <2>1, <2>2 DEF Injection, IsInjective
<1> QED BY <1>2, FS_Injection

LEMMA FiniteDeduplicate == ASSUME NEW rows, IsFiniteSet(rows) PROVE IsFiniteSet(Deduplicate(rows))
<1> DEFINE g == [r \in rows |-> Newest({o \in rows : BusinessKey(o) = BusinessKey(r)})]
<1>1. \A y \in Deduplicate(rows) : \E x \in rows : y = g[x]
  BY DEF Deduplicate
<1> HIDE DEF g
<1> QED BY <1>1, FiniteImage

LEMMA FiniteSessions ==
  ASSUME NEW events, NEW content, IsFiniteSet(events)
  PROVE  IsFiniteSet(BuildSessions(events, content))
<1> DEFINE Session(group) ==
        LET e       == CHOOSE e \in group : TRUE
            watch   == Max({x.watch : x \in group})
            runtime == Runtime(content, e.content)
        IN  [session |-> e.session, user |-> e.user, content |-> e.content,
             started |-> Min({x.at : x \in group}),
             ended   |-> Max({x.at : x \in group}),
             watch   |-> watch,
             completed |-> \/ \E x \in group : x.completes
                           \/ runtime > 0 /\ watch * 100 >= CompletionPercent * runtime,
             events  |-> Cardinality(group)]
      Grain(e) == <<e.session, e.user, e.content>>
<1>1. BuildSessions(events, content) =
        {Session({e \in events : Grain(e) = g}) : g \in {Grain(e) : e \in events}}
  BY DEF BuildSessions
<1> HIDE DEF Session, Grain
<1> DEFINE g == [x \in events |-> Session({e \in events : Grain(e) = Grain(x)})]
<1>2. \A y \in BuildSessions(events, content) : \E x \in events : y = g[x]
  BY <1>1
<1> HIDE DEF g
<1> QED BY <1>2, FiniteImage

LEMMA FiniteStaged ==
  ASSUME NEW tables, IsFiniteSet(tables.events)
  PROVE  IsFiniteSet(Transformed(tables).sessions)
<1>1. IsFiniteSet(Valid(tables.events))
  BY FS_Subset DEF Valid
<1>2. IsFiniteSet(StageEvents(tables.events))
  BY <1>1, FiniteDeduplicate DEF StageEvents
<1> QED BY <1>2, FiniteSessions DEF Transformed

\* A session has a fact at least, so that facts are as many when none has two.
LEMMA AsManyFacts ==
  ASSUME NEW sessions, IsFiniteSet(sessions), NEW users, NEW content,
         \A f, g \in Facts(sessions, users, content) : f.play = g.play => f = g
  PROVE  Cardinality(Facts(sessions, users, content)) = Cardinality(sessions)
<1> DEFINE facts == Facts(sessions, users, content)
<1>1. ASSUME NEW dimension, NEW key, NEW time PROVE SurrogateKeys(dimension, key, time) # {}
  BY DEF SurrogateKeys
<1>2. \A f : f \in facts <=> \E s \in sessions : \E u \in SurrogateKeys(users, s.user, s.started),
        c \in SurrogateKeys(content, s.content, s.started) : f = [play |-> s, userSk |-> u, contentSk |-> c]
  BY DEF Facts
<1>3. \A f \in facts : f.play \in sessions
  BY <1>2
<1>4. ASSUME NEW s \in sessions PROVE \E f \in facts : f.play = s
  <2>1. PICK u \in SurrogateKeys(users, s.user, s.started) : TRUE
    BY <1>1
  <2>2. PICK c \in SurrogateKeys(content, s.content, s.started) : TRUE
    BY <1>1
  <2>3. [play |-> s, userSk |-> u, contentSk |-> c] \in facts
    BY <1>2, <2>1, <2>2
  <2> QED BY <2>3
<1> HIDE DEF facts
<1> DEFINE h == [s \in sessions |-> CHOOSE f \in facts : f.play = s]
<1>5. \A s \in sessions : h[s] \in facts /\ h[s].play = s
  BY <1>4
<1>6. h \in [sessions -> facts]
  BY <1>5
<1> HIDE DEF h
<1>7. h \in Bijection(sessions, facts)
  <2>1. \A f \in facts : f.play \in sessions /\ h[f.play] = f
    BY <1>3, <1>5 DEF facts
  <2>2. \A s, t \in sessions : h[s] = h[t] => s = t
    BY <1>5
  <2>3. h \in Injection(sessions, facts)
    BY <1>6, <2>2 DEF Injection, IsInjective
  <2>4. h \in Surjection(sessions, facts)
    BY <1>6, <2>1 DEF Surjection
  <2> QED BY <2>3, <2>4 DEF Bijection
<1>8. ExistsBijection(sessions, facts)
  BY <1>7 DEF ExistsBijection
<1> QED BY <1>8, FS_Bijection DEF facts

DatasetNames == {"users", "subscriptions", "content", "events"}

AllFinite(tables) == DOMAIN tables = DatasetNames /\ \A d \in DatasetNames : IsFiniteSet(tables[d])

\* Only finitely many rows are ever delivered.
FiniteInv ==
  /\ AllFinite(landing) /\ AllFinite(bronze) /\ AllFinite(dp1.rows) /\ AllFinite(inputs)
  /\ DOMAIN dp1 = {"at", "rows", "run"}

\* A run that succeeded has seen the tests pass on the Gold that stands.
TestedInv == dp2.state = "success" => dp2.task = 4 /\ GoldTests(gold)

LEMMA NamesAre == {Datasets[i] : i \in 1 .. 4} = DatasetNames
BY DEF Datasets, DatasetNames

LEMMA FiniteUpdated ==
  ASSUME NEW tables, AllFinite(tables), NEW d \in DatasetNames, NEW rows, IsFiniteSet(rows),
         NEW new, new = [tables EXCEPT ![d] = rows]
  PROVE  AllFinite(new)
BY DEF AllFinite

LEMMA FiniteInit == Init => FiniteInv
<1> SUFFICES ASSUME Init PROVE FiniteInv
  OBVIOUS
<1>1. AllFinite(NoRows)
  BY NamesAre, FS_EmptySet DEF NoRows, AllFinite
<1>2. AllFinite(Delivered) /\ \A b \in Starts : AllFinite(b)
  BY NamesAre, TablesAssumption DEF AllFinite
<1> QED BY <1>1, <1>2 DEF Init, FiniteInv

LEMMA FiniteNext == ASSUME FiniteInv, [Next]_vars PROVE FiniteInv'
<1>1. CASE Deliver
  <2>1. PICK d \in DOMAIN landing : \E row \in Rows[d] \ landing[d] :
          landing' = [landing EXCEPT ![d] = @ \cup {row}]
    BY <1>1 DEF Deliver
  <2>2. PICK row : landing' = [landing EXCEPT ![d] = landing[d] \cup {row}]
    BY <2>1
  <2>3. d \in DatasetNames /\ IsFiniteSet(landing[d])
    BY <2>1 DEF FiniteInv, AllFinite
  <2>4. IsFiniteSet(landing[d] \cup {row})
    BY <2>3, FS_AddElement
  <2>5. AllFinite(landing')
    BY <2>2, <2>3, <2>4, FiniteUpdated DEF FiniteInv
  <2> QED BY <1>1, <2>5 DEF Deliver, FiniteInv
<1>2. CASE Dp1Start
  BY <1>2 DEF Dp1Start, FiniteInv
<1>3. CASE Dp1Append
  <2>1. PICK d : d = Datasets[dp1.at] /\ d \in DatasetNames
    BY <1>3, NamesAre DEF Dp1Append
  <2>2. PICK rows : /\ rows = {[row EXCEPT !.ingested = dp1.run] : row \in dp1.rows[d]}
                    /\ bronze' = [bronze EXCEPT ![d] = bronze[d] \cup rows]
    BY <1>3, <2>1 DEF Dp1Append
  <2>3. IsFiniteSet(dp1.rows[d]) /\ IsFiniteSet(bronze[d])
    BY <2>1 DEF FiniteInv, AllFinite
  <2>4. IsFiniteSet(rows)
    <3> DEFINE g == [row \in dp1.rows[d] |-> [row EXCEPT !.ingested = dp1.run]]
    <3>1. \A y \in rows : \E x \in dp1.rows[d] : y = g[x]
      BY <2>2
    <3> HIDE DEF g
    <3> QED BY <2>3, <3>1, FiniteImage
  <2>5. IsFiniteSet(bronze[d] \cup rows)
    BY <2>3, <2>4, FS_Union
  <2>6. AllFinite(bronze')
    BY <2>1, <2>2, <2>5, FiniteUpdated DEF FiniteInv
  <2>7. dp1'.rows = dp1.rows /\ DOMAIN dp1' = DOMAIN dp1
    BY <1>3 DEF Dp1Append, FiniteInv
  <2> QED BY <1>3, <2>6, <2>7 DEF Dp1Append, FiniteInv
<1>4. CASE Dp1Dies
  BY <1>4 DEF Dp1Dies, FiniteInv
<1>5. CASE ReadBronze
  <2>1. PICK i \in 1 .. 4 : inputs' = [inputs EXCEPT ![Datasets[i]] = bronze[Datasets[i]]]
    BY <1>5 DEF ReadBronze
  <2>2. Datasets[i] \in DatasetNames
    BY NamesAre
  <2>3. AllFinite(inputs')
    <3>1. IsFiniteSet(bronze[Datasets[i]])
      BY <2>2 DEF FiniteInv, AllFinite
    <3> QED BY <2>1, <2>2, <3>1, FiniteUpdated DEF FiniteInv
  <2> QED BY <1>5, <2>3 DEF ReadBronze, sources, FiniteInv
<1>6. ASSUME UNCHANGED <<sources, inputs>> PROVE FiniteInv'
  BY <1>6 DEF sources, FiniteInv
<1>7. CASE UNCHANGED vars
  BY <1>6, <1>7 DEF vars, sources
<1> QED BY <1>1, <1>2, <1>3, <1>4, <1>5, <1>6, <1>7 DEF Next,
  TriggerDp2, FailDp2, ValidateInput, ReplaceSilver, ValidateOutput, RunModel, PublishDelete,
  PublishInsert, SilverQuality, GoldAndServingTests, TriggerDp3, FailDp3, ComputeFeature, FeatureContractTests

\* A run ends well at its last task only.
LEMMA FinishedAt ==
  ASSUME Types, dp2.state = "running", dp2' = Finished(dp2, Dp2Tasks), dp2.task # 4
  PROVE  dp2'.state = "running"
BY DEF Finished, Types, Runs, Dp2Tasks

LEMMA TestedNext == ASSUME Types, TestedInv, [Next]_vars PROVE TestedInv'
<1>0. DOMAIN dp2 = {"state", "runs", "task", "tries", "step", "built"}
  BY DEF Types, Runs
<1>1. ASSUME UNCHANGED <<gold, dp2>> PROVE TestedInv'
  BY <1>1 DEF TestedInv, GoldTests
<1>2. ASSUME dp2'.state # "success" PROVE TestedInv'
  BY <1>2 DEF TestedInv
<1>3. ASSUME dp2.state = "running", dp2' = Retried(dp2) PROVE TestedInv'
  BY <1>0, <1>2, <1>3 DEF Retried
<1>4. ASSUME dp2.state = "running", dp2' = Finished(dp2, Dp2Tasks), dp2.task # 4 PROVE TestedInv'
  BY <1>2, <1>4, FinishedAt
<1>5. ASSUME dp2.state = "running", dp2' = Stepped PROVE TestedInv'
  BY <1>0, <1>2, <1>5 DEF Stepped
<1>6. CASE Deliver \/ Dp1Start \/ Dp1Append \/ Dp1Dies \/ TriggerDp3 \/ FailDp3 \/ ComputeFeature
           \/ FeatureContractTests \/ UNCHANGED vars
  BY <1>1, <1>6 DEF Deliver, Dp1Start, Dp1Append, Dp1Dies, TriggerDp3, FailDp3, ComputeFeature,
       FeatureContractTests, vars
<1>7. CASE TriggerDp2
  BY <1>2, <1>7 DEF TriggerDp2, Started
<1>8. CASE FailDp2
  BY <1>3, <1>8 DEF FailDp2
<1>9. CASE ReadBronze \/ ReplaceSilver
  BY <1>5, <1>9 DEF ReadBronze, ReplaceSilver, Dp2At
<1>10. CASE ValidateInput
  BY <1>3, <1>5, <1>10 DEF ValidateInput, Dp2At
<1>11. ASSUME NEW t \in 1 .. 3, Dp2At(Dp2Tasks[t]) PROVE dp2.task = t /\ dp2.state = "running"
  BY <1>11, TasksOrder DEF Dp2At, Types, Runs, Dp2Tasks
<1>12. CASE ValidateOutput
  BY <1>3, <1>4, <1>11, <1>12 DEF ValidateOutput, Dp2Tasks
<1>13. CASE SilverQuality
  BY <1>3, <1>4, <1>11, <1>13 DEF SilverQuality, Dp2Tasks
<1>14. ASSUME NEW m, Ready(m), dp2' = Built(m) PROVE TestedInv'
  <2>1. dp2.task # 4 /\ dp2.state = "running"
    BY <1>11, <1>14 DEF Ready, Dp2Tasks
  <2>2. CASE dp2' = Finished(dp2, Dp2Tasks)
    BY <1>4, <2>1, <2>2
  <2>3. CASE dp2' = [dp2 EXCEPT !.built = dp2.built \cup {m}]
    BY <1>0, <1>2, <2>1, <2>3
  <2> QED BY <1>14, <2>2, <2>3 DEF Built
<1>15. CASE RunModel \/ PublishDelete \/ PublishInsert
  BY <1>14, <1>15 DEF RunModel, PublishDelete, PublishInsert
<1>16. CASE GoldAndServingTests
  <2>1. dp2.state = "running" /\ dp2.task = 4 /\ UNCHANGED gold
    BY <1>16, TasksOrder DEF GoldAndServingTests, Dp2At, Types, Runs
  <2>2. CASE GoldTests(gold)
    <3>1. dp2' = [dp2 EXCEPT !.state = "success"]
      BY <1>16, <2>1, <2>2, TasksOrder DEF GoldAndServingTests, Finished
    <3> QED BY <1>0, <2>1, <2>2, <3>1 DEF TestedInv, GoldTests
  <2>3. CASE ~GoldTests(gold)
    BY <1>3, <1>16, <2>1, <2>3 DEF GoldAndServingTests
  <2> QED BY <2>2, <2>3
<1> QED BY <1>6, <1>7, <1>8, <1>9, <1>10, <1>12, <1>13, <1>15, <1>16 DEF Next

-----------------------------------------------------------------------------
(* Theorems *)

\* The state has its type throughout.
THEOREM Typing == Spec => []Types
<1>1. IInv => Types
  BY DEF IInv
<1> QED BY <1>1, Invariance, PTL

\* Silver is of one reading of Bronze whenever bronze_to_silver has succeeded.
THEOREM SilverOfOneReading == Spec => []SilverIsOfOneReading
<1>1. IInv => SilverIsOfOneReading
  BY DEF IInv, SilverInv, SilverIsOfOneReading, Past
<1> QED BY <1>1, Invariance, PTL

\* Gold is of one Silver whenever gold_and_serving has succeeded.
THEOREM GoldOfOneSilver == Spec => []GoldIsOfOneSilver
<1>1. IInv => GoldIsOfOneSilver
  BY DEF IInv, Types, On, GoldInv, GoldIsOfOneSilver, Past
<1> QED BY <1>1, Invariance, PTL

\* A feature run that succeeds leaves features of one Gold, if Gold stood still.
THEOREM FeaturesOfOneGold == Spec => []FeaturesAreOfOneGold
<1>1. IInv => FeaturesAreOfOneGold
  BY DEF IInv, FeatureInv, FeaturesAreOfOneGold
<1> QED BY <1>1, Invariance, PTL

\* The serving table keeps its key, and covers the mart when it is published.
THEOREM ServingCovers == Spec => []ServingCoversTheMart
<1>1. IInv => ServingCoversTheMart
  BY DEF IInv, ServingInv, KeysAreUnique, ServingCoversTheMart, Past
<1> QED BY <1>1, Invariance, PTL

\* A run that succeeds leaves facts that resolve and rollups of every session.
THEOREM SuccessesAreComplete == Spec => []SuccessIsComplete
<1>1. Spec => []FiniteInv
  BY FiniteInit, FiniteNext, PTL DEF Spec
<1>2. Spec => []TestedInv
  <2>1. Init => TestedInv
    BY DEF Init, NoRun, TestedInv
  <2> QED BY <2>1, TestedNext, Typing, PTL DEF Spec
<1>3. ASSUME IInv, FiniteInv, TestedInv PROVE SuccessIsComplete
  <2> SUFFICES ASSUME dp2.state = "success"
               PROVE  /\ \A f \in gold.facts : f.userSk # NoKey /\ f.contentSk # NoKey
                      /\ PlaysIn(gold.engagement) = Cardinality(silver.sessions)
                      /\ PlaysIn(gold.trending) = Cardinality(silver.sessions)
    BY DEF SuccessIsComplete
  <2>1. dp2.task = 4 /\ GoldTests(gold)
    BY <1>3 DEF TestedInv
  <2>2. gold.facts = Facts(silver.sessions, gold.users, gold.content)
    BY <1>3, <2>1 DEF IInv, GoldInv, GoldNames, Table
  <2>3. silver = Transformed(inputs)
    BY <1>3, <2>1 DEF IInv, SilverInv
  <2>4. IsFiniteSet(silver.sessions)
    BY <1>3, <2>3, FiniteStaged DEF FiniteInv, AllFinite, DatasetNames
  <2>5. Cardinality(gold.facts) = Cardinality(silver.sessions)
    BY <2>1, <2>2, <2>4, AsManyFacts DEF GoldTests
  <2>6. \A dimension : \A k \in Keys(dimension) : k # NoKey
    <3>1. \A a, b : <<a, b>> # <<>>
      OBVIOUS
    <3> QED BY <3>1 DEF Keys, NoKey
  <2> QED BY <2>1, <2>5, <2>6 DEF GoldTests
<1> QED BY <1>1, <1>2, <1>3, Invariance, PTL
=============================================================================
