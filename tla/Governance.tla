----------------------------- MODULE Governance -----------------------------
(***************************************************************************)
(* What DataHub shows of the pipelines' health: a publication validates    *)
(* Bronze, reads the dbt artifacts and emits contracts with the results of *)
(* their assertions; a verification reads them back.  Beside them run the  *)
(* dbt tests of the DAGs, whose container keeps its artifacts, and those   *)
(* of make, which leave them in ./artifacts/dbt.                           *)
(***************************************************************************)
EXTENDS Integers, Sequences, FiniteSets, SequencesExt

CONSTANTS
  Contracts,       \* names, in the order of main
  Assertions,      \* of each contract, in order: [name, source]
  MaxPublications, \* bound
  MaxDbtRuns       \* bound: dbt commands, in DAGs and by hand

Outcomes == {"passing", "failing"}
DbtSources == {"dp2_tests", "dp3_tests"}
Sources  == {"suite", "catalog", "registry"} \cup DbtSources

ASSUME GovernanceAssumption ==
  /\ {MaxPublications, MaxDbtRuns} \subseteq Nat
  /\ Contracts \in Seq(ToSet(Contracts)) /\ Contracts # <<>> /\ IsInjective(Contracts)
  /\ \A c \in ToSet(Contracts) : /\ Assertions[c] \in Seq(ToSet(Assertions[c])) /\ Assertions[c] # <<>>
                                 /\ \A i \in DOMAIN Assertions[c] : Assertions[c][i].source \in Sources
  /\ \A c, d \in ToSet(Contracts) : c # d => ToSet(Assertions[c]) \cap ToSet(Assertions[d]) = {}

AllAssertions == UNION {ToSet(Assertions[c]) : c \in ToSet(Contracts)}

\* Mutant: the contract comes before its assertions.
ContractFirst(c) ==
  <<<<"contract", c>>>> \o FlattenSeq([i \in DOMAIN Assertions[c] |->
    <<<<"definition", Assertions[c][i]>>, <<"result", Assertions[c][i]>>>>])

\* publish_contract: definition and result of each assertion, then the contract.
EmitsOf(c) ==
  FlattenSeq([i \in DOMAIN Assertions[c] |->
    <<<<"definition", Assertions[c][i]>>, <<"result", Assertions[c][i]>>>>]) \o <<<<"contract", c>>>>

Emits  == FlattenSeq([i \in DOMAIN Contracts |-> EmitsOf(Contracts[i])])
Checks == FlattenSeq([i \in DOMAIN Contracts |-> Assertions[Contracts[i]]])
ContractOf(check) == CHOOSE c \in ToSet(Contracts) : check \in ToSet(Assertions[c])

VARIABLES
  results,      \* [DbtSources -> ...]: the tests in run_results.json of ./artifacts/dbt
  dbtRuns, publications,
  publisher,    \* [pc, got: outcomes read, emitted]
  hub,          \* DataHub: [enriched, defined, result, contracts]
  verifier,     \* [pc, checked]
  evidence,     \* history: sources that passed at some time
  disturbed     \* history: DataHub has changed since the verification began

vars == <<results, dbtRuns, publications, publisher, hub, verifier, evidence, disturbed>>
world == <<results, dbtRuns, evidence>>

NothingRead == [s \in Sources |-> "none"]

\* The same for the tests of the models of DP2 and of DP3.
Neither(found) == [s \in DbtSources |-> found]

Init ==
  /\ results = Neither("no_file")
  /\ dbtRuns = 0 /\ publications = 0
  /\ publisher = [pc |-> "idle", got |-> NothingRead, emitted |-> 0]
  /\ hub = [enriched |-> FALSE, defined |-> {}, result |-> [a \in AllAssertions |-> "none"],
            contracts |-> {}]
  /\ verifier = [pc |-> "idle", checked |-> 0]
  /\ evidence = {} /\ disturbed = FALSE

-----------------------------------------------------------------------------
(* dbt *)

\* make dbt-test, of every model: the artifacts of the latest command replace the
\* others.  The dbt tasks of the DAGs run in containers without that directory and
\* leave none.
MakeTests ==
  /\ dbtRuns < MaxDbtRuns /\ dbtRuns' = dbtRuns + 1
  /\ results' \in [DbtSources -> Outcomes]
  /\ evidence' = evidence \cup {s \in DbtSources : results'[s] = "passing"}
  /\ UNCHANGED <<publications, publisher, hub, verifier, disturbed>>

\* make dbt-run: run_results.json without a test.
MakeRun ==
  /\ dbtRuns < MaxDbtRuns /\ dbtRuns' = dbtRuns + 1
  /\ results' = Neither("no_tests")
  /\ UNCHANGED <<publications, publisher, hub, verifier, evidence, disturbed>>

-----------------------------------------------------------------------------
(* make governance-publish *)

Publisher(pc) == publisher' = [publisher EXCEPT !.pc = pc]

Publish ==
  /\ publisher.pc \in {"idle", "done", "failed"} /\ publications < MaxPublications
  /\ publications' = publications + 1
  /\ publisher' = [pc |-> "suite", got |-> NothingRead, emitted |-> 0]
  /\ UNCHANGED <<world, hub, verifier, disturbed>>

\* run_gx: a suite that fails raises, and set -e ends publish.sh.
RunSuite ==
  /\ publisher.pc = "suite"
  /\ \E outcome \in Outcomes :
       /\ publisher' = [publisher EXCEPT !.pc = IF outcome = "passing" THEN "read" ELSE "failed",
                                         !.got["suite"] = outcome]
       /\ evidence' = IF outcome = "passing" THEN evidence \cup {"suite"} ELSE evidence
  /\ UNCHANGED <<results, dbtRuns, publications, hub, verifier, disturbed>>

Got(source, outcome) == publisher' = [publisher EXCEPT !.got[source] = outcome]

\* Mutant: no test result is no failure.
SummaryOfNothing(found) ==
  CASE found = "passing" -> "passing"
    [] found = "failing" -> "failing"
    [] found = "no_tests" -> "passing"
    [] OTHER -> "raise"

\* dbt_test_summary; no file and no test results raise.
Summary(found) == IF found \in Outcomes THEN found ELSE "raise"

ReadTests(source) ==
  /\ publisher.pc = "read" /\ publisher.got[source] = "none"
  /\ source = "dp3_tests" => publisher.got["dp2_tests"] # "none"
  /\ IF Summary(results[source]) = "raise" THEN Publisher("failed")
     ELSE Got(source, Summary(results[source]))
  /\ UNCHANGED <<world, publications, hub, verifier, disturbed>>

\* dbt_schema_result and schema_registry_result, which may raise, too.
ReadSchema(source) ==
  /\ publisher.pc = "read" /\ publisher.got[source] = "none"
  /\ publisher.got["dp3_tests"] # "none" /\ (source = "registry" => publisher.got["catalog"] # "none")
  /\ \/ Publisher("failed") /\ UNCHANGED evidence
     \/ \E outcome \in Outcomes :
          /\ Got(source, outcome)
          /\ evidence' = IF outcome = "passing" THEN evidence \cup {source} ELSE evidence
  /\ UNCHANGED <<results, dbtRuns, publications, hub, verifier, disturbed>>

EverythingRead == \A s \in Sources : publisher.got[s] # "none"

\* publish_foundation and enrich_entity of the datasets and pipelines.
Enrich ==
  /\ publisher.pc = "read" /\ EverythingRead
  /\ Publisher("emit")
  /\ hub' = [hub EXCEPT !.enriched = TRUE] /\ disturbed' = TRUE
  /\ UNCHANGED <<world, publications, verifier>>

\* One aspect of publish_contract.
Emit ==
  /\ publisher.pc = "emit" /\ publisher.emitted < Len(Emits)
  /\ publisher' = [publisher EXCEPT !.emitted = @ + 1,
                                    !.pc = IF publisher.emitted + 1 = Len(Emits) THEN "done" ELSE "emit"]
  /\ LET aspect == Emits[publisher.emitted + 1]
     IN  hub' = CASE aspect[1] = "definition" -> [hub EXCEPT !.defined = @ \cup {aspect[2]}]
                  [] aspect[1] = "result" -> [hub EXCEPT !.result[aspect[2]] = publisher.got[aspect[2].source]]
                  [] OTHER -> [hub EXCEPT !.contracts = @ \cup {aspect[2]}]
  /\ disturbed' = TRUE
  /\ UNCHANGED <<world, publications, verifier>>

\* A request that DataHub refuses, or a kill.
PublisherDies ==
  /\ publisher.pc \in {"suite", "read", "emit"}
  /\ Publisher("failed")
  /\ UNCHANGED <<world, publications, hub, verifier, disturbed>>

-----------------------------------------------------------------------------
(* make governance-verify *)

Verify ==
  /\ verifier.pc # "check"
  /\ verifier' = [pc |-> IF hub.enriched THEN "check" ELSE "failed", checked |-> 0]
  /\ disturbed' = FALSE
  /\ UNCHANGED <<world, publications, publisher, hub>>

\* Mutant: any result will do.
GoodIfPresent(a) ==
  ContractOf(a) \in hub.contracts /\ a \in hub.defined /\ hub.result[a] # "none"

\* Contract, definition and latest result are there, and it is a success.
Good(a) ==
  ContractOf(a) \in hub.contracts /\ a \in hub.defined /\ hub.result[a] = "passing"

Check ==
  /\ verifier.pc = "check"
  /\ LET next == verifier.checked + 1
     IN  verifier' = IF ~Good(Checks[next]) THEN [verifier EXCEPT !.pc = "failed"]
                     ELSE [pc |-> IF next = Len(Checks) THEN "passed" ELSE "check", checked |-> next]
  /\ UNCHANGED <<world, publications, publisher, hub, disturbed>>

Next ==
  \/ MakeTests \/ MakeRun
  \/ Publish \/ RunSuite \/ Enrich \/ Emit \/ PublisherDies
  \/ \E source \in DbtSources : ReadTests(source)
  \/ \E source \in {"catalog", "registry"} : ReadSchema(source)
  \/ Verify \/ Check

Spec == Init /\ [][Next]_vars

-----------------------------------------------------------------------------
(* Properties *)

\* A contract that DataHub shows has all its assertions, with a definition and a
\* result, even if the publication that emitted it died, or the first one did.
ContractIsComplete ==
  \A c \in hub.contracts : \A a \in ToSet(Assertions[c]) : a \in hub.defined /\ hub.result[a] # "none"

\* What DataHub shows as passed did pass: no missing file, no dbt command without
\* tests and no failing suite makes a success.
SuccessHasEvidence ==
  \A a \in AllAssertions : hub.result[a] = "passing" => a.source \in evidence

\* "Fail unless pipelines, governed datasets, contracts, and passing runs exist":
\* unless a publication wrote while it read, a verification that passed leaves a
\* DataHub with every contract and nothing but passing assertions.
VerifiedIsPassing ==
  verifier.pc = "passed" /\ ~disturbed =>
    /\ hub.contracts = ToSet(Contracts)
    /\ \A a \in AllAssertions : a \in hub.defined /\ hub.result[a] = "passing"
=============================================================================
