------------------------------ MODULE Platform ------------------------------
(***************************************************************************)
(* The components beside the import queue, the task scheduler, native      *)
(* authentication and the paper ledger.                                    *)
(*                                                                         *)
(* They share no state that these modules model: what one does is enabled  *)
(* and has the same effect whatever the others did.  A behaviour therefore *)
(* lets one of them run, and the properties, none of which is about two    *)
(* components, see every behaviour that an interleaving would show them.   *)
(***************************************************************************)
EXTENDS Integers, Sequences, FiniteSets

CONSTANTS
    Requests,                                                   \* of whatever runs
    Users, Workspaces,                                          \* WorkspaceMembers
    Forecasts, ForecastValues, Windows, MaxTime, MaxVersions,   \* ForecastLedger
    FeatureDefinitions, CompanyIds, Inputs, Numbers, Universe, Capacity, MaxDefinitions,
    MaxRows, MaxScreenings,                                     \* FeatureStore
    ImportJobs, Config, Answers, MaxAttempt,                    \* ImportRun
    Stocks, Histories, Tactics, InitialCash, Commission, Friction, Delay, PositionLimit,
    ExposureLimit,                                              \* Backtest
    Schedules, Workers, Callers, DayLength, LastInstant,        \* ImportSchedules
    IdentifierValues, Entities,                                 \* EntityResolution
    Companies, Others, EntityFacts, RelationshipFacts, RecomputeKeys, Depth, Now,
    MaxRelationships, MaxProfiles,                              \* EconomicGraph
    Processes, Attempts, Keys, Home, Limits, Concurrency, RateWindow, Patience, LastMoment,
                                                                \* AuthAdmission
    Archetypes, Unpromising, Folds                              \* HypothesisLifecycle

VARIABLES
    component,                                                  \* the one that runs
    slugs, roles, visit,                                        \* WorkspaceMembers
    clock, forecasts, outcomes, scores, errand,                 \* ForecastLedger
    definitions, values, runs, candidates,                      \* FeatureStore
    bars, jobs, batches, executions, health,                    \* ImportRun
    history, tactic, today, purse, held, targets, pending, signals, trades, \* Backtest
    instant, schedules, dueRuns, evaluation, unconfigured,      \* ImportSchedules
    identifiers, matches, decisions, review,                    \* EntityResolution
    entities, relationships, profiles, recomputes,              \* EconomicGraph
    seconds, buckets, gate, locks, attempt, admitted,           \* AuthAdmission
    research, seeding,                                          \* HypothesisLifecycle
    backend, schema, durable, command                           \* SchemaMigrations

membersVars == <<slugs, roles, visit>>
ledgerVars == <<clock, forecasts, outcomes, scores, errand>>
featuresVars == <<definitions, values, runs, candidates>>
importVars == <<bars, jobs, batches, executions, health>>
simulationVars == <<history, tactic, today, purse, held, targets, pending, signals, trades>>
scheduleVars == <<instant, schedules, dueRuns, evaluation, unconfigured>>
resolutionVars == <<identifiers, matches, decisions, review>>
graphVars == <<entities, relationships, profiles, recomputes>>
admissionVars == <<seconds, buckets, gate, locks, attempt, admitted>>
hypothesesVars == <<research, seeding>>
migrationsVars == <<backend, schema, durable, command>>
vars == <<component, membersVars, ledgerVars, featuresVars, importVars, simulationVars,
          scheduleVars, resolutionVars, graphVars, admissionVars, hypothesesVars, migrationsVars>>

-----------------------------------------------------------------------------
(* The instances, and what their theorems assume of the constants: the     *)
(* bounds of the clocks and of rows are numbers, a workspace has finitely  *)
(* many users, a job lists its symbols and an answer of a provider ends;   *)
(* bars have a time of publication, and the delay is at least one bar      *)
(* (BacktestConfig).  Types of the backtest also need what is validated    *)
(* before it runs: a price is positive, friction is at most 7.5 percent,   *)
(* and a strategy is one of the registry.                                  *)

ASSUME UsersAssumption == IsFiniteSet(Users)
ASSUME ForecastsAssumption ==
    /\ MaxTime \in Nat /\ MaxVersions \in Nat
    /\ Windows \subseteq [as_of : 0..MaxTime, start : 0..MaxTime, end : 0..MaxTime,
                          eligible : 0..MaxTime]
ASSUME FeaturesAssumption ==
    /\ MaxDefinitions \in Nat \ {0} /\ MaxRows \in Nat
    /\ Len(Capacity) \in Nat /\ DOMAIN Capacity = 1..Len(Capacity)
ASSUME SimulationAssumption ==
    /\ IsFiniteSet(Stocks) /\ Delay \in Nat \ {0}
    /\ \A h \in Histories :
         Len(h[1]) \in Nat
         /\ \A s \in Stocks : \A d \in 1..Len(h[1]) : h[s][d].published \in Nat
ASSUME PricesAssumption ==
    /\ Stocks = 1..Cardinality(Stocks)
    /\ \A h \in Histories, s \in Stocks : \A d \in 1..Len(h[1]) : h[s][d].open \in Nat \ {0}
    /\ \A strategy \in Tactics :
         strategy.key \in {"buy_and_hold", "moving_average_crossover", "momentum",
                          "mean_reversion", "rsi_threshold", "volatility_breakout",
                          "equal_weight_rebalance"}
    /\ InitialCash \in Nat /\ Commission \in Nat /\ Friction \in 0..100
    /\ PositionLimit \in Nat /\ ExposureLimit \in Nat
ASSUME SchedulesAssumption == DayLength \in Nat /\ LastInstant \in Nat
ASSUME AdmissionAssumption ==
    /\ IsFiniteSet(Attempts) /\ "free" \notin Attempts
    /\ Home \in [Attempts -> Processes] /\ Concurrency \in Nat
    /\ \A a \in Attempts : \A k \in Keys[a] : Limits[k] \in Nat
    /\ RateWindow \in Nat /\ Patience \in Nat /\ LastMoment \in Nat
ASSUME WalksAssumption ==
    /\ Depth \in Nat /\ Now \in Nat
    /\ EntityFacts \subseteq
         [valid_from : 0..Now, valid_to : 0..(Now + 1), eligible : 0..Now,
          status : {"candidate", "verified", "disputed", "expired", "rejected"}]
    /\ RelationshipFacts \subseteq
         [subject : Companies \union Others, object : Companies \union Others,
          valid_from : 0..Now, valid_to : 0..(Now + 1), eligible : 0..Now,
          status : {"candidate", "verified", "disputed", "expired", "rejected"},
          evidence : SUBSET (0..Now)]
ASSUME ImportsAssumption ==
    /\ MaxAttempt \in Nat
    /\ \A j \in ImportJobs :
         /\ Len(Config[j].symbols) \in Nat
         /\ DOMAIN Config[j].symbols = 1..Len(Config[j].symbols)
         /\ \A i \in DOMAIN Config[j].symbols : \A answer \in Answers[Config[j].symbols[i]] :
              answer.kind \notin {"temporary", "unreachable", "permanent"} =>
                IsFiniteSet(answer.records) /\ \A r \in answer.records : r.day \in Nat
ASSUME HypothesesAssumption ==
    /\ Len(Archetypes) \in Nat /\ DOMAIN Archetypes = 1..Len(Archetypes)
    /\ Folds \in Nat

Members == INSTANCE WorkspaceMembers
Ledger == INSTANCE ForecastLedger WITH Values <- ForecastValues
Features == INSTANCE FeatureStore WITH Features <- FeatureDefinitions, Entities <- CompanyIds
Import == INSTANCE ImportRun
Simulation == INSTANCE Backtest
Schedule == INSTANCE ImportSchedules WITH Requests <- Callers
Resolution == INSTANCE EntityResolution WITH
    Values <- IdentifierValues, Reviews <- Requests, candidates <- matches
Graph == INSTANCE EconomicGraph
Admission == INSTANCE AuthAdmission WITH Window <- RateWindow
Hypotheses == INSTANCE HypothesisLifecycle WITH Seedings <- Requests
Migrations == INSTANCE SchemaMigrations

-----------------------------------------------------------------------------
(* Each of them alone.                                                     *)

Components == {"members", "ledger", "features", "import", "simulation", "schedule",
               "resolution", "graph", "admission", "hypotheses", "migrations"}

Init ==
    /\ component \in Components
    /\ Members!Init /\ Ledger!Init /\ Features!Init /\ Import!Init /\ Simulation!Init
    /\ Schedule!Init /\ Resolution!Init /\ Graph!Init /\ Admission!Init /\ Hypotheses!Init
    /\ Migrations!Init
    /\ component # "migrations" => backend = "sqlite"

Next ==
    /\ IF component = "members" THEN Members!Next ELSE UNCHANGED membersVars
    /\ IF component = "ledger" THEN Ledger!Next ELSE UNCHANGED ledgerVars
    /\ IF component = "features" THEN Features!Next ELSE UNCHANGED featuresVars
    /\ IF component = "import" THEN Import!Next ELSE UNCHANGED importVars
    /\ IF component = "simulation" THEN Simulation!Next ELSE UNCHANGED simulationVars
    /\ IF component = "schedule" THEN Schedule!Next ELSE UNCHANGED scheduleVars
    /\ IF component = "resolution" THEN Resolution!Next ELSE UNCHANGED resolutionVars
    /\ IF component = "graph" THEN Graph!Next ELSE UNCHANGED graphVars
    /\ IF component = "admission" THEN Admission!Next ELSE UNCHANGED admissionVars
    /\ IF component = "hypotheses" THEN Hypotheses!Next ELSE UNCHANGED hypothesesVars
    /\ IF component = "migrations" THEN Migrations!Next ELSE UNCHANGED migrationsVars
    /\ UNCHANGED component

Spec == Init /\ [][Next]_vars
-----------------------------------------------------------------------------
(* Properties: those of the components, where they are stated in full.     *)

(* Every row, transaction and cursor of the component that runs has its    *)
(* type.                                                                   *)
TypeOK ==
    CASE component = "members"    -> Members!TypeOK
      [] component = "ledger"     -> Ledger!TypeOK
      [] component = "features"   -> Features!TypeOK
      [] component = "import"     -> Import!TypeOK
      [] component = "simulation" -> Simulation!TypeOK
      [] component = "schedule"   -> Schedule!TypeOK
      [] component = "resolution" -> Resolution!TypeOK
      [] component = "graph"      -> Graph!TypeOK
      [] component = "admission"  -> Admission!TypeOK
      [] component = "hypotheses" -> Hypotheses!TypeOK
      [] component = "migrations" -> Migrations!TypeOK

(* update_member and delete_member: a workspace loses its last owner only  *)
(* to a request that decided on rows which another one has changed since.  *)
LastOwnerLeavesOnStaleReadsOnly == Members!LastOwnerLeavesOnStaleReadsOnly

(* A calibration (calibration, aggregate_scores) is made of forecasts that *)
(* were locked before anybody could know their outcome.                    *)
CalibrationHasNoHindsight == component = "ledger" => Ledger!CalibrationHasNoHindsight

(* run_screening as of a time gives what it gave, whatever became known    *)
(* since, but for values stored late and new versions of definitions.      *)
ScreeningsReplay == component = "features" => Features!ScreeningsReplay

(* run_import_job: after any failure, death or overlap the rows of a job   *)
(* tell exactly what it stored.                                            *)
CursorTellsWhatIsStored == component = "import" => Import!CursorTellsWhatIsStored

(* Simulator.run: the weights in force are those of the order that fell    *)
(* due last, the newest one if bars are published in order.                *)
NewestSignalRules == component = "simulation" => Simulation!NewestSignalRules

(* process_due_schedules: a due time is enqueued once, and not early.      *)
DueTimesRunOnce == Schedule!DueTimesRunOnce

(* decide_resolution and attach_identifier: identifiers, candidates and    *)
(* decisions tell one story.                                               *)
ResolutionsAgree == component = "resolution" => Resolution!ResolutionsAgree

(* bounded_graph_as_of and the recursive query: what they show as of a     *)
(* time changes by facts stored late and by expiries only.                 *)
WalksHoldAtTheirTime == Graph!WalksHoldAtTheirTime

(* throttle: no bucket admits more than twice its limit in less than a     *)
(* window.                                                                 *)
AdmissionsAreBounded == component = "admission" => Admission!AdmissionsAreBounded

(* hash_slot: what was taken is given back on every way out.               *)
SlotsAreKept == component = "admission" => Admission!SlotsAreKept

(* seed_reference_hypothesis_research: the three records of a verdict      *)
(* agree.                                                                  *)
VerdictsAgree == component = "hypotheses" => Hypotheses!VerdictsAgree

(* migrations/versions: a database at rest has the tables of the revisions *)
(* it is stamped with, and the report on the two histories is right.       *)
SchemaFollowsVersions == component = "migrations" => Migrations!SchemaFollowsVersions

(* An alembic command stops for the three known reasons only.              *)
CommandsComplete == component = "migrations" => Migrations!CommandsComplete
=============================================================================
