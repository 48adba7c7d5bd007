-------------------------- MODULE SchemaMigrations --------------------------
(***************************************************************************)
(* The revisions of the database schema (migrations/versions), which       *)
(* alembic applies and undoes, and the report on the two histories that    *)
(* packages/database/phase5_reconciliation gives.                          *)
(*                                                                         *)
(* The history forks after the hypothesis factory: production executed one *)
(* branch before the official one was written, and a merge joins them.  A  *)
(* revision is the sequence of its operations, as far as they matter to    *)
(* other operations: what a table is called, what it refers to, whether    *)
(* its names are unique, and columns and indexes that are added to tables  *)
(* of an earlier revision.  The columns and indexes that come with a       *)
(* table, with its rebuilding or after an added column are left out, and   *)
(* so are checks and row level security, all that one revision has.        *)
(*                                                                         *)
(* On PostgreSQL a command is one transaction.  On SQLite each operation   *)
(* is permanent at once until a revision writes a row, which opens a       *)
(* transaction that ends with the revision; references are not enforced,   *)
(* and a table is altered by a copy of it that takes its place.  One       *)
(* command runs at a time; its end, or the death of its process, leaves    *)
(* what was durable.  Downgrades run on PostgreSQL only.                   *)
(***************************************************************************)
EXTENDS Naturals, Sequences, FiniteSets, SequencesExt

VARIABLES
    backend,        \* "postgresql" or "sqlite"
    schema,         \* what the command's connection sees
    durable,        \* what is left if it ends now
    command         \* the alembic command that runs

vars == <<backend, schema, durable, command>>

-----------------------------------------------------------------------------
(* Operations.                                                             *)

Create(t, references) == [does |-> "create", table |-> t, references |-> references]
Add(part, t) == [does |-> "add", table |-> part, references |-> {t}]
Refer(t, references) == [does |-> "refer", table |-> t, references |-> references]
Rescope(t) == [does |-> "rescope", table |-> t, references |-> {"workspaces"}]
Insert == [does |-> "insert", table |-> "", references |-> {}]
Refuse == [does |-> "refuse", table |-> "", references |-> {}]

(* Tables whose unique names a later revision makes unique in a workspace. *)
Named == {"watchlists", "strategies", "paper_portfolios", "import_schedules"}

-----------------------------------------------------------------------------
(* Revisions: what upgrade() does.                                         *)

foundation ==
    <<Create("assets", {}), Create("data_sources", {}), Create("watchlists", {}),
      Create("audit_events", {}), Create("data_ingestion_runs", {"data_sources"}),
      Create("price_bars", {"assets", "data_sources"}),
      Create("watchlist_assets", {"assets", "watchlists"})>>

strategies_and_paper ==
    <<Create("paper_portfolios", {}), Create("strategies", {}),
      Create("paper_positions", {"assets", "paper_portfolios"}),
      Create("portfolio_snapshots", {"paper_portfolios"}),
      Create("risk_rules", {"paper_portfolios"}),
      Create("strategy_versions", {"strategies"}),
      Create("backtest_runs", {"strategy_versions"}),
      Create("paper_orders", {"assets", "paper_portfolios", "price_bars"})>>

backtests_and_signals ==
    <<Create("backtest_daily_snapshots", {"backtest_runs"}),
      Create("backtest_trades", {"assets", "backtest_runs", "price_bars"}),
      Create("paper_fills", {"assets", "paper_orders", "paper_portfolios", "price_bars"}),
      Create("signals", {"assets", "backtest_runs", "price_bars", "strategy_versions"}),
      Create("signal_factors", {"signals"})>>

market_data ==
    <<Create("exchange_calendars", {}), Create("providers", {}),
      Create("asset_metadata_versions", {"assets", "providers"}),
      Create("corporate_actions", {"assets", "providers"}),
      Create("import_jobs", {"providers"}),
      Create("provider_credentials", {"providers"}),
      Create("trading_sessions", {"exchange_calendars"})>>

import_records ==
    <<Create("import_batches", {"import_jobs"}),
      Create("import_errors", {"import_batches", "import_jobs"}),
      Refer("price_bars", {"providers"})>>

run_columns ==
    <<Add("backtest_runs.data_classification", "backtest_runs"),
      Add("backtest_runs.provider_identifiers", "backtest_runs"),
      Add("backtest_runs.import_job_identifiers", "backtest_runs"),
      Add("backtest_runs.adjustment_statuses", "backtest_runs"),
      Add("backtest_runs.calendar_code", "backtest_runs")>>

schedules_and_providers ==
    <<Create("import_schedules", {"providers"}),
      Create("provider_health_snapshots", {"providers"}),
      Create("provider_rate_limit_states", {"providers"})>>

symbols_and_events ==
    <<Create("provider_symbol_mappings", {"providers"}),
      Create("reconciliation_runs", {"providers"}), Create("job_events", {"import_jobs"})>>

reconciliation_and_workers ==
    <<Create("reconciliation_issues", {"assets", "providers", "reconciliation_runs"}),
      Create("schedule_runs", {"import_jobs", "import_schedules"}),
      Create("worker_instances", {"import_jobs"})>>

leases_and_metrics ==
    <<Create("job_leases", {"import_jobs", "worker_instances"}),
      Create("operational_metrics", {"import_jobs", "worker_instances"}),
      Add("import_jobs.idempotency_key", "import_jobs"),
      Add("import_jobs.dry_run", "import_jobs"),
      Add("import_jobs.adjustment_preference", "import_jobs"),
      Add("import_jobs.queue_name", "import_jobs"), Refer("price_bars", {"import_jobs"})>>

identities ==
    <<Create("user_profiles", {}), Create("workspaces", {"user_profiles"})>>

scopes ==
    <<Create("workspace_memberships", {"user_profiles", "workspaces"}), Insert,
      Rescope("watchlists"), Rescope("strategies"), Refer("backtest_runs", {"workspaces"}),
      Rescope("paper_portfolios"), Refer("import_jobs", {"workspaces"}),
      Rescope("import_schedules"), Refer("audit_events", {"user_profiles", "workspaces"})>>

invitations_and_comparisons ==
    <<Create("workspace_invitations", {"user_profiles", "workspaces"}),
      Create("provider_comparisons",
             {"assets", "providers", "user_profiles", "workspaces"}),
      Create("backtest_reproducibility_manifests", {"backtest_runs"}),
      Create("backtest_validation_reports", {"backtest_runs"})>>

index_foreign_keys ==
    <<Add("ix_backtest_trades_source_price_bar_id", "backtest_trades"),
      Add("ix_paper_fills_source_price_bar_id", "paper_fills"),
      Add("ix_paper_orders_source_price_bar_id", "paper_orders"),
      Add("ix_signals_source_price_bar_id", "signals")>>

sec_filings ==
    <<Create("sec_companies", {}), Create("sec_filings", {"sec_companies"}),
      Create("analytics_comparison_records", {"workspaces"}),
      Create("external_engine_runs", {"workspaces"}),
      Create("optimization_experiments", {"workspaces"}),
      Create("sec_documents", {"sec_filings"}),
      Create("sec_facts", {"sec_companies", "sec_filings"})>>

sec_parses ==
    <<Create("sec_ingestion_jobs", {"user_profiles", "workspaces"}),
      Create("sec_insider_transactions", {"sec_companies", "sec_filings"}),
      Create("sec_institutional_holdings", {"sec_companies", "sec_filings"}),
      Create("sec_parse_results", {"sec_filings", "sec_ingestion_jobs"})>>

world_data ==
    <<Create("energy_series", {}), Create("macro_series", {}),
      Create("raw_data_objects", {}),
      Create("data_manifests", {"data_manifests", "import_jobs"}),
      Create("energy_observations", {"data_manifests", "energy_series"}),
      Create("ingestion_checkpoints", {"data_manifests"}),
      Create("macro_observations", {"data_manifests", "macro_series"})>>

graph_entities ==
    <<Create("economic_entities", {"data_manifests", "workspaces"}),
      Create("company_driver_profiles", {"economic_entities", "workspaces"}),
      Create("economic_relationships", {"economic_entities", "workspaces"}),
      Create("entity_aliases", {"economic_entities", "workspaces"}),
      Create("entity_identifiers", {"economic_entities", "workspaces"})>>

graph_profiles ==
    <<Create("entity_resolution_candidates", {"economic_entities", "workspaces"}),
      Create("evidence_records",
             {"data_manifests", "economic_entities", "sec_filings", "workspaces"}),
      Create("graph_recompute_jobs", {"economic_entities", "workspaces"}),
      Create("company_driver_entries", {"company_driver_profiles", "workspaces"}),
      Create("data_relevance_decisions",
             {"company_driver_profiles", "economic_entities", "workspaces"})>>

graph_evidence ==
    <<Create("entity_resolution_decisions",
             {"entity_resolution_candidates", "user_profiles", "workspaces"}),
      Create("graph_quality_issues",
             {"economic_entities", "economic_relationships", "workspaces"}),
      Create("relationship_confidence_components",
             {"economic_relationships", "workspaces"}),
      Create("relationship_evidence",
             {"economic_relationships", "evidence_records", "workspaces"})>>

universes_and_features ==
    <<Create("feature_definitions", {"workspaces"}), Create("feature_sets", {"workspaces"}),
      Create("research_resolution_policies", {"workspaces"}),
      Create("research_universes", {"workspaces"})>>

universe_versions ==
    <<Create("feature_definition_versions", {"feature_definitions"}),
      Create("research_budgets", {"research_resolution_policies", "workspaces"}),
      Create("research_universe_versions", {"research_universes"})>>

feature_sets ==
    <<Create("feature_materialization_jobs",
             {"feature_sets", "research_universe_versions", "workspaces"}),
      Create("feature_set_memberships", {"feature_definition_versions", "feature_sets"})>>

feature_snapshots ==
    <<Create("feature_snapshots",
             {"feature_sets", "research_universe_versions", "workspaces"})>>

feature_values ==
    <<Create("feature_values",
             {"economic_entities", "feature_definition_versions",
              "feature_materialization_jobs", "workspaces"})>>

candidates ==
    <<Create("research_candidate_states",
             {"economic_entities", "feature_snapshots", "research_resolution_policies",
              "research_universes", "workspaces"})>>

screening_runs ==
    <<Create("research_screening_runs",
             {"feature_snapshots", "research_resolution_policies",
              "research_universe_versions", "workspaces"})>>

memberships ==
    <<Create("research_universe_memberships",
             {"data_manifests", "economic_entities", "research_universe_versions"}),
      Create("feature_lineage", {"feature_values"})>>

screening_decisions ==
    <<Create("research_budget_usage", {"research_budgets", "research_screening_runs"}),
      Create("research_screening_decisions",
             {"economic_entities", "research_screening_runs"})>>

hypotheses ==
    <<Create("research_outcome_definitions", {"workspaces"}),
      Create("research_hypotheses", {"economic_entities", "workspaces"})>>

mechanisms ==
    <<Create("candidate_feature_specs", {"research_hypotheses", "workspaces"}),
      Create("hypothesis_evidence", {"evidence_records", "research_hypotheses"})>>

experiments ==
    <<Create("hypothesis_mechanisms", {"economic_entities", "research_hypotheses"})>>

manifests ==
    <<Create("factor_experiments",
             {"candidate_feature_specs", "feature_snapshots", "research_hypotheses",
              "research_outcome_definitions", "research_universe_versions", "workspaces"}),
      Create("ablation_results", {"factor_experiments"})>>

folds ==
    <<Create("experiment_manifests",
             {"factor_experiments", "feature_snapshots", "research_universe_versions"}),
      Create("external_research_engine_runs",
             {"factor_experiments", "feature_snapshots", "workspaces"})>>

promotions ==
    <<Create("factor_experiment_folds", {"factor_experiments"}),
      Create("multiple_testing_results", {"factor_experiments"}),
      Create("negative_control_results", {"factor_experiments"})>>

statistics ==
    <<Create("research_promotion_events", {"factor_experiments", "research_hypotheses"}),
      Create("robustness_results", {"factor_experiments"}),
      Create("factor_statistics", {"factor_experiment_folds", "factor_experiments"})>>

compute_jobs ==
    <<Create("compute_jobs", {"user_profiles", "workspaces"}),
      Create("compute_job_transitions", {"compute_jobs"}),
      Create("cloud_usage_ledger", {"compute_jobs", "workspaces"})>>

supervision ==
    <<Create("market_supervisor_heartbeats", {}),
      Create("data_freshness_observations", {"workspaces"}),
      Create("decision_signals", {"workspaces"}), Create("alert_events", {"workspaces"})>>

research_memory_definitions ==
    <<Create("divergence_definitions", {"workspaces"}),
      Create("factor_clusters", {"workspaces"}),
      Create("factor_redundancy_results", {"workspaces"}),
      Create("information_value_records", {"workspaces"}),
      Create("research_method_reliability", {"workspaces"}),
      Create("research_regime_definitions", {"workspaces"}),
      Create("research_regime_assignments",
             {"economic_entities", "research_regime_definitions", "workspaces"})>>

research_memory ==
    <<Create("divergence_events",
             {"divergence_definitions", "economic_entities", "feature_snapshots",
              "research_candidate_states", "workspaces"}),
      Create("hypothesis_memory_decisions", {"research_hypotheses", "workspaces"}),
      Create("research_memory_entries",
             {"economic_entities", "factor_experiments", "research_hypotheses",
              "workspaces"}),
      Create("research_outcome_attribution", {"factor_experiments", "workspaces"})>>

contradictions ==
    <<Create("signal_independence_analyses", {"factor_experiments", "workspaces"}),
      Create("research_contradictions", {"research_memory_entries", "workspaces"})>>

scenarios_and_cases ==
    <<Create("counterfactual_definitions", {"workspaces"}),
      Create("scenario_definitions", {"workspaces"}),
      Create("counterfactual_runs", {"counterfactual_definitions", "workspaces"}),
      Create("scenario_runs", {"scenario_definitions", "workspaces"}),
      Create("scenario_shocks", {"scenario_definitions"}),
      Create("scenario_impacts", {"scenario_runs"}),
      Create("research_cases",
             {"economic_entities", "factor_experiments", "research_hypotheses",
              "workspaces"}),
      Create("research_assumptions", {"research_cases", "workspaces"})>>

reviews ==
    <<Create("research_confidence_profiles", {"research_cases", "workspaces"}),
      Create("research_dossiers", {"research_cases", "workspaces"}),
      Create("research_fragility_analyses", {"research_cases", "workspaces"}),
      Create("skeptic_reviews", {"research_cases", "workspaces"}),
      Create("skeptic_challenges", {"skeptic_reviews", "workspaces"})>>

forecast_targets ==
    <<Create("feedback_recommendations", {"workspaces"}),
      Create("forecast_calibration_analyses", {"workspaces"}),
      Create("forecast_target_definitions", {"workspaces"}),
      Create("paper_portfolio_construction_policies", {"workspaces"})>>

portfolio_plans ==
    <<Create("paper_research_eligibility_policies", {"workspaces"}),
      Create("research_reliability_snapshots", {"workspaces"}),
      Create("paper_portfolio_plans",
             {"paper_portfolio_construction_policies", "paper_portfolios", "workspaces"})>>

plan_evaluations ==
    <<Create("paper_portfolio_evaluations", {"paper_portfolio_plans", "workspaces"})>>

forecasts ==
    <<Create("research_forecasts",
             {"forecast_target_definitions", "research_cases", "research_dossiers",
              "research_forecasts", "workspaces"})>>

outcomes ==
    <<Create("forecast_outcome_observations", {"research_forecasts", "workspaces"}),
      Create("paper_allocation_candidates",
             {"paper_research_eligibility_policies", "research_forecasts", "workspaces"})>>

scores ==
    <<Create("forecast_scores",
             {"forecast_outcome_observations", "research_forecasts", "workspaces"})>>

operations ==
    <<Create("backup_manifests", {}), Create("scheduler_heartbeats", {}),
      Create("maintenance_states", {"user_profiles"}),
      Create("provider_circuit_breakers", {"providers"}),
      Create("restore_verifications", {"backup_manifests"}),
      Create("operational_alerts", {"workspaces"}),
      Create("scheduled_task_definitions", {"workspaces"})>>

occurrences ==
    <<Create("data_freshness_statuses", {"import_jobs", "workspaces"}),
      Create("scheduled_task_occurrences", {"scheduled_task_definitions", "workspaces"})>>

assets_identity ==
    <<Create("issuers", {}), Create("asset_listings", {"assets", "issuers"}),
      Create("asset_identifiers", {"assets", "issuers"}),
      Create("reference_observations", {"assets", "issuers"}),
      Create("asset_capabilities", {"assets"})>>

universe_selection ==
    <<Create("provider_asset_mappings", {"assets", "providers"}),
      Create("universe_selection_runs", {"workspaces"}),
      Create("universe_layer_memberships",
             {"assets", "universe_selection_runs", "workspaces"}),
      Create("market_operating_states", {}), Add("import_jobs.priority", "import_jobs"),
      Add("import_jobs.resource_class", "import_jobs"),
      Add("import_jobs.queue_wait_ms", "import_jobs"),
      Add("import_jobs.peak_memory_mb", "import_jobs"), Insert>>

native_auth ==
    <<Create("native_credentials", {"user_profiles"}),
      Create("native_sessions", {"user_profiles"}), Create("auth_rate_buckets", {})>>

paper_trading == strategies_and_paper \o backtests_and_signals
market_data_platform == market_data \o import_records
market_operations ==
    run_columns \o schedules_and_providers \o symbols_and_events
    \o reconciliation_and_workers \o leases_and_metrics
multi_user_platform == identities \o scopes \o invitations_and_comparisons
sec_intelligence == sec_filings \o sec_parses
driver_graph == graph_entities \o graph_profiles \o graph_evidence
progressive_research ==
    universes_and_features \o universe_versions \o feature_sets \o feature_snapshots
    \o feature_values \o candidates \o screening_runs \o memberships
    \o screening_decisions
hypothesis_factory ==
    hypotheses \o mechanisms \o experiments \o manifests \o folds \o promotions
    \o statistics
hybrid_compute == compute_jobs \o supervision
research_intelligence ==
    research_memory_definitions \o research_memory \o contradictions
adversarial_research == scenarios_and_cases \o reviews
prospective_calibration ==
    forecast_targets \o portfolio_plans \o plan_evaluations \o forecasts \o outcomes
    \o scores
private_beta == operations \o occurrences
real_market == assets_identity \o universe_selection
native_authentication == native_auth

-----------------------------------------------------------------------------
(* Revisions: what downgrade() does.  Each undoes its upgrade from the end *)
(* to the start; rows that were written go with their tables, and unique   *)
(* names are not restored.                                                 *)

Undo(op) ==
    IF op.does \in {"create", "add"} THEN [op EXCEPT !.does = "drop"] ELSE [op EXCEPT !.does = "forget"]

(* A defect: the tables are dropped in the order of their creation.        *)
UndoneInOrder(ops) ==
    LET kept == SelectSeq(ops, LAMBDA op : op.does # "insert")
    IN  [i \in 1..Len(kept) |-> Undo(kept[i])]

Undone(ops) ==
    LET kept == SelectSeq(ops, LAMBDA op : op.does # "insert")
    IN  [i \in 1..Len(kept) |-> Undo(kept[Len(kept) + 1 - i])]

foundation_down == Undone(foundation)
paper_trading_down == Undone(paper_trading)
market_data_platform_down == Undone(market_data_platform)
market_operations_down == Undone(market_operations)
multi_user_platform_down == Undone(multi_user_platform)
index_foreign_keys_down == Undone(index_foreign_keys)
sec_intelligence_down == Undone(sec_intelligence)
world_data_down == Undone(world_data)
driver_graph_down == Undone(driver_graph)
progressive_research_down == Undone(progressive_research)
hypothesis_factory_down == Undone(hypothesis_factory)
hybrid_compute_down == Undone(hybrid_compute)
research_intelligence_down == Undone(research_intelligence)
adversarial_research_down == Undone(adversarial_research)
prospective_calibration_down == Undone(prospective_calibration)
private_beta_down == Undone(private_beta)
real_market_down == Undone(real_market)

upgrade(r) ==
    CASE r = "0001" -> foundation [] r = "0002" -> paper_trading
      [] r = "10fd" -> market_data_platform [] r = "1a52" -> market_operations
      [] r = "18cc" -> multi_user_platform [] r = "4a25" -> index_foreign_keys
      [] r = "6b8d" -> sec_intelligence
      [] r = "7f4a" -> world_data [] r = "6129" -> driver_graph
      [] r = "2f9e" -> progressive_research [] r = "ed23" -> hypothesis_factory
      [] r = "3b2f" -> hybrid_compute [] r = "eb1f" -> research_intelligence
      [] r = "e251" -> adversarial_research [] r = "4e39" -> prospective_calibration
      [] r = "5595" -> private_beta [] r = "f015" -> real_market
      [] r = "a015" -> native_authentication
      [] OTHER -> <<>>

(* The merge and the native authentication refuse.                         *)
downgrade(r) ==
    CASE r = "a141" -> <<Refuse>>
      [] r = "0001" -> foundation_down [] r = "0002" -> paper_trading_down
      [] r = "10fd" -> market_data_platform_down [] r = "1a52" -> market_operations_down
      [] r = "18cc" -> multi_user_platform_down [] r = "4a25" -> index_foreign_keys_down
      [] r = "6b8d" -> sec_intelligence_down
      [] r = "7f4a" -> world_data_down [] r = "6129" -> driver_graph_down
      [] r = "2f9e" -> progressive_research_down [] r = "ed23" -> hypothesis_factory_down
      [] r = "3b2f" -> hybrid_compute_down [] r = "eb1f" -> research_intelligence_down
      [] r = "e251" -> adversarial_research_down
      [] r = "4e39" -> prospective_calibration_down [] r = "5595" -> private_beta_down
      [] r = "f015" -> real_market_down [] r = "a015" -> <<Refuse>>
      [] OTHER -> <<>>

(* down_revision of each revision.                                         *)
Chain == <<"0001", "0002", "10fd", "1a52", "18cc", "cba3", "4a25", "6b8d", "7f4a", "6129",
           "2f9e", "ed23", "eb1f", "e251", "4e39", "5595">>
Revisions == Range(Chain) \union {"3b2f", "a141", "f015", "a015"}
down_revision(r) ==
    CASE r = "0001" -> {} [] r = "3b2f" -> {"ed23"} [] r = "a141" -> {"3b2f", "5595"}
      [] r = "f015" -> {"a141"} [] r = "a015" -> {"f015"}
      [] OTHER -> {Chain[i - 1] : i \in {j \in 2..Len(Chain) : Chain[j] = r}}

(* A revision with those that lead to it.                                  *)
History[r \in Revisions] == {r} \union UNION {History[p] : p \in down_revision(r)}
Lineage(revisions) == UNION {History[r] : r \in revisions}

-----------------------------------------------------------------------------
(* The schema.                                                             *)

NoSchema == [tables |-> [t \in {} |-> {}], unique |-> {}, versions |-> {}]
Idle == [does |-> "nothing"]
Existing(s) == DOMAIN s.tables

TypeOK ==
    /\ backend \in {"postgresql", "sqlite"}
    /\ \A s \in {schema, durable} : /\ s.versions \subseteq Revisions
                                    /\ s.unique \subseteq Existing(s) \intersect Named
    /\ command = Idle \/ /\ command.does \in {"upgrade", "downgrade"}
                         /\ command.pending \subseteq Revisions

Init ==
    /\ backend \in {"postgresql", "sqlite"}
    /\ schema = NoSchema /\ durable = NoSchema
    /\ command = Idle

(* A table is altered on SQLite by a copy of it that takes its place.      *)
Temporary(t) == "_alembic_tmp_" \o t
Alters(op) == op.does \in {"refer", "rescope"}

Possible(op, s) ==
    /\ op.does # "refuse"
    /\ op.does = "add" => op.table \notin Existing(s) /\ op.references \subseteq Existing(s)
    /\ op.does = "create" => /\ op.table \notin Existing(s)
                             /\ backend = "sqlite"
                                  \/ op.references \subseteq Existing(s) \union {op.table}
    /\ op.does = "drop" =>
         ~\E t \in Existing(s) \ {op.table} : op.table \in s.tables[t]
    /\ op.does = "rescope" => op.table \in s.unique

Result(op, s) ==
    CASE op.does \in {"create", "add"} ->
           [s EXCEPT !.tables = [t \in Existing(s) \union {op.table} |->
                                   IF t = op.table THEN op.references ELSE s.tables[t]],
                     !.unique = @ \union ({op.table} \intersect Named)]
      [] op.does = "drop" ->
           [s EXCEPT !.tables = [t \in Existing(s) \ {op.table} |-> s.tables[t]],
                     !.unique = @ \ {op.table}]
      [] Alters(op) ->
           [s EXCEPT !.tables = [t \in Existing(s) \ {Temporary(op.table)} |->
                                   IF t = op.table THEN s.tables[t] \union op.references
                                   ELSE s.tables[t]],
                     !.unique = IF op.does = "rescope" THEN @ \ {op.table} ELSE @]
      [] op.does = "forget" -> [s EXCEPT !.tables[op.table] = @ \ op.references]
      [] op.does = "insert" -> s

(* The row of a parent becomes the revision's, or the other way around: a  *)
(* parent's row returns unless another history still runs through it.      *)
Stamped(s, r, does) ==
    IF does = "upgrade" THEN [s EXCEPT !.versions = (@ \ down_revision(r)) \union {r}]
    ELSE [s EXCEPT !.versions = (@ \ {r}) \union (down_revision(r) \ Lineage(@ \ {r}))]

-----------------------------------------------------------------------------
(* Commands.                                                               *)

Order(does, pending, first) ==
    [does |-> does, pending |-> pending, revision |-> first, done |-> 0, copying |-> FALSE,
     writing |-> FALSE]

(* alembic upgrade <target>; the container's start asks for the head.      *)
Upgrade(target) ==
    /\ command = Idle
    /\ LET pending == Lineage({target}) \ Lineage(schema.versions)
       IN  pending # {} /\ command' = Order("upgrade", pending, "none")
    /\ UNCHANGED <<backend, schema, durable>>

(* alembic downgrade <target>: the revisions that descend from it, or all  *)
(* down to the base.                                                       *)
Downgrade(target) ==
    /\ command = Idle /\ backend = "postgresql"
    /\ LET doomed == {r \in Lineage(schema.versions) :
                        target = "base" \/ target \in Lineage({r}) \ {r}}
       IN  doomed # {} /\ command' = Order("downgrade", doomed, "none")
    /\ UNCHANGED <<backend, schema, durable>>

Ready(r) ==
    IF command.does = "upgrade" THEN down_revision(r) \intersect command.pending = {}
    ELSE ~\E c \in command.pending : r \in down_revision(c)

NextRevision ==
    /\ command # Idle /\ command.revision = "none"
    /\ \E r \in command.pending :
         Ready(r) /\ command' = Order(command.does, command.pending \ {r}, r)
    /\ UNCHANGED <<backend, schema, durable>>

Script ==
    IF command.does = "upgrade" THEN upgrade(command.revision)
    ELSE downgrade(command.revision)
AtOperation == command # Idle /\ command.revision # "none" /\ command.done < Len(Script)
Scripted == Script[command.done + 1]
Copies == backend = "sqlite" /\ Alters(Scripted) /\ ~command.copying

(* On SQLite the empty copy is created first; its rows, the old table and  *)
(* its name follow in a transaction.                                       *)
Current == IF Copies THEN Create(Temporary(Scripted.table), {}) ELSE Scripted

Execute ==
    /\ AtOperation /\ Possible(Current, schema)
    /\ schema' = Result(Current, schema)
    /\ LET writing == command.writing \/ Current.does \notin {"create", "add", "drop"}
       IN  /\ command' = [command EXCEPT !.done = IF Copies THEN @ ELSE @ + 1,
                                         !.copying = Copies, !.writing = writing]
           /\ durable' = IF backend = "sqlite" /\ ~writing THEN schema' ELSE durable
    /\ UNCHANGED backend

(* The end of a revision; the last one ends the command.                   *)
Stamp ==
    /\ command # Idle /\ command.revision # "none" /\ command.done = Len(Script)
    /\ schema' = Stamped(schema, command.revision, command.does)
    /\ command' = IF command.pending = {} THEN Idle
                  ELSE Order(command.does, command.pending, "none")
    /\ durable' = IF backend = "sqlite" \/ command.pending = {} THEN schema' ELSE durable
    /\ UNCHANGED backend

(* An operation raises, or the process dies.                               *)
End ==
    /\ command # Idle
    /\ command' = Idle /\ schema' = durable
    /\ UNCHANGED <<backend, durable>>

Next ==
    \/ \E target \in Revisions : Upgrade(target)
    \/ \E target \in Revisions \union {"base"} : Downgrade(target)
    \/ NextRevision \/ Execute \/ Stamp \/ End

Spec == Init /\ [][Next]_vars

-----------------------------------------------------------------------------
(* The report.                                                             *)

LegacyTables == {op.table : op \in Range(hybrid_compute)}
OfficialRevisions == {"eb1f", "e251", "4e39", "5595"}
Identity == {"user_profiles", "workspaces", "workspace_memberships"}

(* A defect: the report was not told of the last revision.                 *)
inspect_phase5_reconciliation_outdated(s) ==
    LET compatible == Identity \union LegacyTables \subseteq Existing(s)
        known == OfficialRevisions \union {"3b2f", "a141", "f015"}
    IN  IF s.versions \in {{"a141"}, {"f015"}} /\ compatible THEN "PASS"
        ELSE IF "3b2f" \in s.versions /\ compatible /\ s.versions \subseteq known THEN "WARN"
        ELSE "FAIL"

inspect_phase5_reconciliation(s) ==
    LET compatible == Identity \union LegacyTables \subseteq Existing(s)
        known == OfficialRevisions \union {"3b2f", "a141", "f015", "a015"}
    IN  IF s.versions \in {{"a141"}, {"f015"}, {"a015"}} /\ compatible THEN "PASS"
        ELSE IF "3b2f" \in s.versions /\ compatible /\ s.versions \subseteq known THEN "WARN"
        ELSE "FAIL"

-----------------------------------------------------------------------------
(* Properties.                                                             *)

CreatedBy(r) == {op.table : op \in {o \in Range(upgrade(r)) : o.does \in {"create", "add"}}}
CopiedBy(r) == {Temporary(op.table) : op \in {o \in Range(upgrade(r)) : Alters(o)}}
Following(s) ==
    {r \in Revisions \ Lineage(s.versions) : down_revision(r) \subseteq Lineage(s.versions)}

(* Whatever upgrades, downgrades, branches taken first and interruptions   *)
(* led to it, a database at rest has the tables, columns and indexes of    *)
(* the revisions that it is stamped with, no reference of theirs dangles,  *)
(* and beyond them at most those of a following revision that a command    *)
(* interrupted on SQLite left behind, with its copies.  The report tells   *)
(* the three stages apart: merged, the legacy branch not merged, neither.  *)
SchemaFollowsVersions ==
    LET due == UNION {CreatedBy(r) : r \in Lineage(durable.versions)}
        left == Existing(durable) \ due
    IN  /\ due \subseteq Existing(durable)
        /\ \A t \in Existing(durable) : durable.tables[t] \subseteq Existing(durable)
        /\ left # {} => backend = "sqlite"
        /\ left \subseteq UNION {CreatedBy(r) \union CopiedBy(r) : r \in Following(durable)}
        /\ inspect_phase5_reconciliation(durable)
             = IF "a141" \in Lineage(durable.versions) THEN "PASS"
               ELSE IF "3b2f" \in durable.versions THEN "WARN"
               ELSE "FAIL"

(* A command stops for three reasons only: a revision is forward-only; a   *)
(* command interrupted on SQLite left the first thing that the revision    *)
(* creates behind, a table, a column or an index; or the scopes are        *)
(* applied again after a downgrade that restored no unique names.  What is *)
(* left of a later step never stops a revision that has got past its first.*)
CommandsComplete ==
    AtOperation /\ ~Possible(Current, schema) =>
        \/ Current.does = "refuse"
        \/ Current.does = "rescope" /\ command.revision = "18cc" /\ backend = "postgresql"
        \/ /\ Current.does \in {"create", "add"} /\ Current.table \in Existing(schema)
           /\ command.done = 0 /\ backend = "sqlite"
=============================================================================
