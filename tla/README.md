# Verification of Market Intelligence Lab in TLA+

This directory specifies the program's stateful components, model-checks them
with TLC and proves their main safety properties with TLAPS. The source of every
definition is listed line by line in `PROJECT.json` ("map").

## 1. The system

A FastAPI application (`apps/api`), three polling processes
(`packages/market_data/worker.py`, `packages/operations/scheduler.py`,
`packages/operations/worker.py`) and a web client share one relational
database. There are no messages between processes: **every interaction goes
through rows**, read and written in transactions at PostgreSQL's READ COMMITTED
level. The hard behaviours are therefore those of transactions: values read in
one statement or one transaction and used later, row locks and their absence,
conditional UPDATEs, and processes that die between two commits.

| Component | State | Operations | Interacts with | What makes it correct |
|---|---|---|---|---|
| import job queue | `import_jobs`, `job_leases`, `worker_instances` | create, claim, run, retry with backoff, cancel, restart, run from the API | API, schedules, providers | one owner; attempts bounded; a cancellation holds; every runnable job settles |
| import run | `import_batches`, `price_bars`, cursor in the job | fetch, validate, store per symbol | queue, providers | after any failure the cursor, counters and bars agree |
| import schedules | `import_schedules`, `schedule_runs` | create, update, delete, run now, process due | queue | one job per due time, none early |
| operational scheduler and worker | `scheduled_task_definitions`, `scheduled_task_occurrences` | materialize due slots, claim, execute, retry, quarantine, resolve | foundation tasks, API | no slot lost or doubled; one effect; attempts bounded |
| native authentication | `native_credentials`, `native_sessions`, `auth_rate_buckets`, hash gate | login, authenticate, logout, change password, enroll, throttle, hash | every request | no session outlives a password change; rows bounded; limits hold; slots are given back |
| workspaces | `workspaces`, `workspace_memberships` | create, change role, remove | authorization | an owner remains |
| paper trading | `paper_portfolios`, orders, positions, fills | preview, submit, cancel, pause | prices, risk rules | cash and positions account for the fills, never negative |
| backtesting, strategies | results of a run | bar loop, signals, orders | prices | signals act on later bars only, in the order of their first opens |
| research | feature values, universes, snapshots, screening runs | store, read as of a time, screen | hypotheses, graph | what was screened can be screened again |
| hypothesis factory | hypotheses, experiments, promotions | transition, schedule, complete, promote | research | the three records of a verdict agree |
| prospective intelligence | forecasts, outcomes, scores | post, lock, observe, score, calibrate | research | no forecast with hindsight in a calibration |
| economic graph | entities, identifiers, candidates, relationships, profiles | resolve, attach, relate, expire, walk, profile | research | records of a resolution agree; walks hold at their time |
| schema | tables and `alembic_version` | upgrade, downgrade, report | every process | tables follow the stamp, on every way through the forked history |
| circuits, freshness, alerts; world data; research and adversarial intelligence | rows of their own | record, query | operational worker, research | not modelled |
| adapters, registries, observability, API queries, web client | none or static | | | no protocol to check |

`PROJECT.json` lists all components with their files and status, and
under "hazards" what in this code is hard to test.

## 2. What is modelled now

Each component is a module; `MC_<module>.tla` instantiates it for TLC and
`<module>_proofs.tla` holds its theorems. An action is one transaction step: a
plain read, a statement that takes a row lock, or a commit. Within a step
nothing interleaves that the database would not allow to. Variables called
*history* only record what committed and influence nothing.

### ImportQueue

`market_data/worker.py`, `operations.py`, `ingestion.py` and the job endpoints.

- `job[j]` is the committed row: status, cancel flag, attempt. `image[a]` is
  the ORM object of actor `a`, which nothing refreshes behind its back.
  `Flush(row, loaded, changed)` writes only the columns the actor changed.
- Worker: `SelectCandidate` (SELECT by priority), `Claim` (the UPDATE guarded by
  id and status, waiting for the row lock, then the refresh), `FinishRun`
  (`run_import_job` and commit), `AbortRun` (an exception rolls everything back,
  for example a disabled provider), `Crash`, `RestartWorker`.
- API: `ReadJob`, then `CancelJob`, `RetryJob`, or `StartApiRun` and
  `FinishApiRun`/`RejectApiRun`; `CreateJob` and `CreateAndRunJob` add rows;
  `ReseedProviders` enables or disables a provider.
- `backoff[j]` is the wait until `next_retry_at`: the capped exponential delay,
  or the `Retry-After` of a rate limit if that is longer, which no cap bounds
  (`RetryWaits`, with the waits that providers ask for in `RetryAfters`).
- A worker claims, runs and commits in one transaction, so no other process ever
  sees a `running` row or a lease: recovery of abandoned jobs finds nothing.
  The model has no such rows, for that reason.
- `JobBoard` is what the queue promises: a board of jobs, each worked on in one
  step as it stands, and requests that read a job and later write what they made
  of what they had read. `ImplementsBoard` maps the committed rows to the board
  and what a request has read to the client's desk (`Desks`). The select, the
  wait for the row lock, the claim, a run that raises, a crash and a restart of a
  worker do not show on the board.

### TaskScheduler

`operations/service.py`, `scheduler.py`, `worker.py` and the endpoint that
resolves quarantined occurrences.

- The k-th due time of a definition is its slot k. `nextDue[d]` is
  `next_due_at`; `occ[<<d, k>>]` the committed occurrence; `held[s]` what
  scheduler `s` has locked with `FOR UPDATE SKIP LOCKED`.
- Scheduler: `Scan` (locks due definitions that are free), `Materialize`
  (inserts, each in its savepoint, advance, commit), `KillScheduler`.
- Worker: `Claim` (row lock on the earliest runnable occurrence),
  `CompleteOccurrence`, `FailOccurrence` (retry with capped jittered backoff, or
  quarantine), `Abandon` (death, or an exception nothing catches).
- API: `ReadQuarantined`, then `Resolve` (the guarded UPDATE).
- `wait[o]` counts the ticks to `next_retry_at`; `RetryDelays` keeps the two
  caps of `compute_retry_delay`. Handlers are opaque: success, a known failure,
  or an exception. As with the queue, CLAIMED and RUNNING are never committed.
- `OccurrenceLedger` is the abstract specification: a ledger of entries for each
  definition, opened in order and in time, worked on by one worker at a time and
  closed before their attempts run out, without transactions, delays or
  crashes. `TaskScheduler!ImplementsLedger` maps next_due_at to the length of a
  ledger, a row to its entry (`LedgerEntry`, `Entries`: attempts left instead of
  attempts made) and the running workers to `Holders`.

### NativeAuth

`auth/native.py`, called by every request and by the enrollment script.

- `credential[u]` has the login, the password (a hash stands for its password)
  and the version; `sessions` is the set of rows. `ctx[a]` is what an actor has
  read or was given.
- `login`, `change_password` and `enroll` read (`BeginLogin`, `ReadForChange`,
  `BeginEnroll`), hash outside any transaction, then lock the profile row
  (`LockFor...`) and write (`IssueSession`, `ReplacePassword`, `CommitEnroll`).
- `authenticate` is `Arrive` (reads the clock), `Authenticate` (reads the rows)
  and, if the last use is old enough, `Touch` (the conditional UPDATE). `Logout`
  is one UPDATE; `DisableUser` stands for the administrator.
- Refusals change nothing but the audit log and are left out; those of the
  throttle and the hash gate are in AuthAdmission.

### PaperLedger

`paper_trading/engine.py`, `risk.py` and the portfolio endpoints, for one
portfolio.

- `portfolio`, `positions` and `orders` are the committed rows; `equities` the
  snapshots of each day, `rules` the enabled risk rules, `latest` the newest bar
  of each asset. `fills`, `trades` and `flows` summarize the rows of
  `paper_fills`; `raced` is history.
- A submission is `LoadPortfolio` (never refreshed later), then `Replay` of a
  known client order id or `Preview` (price and `evaluate_risk`), then, if it
  fills, `SelectPosition`, and `Submit`: order, fill, balances and snapshot in
  one commit. `Rollback` is every refusal of the database (`Refused`): an id or a
  position that another request inserted first, a negative quantity, rejection
  reasons that do not fit their column.
- `CancelOrder`, `PauseOrResume`, `UpdateRiskRules` and `StoreBar` are the other
  requests and the imports.
- Money, prices and quantities are integers in units in which products are
  exact; average costs and prices with friction are rounded as the code does.
  Limits in percent are compared without dividing.
- `process_order` is not modelled: only tests call it, so a pending order stays
  pending until it is cancelled. The count of the day's trades is taken as the
  comparison of dates that it is meant to be.

### The components of the platform

Eleven smaller components are composed by one module, `Platform`, whose
constants `MC_Platform` gives small values. The modules
have no variable in common and no property relates two of them, so a behaviour
of `Platform` runs one of them (`component`, chosen in `Init`) and the others
stay in their initial state: an interleaving of two would only show the same
states again. What they do exchange in the program is an input of each model
(bars of the backtest, jobs of a schedule, values of the feature store).

| Module | Code | Steps |
|---|---|---|
| `WorkspaceMembers` | `routers/identity.py`, `security/authorization.py` | a request is `Authorize`, `LoadMember`, `CountOwners`, `Commit`: three selects without locks, with the ORM's one object per row, and the flush |
| `ForecastLedger` | `routers/prospective_intelligence.py` | the checks of `lock_forecast`, `post_outcome`, `get_score`, and their commits with the unique constraints |
| `FeatureStore` | `research/service.py` | `create_feature_value` under any times, `publish_version`, `run_screening`; the as-of reads are operators over immutable rows |
| `ImportRun` | `market_data/ingestion.py`, `quality.py` | `Begin`, then `Fetch` and `Store` for each symbol, `Succeed`, `Commit`; `Die` anywhere; two jobs overlap on one symbol |
| `ImportSchedules` | `market_data/operations.py`, schedule requests | `Select` of a worker and `run_schedule_now` of a request (due schedules, no lock), `Enqueue` (inserts and commit, or the refusal that ends a worker), `Restart`; moves and deletions in between |
| `EntityResolution` | `economic_graph/service.py` | reviews load a candidate or an owner (`LoadCandidate`, `StartAttach`, `CheckOwner`), flush (`CommitDecision`, `CommitAttach`) and `Commit` under the unique constraints (`Violated`) |
| `EconomicGraph` | `traversal.py`, `service.py`, `profiles.py` | `create_entity`, `create_relationship`, `expire_relationship`, recompute jobs that succeed or fail; the two walks and the explanation are operators |
| `AuthAdmission` | `auth/native.py` `throttle`, `hash_slot` | `Arrive`, `throttle` (one transaction), `AcquireGate`, `TryLocks`, `Release`, `LoseConnection`, `Crash` |
| `HypothesisLifecycle` | `hypothesis/*` | a seeding of three archetypes: `Begin`, `Hypothesize`, `Evaluate`, `Promote`, `Conclude`, `Commit`; overlapping and ended early |
| `Strategies`, `Backtest` | `strategies/*`, `backtesting/engine.py` | `Start` picks prices and a strategy, `Day` is one pass of the bar loop |
| `SchemaMigrations` | `migrations/versions`, `phase5_reconciliation.py` | `Upgrade`, `Downgrade`, then `NextRevision`, `Execute` (one operation, or the copy that SQLite makes first), `Stamp`; `End` anywhere |

`SchemaMigrations` is long because the migrations are: a definition for each
part of a revision, one `Create` for each table with what it refers to and one
`Add` for each column or index that a revision gives to an earlier table. The
rest of it, commands and properties, is as short as the other modules.

Database: PostgreSQL at READ COMMITTED, as in `deploy/compose.production.yaml`.
`docker-compose.yml` uses SQLite, which has no row locks; except for
`SchemaMigrations`, which has both, none of what follows is claimed for it.

## 3. What the runs show

| Run | Instance | Shows |
|---|---|---|
| `queue_contention` | 1 job, 2 workers, 2 API requests of every kind, 3 attempts, 3 requests, 1 crash, 1 provider change | `RunningWorkerOwnsRow`, `AttemptBudget`, `ImplementsBoard`, `CancelBeforeClaimWins` |
| `queue_drain` | 2 jobs, 2 workers, 1 client, fair | `JobsSettle` |
| `queue_final` | smaller | **violated**: a cancel or retry that loaded a job before its success replaces it (`SucceededIsFinal`) |
| `queue_backoff` | smaller | **violated**: a candidate read before another worker's failed attempt is claimed before `next_retry_at` (`RetryWaitsForBackoff`) |
| `queue_cancel` | smaller, fair | **violated**: a cancelled job in `retrying` stays there (`CancellationSettles`) |
| `task_slots` | 1 definition with 3 slots, 2 schedulers, 2 workers, 2 clients, 2 crashes, 2 resolutions, fair | `NoSlotLostOrEarly`, `EffectOnce`, `AttemptBudget`, `FinishedIsFinal`, `SlotsSettle`; `ImplementsLedger`: every step is one of `OccurrenceLedger` or a stutter |
| `task_claims` | 2 definitions, one whose handler keeps raising, fair | **violated**: a claim that ends in an exception leaves no attempt, no retry time and no quarantine (`ClaimsAreAccountedFor`) |
| `auth` | 2 users sharing 1 identifier, 2 passwords, 2 requests, 2 operators, limit 1, 2 sessions, 4 ticks, idle 2, absolute 4 | `SessionsBounded`, `UnrevokedSessionsAreCurrent`, `NoLostPasswordChange`, `IssuedToHolder`, `RevocationIsFinal`, `UseNeverShortensSession` |
| `paper_orders` | 3 client order ids with 2 tickets each, 2 requests, 2 assets, 2 bars, 2 rule sets | `BooksBalance`, `ProfitExplainsCash`, `FilledOnce`, `LimitsHold`, `BuysAreCovered` |
| `paper_race` | the same | **violated**: of two orders filled at once the first one's payment is lost (`FillsUpdateCash`) |
| `owner_kept` | 2 users, 1 workspace, 2 requests | **violated**: two owners demote each other at once and leave none (`WorkspacesRetainAnOwner`) |
| `platform` | the eleven components above, each on its instance in `MC_Platform` | one property for each, two for `AuthAdmission` and `SchemaMigrations`, below |

What the properties of `platform` say, and how far:

- `LastOwnerLeavesOnStaleReadsOnly`: a workspace loses its last owner only to a
  request that counted the owners, or read the role of a member who was none,
  before another request changed it. It does happen, and `owner_kept` shows how,
  although the error text is "A workspace must retain an owner"; this property
  says that it happens in no other way, so that a lock on the rows of owners
  would be enough to prevent it.
- `CalibrationHasNoHindsight`: whatever requests overlap, a sample contains
  forecasts of its own mode that were locked no later than their outcome became
  eligible. The time of observation is the client's and is compared with the
  eligible time only, never with the clock: an outcome "observed" in the future
  is accepted, and waits for calibrations as of then.
- `ScreeningsReplay`: a screening as of a time, repeated later, finds the same
  universe, companies and rows, except for companies of which a value was stored
  since with an eligible time of the past, and for all of them after a new version
  of a definition; if no row was rewritten, the levels are the same. Nothing keeps
  callers from either: `create_feature_value` takes any times, the fixture stores
  values that were eligible the day before its reference time, and
  `tests/test_research_platform.py:222` a revision that an earlier screening
  would have seen.
- `CursorTellsWhatIsStored`: the cursor is the number of succeeded batches,
  counters count the bars that carry the job's id, no bar is stored twice.
- `NewestSignalRules`: the weight in force of a stock is that of its signal whose
  first open came last, and none is lost or early. If bars are published in
  order, however late, that is the newest signal. If not, it need not be: the
  order of a day waits for the latest bar of all its symbols, so one late bar
  holds back the decision on another stock past a newer decision on it.
- `DueTimesRunOnce`: a due time is enqueued once and never early, and the
  schedule moves on from it. It may also not be enqueued at all: a schedule
  moved back to a due time that has a run stays due for ever, and a schedule
  whose provider is disabled ends the worker.
- `ResolutionsAgree`: accepted candidates, decisions and identifiers tell the
  same story under concurrent reviews.
- `WalksHoldAtTheirTime`: what the Python walk or the recursive query shows as of
  a time is changed by nothing that becomes eligible later, only by a fact that is
  stored late or by an expiry, which rewrites the row in place; and every verified
  relationship on a walk has support of its time. The two walks are not equal, see
  the end of section 5.
- `AdmissionsAreBounded`: in a stretch of time shorter than `Window - Patience`,
  the window less what a request may wait for the row, no bucket admits more than
  twice its limit (a window that ends and the next one). `SlotsAreKept`: permits and
  locks are exactly those of the attempts that hash, whatever is lost.
- `VerdictsAgree`: status, experiment and promotions of a hypothesis agree
  after repeated, overlapping and interrupted seedings.
- `SchemaFollowsVersions`, `CommandsComplete`: a database at rest has the tables,
  and the columns and indexes added to earlier tables, of the revisions it is
  stamped with, and the reconciliation report is right; a command stops for three
  known reasons only. They are reasons: an upgrade interrupted on SQLite leaves
  tables, columns, indexes or a copy of a table without a stamp, and the next one
  stops at the first thing that the revision creates; the downgrade of the scopes
  does not restore the unique names it dropped, so that a later upgrade stops; two
  revisions are forward-only.

The violated runs state what a document of the repository says; the line is in
"findings". Every property of a passing run has a mutant: a plausible bug (a
dropped lock, a lost condition, an off-by-one) under which TLC reports it broken.

**Bounds.** All races here are between two transactions on one row, so two of
each actor and one contended row exercise them; the second job of `queue_drain`
and the three slots of `task_slots` are there for fairness between rows, order
and catching up. `MaxRequests`, `MaxCrashes`, `MaxReseeds`, `MaxResolutions`,
`MaxIssued`, `MaxEnrollments`, `MaxTime` and `MaxSlots` bound counters that the
program does not bound. Delays of one tick are enough: a retry is either due or
not; one provider asks for a wait beyond the cap. In `auth` the idle period is
longer than a touch and shorter than the absolute one, so refreshes overlap and
are cut off, and with a limit of one every login replaces a session. `paper_orders` has no
counter to bound: an id is used up by its order. Its tickets and bars are chosen
so that orders fill, wait, trigger, gap past a stop, are clamped at their limit,
are rejected with more reasons than fit, and sell what another one sells.
`BooksBalance` and `ProfitExplainsCash` exclude, through `raced`, exactly the
overlap that `paper_race` shows: they say that nothing else unbalances the books. Symmetry is used only
where all properties of the run are safety properties. Deadlock is not checked:
with the bounds used up the models stop, as the program does between requests.

In `platform` every race has two requests, workers or seedings, on one contended
row (three sign-ins in two processes for admissions, as a limit of two needs).
The values are chosen so that the hard cases happen: import answers with new,
restated, doubled, invalid and unadjusted days and all kinds of errors, and an
incremental job after a full one; windows of forecasts in and out of order;
constituents that leave or become known late, values stored after a screening
under times before it, and a second version of a definition; entities and
relationships of several statuses that end or are known late; six days with every sequence of
three closes after the first, published daily, in batches, and late for one of
two stocks, so that an older order is executed after a newer one, for all seven
strategies;
every target of an upgrade on both databases, and every target of a downgrade,
the base included, on PostgreSQL. `MaxTime`, `MaxRows`, `MaxDefinitions`,
`MaxVersions`, `MaxAttempt`, `MaxRelationships`, `MaxProfiles`, `LastInstant` and
`LastMoment` bound what the program does not. Two rows of a kind are enough for
one to be newer, restated or replaced.

**Fairness.** `FairSpec` asks that a worker or scheduler that can take a step
eventually does (the processes are poll loops that the deployment restarts) and
that time passes. Requests, crashes and resolutions are never required. In
`JobsSettle` providers are assumed to be enabled in the end: the queue stops at
a job whose provider is disabled. `SlotsSettle` is checked for handlers that do
not raise for ever; `task_claims` shows what happens if one does.

## 4. What is proved

The theorems hold for all values of the constants that meet the named
assumptions, hence any number of workers, requests, jobs, slots, users,
archetypes and symbols and any bound. The ASSUMEs are in the modules that declare
the constants, and TLC evaluates them on every run. In the modules of queue,
scheduler and authentication they say that different kinds of actors are
different, that a marker for "nothing" is no real value and that limits are
positive, and that the waits of providers are natural numbers. In `PaperLedger`, tickets pass the validation of `OrderRequest`, every
asset has a bar, there are finitely many assets and order ids, and the limits of
the risk rules are not negative (`RulesAssumption`), as `RiskRuleUpdate` requires.
In `Platform` each component has its own: finitely many users
(`UsersAssumption`); times, versions and periods are natural numbers, and the
capacity ladder is a list (`ForecastsAssumption`, `FeaturesAssumption`,
`SchedulesAssumption`); what is said of entities and relationships has a status
and times of the tables' types (`WalksAssumption`); finitely many attempts, each in one
process, and natural limits, window and patience (`AdmissionAssumption`); a job
names finitely many symbols, and an answer of a provider has finitely many
records, each of a numbered day (`ImportsAssumption`); the archetypes are a list
and the number of folds is natural (`HypothesesAssumption`); a run has finitely
many stocks and a delay of at least one bar, as `BacktestConfig` requires, and
its bars have a time of publication (`SimulationAssumption`). On
`PricesAssumption` only `MarketTypes` rests: stocks are numbered from 1, opening
prices positive, cash, commission and limits natural, the friction at most the
price (`BacktestConfig` caps spread and slippage far below), and the strategies
are those of the registry.

| Module | Theorems |
|---|---|
| `ImportQueue_proofs` | `TypeSafety`, `SingleOwnership`, `BoundedAttempts`, `CommittedCancellationWins`, `QueueImplementsBoard` |
| `NativeAuth_proofs` | `TypeSafety`, `NoStaleSession`, `EveryChangeCounts`, `RevocationHolds`, `IssuedOnlyToHolder`, `UseExtends`, `FewSessionsEach` |
| `TaskScheduler_proofs` | `TypeSafety`, `SlotsAreExact`, `ExactlyOneEffect`, `BoundedAttempts`, `FinishedStays`, `SchedulerImplementsLedger` |
| `PaperLedger_proofs` | `TypeCorrect`, `FillsHappenOnce`, `LimitsAreKept`, `BooksAreBalanced`, `BuysStayCovered`, `ProfitIsExplained` |
| `PlatformAccess_proofs` | `OwnersLeaveOnStaleReads`, `SlotsAreGivenBack`, `StretchesAreBounded`, `AccessTypes` |
| `PlatformMarket_proofs` | `DueTimesRunOnceHolds`, `ImportsAreTold`, `NewestSignalRule`, `MarketTypes` |
| `PlatformResearch_proofs` | `NoHindsight`, `ScreeningsAreReproducible`, `OneStory`, `VerdictsAreOne`, `WalksKeepTheirTime`, `ResearchTypes` |
| `SumTheorems` | lemmas on sums over finite sets and on induction, used by the others |

The modules of one component have an inductive invariant `IInv`, a lemma per
action that it is kept, and the theorems as its consequences. `Platform` runs
one component at a time, so each component has an invariant of its own
(`MembersInv`, `SlotsInv`, `WindowsInv`, `SchedulesInv`, `ImportsInv`,
`SimulationInv`, `LedgerInv`, `FeaturesInv`, `ResolutionsInv`, `HypothesesInv`,
`WalksInv`), which a step of another component leaves alone. The arguments:

- *ImportQueue.* A worker may only trust its image because the claim refreshed
  it under the row lock. `IInv` adds to the properties that the image of **every**
  actor, also one that is about to write late, is within the attempt budget
  (`ImagesWithinBudget`) and runnable when it is about to run
  (`ImagesRunnable`), and that committed rows count committed executions.
- *ImportQueue implements JobBoard.* No committed row is `running`
  (`NoRunCommitted`): a claim is visible to nobody until its run commits. With
  `IInv`, the commit of a run is a step of the board on the committed row, since a
  running worker's image is that row (`RunningWorkerOwnsRow`) and the outcomes of
  a run are those of the board (`OutcomesAreOnBoard`). A request's commit writes
  the columns that it changed, which are what the board says of a job that was
  seen in one state and is now in another; a run from the API ends on what was
  seen. All other steps stutter.
- *NativeAuth.* `IInv` adds that at most one actor holds a profile row
  (`OneHolder`), that who holds it has seen the current version
  (`HolderIsCurrent`, `LoginMatches`, `HolderIsEnabled`), and that a refresh in
  flight is later than the use it read (`RefreshIsLater`). The last is what
  keeps a late refresh from shortening a session. The bound on rows is proved on
  top of `IInv` by `FewSessions`: rows are finitely many and bounded for each
  user. A rewrite maps a user's rows onto the new ones (`RewritingAddsNoRow`), a
  login keeps one less than the limit before it adds its own
  (`IssuingReplacesRows`).
- *TaskScheduler.* `IInv` adds that what a scheduler has locked is still the
  due slot of its definition (`HeldIsDue`) and locked by it alone
  (`HeldIsExclusive`), and that a definition is at most one slot ahead of the
  clock (`DueFollowsClock`). Without these `NoSlotLostOrEarly` is not inductive.
- *TaskScheduler implements OccurrenceLedger.* The initial states map to an
  empty ledger. Under `IInv` and `AbsentIsUntouched` (a slot that has no row has
  no attempts) each step maps to one of the ledger or a stutter: a commit of a
  scheduler opens the next entry, a claim takes it, what ends the work closes it
  or puts it back, and steps that change no entry stutter.
- *PaperLedger.* `IInv` adds `DecidedSoundly`: a fill that a request is about to
  make has a price that the limit of its ticket allows (`QuoteWithinLimit`, a
  lemma on prices alone) and, if it buys, cash enough in the portfolio that the
  request has loaded. `BooksBalance` is inductive since a fill that has not raced
  read the very balances it replaces; `BuysAreCovered` follows for the same
  reason. For `ProfitExplainsCash`, `ProfitInv` adds that no position is larger
  than what was ever bought. A buy rounds the average cost, which errs by at most
  half a unit per share held (`RoundingError`), hence each buy by at most half of
  all shares ever bought; sells add no error.
- *Types of the queue.* `TypeOK` bounds a wait by the cap or by what a provider
  asked for, and `RetryWaits` is what an attempt that retries leaves: the cap holds
  for the computed delay only.
- *WorkspaceMembers.* The property speaks of the step that takes the last owner
  away. The invariant says that a request about to demote an owner has counted a
  number of owners other than one (`CountedBeforeDemotion`). If neither that
  count nor the role had changed since, another owner would be left.
- *AuthAdmission, hash slots.* `SlotsInv` adds up the two mechanisms: the gate of
  a process has as many places left as attempts are not inside it, every lock
  that is not free names an attempt that hashes, and every attempt that hashes
  has a lock. So when all attempts have ended, whatever way, all slots are free.
- *AuthAdmission, windows.* `WindowsInv` gives each bucket a last window and
  counts what was admitted in it and before it. A window begins at the clock its
  request read, at most `Patience` before the row is written, and a new one begins
  only when the old has expired. Two windows therefore begin at least
  `Window - Patience` apart, and three never meet in a stretch shorter than that:
  no such stretch admits more than twice the limit.
- *ImportSchedules.* A worker or a request enqueues what it selected before.
  `ChosenIsPast`: every due time it holds had come when it selected, and time does
  not go back. That none of them has a run is not part of the invariant, since
  another transaction can take the due time first: the unique constraint, looked at
  when the runs are inserted (`Refused`), is what the proof rests on.
- *ImportRun.* Rows, batches and bars change together, at a commit only. So what
  the property says of committed rows must hold at every step of a transaction
  for the row and batches it carries and the bars it would leave (`Runs`). The
  bars of two open transactions never share an identity, the records about to be
  stored are one a day (`Storable`), and the sum over the batches grows by what
  is stored for one symbol.
- *Backtest.* `SimulationInv` says what waits: the orders are those of the days
  whose first open is still to come (`OrderHolds`, `SignalHolds`), and of the
  other signals the one whose first open came last rules (`Rules`). A day's
  signals leave the first opens of earlier days alone (`FirstKeeps`) and cannot
  be executed on their own day (`NewSignalsWait`). The trades of a rebalance are
  two folds over the symbols; they keep the weights (`TradesKeep`), so the orders
  of a day write just what was decided, the last one of a stock counting
  (`RunWrites`, `OrdersWrite`). With bars published in order the first opens of
  later days are no earlier, which makes the ruling signal the newest.
- *ForecastLedger.* `DecisionsHold`: what a request decided from its reads, a
  lock before the eligible time, an outcome after it, still holds when it
  commits, because locks and outcomes are immutable once there. So whatever a
  score joins is in order, whichever requests have overlapped.
- *FeatureStore.* The property is inductive once it is known that a run counted
  no more values than there are, and no later version of a definition
  (`RunHolds`). A value that is added is of one company and visible from its
  eligible time on (`OtherRowsKeep`), so the row of any other company, and any row
  as of an earlier time, is found again; the company itself counts as rewritten
  from then on. Ranks and levels are a function of the rows (`ScreeningsOfRows`).
- *EntityResolution.* `ReviewHolds` says what a review may still believe when it
  commits. That an identifier had an owner stays true, since identifiers are
  never deleted; that it had none is what the unique constraint checks again.
- *HypothesisLifecycle.* The invariant names the rows that every call leaves for
  the archetype at hand (`Scheduled`, `Tested`, `Promoted`, `Judged`); those
  before it are judged, and committed rows are all judged or not there.
- *EconomicGraph.* Both walks are functions of the entities and relationships
  visible as of their time, so each step is asked what it does to those. A creation
  changes them only from its eligible time on. An expiry replaces a row by one of
  the same eligible time; that this is a new row needs that there is one row for a
  subject, object and start (`OneRow`). Verified relationships were supported when
  stored, by evidence that they cannot lose (`HaveSupport`).
- *Types of the platform.* `AccessTypes`, `MarketTypes` and `ResearchTypes` state
  `TypeOK` of `Platform` for ten of its components, on top of the invariants above. A
  component whose invariant does not imply its types has an invariant for the
  rest. `AdmissionTypes`: the gate stays a natural number, since who takes a place
  has seen one. `ImportTypes`: also the bars and records that an open transaction
  carries are dated (`Carries`). `SimulationTypes`: through the two folds of a
  rebalance every trade keeps positions natural numbers and has a natural value
  (`ExecuteTyped`), whatever sign the equity has. `FeatureTypes`,
  `ResolutionTypes` and `GraphTypes`: rows are numbered within their bound,
  reviews are about a value and an entity that exist, and a profile has the
  version after the latest one.

**Induction.** The library's induction theorems take an operator as a parameter
and cannot be used. `SumTheorems` states two with a *set* for the predicate:
`SubsetInduction`, from the well-foundedness of strict inclusion on a finite set
(`WFMin`), and from it `IntervalInduction`. With these the sums of `PaperLedger`,
`ImportRun` and `AuthAdmission` and the folds of `Backtest` are in reach.

**Only model-checked.** Liveness (`JobsSettle`, `SlotsSettle`), which is out of
the prover's reach, as is everything about ENABLED. And what concerns
`SchemaMigrations`: `SchemaFollowsVersions`, `CommandsComplete` and its part of
`TypeOK`. It has no constants and no bounds, so the run covers all of its states
and a proof would add nothing; its `History` is a recursive function over the
revisions and its commands use `SelectSeq`, which the prover cannot unfold.

## 5. What is not modelled, and the plan

Within the modelled components: `process_order`, leases and recoveries (they act
on rows that are never committed), what task handlers write, audit rows and
logs, invitations, assets and corporate actions of an import run, metrics of a
backtest, the requests for research that only tests make, columns, checks,
indexes and row level security of the schema.

Other components: provider circuits, freshness and alerts of
`operations/service.py`; selection of the trading universe and reconciliation of
reference data; research memory, adversarial reviews, analogues; world data; SEC
filings. They are single inserts, queries and arithmetic without a protocol, or
(circuits) only tests call them. Numerical code
(statistics, scores, optimizers), parsers, HTTP adapters and the web client are
left out for good: they are I/O or real arithmetic.

Observations on the code made while modelling that no run states:

- `packages/backtesting/engine.py:209`: a day's decisions become one order, which
  waits for `max(signal_times)`. A stock whose own bar was published in time is
  held back with it, and an order of an older day can then be executed after that
  of a newer one, undoing it. No document says which should win;
  `NewestSignalRules` states what does.
- `packages/backtesting/engine.py:115`: a risk rebalance is executed at the next
  open whatever the publication of the close it rests on, while
  `docs/backtesting-methodology.md:3` excludes publication-time look-ahead; with negative
  equity `_rebalance` sells more than is owned.
- `apps/api/routers/operations.py:641`: the flag of a run-now request is not flushed before
  due schedules are selected, and a PATCH of a schedule can be overwritten by the
  advance of a worker that selected it before.
- `docs/graph/query-limits.md:5` calls the two walks "behaviorally equivalent" and
  says that "Both enforce entity/relationship validity". The recursive query,
  which the API does not use, never looks at the rows of entities: it starts at and
  goes on over entities that are candidates, have ended or are not yet eligible,
  where the Python walk stops (`bounded_graph_as_of` and
  `postgres_recursive_neighborhood` of `EconomicGraph` differ by just that).
- `packages/economic_graph/service.py:489`: an expiry rewrites its row, so that the
  relationship is also missing from walks as of times at which it was in effect.
- `packages/economic_graph/profiles.py:145`: the eligible time of a profile is the
  latest of its company and its relationships; the linked entities do not count.
- `packages/research/service.py:493`: the level of a candidate follows the last
  new run, also when that run is as of an earlier time than the one before.
- `packages/auth/native.py`: if the connection of a hash slot is lost while the
  hash runs, its advisory lock is free before the hash ends, so that more hashes
  than the limit may run for a moment.
- `packages/hypothesis/service.py`: nothing calls `claim_factor_experiment`.
- `docs/database.md:5` rules downgrades out; revisions before the merge implement
  them, as modelled.

What would be next: `process_order` and the provider circuits, should the program
come to use them outside its tests; leases and recoveries of the import queue,
should claims be committed before the run.
