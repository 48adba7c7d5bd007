----------------------------- MODULE ImportQueue -----------------------------
(***************************************************************************)
(* The durable import-job queue: packages/market_data/worker.py (the       *)
(* worker process), operations.py (claiming), ingestion.py (the job's own  *)
(* operations) and the API handlers of apps/api/routers/market_data.py and *)
(* operations.py that cancel, retry, restart and run a job.                *)
(*                                                                         *)
(* The database is PostgreSQL at READ COMMITTED.  `job' is the table of    *)
(* committed rows.  Every actor works in a transaction of its own:         *)
(*                                                                         *)
(*   - a plain SELECT reads the committed row into the ORM object          *)
(*     (`image'), which is never refreshed behind the actor's back         *)
(*     (expire_on_commit=False, one session per transaction);              *)
(*   - an UPDATE waits until no other transaction holds the row, then      *)
(*     holds the row to the end of the transaction;                        *)
(*   - a flush writes only the columns the actor changed in its image, to  *)
(*     the row whose id it is, whatever the row holds by then.             *)
(*                                                                         *)
(* worker.py runs recovery, schedules, claim, execution and the release of *)
(* the lease in ONE transaction, so neither the status "running" nor a     *)
(* JobLease row is ever committed: they live in the claiming actor's state *)
(* here, and recover_abandoned_jobs finds no row to recover.  The statuses *)
(* "interrupted" and "dead_letter", which only that recovery and fixtures  *)
(* produce, do not occur either.                                           *)
(***************************************************************************)
EXTENDS Integers, FiniteSets

CONSTANTS
    Jobs,          \* numbers ranking the jobs by (priority, requested_at, id)
    Workers,       \* import worker processes
    Clients,       \* concurrent API requests
    ClientOps,     \* the API operations exercised, a subset of AllClientOps
    MaxAttempts,   \* ImportJob.max_attempts
    BaseDelay,     \* first retry delay, in ticks
    CapDelay,      \* longest delay of the exponential backoff, in ticks
    RetryAfters,   \* waits that providers ask for (Retry-After of a 429)
    MaxRequests,   \* bound on API requests accepted
    MaxCrashes,    \* bound on worker crashes
    MaxReseeds     \* bound on provider enable/disable changes

AllClientOps == {"cancel", "retry", "restart", "execute"}
Actors == Workers \union Clients

ASSUME JobsAssumption == Jobs \subseteq Nat /\ Jobs # {}
ASSUME ActorsAssumption == Workers \intersect Clients = {}
ASSUME OpsAssumption == ClientOps \subseteq AllClientOps
ASSUME BoundsAssumption ==
    /\ MaxAttempts \in Nat \ {0} /\ BaseDelay \in Nat \ {0} /\ CapDelay \in Nat \ {0}
    /\ RetryAfters \subseteq Nat
    /\ MaxRequests \in Nat /\ MaxCrashes \in Nat /\ MaxReseeds \in Nat

VARIABLES
    job,        \* committed import_jobs rows
    backoff,    \* ticks left until next_retry_at of each row
    disabled,   \* jobs whose provider row has is_enabled false
    pc,         \* where each actor is in its transaction
    target,     \* the job an actor works on
    image,      \* the actor's ORM object of that job
    runs,       \* history: committed executions of each job
    requeues,   \* history: committed returns to the queue of each job
    requests, crashes, reseeds   \* what is left of the bounds

vars == <<job, backoff, disabled, pc, target, image, runs, requeues,
          requests, crashes, reseeds>>
budgets == <<requests, crashes, reseeds>>

TERMINAL_STATUSES == {"succeeded", "failed", "cancelled"}
RESTARTABLE_STATUSES == {"failed", "retrying", "cancelled"}
RUNNABLE_STATUSES == {"queued", "retrying"}

Statuses == {"absent", "queued", "running", "retrying"} \union TERMINAL_STATUSES
Row == [status: Statuses, cancel: BOOLEAN, attempt: Nat]
NoRow == [status |-> "absent", cancel |-> FALSE, attempt |-> 0]
NoTarget == CHOOSE j \in Jobs : TRUE
NewRow == [NoRow EXCEPT !.status = "queued"]

ActorStates == {"idle", "selected", "running", "down"} \union AllClientOps
                 \union {"restarting", "executing"}

(* The states in which an actor has updated its row and not yet committed. *)
Holding == {"running", "restarting", "executing"}
Locked(j) == \E a \in Actors : pc[a] \in Holding /\ target[a] = j

(* The backoff is capped, what a provider asks for is not.                 *)
Waits == {t \in Nat : t <= CapDelay \/ \E asked \in RetryAfters : t <= asked}

TypeOK ==
    /\ job \in [Jobs -> Row]
    /\ backoff \in [Jobs -> Waits]
    /\ disabled \subseteq Jobs
    /\ pc \in [Actors -> ActorStates]
    /\ target \in [Actors -> Jobs]
    /\ image \in [Actors -> Row]
    /\ runs \in [Jobs -> Nat]
    /\ requeues \in [Jobs -> Nat]
    /\ requests \in Nat /\ crashes \in Nat /\ reseeds \in Nat

-----------------------------------------------------------------------------
(* What one execution of run_import_job may make of the job it is given.   *)

(* Faulty variant: one power too many, and no cap.                         *)
UncappedDelay(attempt) == BaseDelay * 2^attempt

retry_delay_seconds(attempt) ==
    LET delay == BaseDelay * 2^(attempt - 1)
    IN  IF delay \in 1..CapDelay THEN delay ELSE CapDelay

EndRun(row, status) ==
    [status |-> status, cancel |-> row.cancel, attempt |-> row.attempt + 1]

(* Faulty variant: the last attempt is retried too.                        *)
RetryAfterLastAttempt(row) ==
    {EndRun(row, IF row.cancel THEN "cancelled" ELSE "succeeded")}
      \union (IF row.attempt < MaxAttempts THEN {EndRun(row, "retrying")} ELSE {})

(* A failure ends the job; a temporary one sends it to backoff while       *)
(* attempts remain.  The cancellation flag looked at between symbols is    *)
(* the one in the image: it decides the run before the first fetch.        *)
run_import_job(row) ==
    {EndRun(row, "failed")}
      \union (IF row.cancel THEN {EndRun(row, "cancelled")}
                            ELSE {EndRun(row, "succeeded")})
      \union (IF ~row.cancel /\ row.attempt + 1 < MaxAttempts
                THEN {EndRun(row, "retrying")} ELSE {})

(* next_retry_at after a run: set when the job retries, of no effect else. *)
(* A rate limit that asks for a longer wait than the backoff gets it.      *)
RetryWaits(row) ==
    IF row.status = "retrying"
    THEN LET delay == retry_delay_seconds(row.attempt)
         IN  {delay} \union {asked \in RetryAfters : asked > delay}
    ELSE {0}

BackoffAfter(j, row) == {[backoff EXCEPT ![j] = wait] : wait \in RetryWaits(row)}

request_cancellation(row) ==
    [status  |-> IF row.status = "queued" THEN "cancelled" ELSE row.status,
     cancel  |-> TRUE,
     attempt |-> row.attempt]

restart_import_job(row) ==
    [status |-> "queued", cancel |-> FALSE, attempt |-> row.attempt]

(* The unit of work's UPDATE: only changed columns reach the row.          *)
Flush(row, loaded, changed) ==
    [status  |-> IF changed.status # loaded.status THEN changed.status ELSE row.status,
     cancel  |-> IF changed.cancel # loaded.cancel THEN changed.cancel ELSE row.cancel,
     attempt |-> IF changed.attempt # loaded.attempt THEN changed.attempt ELSE row.attempt]

-----------------------------------------------------------------------------
Init ==
    /\ job = [j \in Jobs |-> NoRow]
    /\ backoff = [j \in Jobs |-> 0]
    /\ disabled = {}
    /\ pc = [a \in Actors |-> "idle"]
    /\ target = [a \in Actors |-> NoTarget]
    /\ image = [a \in Actors |-> NoRow]
    /\ runs = [j \in Jobs |-> 0]
    /\ requeues = [j \in Jobs |-> 0]
    /\ requests = MaxRequests /\ crashes = MaxCrashes /\ reseeds = MaxReseeds

MoveTo(a, state) == pc' = [pc EXCEPT ![a] = state]

(* The transaction of a ends; its ORM objects are gone.                    *)
EndTransaction(a, state) ==
    /\ MoveTo(a, state)
    /\ image' = [image EXCEPT ![a] = NoRow]
    /\ target' = [target EXCEPT ![a] = NoTarget]

(* POST /import/jobs: the INSERT of a queued job, committed at once.       *)
CreateJob(j) ==
    /\ job[j].status = "absent" /\ j \notin disabled
    /\ job' = [job EXCEPT ![j] = NewRow]
    /\ UNCHANGED <<backoff, disabled, pc, target, image, runs, requeues, budgets>>

(* The same with execute_immediately: insert and run in one transaction,   *)
(* so the first committed version is the outcome of the run.               *)
CreateAndRunJob(j) ==
    /\ "execute" \in ClientOps
    /\ job[j].status = "absent" /\ j \notin disabled
    /\ \E row \in run_import_job(NewRow) :
         /\ job' = [job EXCEPT ![j] = row]
         /\ backoff' \in BackoffAfter(j, row)
    /\ runs' = [runs EXCEPT ![j] = @ + 1]
    /\ UNCHANGED <<disabled, pc, target, image, requeues, budgets>>

-----------------------------------------------------------------------------
(* The worker.                                                             *)

(* Faulty variant: a job is claimed only from the queue.                   *)
EligibleIfQueued(j) == ~job[j].cancel /\ job[j].status = "queued"

Eligible(j) ==
    /\ ~job[j].cancel
    /\ \/ job[j].status = "queued"
       \/ job[j].status = "retrying" /\ backoff[j] = 0

(* claim_next_job's SELECT: the first eligible job, read without a lock.   *)
SelectCandidate(w) ==
    /\ pc[w] = "idle"
    /\ \E j \in Jobs :
         /\ Eligible(j)
         /\ \A k \in Jobs : Eligible(k) => j <= k
         /\ target' = [target EXCEPT ![w] = j]
         /\ image' = [image EXCEPT ![w] = job[j]]
    /\ MoveTo(w, "selected")
    /\ UNCHANGED <<job, backoff, disabled, runs, requeues, budgets>>

(* Faulty variant: the claim keeps the row as the SELECT saw it.           *)
ClaimWithoutRefresh(w) ==
    /\ pc[w] = "selected"
    /\ ~Locked(target[w])
    /\ job[target[w]].status = image[w].status
    /\ MoveTo(w, "running")
    /\ image' = [image EXCEPT ![w].status = "running"]
    /\ UNCHANGED <<job, backoff, target, disabled, runs, requeues, budgets>>

(* claim_next_job's UPDATE ... WHERE id AND status = previous.  It waits   *)
(* for the row, re-evaluates the condition on the row's latest version,    *)
(* and either takes it (session.refresh rereads every column) or rolls the *)
(* whole transaction back.                                                 *)
Claim(w) ==
    /\ pc[w] = "selected"
    /\ ~Locked(target[w])
    /\ LET row == job[target[w]] IN
         \/ /\ row.status = image[w].status
            /\ MoveTo(w, "running")
            /\ image' = [image EXCEPT ![w] = [row EXCEPT !.status = "running"]]
            /\ UNCHANGED target
         \/ /\ row.status # image[w].status
            /\ EndTransaction(w, "idle")
    /\ UNCHANGED <<job, backoff, disabled, runs, requeues, budgets>>

(* execute_claimed_job and the commit that ends the worker's iteration.    *)
FinishRun(w) ==
    /\ pc[w] = "running"
    /\ target[w] \notin disabled
    /\ \E row \in run_import_job(image[w]) :
         /\ job' = [job EXCEPT ![target[w]] = row]
         /\ backoff' \in BackoffAfter(target[w], row)
    /\ runs' = [runs EXCEPT ![target[w]] = @ + 1]
    /\ EndTransaction(w, "idle")
    /\ UNCHANGED <<disabled, requeues, budgets>>

(* run_import_job raises before its try block when the provider has been   *)
(* disabled since: the transaction rolls back and the process exits.       *)
AbortRun(w) ==
    /\ pc[w] = "running"
    /\ target[w] \in disabled
    /\ EndTransaction(w, "down")
    /\ UNCHANGED <<job, backoff, disabled, runs, requeues, budgets>>

(* The process is killed inside its transaction: the database rolls back.  *)
Crash(w) ==
    /\ pc[w] \in {"selected", "running"}
    /\ crashes > 0 /\ crashes' = crashes - 1
    /\ EndTransaction(w, "down")
    /\ UNCHANGED <<job, backoff, disabled, runs, requeues, requests, reseeds>>

(* The container's restart policy starts a new process.                    *)
RestartWorker(w) ==
    /\ pc[w] = "down"
    /\ MoveTo(w, "idle")
    /\ UNCHANGED <<job, backoff, disabled, target, image, runs, requeues, budgets>>

-----------------------------------------------------------------------------
(* The API.                                                                *)

Accepts(op, j) ==
    CASE op = "cancel"  -> job[j].status \notin TERMINAL_STATUSES \union {"absent"}
      [] op = "execute" -> job[j].status \in RUNNABLE_STATUSES /\ j \notin disabled
      [] OTHER          -> job[j].status \in RESTARTABLE_STATUSES

(* A handler loads the job and checks its status; nothing is locked yet.   *)
ReadJob(c, op, j) ==
    /\ pc[c] = "idle"
    /\ requests > 0 /\ requests' = requests - 1
    /\ Accepts(op, j)
    /\ MoveTo(c, op)
    /\ target' = [target EXCEPT ![c] = j]
    /\ image' = [image EXCEPT ![c] = job[j]]
    /\ UNCHANGED <<job, backoff, disabled, runs, requeues, crashes, reseeds>>

(* POST .../cancel: flush and commit.                                      *)
CancelJob(c) ==
    /\ pc[c] = "cancel"
    /\ ~Locked(target[c])
    /\ job' = [job EXCEPT ![target[c]] =
                 Flush(@, image[c], request_cancellation(image[c]))]
    /\ EndTransaction(c, "idle")
    /\ UNCHANGED <<backoff, disabled, runs, requeues, budgets>>

(* POST .../retry: back to the queue, flush and commit.                    *)
RetryJob(c) ==
    /\ pc[c] = "retry"
    /\ ~Locked(target[c])
    /\ job' = [job EXCEPT ![target[c]] =
                 Flush(@, image[c], restart_import_job(image[c]))]
    /\ backoff' = [backoff EXCEPT ![target[c]] = 0]
    /\ requeues' = [requeues EXCEPT ![target[c]] = @ + 1]
    /\ EndTransaction(c, "idle")
    /\ UNCHANGED <<disabled, runs, budgets>>

(* POST .../restart, and POST /import/jobs with execute_immediately and    *)
(* the idempotency key of an existing job: the first UPDATE takes the row, *)
(* the run works on the image loaded before it.                            *)
StartApiRun(c) ==
    /\ pc[c] \in {"restart", "execute"}
    /\ ~Locked(target[c])
    /\ MoveTo(c, IF pc[c] = "restart" THEN "restarting" ELSE "executing")
    /\ UNCHANGED <<job, backoff, disabled, target, image, runs, requeues, budgets>>

(* The run ends and the request commits.  Status and attempt were written  *)
(* by every flush of the run; the flag only if the handler changed it.     *)
FinishApiRun(c) ==
    /\ pc[c] \in {"restarting", "executing"}
    /\ target[c] \notin disabled
    /\ LET loaded == image[c]
           start  == IF pc[c] = "restarting" THEN restart_import_job(loaded) ELSE loaded
       IN \E row \in run_import_job(start) :
            /\ job' = [job EXCEPT ![target[c]] =
                         [row EXCEPT !.cancel =
                            IF row.cancel # loaded.cancel THEN row.cancel
                                                          ELSE job[target[c]].cancel]]
            /\ backoff' \in BackoffAfter(target[c], row)
    /\ runs' = [runs EXCEPT ![target[c]] = @ + 1]
    /\ requeues' = IF pc[c] = "restarting"
                     THEN [requeues EXCEPT ![target[c]] = @ + 1] ELSE requeues
    /\ EndTransaction(c, "idle")
    /\ UNCHANGED <<disabled, budgets>>

(* Faulty variant: the error answer commits what the run flushed.          *)
RejectWithoutRollback(c) ==
    /\ pc[c] \in {"restarting", "executing"}
    /\ target[c] \in disabled
    /\ job' = [job EXCEPT ![target[c]] = EndRun(image[c], "failed")]
    /\ EndTransaction(c, "idle")
    /\ UNCHANGED <<backoff, disabled, runs, requeues, budgets>>

(* The provider is disabled: ValueError, rollback, a 4xx answer.           *)
RejectApiRun(c) ==
    /\ pc[c] \in {"restarting", "executing"}
    /\ target[c] \in disabled
    /\ EndTransaction(c, "idle")
    /\ UNCHANGED <<job, backoff, disabled, runs, requeues, budgets>>

-----------------------------------------------------------------------------
(* platform_seed sets Provider.is_enabled from the configured credentials. *)
ReseedProviders(j) ==
    /\ reseeds > 0 /\ reseeds' = reseeds - 1
    /\ disabled' = IF j \in disabled THEN disabled \ {j} ELSE disabled \union {j}
    /\ UNCHANGED <<job, backoff, pc, target, image, runs, requeues, requests, crashes>>

(* Time passes: the distance of every next_retry_at shrinks.               *)
Tick ==
    /\ \E j \in Jobs : backoff[j] > 0
    /\ backoff' = [j \in Jobs |-> IF backoff[j] > 0 THEN backoff[j] - 1 ELSE 0]
    /\ UNCHANGED <<job, disabled, pc, target, image, runs, requeues, budgets>>

WorkerStep(w) ==
    \/ SelectCandidate(w) \/ Claim(w) \/ FinishRun(w) \/ AbortRun(w) \/ RestartWorker(w)

ClientStep(c) ==
    \/ CancelJob(c) \/ RetryJob(c) \/ StartApiRun(c) \/ FinishApiRun(c) \/ RejectApiRun(c)

Next ==
    \/ \E j \in Jobs : CreateJob(j) \/ CreateAndRunJob(j) \/ ReseedProviders(j)
    \/ \E w \in Workers : WorkerStep(w) \/ Crash(w)
    \/ \E c \in Clients : ClientStep(c)
    \/ \E c \in Clients, op \in ClientOps, j \in Jobs : ReadJob(c, op, j)
    \/ Tick

Spec == Init /\ [][Next]_vars

(* A process that is up keeps taking its next step, a request that was     *)
(* accepted is carried through, and time passes.  Nobody has to submit,    *)
(* cancel, crash or reseed.                                                *)
Fairness ==
    /\ \A w \in Workers : WF_vars(WorkerStep(w))
    /\ \A c \in Clients : WF_vars(ClientStep(c))
    /\ WF_vars(Tick)

FairSpec == Spec /\ Fairness

-----------------------------------------------------------------------------
(* What the queue promises.                                                *)

(* A transaction of a worker does not show on the board, of a request only *)
(* what it has read: the wait for the row and the run do not.              *)
Desks ==
    [c \in Clients |->
        IF pc[c] = "idle" THEN [kind |-> "none"]
        ELSE [kind |-> CASE pc[c] = "restarting" -> "restart"
                         [] pc[c] = "executing"  -> "execute"
                         [] OTHER                -> pc[c],
              job |-> target[c], seen |-> image[c]]]

Board == INSTANCE JobBoard WITH board <- job, desks <- Desks, done <- runs, returned <- requeues

-----------------------------------------------------------------------------
(* Properties.                                                             *)

(* However selects, claims, runs, crashes and provider changes interleave, *)
(* the committed rows are a board on which each job is worked on in one    *)
(* step, as it stands at the end of the step, and only requests act on     *)
(* what they read before: nothing a worker does is lost, done twice, or    *)
(* based on an old row.                                                    *)
ImplementsBoard == Board!Spec

(* A worker that executes a job works on the row as it is committed (bar   *)
(* the status it has set itself) and nobody else is executing or holding   *)
(* that row: what it read before waiting for the row was reread after.     *)
(* Docs: "a conditional status update establishes single ownership".       *)
RunningWorkerOwnsRow ==
    \A w \in Workers : pc[w] = "running" =>
        /\ image[w] = [job[target[w]] EXCEPT !.status = "running"]
        /\ \A a \in Actors \ {w} : ~(pc[a] \in Holding /\ target[a] = target[w])

(* However claims, API runs and requeues interleave, a job is never run    *)
(* beyond its attempts plus one for each time it was put back in the queue *)
(* (restart_import_job keeps the attempt count), and the count never runs  *)
(* ahead of the executions that committed: a rolled-back claim, a crash or *)
(* a lost update cannot consume an attempt.                                *)
AttemptBudget ==
    \A j \in Jobs : job[j].attempt <= MaxAttempts + requeues[j] /\ job[j].attempt <= runs[j]

(* A cancellation committed before a worker takes the row is never         *)
(* followed by that worker importing the data: a job does not go to        *)
(* "succeeded" or back to "retrying" while its row carries the flag,       *)
(* unless an API request that loaded it earlier runs it again itself.      *)
CancelBeforeClaimWins ==
    [][\A w \in Workers, j \in Jobs :
         (pc[w] = "running" /\ target[w] = j /\ job'[j] # job[j] /\ job[j].cancel)
            => job'[j].status \in {"cancelled", "failed"}]_vars

(* Every job that is runnable, not asked to stop, and whose providers are  *)
(* eventually all enabled is run until it is settled, or is cancelled.     *)
JobsSettle ==
    <>[](disabled = {}) =>
        \A j \in Jobs :
            (job[j].status \in RUNNABLE_STATUSES /\ ~job[j].cancel)
                ~> (job[j].status \in TERMINAL_STATUSES \/ job[j].cancel)

(* docs/job-state-machine.md: "Terminal states are `succeeded`, ..."; and  *)
(* STATE_TRANSITIONS["succeeded"] is empty.  The code breaks this: a       *)
(* cancel or retry that loaded the job earlier overwrites the result.      *)
SucceededIsFinal ==
    [][\A j \in Jobs : job[j].status = "succeeded" => job'[j].status = "succeeded"]_vars

(* docs/job-state-machine.md: "after `next_retry_at`, a worker may move it *)
(* back to `running`".  The code breaks this: the claim rechecks only the  *)
(* status, so a second worker takes a job that just went back to retrying. *)
RetryWaitsForBackoff ==
    [][\A w \in Workers :
         (pc[w] = "selected" /\ pc'[w] = "running" /\ image[w].status = "retrying")
            => backoff[target[w]] = 0]_vars

(* docs/job-state-machine.md: "Queued/running/retrying jobs accept         *)
(* cancellation requests".  The code breaks this: a retrying job with the  *)
(* flag set is never claimed again, so nothing ever cancels it.            *)
CancellationSettles ==
    \A j \in Jobs :
        job[j].cancel ~> (job[j].status \in TERMINAL_STATUSES \/ ~job[j].cancel)
=============================================================================
