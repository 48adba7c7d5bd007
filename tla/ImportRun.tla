----------------------------- MODULE ImportRun -----------------------------
(***************************************************************************)
(* What one execution of an import job does to the stored bars             *)
(* (packages/market_data/ingestion, run_import_job): the symbols of the    *)
(* job are processed in order, each in a savepoint that is rolled back     *)
(* when the symbol fails, inside the one transaction that claimed the job. *)
(*                                                                         *)
(* ImportQueue has the claims, leases and stale rows of jobs and takes a   *)
(* run as one step; here a job is run by the worker that has claimed it,   *)
(* and other jobs store bars meanwhile.  Under READ COMMITTED a run reads  *)
(* what is committed and what it wrote; an insert waits for another run's  *)
(* uncommitted bar of the same identity.                                   *)
(*                                                                         *)
(* Left out: assets, mappings, corporate actions and capabilities, which   *)
(* are written in the savepoint of their symbol, and rows of errors.       *)
(***************************************************************************)
EXTENDS Integers, FiniteSets, FiniteSetsExt, Sequences

CONSTANTS
    ImportJobs,     \* ids
    Config,         \* of each job: symbols, mode, dry_run, max_attempts
    Answers,        \* of each symbol: what its provider may return or raise
    MaxAttempt      \* bound on the runs of a job

VARIABLES
    bars,           \* price_bars
    jobs,           \* import_jobs
    batches,        \* import_batches of each job, by symbol
    executions,     \* the open transaction of each job
    health          \* health of the provider and its data source

vars == <<bars, jobs, batches, executions, health>>

(* What an adapter raises: ProviderTemporaryError, or another of its errors. *)
Failures == {"temporary", "unreachable", "permanent"}

PriceBar(symbol, r, j) == [symbol |-> symbol, day |-> r.day, checksum |-> r.checksum, job |-> j]
SameBar(a, b) == a.symbol = b.symbol /\ a.day = b.day

NoBatch == [status |-> "none", inserted |-> 0, skipped |-> 0]
ImportBatch ==
    [status : {"none", "failed", "failed_validation", "succeeded"},
     inserted : Nat, skipped : Nat]
ImportJob ==
    [status : {"queued", "retrying", "succeeded", "failed", "cancelled"},
     attempt : 0..MaxAttempt, cursor : Nat, inserted : Nat, skipped : Nat, cancel : BOOLEAN]
NotRunning == [step |-> "none"]

Symbols(j) == Config[j].symbols

TypeOK ==
    /\ \A b \in bars : b.job \in ImportJobs /\ b.day \in Nat
    /\ \A j \in ImportJobs :
         /\ jobs[j] \in ImportJob
         /\ batches[j] \in [DOMAIN Symbols(j) -> ImportBatch]
         /\ executions[j].step \in {"none", "next", "storing", "done"}
    /\ health \in {"unknown", "healthy", "degraded", "unavailable"}

Init ==
    /\ bars = {}
    /\ jobs = [j \in ImportJobs |-> [status |-> "queued", attempt |-> 0, cursor |-> 0,
                                     inserted |-> 0, skipped |-> 0, cancel |-> FALSE]]
    /\ batches = [j \in ImportJobs |-> [i \in DOMAIN Symbols(j) |-> NoBatch]]
    /\ executions = [j \in ImportJobs |-> NotRunning]
    /\ health = "unknown"

(* Bars that a run sees: committed ones and its own.                       *)
Visible(j) == bars \union executions[j].new

(* The claim takes the row as it is and refuses one with a cancellation,   *)
(* which the loop over the symbols then never meets; a run starts after    *)
(* the symbols that an earlier one completed.                              *)
Begin(j) ==
    /\ executions[j] = NotRunning
    /\ jobs[j].status \in {"queued", "retrying"} /\ ~jobs[j].cancel
    /\ jobs[j].attempt < MaxAttempt
    /\ executions' = [executions EXCEPT ![j] =
         [step |-> "next", row |-> [jobs[j] EXCEPT !.attempt = @ + 1], batches |-> batches[j],
          new |-> {}, records |-> {}, known |-> {}, observed |-> FALSE, health |-> health]]
    /\ UNCHANGED <<bars, jobs, batches, health>>

(* A defect forgets the savepoint: the batch was already counted.          *)
EndAsWithoutRollback(j, batchStatus, status, newHealth) ==
    LET x == executions[j]
    IN  executions' = [executions EXCEPT ![j] =
          [x EXCEPT !.step = "done", !.row.status = status, !.health = newHealth,
                    !.row.inserted = @ + Cardinality(x.records),
                    !.batches[x.row.cursor + 1].status = batchStatus]]

(* The row at the end of an execution, its batch rolled back to the        *)
(* savepoint: bars and counters of the symbol are gone, the ones of        *)
(* earlier symbols stay.                                                   *)
EndAs(j, batchStatus, status, newHealth) ==
    LET x == executions[j]
    IN  executions' = [executions EXCEPT ![j] =
          [x EXCEPT !.step = "done", !.row.status = status, !.health = newHealth,
                    !.batches[x.row.cursor + 1].status = batchStatus]]

(* From the first day after the latest bar, in incremental mode.           *)
FetchFrom(j, symbol) ==
    LET days == {b.day : b \in {c \in Visible(j) : c.symbol = symbol}}
    IN  IF Config[j].mode = "incremental" /\ days # {} THEN Max(days) + 1 ELSE 0

(* validate_historical_bars: no error of its own in any record and no two  *)
(* records of the same day.                                                *)
is_valid(records) ==
    /\ \A r \in records : r.ok
    /\ Cardinality({r.day : r \in records}) = Cardinality(records)

(* The adapter answers, or raises; records that are not adjusted as asked  *)
(* raise a ValueError.                                                     *)
Fetch(j) ==
    /\ executions[j].step = "next"
    /\ executions[j].row.cursor < Len(Symbols(j))
    /\ LET x == executions[j]
           symbol == Symbols(j)[x.row.cursor + 1]
       IN  \E answer \in Answers[symbol] :
             IF answer.kind \in Failures THEN
                 EndAs(j, "failed",
                       IF answer.kind # "permanent" /\ x.row.attempt < Config[j].max_attempts
                       THEN "retrying" ELSE "failed",
                       IF answer.kind = "unreachable" THEN "unavailable" ELSE "degraded")
             ELSE
                 LET records == {r \in answer.records : r.day >= FetchFrom(j, symbol)}
                 IN  IF Config[j].adjusted /\ \E r \in records : ~r.adjusted
                     THEN EndAs(j, "failed", "failed", "degraded")
                     ELSE IF ~is_valid(records)
                     THEN EndAs(j, "failed_validation", "failed", "degraded")
                     ELSE executions' = [executions EXCEPT
                            ![j].step = "storing", ![j].records = records,
                            ![j].known = {b \in Visible(j) : b.symbol = symbol}]
    /\ UNCHANGED <<bars, jobs, batches, health>>

(* The flush of the symbol: records whose identity was known are skipped   *)
(* with their content preserved, a dry run skips all, and a bar that       *)
(* another run has committed meanwhile breaks the unique constraint.       *)
Store(j) ==
    /\ executions[j].step = "storing"
    /\ LET x == executions[j]
           i == x.row.cursor + 1
           fetched == {PriceBar(Symbols(j)[i], r, j) : r \in x.records}
           inserted == IF Config[j].dry_run THEN {}
                       ELSE {b \in fetched : ~\E k \in x.known : SameBar(k, b)}
           ins == Cardinality(inserted)
           skip == Cardinality(fetched) - ins
       IN  /\ \A o \in ImportJobs \ {j} : executions[o] # NotRunning =>
                ~\E b \in inserted, c \in executions[o].new : SameBar(b, c)
           /\ IF \E b \in inserted, c \in bars : SameBar(b, c)
              THEN EndAs(j, "failed", "failed", "degraded")
              ELSE executions' = [executions EXCEPT ![j] =
                     [x EXCEPT !.step = "next", !.new = @ \union inserted,
                        !.row.cursor = i, !.row.inserted = @ + ins, !.row.skipped = @ + skip,
                        !.batches[i] = [status |-> "succeeded", inserted |-> @.inserted + ins,
                                        skipped |-> @.skipped + skip],
                        !.observed = @ \/ x.records # {}]]
    /\ UNCHANGED <<bars, jobs, batches, health>>

(* No symbol is left: only an observation is evidence that a provider is   *)
(* healthy.                                                                *)
Succeed(j) ==
    /\ executions[j].step = "next"
    /\ executions[j].row.cursor = Len(Symbols(j))
    /\ executions' = [executions EXCEPT ![j].step = "done", ![j].row.status = "succeeded",
         ![j].health = IF executions[j].observed THEN "healthy" ELSE @]
    /\ UNCHANGED <<bars, jobs, batches, health>>

(* The worker's commit publishes everything at once.                       *)
Commit(j) ==
    /\ executions[j].step = "done"
    /\ LET x == executions[j]
       IN  /\ bars' = bars \union x.new
           /\ jobs' = [jobs EXCEPT ![j] = x.row]
           /\ batches' = [batches EXCEPT ![j] = x.batches]
           /\ health' = x.health
    /\ executions' = [executions EXCEPT ![j] = NotRunning]

(* The process dies: nothing of the run remains, its attempt included.     *)
Die(j) ==
    /\ executions[j] # NotRunning
    /\ executions' = [executions EXCEPT ![j] = NotRunning]
    /\ UNCHANGED <<bars, jobs, batches, health>>

(* The row is locked by a run until its commit.                            *)
request_cancellation(j) ==
    /\ executions[j] = NotRunning
    /\ jobs[j].status \in {"queued", "retrying"}
    /\ jobs' = [jobs EXCEPT ![j].cancel = TRUE,
                            ![j].status = IF @ = "queued" THEN "cancelled" ELSE @]
    /\ UNCHANGED <<bars, batches, executions, health>>

restart_import_job(j) ==
    /\ executions[j] = NotRunning
    /\ jobs[j].status \in {"failed", "retrying", "cancelled"}
    /\ jobs' = [jobs EXCEPT ![j].status = "queued", ![j].cancel = FALSE]
    /\ UNCHANGED <<bars, batches, executions, health>>

Next ==
    \E j \in ImportJobs :
        \/ Begin(j) \/ Fetch(j) \/ Store(j) \/ Succeed(j) \/ Commit(j) \/ Die(j)
        \/ request_cancellation(j) \/ restart_import_job(j)

Spec == Init /\ [][Next]_vars

-----------------------------------------------------------------------------
(* Properties.                                                             *)

(* Whatever fails, dies, repeats or overlaps, the rows of a job tell what  *)
(* it stored: the symbols before the resume cursor are those whose batches *)
(* succeeded, the job and its batches count the bars that carry its id, no *)
(* bar is stored twice, and a dry run stores none.  Docs: jobs "can be     *)
(* restarted without repeating completed symbols".                         *)
CursorTellsWhatIsStored ==
    /\ \A b, c \in bars : SameBar(b, c) => b = c
    /\ \A j \in ImportJobs :
         LET own == {b \in bars : b.job = j}
             done == {i \in DOMAIN Symbols(j) : batches[j][i].status = "succeeded"}
         IN  /\ done = 1..jobs[j].cursor
             /\ {b.symbol : b \in own} \subseteq {Symbols(j)[i] : i \in done}
             /\ jobs[j].inserted = Cardinality(own)
             /\ jobs[j].inserted = MapThenSumSet(LAMBDA i : batches[j][i].inserted, done)
             /\ jobs[j].status = "succeeded" => done = DOMAIN Symbols(j)
             /\ Config[j].dry_run => own = {}
=============================================================================
