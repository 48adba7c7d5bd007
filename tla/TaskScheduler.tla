---------------------------- MODULE TaskScheduler ----------------------------
(***************************************************************************)
(* Operational tasks: the durable scheduler (packages/operations/scheduler *)
(* and service), the operations worker (packages/operations/worker) and    *)
(* the API that resolves quarantined occurrences, on PostgreSQL.           *)
(*                                                                         *)
(* A scheduler tick is one transaction: it locks the due definitions that  *)
(* no other transaction holds (FOR UPDATE SKIP LOCKED), inserts one        *)
(* occurrence for each and moves the definition to its next due time.  A   *)
(* worker also uses one transaction for all it does: it locks a runnable   *)
(* occurrence, runs the handler and commits the outcome together with the  *)
(* claim.  Nobody ever sees an occurrence CLAIMED or RUNNING, and a worker *)
(* that dies leaves the row as it found it; so recover_expired_occurrences *)
(* finds no row and is left out.                                           *)
(*                                                                         *)
(* The k-th due time of a definition is its slot k; slot k has come when   *)
(* k <= now.  A retry counts down the ticks left until next_retry_at.      *)
(***************************************************************************)
EXTENDS Integers, FiniteSets

CONSTANTS
    Definitions,     \* enabled rows of scheduled_task_definitions
    Failing,         \* those whose handler raises what the worker does not catch
    Schedulers,      \* scheduler processes
    Workers,         \* operations workers
    Clients,         \* concurrent requests to resolve an occurrence
    Nothing,         \* no occurrence
    ScanLimit,       \* limit of one scan: 100
    MaxAttempts,     \* retry_policy["maximum_attempts"]: 3 or 5
    BaseDelay,       \* 30 seconds, in ticks
    CapDelay,        \* 3600 seconds, in ticks
    MaxSlots,        \* bound on the slots of a definition
    MaxCrashes,      \* bound on processes killed and passing handler crashes
    MaxResolutions   \* bound on resolve requests

Slots == 1..MaxSlots
Occurrences == Definitions \X Slots
Actors == Workers \union Clients

ASSUME ActorsAssumption ==
    /\ Schedulers \intersect Workers = {}
    /\ Schedulers \intersect Clients = {}
    /\ Workers \intersect Clients = {}
ASSUME NothingAssumption == Failing \subseteq Definitions /\ Nothing \notin Occurrences
ASSUME PolicyAssumption ==
    /\ ScanLimit \in Nat \ {0} /\ MaxAttempts \in Nat \ {0}
    /\ BaseDelay \in Nat \ {0} /\ CapDelay \in Nat /\ CapDelay >= BaseDelay
ASSUME BoundsAssumption ==
    MaxSlots \in Nat /\ MaxCrashes \in Nat /\ MaxResolutions \in Nat

VARIABLES
    now,          \* how many slots have come
    nextDue,      \* next_due_at of each definition
    occ,          \* committed row of each occurrence
    wait,         \* ticks until next_retry_at
    held,         \* what each scheduler has locked: definitions with their due slots
    target,       \* the occurrence each worker holds or each request is about
    pc,           \* where each worker and request is
    effects,      \* history: successes committed for each occurrence
    retries,      \* history: manual retries granted to each occurrence
    crashes,      \* crashes left
    resolutions   \* requests left

vars == <<now, nextDue, occ, wait, held, target, pc, effects, retries, crashes, resolutions>>

Finished == {"SUCCEEDED", "CANCELLED"}
Settled == Finished \union {"QUARANTINED"}
Statuses == Settled \union {"ABSENT", "QUEUED", "RETRY_WAIT"}
Row == [status: Statuses, attempts: Nat]
Absent == [status |-> "ABSENT", attempts |-> 0]
NewRow == [status |-> "QUEUED", attempts |-> 0]

TypeOK ==
    /\ now \in 0..MaxSlots
    /\ nextDue \in [Definitions -> 1..(MaxSlots + 1)]
    /\ occ \in [Occurrences -> Row]
    /\ wait \in [Occurrences -> 0..CapDelay]
    /\ held \in [Schedulers -> SUBSET Occurrences]
    /\ target \in [Actors -> Occurrences \union {Nothing}]
    /\ pc \in [Actors -> {"idle", "running", "retry", "dismiss"}]
    /\ \A w \in Workers : pc[w] \in {"idle", "running"}
    /\ \A c \in Clients : pc[c] # "running"
    /\ \A a \in Actors : pc[a] # "idle" => target[a] \in Occurrences
    /\ effects \in [Occurrences -> Nat]
    /\ retries \in [Occurrences -> Nat]
    /\ crashes \in Nat /\ resolutions \in Nat

Init ==
    /\ now = 0
    /\ nextDue = [d \in Definitions |-> 1]
    /\ occ = [o \in Occurrences |-> Absent]
    /\ wait = [o \in Occurrences |-> 0]
    /\ held = [s \in Schedulers |-> {}]
    /\ target = [a \in Actors |-> Nothing]
    /\ pc = [a \in Actors |-> "idle"]
    /\ effects = [o \in Occurrences |-> 0]
    /\ retries = [o \in Occurrences |-> 0]
    /\ crashes = MaxCrashes
    /\ resolutions = MaxResolutions

-----------------------------------------------------------------------------
(* The scheduler.                                                          *)

DefinitionLocked(d) == \E s \in Schedulers : \E o \in held[s] : o[1] = d

(* Faulty variant: the next due time follows the scan, not the last slot.  *)
NextDueFromNow(k) == now + 1

(* The slot after slot k: missed slots are caught up one by one.           *)
next_due(k) == k + 1

(* A scan locks the due definitions that are free, earliest first.         *)
Scan(s) ==
    /\ held[s] = {}
    /\ LET due == {<<d, nextDue[d]>> : d \in {x \in Definitions :
                                                nextDue[x] <= now /\ ~DefinitionLocked(x)}}
       IN \E batch \in SUBSET due :
            /\ batch # {} /\ Cardinality(batch) <= ScanLimit
            /\ batch = due \/ Cardinality(batch) = ScanLimit
            /\ \A o \in batch, p \in due \ batch : o[2] <= p[2]
            /\ held' = [held EXCEPT ![s] = batch]
    /\ UNCHANGED <<now, nextDue, occ, wait, target, pc, effects, retries, crashes, resolutions>>

(* The inserts, each in a savepoint, and the commit.  An occurrence that   *)
(* exists already is refused by the unique constraint and its definition   *)
(* is not moved.                                                           *)
Materialize(s) ==
    /\ held[s] # {}
    /\ LET fresh == {o \in held[s] : occ[o].status = "ABSENT"} IN
         /\ occ' = [o \in Occurrences |-> IF o \in fresh THEN NewRow ELSE occ[o]]
         /\ nextDue' = [d \in Definitions |->
              IF \E o \in fresh : o[1] = d THEN next_due(nextDue[d]) ELSE nextDue[d]]
    /\ held' = [held EXCEPT ![s] = {}]
    /\ UNCHANGED <<now, wait, target, pc, effects, retries, crashes, resolutions>>

(* The process is killed or its commit fails: the transaction is gone.     *)
KillScheduler(s) ==
    /\ held[s] # {} /\ crashes > 0
    /\ held' = [held EXCEPT ![s] = {}]
    /\ crashes' = crashes - 1
    /\ UNCHANGED <<now, nextDue, occ, wait, target, pc, effects, retries, resolutions>>

-----------------------------------------------------------------------------
(* The operations worker.                                                  *)

OccurrenceLocked(o) == \E w \in Workers : pc[w] = "running" /\ target[w] = o

(* Faulty variant: what waits for a retry is not looked at.                *)
RunnableIfQueued(o) == occ[o].status = "QUEUED"

Runnable(o) ==
    \/ occ[o].status = "QUEUED"
    \/ occ[o].status = "RETRY_WAIT" /\ wait[o] = 0

Take(w, o) ==
    /\ pc' = [pc EXCEPT ![w] = "running"]
    /\ target' = [target EXCEPT ![w] = o]

Leave(a) ==
    /\ pc' = [pc EXCEPT ![a] = "idle"]
    /\ target' = [target EXCEPT ![a] = Nothing]

(* Faulty variant: a plain SELECT, without FOR UPDATE SKIP LOCKED.         *)
ClaimUnlocked(w) ==
    /\ pc[w] = "idle"
    /\ \E o \in Occurrences :
         /\ Runnable(o)
         /\ \A p \in Occurrences : Runnable(p) => o[2] <= p[2]
         /\ Take(w, o)
    /\ UNCHANGED <<now, nextDue, occ, wait, held, effects, retries, crashes, resolutions>>

(* The earliest runnable occurrence that no other worker holds.            *)
Claim(w) ==
    /\ pc[w] = "idle"
    /\ \E o \in Occurrences :
         /\ Runnable(o) /\ ~OccurrenceLocked(o)
         /\ \A p \in Occurrences : Runnable(p) /\ ~OccurrenceLocked(p) => o[2] <= p[2]
         /\ Take(w, o)
    /\ UNCHANGED <<now, nextDue, occ, wait, held, effects, retries, crashes, resolutions>>

Bounded(t) == IF t \in 0..CapDelay THEN t ELSE CapDelay
Exponential(attempt) == Bounded(BaseDelay * 2^(attempt - 1))
Spread(t) == IF t \div 5 > 1 THEN t \div 5 ELSE 1

(* Faulty variant: the jitter is added after the cap.                      *)
UncappedDelays(attempt) ==
    {Exponential(attempt) + jitter : jitter \in 0..Spread(Exponential(attempt))}

(* Bounded exponential backoff with jitter of up to a fifth.               *)
RetryDelays(attempt) ==
    {Bounded(Exponential(attempt) + jitter) : jitter \in 0..Spread(Exponential(attempt))}

(* Faulty variant: the last attempt is followed by another.                *)
RetryableOnceMore(attempt) == attempt <= MaxAttempts

Retryable(attempt) == attempt < MaxAttempts

(* The row and the delay that fail_occurrence may leave behind.            *)
Failures(attempt) ==
    {[row |-> [status |-> "QUARANTINED", attempts |-> attempt], delay |-> 0]}
    \union {[row |-> [status |-> "RETRY_WAIT", attempts |-> attempt], delay |-> t] :
              t \in IF Retryable(attempt) THEN RetryDelays(attempt) ELSE {}}

(* The handler succeeds.                                                   *)
CompleteOccurrence(w) ==
    /\ pc[w] = "running" /\ target[w][1] \notin Failing
    /\ LET o == target[w] IN
         /\ occ' = [occ EXCEPT ![o] = [status |-> "SUCCEEDED", attempts |-> @.attempts + 1]]
         /\ effects' = [effects EXCEPT ![o] = @ + 1]
    /\ Leave(w)
    /\ UNCHANGED <<now, nextDue, wait, held, retries, crashes, resolutions>>

(* The handler fails in a way execute_occurrence knows: for good, or in a  *)
(* way worth a retry.                                                      *)
FailOccurrence(w) ==
    /\ pc[w] = "running" /\ target[w][1] \notin Failing
    /\ LET o == target[w] IN
         \E failure \in Failures(occ[o].attempts + 1) :
           /\ occ' = [occ EXCEPT ![o] = failure.row]
           /\ wait' = [wait EXCEPT ![o] = failure.delay]
    /\ Leave(w)
    /\ UNCHANGED <<now, nextDue, held, effects, retries, crashes, resolutions>>

(* The worker is killed, or its handler raises an exception that nothing   *)
(* catches: the claim is rolled back with the rest, and the container is   *)
(* restarted.                                                              *)
Abandon(w) ==
    /\ pc[w] = "running"
    /\ target[w][1] \in Failing \/ crashes > 0
    /\ crashes' = IF target[w][1] \in Failing THEN crashes ELSE crashes - 1
    /\ Leave(w)
    /\ UNCHANGED <<now, nextDue, occ, wait, held, effects, retries, resolutions>>

-----------------------------------------------------------------------------
(* POST /operations/occurrences/{id}/{action}: RETRY, or DISMISS and       *)
(* SUPERSEDE, which differ only in the note they leave.                    *)
ReadQuarantined(c, o, action) ==
    /\ pc[c] = "idle" /\ resolutions > 0
    /\ occ[o].status = "QUARANTINED"
    /\ pc' = [pc EXCEPT ![c] = action]
    /\ target' = [target EXCEPT ![c] = o]
    /\ resolutions' = resolutions - 1
    /\ UNCHANGED <<now, nextDue, occ, wait, held, effects, retries, crashes>>

Resolution(o, action) ==
    [status |-> IF action = "retry" THEN "RETRY_WAIT" ELSE "CANCELLED",
     attempts |-> occ[o].attempts]

(* Faulty variant: the UPDATE names the occurrence only.                   *)
ResolveUnchecked(c) ==
    /\ pc[c] \in {"retry", "dismiss"} /\ ~OccurrenceLocked(target[c])
    /\ LET o == target[c] IN
         /\ occ' = [occ EXCEPT ![o] = Resolution(o, pc[c])]
         /\ wait' = [wait EXCEPT ![o] = 0]
         /\ retries' = [retries EXCEPT ![o] = @ + IF pc[c] = "retry" THEN 1 ELSE 0]
    /\ Leave(c)
    /\ UNCHANGED <<now, nextDue, held, effects, crashes, resolutions>>

(* The UPDATE waits for the row and applies only if it is quarantined.     *)
Resolve(c) ==
    /\ pc[c] \in {"retry", "dismiss"} /\ ~OccurrenceLocked(target[c])
    /\ LET o == target[c] IN
         \/ /\ occ[o].status = "QUARANTINED"
            /\ occ' = [occ EXCEPT ![o] = Resolution(o, pc[c])]
            /\ wait' = [wait EXCEPT ![o] = 0]
            /\ retries' = [retries EXCEPT ![o] = IF pc[c] = "retry" THEN @ + 1 ELSE @]
         \/ occ[o].status # "QUARANTINED" /\ UNCHANGED <<occ, wait, retries>>
    /\ Leave(c)
    /\ UNCHANGED <<now, nextDue, held, effects, crashes, resolutions>>

(* Time passes: a slot comes, and every retry is one tick nearer.          *)
Tick ==
    /\ now < MaxSlots \/ \E o \in Occurrences : wait[o] > 0
    /\ now' = IF now < MaxSlots THEN now + 1 ELSE now
    /\ wait' = [o \in Occurrences |-> IF wait[o] > 0 THEN wait[o] - 1 ELSE 0]
    /\ UNCHANGED <<nextDue, occ, held, target, pc, effects, retries, crashes, resolutions>>

SchedulerStep(s) == Scan(s) \/ Materialize(s)

WorkerStep(w) == Claim(w) \/ CompleteOccurrence(w) \/ FailOccurrence(w)

(* What the poll loop of a worker comes to: a failing handler does raise.  *)
PollStep(w) == WorkerStep(w) \/ (pc[w] = "running" /\ target[w][1] \in Failing /\ Abandon(w))

ClientStep(c) ==
    \/ \E o \in Occurrences, action \in {"retry", "dismiss"} : ReadQuarantined(c, o, action)
    \/ Resolve(c)

Next ==
    \/ \E s \in Schedulers : SchedulerStep(s) \/ KillScheduler(s)
    \/ \E w \in Workers : WorkerStep(w) \/ Abandon(w)
    \/ \E c \in Clients : ClientStep(c)
    \/ Tick

Spec == Init /\ [][Next]_vars

(* The poll loops of schedulers and workers keep running (the containers   *)
(* restart them), and time passes.  Nobody has to resolve or crash.        *)
Fairness ==
    /\ \A s \in Schedulers : WF_vars(SchedulerStep(s))
    /\ \A w \in Workers : WF_vars(PollStep(w))
    /\ WF_vars(Tick)

FairSpec == Spec /\ Fairness

-----------------------------------------------------------------------------
(* What the occurrences promise.                                           *)

(* An occurrence as an entry: runnable or waiting ones are open, with the  *)
(* attempts that the policy and manual retries have left them.             *)
LedgerEntry(o) ==
    [status |-> IF occ[o].status \in {"QUEUED", "RETRY_WAIT"} THEN "OPEN" ELSE occ[o].status,
     left |-> MaxAttempts + retries[o] - occ[o].attempts]

Entries == [d \in Definitions |-> [k \in 1..(nextDue[d] - 1) |-> LedgerEntry(<<d, k>>)]]
Holders == {<<w, target[w]>> : w \in {v \in Workers : pc[v] = "running"}}

Ledger == INSTANCE OccurrenceLedger WITH time <- now, ledger <- Entries, holders <- Holders

-----------------------------------------------------------------------------
(* Properties.                                                             *)

(* Scans that overlap, claims, retries, crashes and late resolutions are   *)
(* an orderly ledger to who reads it: entries opened in order and in time, *)
(* each worked on by one worker at a time while it is open, closed before  *)
(* its attempts run out, and changed afterwards by a person only.          *)
ImplementsLedger == Ledger!Spec

(* However schedulers overlap and wherever they crash, the occurrences of  *)
(* a definition are exactly its slots before next_due_at, and none is      *)
(* materialized before its time: no slot is doubled, skipped or left       *)
(* behind by an advance that committed without it.                         *)
NoSlotLostOrEarly ==
    \A d \in Definitions, k \in Slots :
        (occ[<<d, k>>].status # "ABSENT") <=> (k < nextDue[d] /\ k <= now)

(* Each success commits with the claim it belongs to: an occurrence takes  *)
(* effect once, and exactly if it ends SUCCEEDED, whatever crashes and     *)
(* retries came before.                                                    *)
EffectOnce ==
    \A o \in Occurrences : effects[o] = IF occ[o].status = "SUCCEEDED" THEN 1 ELSE 0

(* No occurrence makes more attempts than its policy allows plus one for   *)
(* each manual retry, and one that waits for the worker of its own accord  *)
(* has one left.                                                           *)
AttemptBudget ==
    \A o \in Occurrences :
        /\ occ[o].attempts <= MaxAttempts + retries[o]
        /\ occ[o].status \in {"QUEUED", "RETRY_WAIT"} => occ[o].attempts < MaxAttempts + retries[o]

(* A worker executes an occurrence nobody else is executing, and only      *)
(* while the committed row is one the claim could select: what the proofs  *)
(* of the others rest on, and a part of ImplementsLedger.                  *)
RunningIsExclusive ==
    \A w \in Workers : pc[w] = "running" =>
        /\ Runnable(target[w])
        /\ \A v \in Workers : pc[v] = "running" /\ target[v] = target[w] => v = w

(* What succeeded or was dismissed stays so: a resolution that read the    *)
(* quarantined row long ago changes nothing that happened since.  Error    *)
(* text: "Only quarantined work can be resolved".                          *)
FinishedIsFinal ==
    [][\A o \in Occurrences :
         /\ occ[o].status \in Finished => occ'[o] = occ[o]
         /\ occ'[o].status = "CANCELLED" /\ occ[o] # occ'[o] => occ[o].status = "QUARANTINED"]_vars

(* Every slot that comes is materialized and ends succeeded, dismissed or  *)
(* quarantined, after any finite number of crashes and manual retries, if  *)
(* no handler keeps raising.                                               *)
SlotsSettle ==
    \A d \in Definitions, k \in Slots :
        (k <= now) ~> (occ[<<d, k>>].status \in Settled)

(* Work that was claimed is retried later or quarantined.  Docs: "Claims   *)
(* have owners and expirations; expired work is retried or quarantined".   *)
(* The code keeps neither the claim nor the attempt of a worker whose      *)
(* handler raises a ProviderError: the row is QUEUED again, first in line. *)
ClaimsAreAccountedFor ==
    \A o \in Occurrences :
        (\E w \in Workers : pc[w] = "running" /\ target[w] = o)
            ~> (occ[o].status \in Settled \union {"RETRY_WAIT"})
=============================================================================
