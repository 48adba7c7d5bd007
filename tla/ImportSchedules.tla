--------------------------- MODULE ImportSchedules ---------------------------
(***************************************************************************)
(* Import schedules (packages/market_data/operations,                      *)
(* process_due_schedules, and the schedule requests of                     *)
(* apps/api/routers/operations): each worker evaluates what is due before  *)
(* it claims a job, in one transaction that inserts a run and a job for    *)
(* each due time and moves the schedule on by a day.  A request to run one *)
(* schedule now does the same.                                             *)
(*                                                                         *)
(* The transaction reads the due schedules without a lock; a run of the    *)
(* same due time inserted meanwhile breaks a unique constraint, of runs or *)
(* of the job's key, and ends the worker.  So does a schedule whose        *)
(* provider is disabled, on which create_import_job raises.                *)
(***************************************************************************)
EXTENDS Integers, FiniteSets

CONSTANTS
    Schedules,      \* ids
    Workers,        \* processes of packages/market_data/worker
    Requests,       \* concurrent requests to run a schedule now
    DayLength,      \* a day, in instants
    LastInstant     \* bound on the clock

VARIABLES
    instant,        \* utc_now()
    schedules,      \* import_schedules
    dueRuns,        \* schedule_runs, each with its own import job
    evaluation,     \* the open transaction of each of them
    unconfigured    \* schedules whose provider is disabled

vars == <<instant, schedules, dueRuns, evaluation, unconfigured>>

Instants == 0..LastInstant
NextTimes == 0..(LastInstant + DayLength)
NoSchedule == [enabled |-> FALSE, next |-> -1]
Schedule == [enabled : BOOLEAN, next : NextTimes]
NotEvaluating == [step |-> "none"]
Evaluators == Workers \union Requests
ScheduleRun == [schedule : Schedules, for : NextTimes, job : Evaluators]

TypeOK ==
    /\ instant \in Instants
    /\ \A s \in Schedules : schedules[s] \in Schedule \union {NoSchedule}
    /\ dueRuns \subseteq ScheduleRun
    /\ \A p \in Evaluators : evaluation[p].step \in {"none", "selected", "down"}
    /\ unconfigured \subseteq Schedules

Init ==
    /\ instant = 0
    /\ schedules = [s \in Schedules |-> NoSchedule]
    /\ dueRuns = {}
    /\ evaluation = [p \in Evaluators |-> NotEvaluating]
    /\ unconfigured = {}

Tick ==
    /\ instant < LastInstant /\ instant' = instant + 1
    /\ UNCHANGED <<schedules, dueRuns, evaluation, unconfigured>>

HasRun(s, t) == \E r \in dueRuns : r.schedule = s /\ r.for = t

create_schedule(s, t) ==
    /\ schedules[s] = NoSchedule
    /\ schedules' = [schedules EXCEPT ![s] = [enabled |-> TRUE, next |-> t]]
    /\ UNCHANGED <<instant, dueRuns, evaluation, unconfigured>>

(* Any time may be set, one that has a run already included.               *)
update_schedule(s, enabled, t) ==
    /\ schedules[s] # NoSchedule
    /\ schedules' = [schedules EXCEPT ![s] = [enabled |-> enabled, next |-> t]]
    /\ UNCHANGED <<instant, dueRuns, evaluation, unconfigured>>

(* Runs and their cascade go with the schedule; a transaction that has     *)
(* selected it fails.                                                      *)
delete_schedule(s) ==
    /\ schedules[s] # NoSchedule
    /\ schedules' = [schedules EXCEPT ![s] = NoSchedule]
    /\ dueRuns' = {r \in dueRuns : r.schedule # s}
    /\ UNCHANGED <<instant, evaluation, unconfigured>>

(* A provider whose credentials are gone is disabled by the next seeding.  *)
Unconfigure(s) ==
    /\ unconfigured' = (unconfigured \union {s}) \ (unconfigured \cap {s})
    /\ UNCHANGED <<instant, schedules, dueRuns, evaluation>>

(* The time a schedule is due at, now for the one that a request asks for. *)
DueTime(s, asked) == IF s \in asked THEN instant ELSE schedules[s].next

(* Due by its row, and without a run of its due time: one with a run is    *)
(* passed over and stays due.                                              *)
Due(asked) ==
    {s \in Schedules : /\ schedules[s].enabled /\ schedules[s].next <= instant
                       /\ ~HasRun(s, DueTime(s, asked))}

Evaluate(p, asked) ==
    /\ evaluation[p] = NotEvaluating
    /\ evaluation' = [evaluation EXCEPT ![p] =
         [step |-> "selected", chosen |-> [s \in Due(asked) |-> DueTime(s, asked)],
          moved |-> [s \in asked \ Due(asked) |-> instant]]]
    /\ UNCHANGED <<instant, schedules, dueRuns, unconfigured>>

Select(w) == Evaluate(w, {})

(* The time set by the request is not flushed before the schedules are     *)
(* selected: one that is not due by its row is only moved to now, and the  *)
(* other ones that are due run with the request.                           *)
run_schedule_now(r, s) == schedules[s] # NoSchedule /\ Evaluate(r, {s})

(* What a transaction writes for the schedules it selected.                *)
Advanced(e) ==
    [s \in Schedules |->
       IF s \in DOMAIN e.chosen THEN [schedules[s] EXCEPT !.next = e.chosen[s] + DayLength]
       ELSE IF s \in DOMAIN e.moved THEN [schedules[s] EXCEPT !.next = e.moved[s]]
       ELSE schedules[s]]
RunsOf(chosen, who) ==
    {[schedule |-> s, for |-> chosen[s], job |-> who] : s \in DOMAIN chosen}

(* A schedule is gone, its provider is disabled, or its run is there.      *)
Refused(e) ==
    \/ \E s \in DOMAIN e.chosen \union DOMAIN e.moved : schedules[s] = NoSchedule
    \/ \E s \in DOMAIN e.chosen : s \in unconfigured \/ HasRun(s, e.chosen[s])

(* A defect: the unique constraints are missing.                           *)
EnqueueUnchecked(p) ==
    /\ evaluation[p].step = "selected"
    /\ evaluation' = [evaluation EXCEPT ![p] = NotEvaluating]
    /\ dueRuns' = dueRuns \union RunsOf(evaluation[p].chosen, p)
    /\ schedules' = Advanced(evaluation[p])
    /\ UNCHANGED <<instant, unconfigured>>

(* The inserts and the commit: everything that was due, or nothing.        *)
Enqueue(p) ==
    /\ evaluation[p].step = "selected"
    /\ IF Refused(evaluation[p])
       THEN /\ evaluation' = [evaluation EXCEPT ![p] =
                                IF p \in Workers THEN [step |-> "down"] ELSE NotEvaluating]
            /\ UNCHANGED <<schedules, dueRuns>>
       ELSE /\ evaluation' = [evaluation EXCEPT ![p] = NotEvaluating]
            /\ dueRuns' = dueRuns \union RunsOf(evaluation[p].chosen, p)
            /\ schedules' = Advanced(evaluation[p])
    /\ UNCHANGED <<instant, unconfigured>>

(* A worker that ended, or dies with its transaction open, is restarted; a *)
(* request may end without its commit.                                     *)
Restart(p) ==
    /\ evaluation[p] # NotEvaluating
    /\ evaluation' = [evaluation EXCEPT ![p] = NotEvaluating]
    /\ UNCHANGED <<instant, schedules, dueRuns, unconfigured>>

Next ==
    \/ Tick
    \/ \E s \in Schedules :
         \/ \E t \in Instants : create_schedule(s, t)
         \/ \E t \in Instants, enabled \in BOOLEAN : update_schedule(s, enabled, t)
         \/ delete_schedule(s) \/ Unconfigure(s)
         \/ \E r \in Requests : run_schedule_now(r, s)
    \/ \E w \in Workers : Select(w)
    \/ \E p \in Evaluators : Enqueue(p) \/ Restart(p)

Spec == Init /\ [][Next]_vars

-----------------------------------------------------------------------------
(* Properties.                                                             *)

(* However workers, requests and restarts overlap, a due time is enqueued  *)
(* once, never before it has come, and a schedule moves on by whole days   *)
(* from a time it ran.  Docs: "repeated scheduler passes or restarts       *)
(* cannot enqueue the same occurrence twice".                              *)
DueTimesRunOnce ==
    [][\A r \in dueRuns' \ dueRuns :
         /\ r.for <= instant
         /\ ~\E o \in dueRuns : o.schedule = r.schedule /\ o.for = r.for
         /\ schedules'[r.schedule].next = r.for + DayLength]_vars
=============================================================================
