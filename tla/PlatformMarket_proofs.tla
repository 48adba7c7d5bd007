------------------------ MODULE PlatformMarket_proofs ------------------------
(***************************************************************************)
(* Theorems about the components of Platform that bring market data in and *)
(* use it: ImportSchedules, for any schedules and workers, ImportRun, for  *)
(* any jobs, symbols and answers of the providers, and Backtest, for any   *)
(* stocks, price histories, publications and strategies.                   *)
(***************************************************************************)
EXTENDS Platform, SumTheorems, FiniteSetTheorems, TLAPS

-----------------------------------------------------------------------------
(* ImportSchedules.  What a worker or a request has selected was due when  *)
(* it was, whatever has happened to the schedules since; that no run of it *)
(* exists is seen by the unique constraint only.                           *)

(* Times that a transaction selected: of some schedules, and past.         *)
Past(e) ==
    /\ DOMAIN e.chosen \subseteq Schedules /\ DOMAIN e.moved \subseteq Schedules
    /\ \A s \in DOMAIN e.chosen : e.chosen[s] \in 0..instant
    /\ \A s \in DOMAIN e.moved : e.moved[s] \in 0..instant

(* The due times that an open transaction has read are past.               *)
ChosenIsPast ==
    \A p \in Workers \union Callers : evaluation[p].step = "selected" => Past(evaluation[p])

ScheduleDomains == DOMAIN schedules = Schedules /\ DOMAIN evaluation = Workers \union Callers

SchedulesInv == Schedule!TypeOK /\ ScheduleDomains /\ ChosenIsPast

LEMMA SchedulesStart == Schedule!Init => SchedulesInv
BY SchedulesAssumption
   DEF Schedule!Init, SchedulesInv, Schedule!TypeOK, ScheduleDomains, ChosenIsPast,
       Schedule!Instants, Schedule!NoSchedule, Schedule!NotEvaluating, Schedule!Evaluators

-----------------------------------------------------------------------------
(* What an evaluation writes.                                              *)

(* What is due has come, without a run of that time.                       *)
LEMMA DueIsPast ==
    ASSUME SchedulesInv, NEW asked, NEW s \in Schedule!Due(asked)
    PROVE  /\ s \in Schedules /\ Schedule!DueTime(s, asked) \in 0..instant
           /\ ~Schedule!HasRun(s, Schedule!DueTime(s, asked))
<1>1. /\ s \in Schedules /\ schedules[s].enabled /\ schedules[s].next <= instant
      /\ ~Schedule!HasRun(s, Schedule!DueTime(s, asked))
  BY DEF Schedule!Due
<1>2. schedules[s] \in Schedule!Schedule
  BY <1>1 DEF SchedulesInv, Schedule!TypeOK, Schedule!NoSchedule
<1>3. schedules[s].next \in 0..instant /\ instant \in 0..instant
  BY <1>1, <1>2, SchedulesAssumption
     DEF SchedulesInv, Schedule!TypeOK, Schedule!Schedule, Schedule!NextTimes, Schedule!Instants
<1>4. Schedule!DueTime(s, asked) \in 0..instant
  BY <1>3, Zenon DEF Schedule!DueTime
<1>5. QED BY <1>1, <1>4

(* A schedule moves on from the time it ran by a day (Advanced), and the   *)
(* row of each run is of a time that was due (RunsOf).                     *)
LEMMA AdvancedIsTyped ==
    ASSUME SchedulesInv, NEW e, Past(e), ~Schedule!Refused(e)
    PROVE  /\ DOMAIN Schedule!Advanced(e) = Schedules
           /\ \A s \in Schedules : Schedule!Advanced(e)[s] \in Schedule!Schedule \union {Schedule!NoSchedule}
           /\ \A s \in DOMAIN e.chosen : Schedule!Advanced(e)[s].next = e.chosen[s] + DayLength
<1>1. ASSUME NEW s \in Schedules, s \in DOMAIN e.chosen
      PROVE  /\ Schedule!Advanced(e)[s] \in Schedule!Schedule
             /\ Schedule!Advanced(e)[s].next = e.chosen[s] + DayLength
  <2>1. e.chosen[s] + DayLength \in Schedule!NextTimes
    BY <1>1, SchedulesAssumption
       DEF Past, SchedulesInv, Schedule!TypeOK, Schedule!Instants, Schedule!NextTimes
  <2>2. schedules[s] \in Schedule!Schedule
    BY <1>1 DEF SchedulesInv, Schedule!TypeOK, Schedule!Refused
  <2>3. Schedule!Advanced(e)[s] = [schedules[s] EXCEPT !.next = e.chosen[s] + DayLength]
    BY <1>1 DEF Schedule!Advanced
  <2>4. QED BY <2>1, <2>2, <2>3 DEF Schedule!Schedule
<1>2. ASSUME NEW s \in Schedules, s \notin DOMAIN e.chosen, s \in DOMAIN e.moved
      PROVE  Schedule!Advanced(e)[s] \in Schedule!Schedule
  <2>1. e.moved[s] \in Schedule!NextTimes
    BY <1>2, SchedulesAssumption
       DEF Past, SchedulesInv, Schedule!TypeOK, Schedule!Instants, Schedule!NextTimes
  <2>2. schedules[s] \in Schedule!Schedule
    BY <1>2 DEF SchedulesInv, Schedule!TypeOK, Schedule!Refused
  <2>3. Schedule!Advanced(e)[s] = [schedules[s] EXCEPT !.next = e.moved[s]]
    BY <1>2 DEF Schedule!Advanced
  <2>4. QED BY <2>1, <2>2, <2>3 DEF Schedule!Schedule
<1>3. ASSUME NEW s \in Schedules, s \notin DOMAIN e.chosen, s \notin DOMAIN e.moved
      PROVE  Schedule!Advanced(e)[s] \in Schedule!Schedule \union {Schedule!NoSchedule}
  BY <1>3 DEF Schedule!Advanced, SchedulesInv, Schedule!TypeOK
<1>4. DOMAIN Schedule!Advanced(e) = Schedules
  BY DEF Schedule!Advanced
<1>5. QED BY <1>1, <1>2, <1>3, <1>4 DEF Past

LEMMA RunsAreTyped ==
    ASSUME SchedulesInv, NEW e, Past(e), NEW who \in Workers \union Callers
    PROVE  Schedule!RunsOf(e.chosen, who) \subseteq Schedule!ScheduleRun
BY SchedulesAssumption
   DEF SchedulesInv, Schedule!TypeOK, Past, Schedule!RunsOf, Schedule!ScheduleRun,
       Schedule!NextTimes, Schedule!Instants, Schedule!Evaluators

-----------------------------------------------------------------------------
(* The steps.                                                              *)

(* What the property says of a step.                                       *)
RunsOnce ==
    \A r \in dueRuns' \ dueRuns :
         /\ r.for <= instant
         /\ ~\E o \in dueRuns : o.schedule = r.schedule /\ o.for = r.for
         /\ schedules'[r.schedule].next = r.for + DayLength

(* Runs of past due times that had none, with schedules that move on, are  *)
(* what the property allows.                                               *)
LEMMA WritesRunOnce ==
    ASSUME SchedulesInv, NEW e, Past(e), ~Schedule!Refused(e), NEW who,
           schedules' = Schedule!Advanced(e),
           dueRuns' = dueRuns \union Schedule!RunsOf(e.chosen, who)
    PROVE  RunsOnce
<1> SUFFICES ASSUME NEW r \in dueRuns' \ dueRuns
             PROVE  /\ r.for <= instant
                    /\ ~\E o \in dueRuns : o.schedule = r.schedule /\ o.for = r.for
                    /\ schedules'[r.schedule].next = r.for + DayLength
  BY DEF RunsOnce
<1>1. r \in Schedule!RunsOf(e.chosen, who)
  OBVIOUS
<1>2. PICK s \in DOMAIN e.chosen : r = [schedule |-> s, for |-> e.chosen[s], job |-> who]
  BY <1>1 DEF Schedule!RunsOf
<1>3. r.schedule = s /\ r.for = e.chosen[s]
  BY <1>2
<1>4. e.chosen[s] <= instant
  BY SchedulesAssumption DEF Past, SchedulesInv, Schedule!TypeOK, Schedule!Instants
<1>5. ~Schedule!HasRun(s, e.chosen[s])
  BY DEF Schedule!Refused
<1>6. Schedule!Advanced(e)[s].next = e.chosen[s] + DayLength
  BY AdvancedIsTyped
<1>7. QED BY <1>3, <1>4, <1>5, <1>6 DEF Schedule!HasRun

(* A step that touches no evaluation, and no clock, keeps the invariant if *)
(* it leaves rows.                                                         *)
LEMMA RowsKeep ==
    ASSUME SchedulesInv, UNCHANGED <<instant, evaluation>>, unconfigured' \subseteq Schedules,
           DOMAIN schedules' = Schedules, dueRuns' \subseteq Schedule!ScheduleRun,
           \A s \in Schedules : schedules'[s] \in Schedule!Schedule \union {Schedule!NoSchedule}
    PROVE  SchedulesInv'
BY DEF SchedulesInv, Schedule!TypeOK, ScheduleDomains, ChosenIsPast, Past, Schedule!Evaluators

LEMMA TickKeeps == ASSUME SchedulesInv, Schedule!Tick PROVE SchedulesInv' /\ RunsOnce
<1>1. instant \in Int /\ instant' = instant + 1 /\ instant' \in Schedule!Instants
         /\ LastInstant \in Nat
  BY SchedulesAssumption DEF Schedule!Tick, SchedulesInv, Schedule!TypeOK, Schedule!Instants
<1>2. Schedule!TypeOK' /\ ScheduleDomains'
  BY <1>1 DEF Schedule!Tick, SchedulesInv, Schedule!TypeOK, ScheduleDomains
<1>3. ASSUME NEW p \in Workers \union Callers, evaluation[p].step = "selected"
      PROVE  Past(evaluation[p])'
  <2>1. Past(evaluation[p])
    BY <1>3 DEF SchedulesInv, ChosenIsPast
  <2>2. evaluation' = evaluation
    BY DEF Schedule!Tick
  <2>3. \A n \in 0..instant : n \in 0..(instant + 1)
    BY <1>1
  <2>4. QED BY <1>1, <2>1, <2>2, <2>3 DEF Past
<1>4. ChosenIsPast'
  BY <1>1, <1>3 DEF Schedule!Tick, ChosenIsPast
<1>5. QED BY <1>2, <1>4 DEF SchedulesInv, Schedule!Tick, RunsOnce

LEMMA CreateKeeps == ASSUME SchedulesInv, NEW s \in Schedules, NEW t \in Schedule!Instants,
                            NEW enabled \in BOOLEAN,
                            \/ Schedule!create_schedule(s, t)
                            \/ Schedule!update_schedule(s, enabled, t)
                     PROVE  SchedulesInv' /\ RunsOnce
<1>1. PICK on \in BOOLEAN : schedules' = [schedules EXCEPT ![s] = [enabled |-> on, next |-> t]]
  BY DEF Schedule!create_schedule, Schedule!update_schedule
<1>2. t \in Schedule!NextTimes
  BY SchedulesAssumption DEF Schedule!Instants, Schedule!NextTimes
<1>3. [enabled |-> on, next |-> t] \in Schedule!Schedule
  BY <1>2 DEF Schedule!Schedule
<1>4. UNCHANGED <<instant, dueRuns, evaluation, unconfigured>>
  BY DEF Schedule!create_schedule, Schedule!update_schedule
<1>5. /\ DOMAIN schedules' = Schedules
      /\ \A d \in Schedules : schedules'[d] \in Schedule!Schedule \union {Schedule!NoSchedule}
  BY <1>1, <1>3 DEF SchedulesInv, Schedule!TypeOK, ScheduleDomains
<1>6. SchedulesInv'
  BY <1>4, <1>5, RowsKeep DEF SchedulesInv, Schedule!TypeOK
<1>7. QED BY <1>4, <1>6 DEF RunsOnce

LEMMA DeleteKeeps == ASSUME SchedulesInv, NEW s \in Schedules, Schedule!delete_schedule(s)
                     PROVE  SchedulesInv' /\ RunsOnce
<1>1. /\ DOMAIN schedules' = Schedules
      /\ \A d \in Schedules : schedules'[d] \in Schedule!Schedule \union {Schedule!NoSchedule}
  BY DEF Schedule!delete_schedule, SchedulesInv, Schedule!TypeOK, ScheduleDomains
<1>2. dueRuns' \subseteq dueRuns /\ UNCHANGED <<instant, evaluation, unconfigured>>
  BY DEF Schedule!delete_schedule
<1>3. SchedulesInv'
  BY <1>1, <1>2, RowsKeep DEF SchedulesInv, Schedule!TypeOK
<1>4. QED BY <1>2, <1>3 DEF RunsOnce

LEMMA UnconfigureKeeps == ASSUME SchedulesInv, NEW s \in Schedules, Schedule!Unconfigure(s)
                          PROVE  SchedulesInv' /\ RunsOnce
<1>1. unconfigured' \subseteq Schedules
  BY DEF Schedule!Unconfigure, SchedulesInv, Schedule!TypeOK
<1>2. UNCHANGED <<instant, schedules, dueRuns, evaluation>>
  BY DEF Schedule!Unconfigure
<1>3. SchedulesInv'
  BY <1>1, <1>2, RowsKeep DEF SchedulesInv, Schedule!TypeOK, ScheduleDomains
<1>4. QED BY <1>2, <1>3 DEF RunsOnce

(* The evaluation of one of them changes; the others keep theirs.          *)
LEMMA EvaluationKeeps ==
    ASSUME SchedulesInv, NEW p \in Workers \union Callers, NEW e,
           evaluation' = [evaluation EXCEPT ![p] = e],
           UNCHANGED <<instant, unconfigured>>, e.step \in {"none", "selected", "down"},
           e.step = "selected" => Past(e),
           DOMAIN schedules' = Schedules, dueRuns' \subseteq Schedule!ScheduleRun,
           \A s \in Schedules : schedules'[s] \in Schedule!Schedule \union {Schedule!NoSchedule}
    PROVE  SchedulesInv'
<1>1. \A q \in Workers \union Callers : evaluation'[q] = IF q = p THEN e ELSE evaluation[q]
  BY DEF SchedulesInv, ScheduleDomains
<1>2. Schedule!TypeOK' /\ ScheduleDomains'
  BY <1>1 DEF SchedulesInv, Schedule!TypeOK, ScheduleDomains, Schedule!Evaluators
<1>3. ChosenIsPast'
  BY <1>1 DEF SchedulesInv, ChosenIsPast, Past
<1>4. QED BY <1>2, <1>3 DEF SchedulesInv

(* Select, and run_schedule_now for the schedule that is asked for.        *)
LEMMA EvaluateKeeps ==
    ASSUME SchedulesInv, NEW p \in Workers \union Callers, NEW asked, asked \subseteq Schedules,
           Schedule!Evaluate(p, asked)
    PROVE  SchedulesInv' /\ RunsOnce
<1> DEFINE e == [step |-> "selected",
                 chosen |-> [s \in Schedule!Due(asked) |-> Schedule!DueTime(s, asked)],
                 moved |-> [s \in asked \ Schedule!Due(asked) |-> instant]]
<1>1. evaluation' = [evaluation EXCEPT ![p] = e]
         /\ UNCHANGED <<instant, schedules, dueRuns, unconfigured>>
  BY DEF Schedule!Evaluate
<1>2. \A s \in Schedule!Due(asked) : s \in Schedules /\ Schedule!DueTime(s, asked) \in 0..instant
  BY DueIsPast
<1>3. instant \in 0..instant
  BY SchedulesAssumption DEF SchedulesInv, Schedule!TypeOK, Schedule!Instants
<1>4. e.step = "selected" /\ Past(e)
  BY <1>2, <1>3 DEF Past
<1> HIDE DEF e
<1>5. SchedulesInv'
  BY <1>1, <1>4, EvaluationKeeps DEF SchedulesInv, Schedule!TypeOK, ScheduleDomains
<1>6. QED BY <1>1, <1>5 DEF RunsOnce

LEMMA RestartKeeps ==
    ASSUME SchedulesInv, NEW p \in Workers \union Callers, Schedule!Restart(p)
    PROVE  SchedulesInv' /\ RunsOnce
<1>1. /\ evaluation' = [evaluation EXCEPT ![p] = Schedule!NotEvaluating]
         /\ Schedule!NotEvaluating.step = "none"
      /\ UNCHANGED <<instant, schedules, dueRuns, unconfigured>>
  BY DEF Schedule!Restart, Schedule!NotEvaluating
<1>2. SchedulesInv'
  BY <1>1, EvaluationKeeps DEF SchedulesInv, Schedule!TypeOK, ScheduleDomains
<1>3. QED BY <1>1, <1>2 DEF RunsOnce

LEMMA EnqueueKeeps ==
    ASSUME SchedulesInv, NEW p \in Workers \union Callers, Schedule!Enqueue(p)
    PROVE  SchedulesInv' /\ RunsOnce
<1> DEFINE e == evaluation[p]
<1>1. Past(e) /\ UNCHANGED <<instant, unconfigured>>
  BY DEF Schedule!Enqueue, SchedulesInv, ChosenIsPast
<1>2. CASE Schedule!Refused(e)
  <2>1. PICK f \in {[step |-> "down"], Schedule!NotEvaluating} :
            /\ evaluation' = [evaluation EXCEPT ![p] = f]
            /\ UNCHANGED <<schedules, dueRuns>>
    BY <1>2 DEF Schedule!Enqueue
  <2>2. f.step \in {"down", "none"}
    BY DEF Schedule!NotEvaluating
  <2>3. SchedulesInv'
    BY <1>1, <2>1, <2>2, EvaluationKeeps DEF SchedulesInv, Schedule!TypeOK, ScheduleDomains
  <2>4. QED BY <2>1, <2>3 DEF RunsOnce
<1>3. CASE ~Schedule!Refused(e)
  <2>1. /\ evaluation' = [evaluation EXCEPT ![p] = Schedule!NotEvaluating]
        /\ dueRuns' = dueRuns \union Schedule!RunsOf(e.chosen, p)
        /\ schedules' = Schedule!Advanced(e)
    BY <1>3 DEF Schedule!Enqueue
  <2> HIDE DEF e
  <2>2. /\ DOMAIN Schedule!Advanced(e) = Schedules
        /\ \A s \in Schedules : Schedule!Advanced(e)[s] \in Schedule!Schedule \union {Schedule!NoSchedule}
    BY <1>1, <1>3, AdvancedIsTyped
  <2>3. RunsOnce
    BY <1>1, <1>3, <2>1, WritesRunOnce
  <2>4. Schedule!RunsOf(e.chosen, p) \subseteq Schedule!ScheduleRun
    BY <1>1, RunsAreTyped
  <2>5. Schedule!NotEvaluating.step = "none"
    BY DEF Schedule!NotEvaluating
  <2>6. dueRuns' \subseteq Schedule!ScheduleRun
    BY <2>1, <2>4 DEF SchedulesInv, Schedule!TypeOK
  <2>7. SchedulesInv'
    BY <1>1, <2>1, <2>2, <2>5, <2>6, EvaluationKeeps
  <2>8. QED BY <2>3, <2>7
<1>4. QED BY <1>2, <1>3

LEMMA SchedulesStep ==
    SchedulesInv /\ [Schedule!Next]_(Schedule!vars) =>
      SchedulesInv' /\ (RunsOnce \/ UNCHANGED Schedule!vars)
<1> SUFFICES ASSUME SchedulesInv, [Schedule!Next]_(Schedule!vars)
    PROVE SchedulesInv' /\ (RunsOnce \/ UNCHANGED Schedule!vars)
  OBVIOUS
<1>1. CASE Schedule!Tick
  BY <1>1, TickKeeps
<1>2. ASSUME NEW s \in Schedules, NEW t \in Schedule!Instants, Schedule!create_schedule(s, t)
      PROVE  SchedulesInv' /\ RunsOnce
  <2>1. TRUE \in BOOLEAN
    OBVIOUS
  <2>2. QED BY <1>2, <2>1, CreateKeeps
<1>3. ASSUME NEW s \in Schedules, NEW t \in Schedule!Instants, NEW enabled \in BOOLEAN,
             Schedule!update_schedule(s, enabled, t)
      PROVE  SchedulesInv' /\ RunsOnce
  BY <1>3, CreateKeeps
<1>4. ASSUME NEW s \in Schedules, Schedule!delete_schedule(s) PROVE SchedulesInv' /\ RunsOnce
  BY <1>4, DeleteKeeps
<1>5. ASSUME NEW s \in Schedules, NEW r \in Callers, Schedule!run_schedule_now(r, s)
      PROVE  SchedulesInv' /\ RunsOnce
  <2>1. Schedule!Evaluate(r, {s})
    BY <1>5 DEF Schedule!run_schedule_now
  <2>2. {s} \subseteq Schedules /\ r \in Workers \union Callers
    OBVIOUS
  <2>3. QED BY <2>1, <2>2, EvaluateKeeps
<1>6. ASSUME NEW s \in Schedules, Schedule!Unconfigure(s) PROVE SchedulesInv' /\ RunsOnce
  BY <1>6, UnconfigureKeeps
<1>7. ASSUME NEW w \in Workers, Schedule!Select(w) PROVE SchedulesInv' /\ RunsOnce
  <2>1. {} \subseteq Schedules /\ w \in Workers \union Callers
    OBVIOUS
  <2>2. QED BY <1>7, <2>1, EvaluateKeeps DEF Schedule!Select
<1>8. ASSUME NEW p \in Workers \union Callers, Schedule!Enqueue(p) PROVE SchedulesInv' /\ RunsOnce
  BY <1>8, EnqueueKeeps
<1>9. ASSUME NEW p \in Workers \union Callers, Schedule!Restart(p) PROVE SchedulesInv' /\ RunsOnce
  BY <1>9, RestartKeeps
<1>10. CASE UNCHANGED Schedule!vars
  <2>1. SchedulesInv'
    BY <1>10, RowsKeep DEF Schedule!vars, SchedulesInv, Schedule!TypeOK, ScheduleDomains
  <2>2. QED BY <1>10, <2>1
<1>11. QED BY <1>1, <1>2, <1>3, <1>4, <1>5, <1>6, <1>7, <1>8, <1>9, <1>10
          DEF Schedule!Next, Schedule!Evaluators

LEMMA SchedulesMove == [Next]_vars => [Schedule!Next]_(Schedule!vars)
BY DEF Next, vars, scheduleVars, Schedule!vars

LEMMA SchedulesAlways == Spec => []SchedulesInv
<1>1. Init => SchedulesInv
  BY SchedulesStart DEF Init
<1>2. SchedulesInv /\ [Next]_vars => SchedulesInv'
  BY SchedulesStep, SchedulesMove
<1>3. QED BY <1>1, <1>2, PTL DEF Spec

(* However workers, requests and restarts overlap, for any schedules,      *)
(* workers and length of a day: a due time is enqueued once, never before  *)
(* it has come, and its schedule moves on from it by a day.  The constraint *)
(* on runs is what the proof rests on: a selection alone can be stale.     *)
THEOREM DueTimesRunOnceHolds == Spec => DueTimesRunOnce
<1>1. SchedulesInv /\ [Next]_vars =>
        [\A r \in dueRuns' \ dueRuns :
           /\ r.for <= instant
           /\ ~\E o \in dueRuns : o.schedule = r.schedule /\ o.for = r.for
           /\ schedules'[r.schedule].next = r.for + DayLength]_(Schedule!vars)
  BY SchedulesStep, SchedulesMove DEF RunsOnce
<1>2. QED BY <1>1, SchedulesAlways, PTL DEF Spec, DueTimesRunOnce, Schedule!DueTimesRunOnce

-----------------------------------------------------------------------------
(* ImportRun.  Rows and bars change together at a commit only, so what the *)
(* property says of the committed rows of a job, its batches and its bars  *)
(* must hold at every step of the transaction too, of the row and batches  *)
(* that it carries and of the bars that it would leave.                    *)

Size(j) == Len(Config[j].symbols)
Own(j, B) == {b \in B : b.job = j}
Inserted(bt) == [i \in DOMAIN bt |-> bt[i].inserted]

(* A row of job j and its batches tell what is stored.                     *)
Tells(j, row, bt, stored) ==
    /\ row \in Import!ImportJob /\ row.cursor <= Size(j)
    /\ bt \in [1..Size(j) -> Import!ImportBatch]
    /\ \A i \in 1..Size(j) : bt[i].status = "succeeded" <=> i <= row.cursor
    /\ \A i \in 1..Size(j) : i > row.cursor => bt[i].inserted = 0
    /\ \A b \in stored : b.job = j /\ \E i \in 1..row.cursor : b.symbol = Config[j].symbols[i]
    /\ IsFiniteSet(stored)
    /\ row.inserted = Cardinality(stored)
    /\ row.inserted = SumFunctionOnSet(Inserted(bt), 1..row.cursor)
    /\ row.status = "succeeded" => row.cursor = Size(j)
    /\ Config[j].dry_run => stored = {}

Apart(S, R) == \A b \in S, c \in R : ~Import!SameBar(b, c)
NoDoubles(S) == \A b, c \in S : Import!SameBar(b, c) => b = c

(* The records that a run is about to store, one of a day, and the bars    *)
(* that it has met.                                                        *)
Storable(j, x) ==
    /\ x.row.cursor < Size(j)
    /\ IsFiniteSet(x.records)
    /\ \A r, s \in x.records : r.day = s.day => r = s
    /\ \A c \in x.new : c.symbol = Config[j].symbols[x.row.cursor + 1] => c \in x.known

Fields == {"step", "row", "batches", "new", "records", "known", "observed", "health"}

(* The transaction x of job j over committed bars B.                       *)
Runs(j, x, B) ==
    /\ DOMAIN x = Fields
    /\ x.step \in {"next", "storing", "done"}
    /\ Tells(j, x.row, x.batches, Own(j, B) \union x.new)
    /\ NoDoubles(x.new) /\ Apart(x.new, B)
    /\ x.step = "storing" => Storable(j, x)

Sound(B, J, T, X) ==
    /\ DOMAIN J = ImportJobs /\ DOMAIN T = ImportJobs /\ DOMAIN X = ImportJobs
    /\ NoDoubles(B)
    /\ \A j \in ImportJobs :
         /\ Tells(j, J[j], T[j], Own(j, B))
         /\ X[j] # Import!NotRunning => Runs(j, X[j], B)
    /\ \A j, o \in ImportJobs :
         j # o /\ X[j] # Import!NotRunning /\ X[o] # Import!NotRunning => Apart(X[j].new, X[o].new)

ImportsInv == Sound(bars, jobs, batches, executions)

(* The invariant after a step.                                             *)
LEMMA ImportsNext == Sound(bars', jobs', batches', executions') => ImportsInv'
BY Zenon DEF ImportsInv, Sound, Runs, Storable, Tells, Own, Apart, NoDoubles, Inserted, Size,
     Fields, Import!SameBar, Import!NotRunning, Import!ImportJob, Import!ImportBatch,
     SumFunctionOnSet, FoldFunctionOnSet, MapThenFoldSet, Cardinality, IsFiniteSet

LEMMA ApartIsSymmetric == \A S, R : Apart(S, R) => Apart(R, S)
BY DEF Apart, Import!SameBar

LEMMA RunIsNoRest == ASSUME NEW j, NEW x, NEW B, Runs(j, x, B) PROVE x # Import!NotRunning
<1>1. x.step \in {"next", "storing", "done"}
  BY DEF Runs
<1>2. Import!NotRunning.step = "none"
  BY DEF Import!NotRunning
<1>3. QED BY <1>1, <1>2

(* A row and batches that have counted as much tell as much.               *)
CountsAlike(j, row, bt, row2, bt2) ==
    /\ row2 \in Import!ImportJob /\ row2.cursor = row.cursor /\ row2.inserted = row.inserted
    /\ row2.status = "succeeded" => row.cursor = Size(j)
    /\ bt2 \in [1..Size(j) -> Import!ImportBatch]
    /\ \A i \in 1..Size(j) : /\ bt2[i].inserted = bt[i].inserted
                             /\ bt2[i].status = "succeeded" <=> bt[i].status = "succeeded"

LEMMA TellsAgain ==
    ASSUME NEW j \in ImportJobs, NEW row, NEW bt, NEW stored, Tells(j, row, bt, stored),
           NEW row2, NEW bt2, CountsAlike(j, row, bt, row2, bt2)
    PROVE  Tells(j, row2, bt2, stored)
<1> USE DEF CountsAlike
<1>1. row.cursor \in Nat /\ Size(j) \in Nat /\ row.cursor <= Size(j)
  BY ImportsAssumption DEF Tells, Import!ImportJob, Size
<1> DEFINE S == 1..row.cursor
           f == Inserted(bt)
           g == Inserted(bt2)
<1>2. IsFiniteSet(S)
  BY <1>1, FS_Interval
<1>3. \A i \in S : f[i] = g[i]
  BY <1>1 DEF Tells, Inserted
<1>4. SumFunctionOnSet(f, S) = SumFunctionOnSet(g, S)
  <2> HIDE DEF f, g, S
  <2>1. QED BY <1>2, <1>3, SumSame
<1>5. QED BY <1>1, <1>4 DEF Tells

(* One more symbol is completed, with the bars more.                       *)
CountsMore(j, row, bt, more, row2, bt2) ==
    /\ row2 \in Import!ImportJob /\ row2.cursor = row.cursor + 1
    /\ row2.inserted = row.inserted + Cardinality(more) /\ row2.status = row.status
    /\ bt2 \in [1..Size(j) -> Import!ImportBatch]
    /\ bt2[row.cursor + 1].status = "succeeded"
    /\ bt2[row.cursor + 1].inserted = bt[row.cursor + 1].inserted + Cardinality(more)
    /\ \A i \in 1..Size(j) : i # row.cursor + 1 => bt2[i] = bt[i]

LEMMA TellsMore ==
    ASSUME NEW j \in ImportJobs, NEW row, NEW bt, NEW stored, Tells(j, row, bt, stored),
           row.cursor < Size(j), NEW more, IsFiniteSet(more), more \cap stored = {},
           \A b \in more : b.job = j /\ b.symbol = Config[j].symbols[row.cursor + 1],
           Config[j].dry_run => more = {},
           NEW row2, NEW bt2, CountsMore(j, row, bt, more, row2, bt2)
    PROVE  Tells(j, row2, bt2, stored \union more)
<1> USE DEF CountsMore
<1> DEFINE c == row.cursor
           i == row.cursor + 1
           n == Cardinality(more)
           S == 1..row.cursor
           f == Inserted(bt)
           g == Inserted(bt2)
<1>1. /\ c \in Nat /\ Size(j) \in Nat /\ c < Size(j) /\ i \in 1..Size(j)
      /\ row2.cursor = i /\ row2.cursor <= Size(j)
  BY ImportsAssumption DEF Tells, Import!ImportJob, Size
<1>2. n \in Nat /\ IsFiniteSet(S)
  <2>1. n \in Nat
    BY FS_CardinalityType
  <2>2. 1 \in Int /\ c \in Int
    BY <1>1
  <2>3. IsFiniteSet(1..c)
    BY <2>2, FS_Interval
  <2>4. QED BY <2>1, <2>3
<1>3. /\ IsFiniteSet(stored \union more)
      /\ Cardinality(stored \union more) = Cardinality(stored) + n
  <2>1. IsFiniteSet(stored)
    BY DEF Tells
  <2>2. Cardinality(stored \cap more) = 0
    <3>1. stored \cap more = {}
      OBVIOUS
    <3>2. QED BY <3>1, FS_EmptySet
  <2>3. Cardinality(stored) \in Nat
    BY <2>1, FS_CardinalityType
  <2>4. /\ IsFiniteSet(stored \union more)
        /\ Cardinality(stored \union more) = Cardinality(stored) + n - Cardinality(stored \cap more)
    BY <2>1, FS_Union
  <2> HIDE DEF n
  <2>5. QED BY <1>2, <2>2, <2>3, <2>4
<1>4. row2.inserted = Cardinality(stored \union more)
  BY <1>3 DEF Tells
<1>5. row2.inserted = SumFunctionOnSet(g, 1..row2.cursor)
  <2>1. ASSUME NEW k \in S PROVE f[k] = g[k] /\ g[k] \in Int
    <3>1. k \in 1..Size(j) /\ k # i
      BY <1>1
    <3>2. bt[k] \in Import!ImportBatch /\ bt2[k] = bt[k]
      BY <3>1 DEF Tells
    <3>3. f[k] = bt[k].inserted /\ g[k] = bt2[k].inserted
      BY <3>1 DEF Tells, Inserted
    <3>4. QED BY <3>2, <3>3 DEF Import!ImportBatch
  <2>2. g[i] = n /\ i \notin S
    <3>1. bt[i].inserted = 0
      BY <1>1 DEF Tells
    <3>2. bt2[i].inserted = n
      BY <1>2, <3>1
    <3>3. QED BY <1>1, <3>2 DEF Inserted
  <2>3. 1..row2.cursor = S \union {i}
    BY <1>1
  <2>4. SumFunctionOnSet(f, S) = row.inserted /\ row.inserted \in Nat
    BY DEF Tells, Import!ImportJob
  <2>5. SumFunctionOnSet(f, S) = SumFunctionOnSet(g, S)
    <3> HIDE DEF f, g, S
    <3>1. QED BY <1>2, <2>1, SumSame
  <2>6. SumFunctionOnSet(g, S \union {i}) = g[i] + SumFunctionOnSet(g, S)
    <3> HIDE DEF f, g, S, i
    <3>1. g[i] \in Int
      BY <1>2, <2>2
    <3>2. QED BY <1>2, <2>1, <2>2, <3>1, SumAdd
  <2>7. SumFunctionOnSet(g, 1..row2.cursor) = n + row.inserted
    BY <2>2, <2>3, <2>4, <2>5, <2>6
  <2>8. row2.inserted = row.inserted + n
    OBVIOUS
  <2> HIDE DEF n, g
  <2>9. QED BY <1>2, <2>4, <2>7, <2>8
<1>6. \A b \in stored \union more :
        b.job = j /\ \E k \in 1..row2.cursor : b.symbol = Config[j].symbols[k]
  <2>1. 1..row.cursor \subseteq 1..row2.cursor /\ i \in 1..row2.cursor
    BY <1>1
  <2>2. QED BY <2>1 DEF Tells
<1>7. \A k \in 1..Size(j) : /\ bt2[k].status = "succeeded" <=> k <= row2.cursor
                            /\ k > row2.cursor => bt2[k].inserted = 0
  <2> SUFFICES ASSUME NEW k \in 1..Size(j)
               PROVE  /\ bt2[k].status = "succeeded" <=> k <= row2.cursor
                      /\ k > row2.cursor => bt2[k].inserted = 0
    OBVIOUS
  <2>1. CASE k = i
    BY <1>1, <2>1
  <2>2. CASE k # i
    <3>1. bt2[k] = bt[k]
      BY <2>2
    <3>2. QED BY <1>1, <2>2, <3>1 DEF Tells
  <2>3. QED BY <2>1, <2>2
<1>8. row2.status # "succeeded"
  BY <1>1 DEF Tells
<1>9. Config[j].dry_run => stored \union more = {}
  BY DEF Tells
<1>10. QED BY <1>1, <1>3, <1>4, <1>5, <1>6, <1>7, <1>8, <1>9 DEF Tells

-----------------------------------------------------------------------------
(* The steps.                                                              *)

LEMMA ImportsStart == Import!Init => ImportsInv
<1> SUFFICES ASSUME Import!Init PROVE ImportsInv
  OBVIOUS
<1>1. /\ bars = {} /\ DOMAIN jobs = ImportJobs /\ DOMAIN batches = ImportJobs
      /\ DOMAIN executions = ImportJobs
      /\ \A j \in ImportJobs : executions[j] = Import!NotRunning
  BY DEF Import!Init
<1>2. ASSUME NEW j \in ImportJobs PROVE Tells(j, jobs[j], batches[j], Own(j, bars))
  <2>1. /\ jobs[j] \in Import!ImportJob /\ jobs[j].cursor = 0 /\ jobs[j].inserted = 0
        /\ jobs[j].status = "queued"
    BY ImportsAssumption DEF Import!Init, Import!ImportJob
  <2>2. Size(j) \in Nat
    BY ImportsAssumption DEF Size
  <2>3. batches[j] = [i \in 1..Size(j) |-> Import!NoBatch]
    BY ImportsAssumption DEF Import!Init, Import!Symbols, Size
  <2>4. /\ batches[j] \in [1..Size(j) -> Import!ImportBatch]
        /\ \A i \in 1..Size(j) : batches[j][i].status = "none" /\ batches[j][i].inserted = 0
    BY <2>3 DEF Import!NoBatch, Import!ImportBatch
  <2>5. Own(j, bars) = {} /\ IsFiniteSet({}) /\ Cardinality({}) = 0
    BY <1>1, FS_EmptySet DEF Own
  <2>6. 1..0 = {} /\ SumFunctionOnSet(Inserted(batches[j]), 1..0) = 0
    BY SumEmpty
  <2>7. QED BY <2>1, <2>2, <2>4, <2>5, <2>6 DEF Tells
<1>3. QED BY <1>1, <1>2 DEF ImportsInv, Sound, NoDoubles

(* A step of the transaction of job j, to x.                               *)
LEMMA RunMoves ==
    ASSUME ImportsInv, NEW j \in ImportJobs, UNCHANGED <<bars, jobs, batches>>,
           NEW x, executions' = [executions EXCEPT ![j] = x], Runs(j, x, bars),
           \A o \in ImportJobs : o # j /\ executions[o] # Import!NotRunning =>
             Apart(x.new, executions[o].new)
    PROVE  ImportsInv'
<1>1. /\ DOMAIN executions' = ImportJobs /\ executions'[j] = x
      /\ \A o \in ImportJobs : o # j => executions'[o] = executions[o]
  BY DEF ImportsInv, Sound
<1>2. \A o, p \in ImportJobs :
        o # p /\ executions'[o] # Import!NotRunning /\ executions'[p] # Import!NotRunning
          => Apart(executions'[o].new, executions'[p].new)
  BY <1>1, ApartIsSymmetric DEF ImportsInv, Sound
<1>3. \A o \in ImportJobs : executions'[o] # Import!NotRunning => Runs(o, executions'[o], bars)
  BY <1>1 DEF ImportsInv, Sound
<1>4. Sound(bars', jobs', batches', executions')
  BY <1>1, <1>2, <1>3 DEF ImportsInv, Sound
<1>5. QED BY <1>4, ImportsNext

(* A step that stores no bar.                                              *)
LEMMA RunMovesOn ==
    ASSUME ImportsInv, NEW j \in ImportJobs, UNCHANGED <<bars, jobs, batches>>,
           executions[j] # Import!NotRunning,
           NEW x, executions' = [executions EXCEPT ![j] = x], Runs(j, x, bars),
           x.new = executions[j].new
    PROVE  ImportsInv'
<1>1. \A o \in ImportJobs : o # j /\ executions[o] # Import!NotRunning =>
             Apart(x.new, executions[o].new)
  BY DEF ImportsInv, Sound
<1>2. QED BY <1>1, RunMoves

LEMMA RunHolds ==
    ASSUME ImportsInv, NEW j \in ImportJobs, executions[j].step \in {"next", "storing", "done"}
    PROVE  executions[j] # Import!NotRunning /\ Runs(j, executions[j], bars)
<1>1. Import!NotRunning.step = "none"
  BY DEF Import!NotRunning
<1>2. executions[j] # Import!NotRunning
  BY <1>1
<1>3. QED BY <1>2 DEF ImportsInv, Sound

LEMMA BeginKeeps == ASSUME ImportsInv, NEW j \in ImportJobs, Import!Begin(j) PROVE ImportsInv'
<1> DEFINE row == [jobs[j] EXCEPT !.attempt = @ + 1]
           x == [step |-> "next", row |-> row, batches |-> batches[j],
                 new |-> {}, records |-> {}, known |-> {}, observed |-> FALSE, health |-> health]
<1>1. Tells(j, jobs[j], batches[j], Own(j, bars))
  BY DEF ImportsInv, Sound
<1>2. row \in Import!ImportJob /\ row.cursor = jobs[j].cursor /\ row.inserted = jobs[j].inserted
      /\ row.status # "succeeded"
  <2>1. jobs[j] \in Import!ImportJob /\ jobs[j].attempt + 1 \in 0..MaxAttempt
    BY <1>1, ImportsAssumption DEF Tells, Import!ImportJob, Import!Begin
  <2>2. jobs[j].status # "succeeded"
    BY DEF Import!Begin
  <2>3. QED BY <2>1, <2>2 DEF Import!ImportJob
<1>3. Tells(j, row, batches[j], Own(j, bars))
  <2> HIDE DEF row
  <2>1. batches[j] \in [1..Size(j) -> Import!ImportBatch]
    BY <1>1 DEF Tells
  <2>2. CountsAlike(j, jobs[j], batches[j], row, batches[j])
    BY <1>2, <2>1 DEF CountsAlike
  <2>3. QED BY <1>1, <2>2, TellsAgain
<1>4. executions' = [executions EXCEPT ![j] = x] /\ UNCHANGED <<bars, jobs, batches>>
  BY DEF Import!Begin
<1>5. x.new = {} /\ Own(j, bars) \union x.new = Own(j, bars)
  OBVIOUS
<1>6. Runs(j, x, bars)
  <2>1. DOMAIN x = Fields /\ x.step = "next" /\ x.row = row /\ x.batches = batches[j]
    BY DEF Fields
  <2> HIDE DEF row, x
  <2>2. QED BY <1>3, <1>5, <2>1 DEF Runs, NoDoubles, Apart
<1>7. QED
  <2> HIDE DEF x
  <2>1. \A o \in ImportJobs : Apart(x.new, executions[o].new)
    BY <1>5 DEF Apart
  <2>2. QED BY <1>4, <1>6, <2>1, RunMoves

(* The row of a run that fails, its batch rolled back.                     *)
LEMMA EndKeeps ==
    ASSUME ImportsInv, NEW j \in ImportJobs, UNCHANGED <<bars, jobs, batches>>,
           executions[j].step \in {"next", "storing"}, executions[j].row.cursor < Size(j),
           NEW batchStatus \in {"failed", "failed_validation"},
           NEW status \in {"failed", "retrying"}, NEW newHealth,
           Import!EndAs(j, batchStatus, status, newHealth)
    PROVE  ImportsInv'
<1> DEFINE x == executions[j]
           row == [x.row EXCEPT !.status = status]
           bt == [x.batches EXCEPT ![x.row.cursor + 1].status = batchStatus]
           y == [x EXCEPT !.step = "done", !.row.status = status, !.health = newHealth,
                          !.batches[x.row.cursor + 1].status = batchStatus]
<1>1. x # Import!NotRunning /\ Runs(j, x, bars)
  BY RunHolds
<1>2. Tells(j, x.row, x.batches, Own(j, bars) \union x.new)
  BY <1>1 DEF Runs
<1>3. /\ x.row \in Import!ImportJob /\ x.row.cursor \in Nat /\ Size(j) \in Nat
      /\ x.row.cursor + 1 \in 1..Size(j) /\ x.batches \in [1..Size(j) -> Import!ImportBatch]
      /\ x.batches[x.row.cursor + 1].status # "succeeded"
  <2>1. x.row \in Import!ImportJob /\ x.row.cursor \in Nat /\ Size(j) \in Nat
    BY <1>2, ImportsAssumption DEF Tells, Import!ImportJob, Size
  <2>2. x.row.cursor + 1 \in 1..Size(j)
    BY <2>1
  <2>3. ~(x.row.cursor + 1 <= x.row.cursor)
    BY <2>1
  <2>4. QED BY <1>2, <2>1, <2>2, <2>3 DEF Tells
<1>4. /\ row \in Import!ImportJob /\ row.cursor = x.row.cursor /\ row.inserted = x.row.inserted
      /\ row.status # "succeeded"
  BY <1>3 DEF Import!ImportJob
<1>5. /\ bt \in [1..Size(j) -> Import!ImportBatch]
      /\ \A i \in 1..Size(j) : /\ bt[i].inserted = x.batches[i].inserted
                               /\ bt[i].status = "succeeded" <=> x.batches[i].status = "succeeded"
  <2>1. ASSUME NEW b \in Import!ImportBatch
        PROVE  /\ [b EXCEPT !.status = batchStatus] \in Import!ImportBatch
               /\ [b EXCEPT !.status = batchStatus].inserted = b.inserted
               /\ [b EXCEPT !.status = batchStatus].status # "succeeded"
    BY DEF Import!ImportBatch
  <2>2. QED BY <1>3, <2>1
<1>6. Tells(j, row, bt, Own(j, bars) \union x.new)
  <2> DEFINE oldRow == x.row
             oldBt == x.batches
             stored == Own(j, bars) \union x.new
  <2>1. Tells(j, oldRow, oldBt, stored)
    BY <1>2
  <2>2. CountsAlike(j, oldRow, oldBt, row, bt)
    <3> HIDE DEF row, bt, x
    <3>1. QED BY <1>4, <1>5 DEF CountsAlike
  <2> HIDE DEF row, bt, oldRow, oldBt, stored
  <2>3. Tells(j, row, bt, stored)
    BY ONLY <2>1, <2>2, TellsAgain, j \in ImportJobs
  <2>4. QED BY <2>3 DEF stored
<1>7. /\ DOMAIN y = Fields /\ y.step = "done" /\ y.row = row /\ y.batches = bt
      /\ y.new = x.new
  <2>1. DOMAIN x = Fields
    BY <1>1 DEF Runs
  <2>2. QED BY <2>1 DEF Fields
<1>8. executions' = [executions EXCEPT ![j] = y]
  BY DEF Import!EndAs
<1>9. Runs(j, y, bars)
  <2> HIDE DEF row, bt, x, y
  <2>1. QED BY <1>1, <1>6, <1>7 DEF Runs
<1>10. QED
  <2> HIDE DEF y, row, bt
  <2>1. QED BY <1>1, <1>7, <1>8, <1>9, RunMovesOn

LEMMA StepsAreRuns ==
    ASSUME NEW j \in ImportJobs, NEW x, NEW B, Runs(j, x, B)
    PROVE  /\ x.row \in Import!ImportJob /\ x.row.cursor \in Nat /\ Size(j) \in Nat
           /\ DOMAIN Config[j].symbols = 1..Size(j)
           /\ x.batches \in [1..Size(j) -> Import!ImportBatch]
BY ImportsAssumption DEF Runs, Tells, Import!ImportJob, Size

LEMMA SucceedKeeps == ASSUME ImportsInv, NEW j \in ImportJobs, Import!Succeed(j) PROVE ImportsInv'
<1> DEFINE x == executions[j]
           row == [x.row EXCEPT !.status = "succeeded"]
           y == [x EXCEPT !.step = "done", !.row.status = "succeeded",
                          !.health = IF x.observed THEN "healthy" ELSE @]
<1>1. x # Import!NotRunning /\ Runs(j, x, bars) /\ x.row.cursor = Size(j)
  BY RunHolds DEF Import!Succeed, Import!Symbols, Size
<1>2. executions' = [executions EXCEPT ![j] = y] /\ UNCHANGED <<bars, jobs, batches>>
  BY DEF Import!Succeed
<1>3. /\ DOMAIN y = Fields /\ y.step = "done" /\ y.row = row /\ y.batches = x.batches
      /\ y.new = x.new
  <2>1. DOMAIN x = Fields
    BY <1>1 DEF Runs
  <2>2. QED BY <2>1 DEF Fields
<1>4. /\ row \in Import!ImportJob /\ row.cursor = x.row.cursor /\ row.inserted = x.row.inserted
  BY <1>1, StepsAreRuns DEF Import!ImportJob
<1>5. Tells(j, row, x.batches, Own(j, bars) \union x.new)
  <2> DEFINE oldRow == x.row
             bt == x.batches
             stored == Own(j, bars) \union x.new
  <2>1. Tells(j, oldRow, bt, stored)
    BY <1>1 DEF Runs
  <2>2. CountsAlike(j, oldRow, bt, row, bt)
    <3>1. bt \in [1..Size(j) -> Import!ImportBatch]
      BY <1>1, StepsAreRuns
    <3> HIDE DEF row, bt, x
    <3>2. QED BY <1>1, <1>4, <3>1 DEF CountsAlike
  <2> HIDE DEF row, bt, oldRow, stored
  <2>3. Tells(j, row, bt, stored)
    BY ONLY <2>1, <2>2, TellsAgain, j \in ImportJobs
  <2>4. QED BY <2>3 DEF stored, bt
<1>6. Runs(j, y, bars)
  <2> HIDE DEF row, x, y
  <2>1. QED BY <1>1, <1>3, <1>5 DEF Runs
<1>7. QED
  <2> HIDE DEF y, row
  <2>1. QED BY <1>1, <1>2, <1>3, <1>6, RunMovesOn

(* The days of validated records differ.                                   *)
LEMMA ValidDaysDiffer ==
    ASSUME NEW R, IsFiniteSet(R), Import!is_valid(R)
    PROVE  \A r, s \in R : r.day = s.day => r = s
<1> DEFINE D == {r.day : r \in R}
           f == [r \in R |-> r.day]
<1>1. Cardinality(D) = Cardinality(R)
  BY DEF Import!is_valid, Import!Cardinality, Cardinality
<1>2. f \in Surjection(R, D)
  BY DEF Surjection
<1>3. f \in Injection(R, D)
  <2> HIDE DEF f, D
  <2>1. Cardinality(D) = Cardinality(R) <=> f \in Injection(R, D)
    BY <1>2, FS_Surjection, Zenon
  <2>2. QED BY <1>1, <2>1
<1>4. QED BY <1>3 DEF Injection, IsInjective

LEMMA FetchKeeps == ASSUME ImportsInv, NEW j \in ImportJobs, Import!Fetch(j) PROVE ImportsInv'
<1> DEFINE x == executions[j]
           symbol == Config[j].symbols[x.row.cursor + 1]
<1>1. /\ x # Import!NotRunning /\ Runs(j, x, bars) /\ x.row.cursor < Size(j) /\ x.step = "next"
      /\ UNCHANGED <<bars, jobs, batches>>
  BY RunHolds DEF Import!Fetch, Import!Symbols, Size
<1>2. x.row.cursor + 1 \in DOMAIN Config[j].symbols
  BY <1>1, StepsAreRuns
<1>3. PICK answer \in Answers[symbol] :
        IF answer.kind \in Import!Failures THEN
            \E status \in {"failed", "retrying"}, newHealth \in {"unavailable", "degraded"} :
              Import!EndAs(j, "failed", status, newHealth)
        ELSE LET records == {r \in answer.records : r.day >= Import!FetchFrom(j, symbol)}
             IN  \/ \E batchStatus \in {"failed", "failed_validation"} :
                      Import!EndAs(j, batchStatus, "failed", "degraded")
                 \/ /\ Import!is_valid(records)
                    /\ executions' = [executions EXCEPT
                            ![j].step = "storing", ![j].records = records,
                            ![j].known = {b \in Import!Visible(j) : b.symbol = symbol}]
  BY DEF Import!Fetch, Import!Symbols
<1>4. CASE \E batchStatus \in {"failed", "failed_validation"}, status \in {"failed", "retrying"},
              newHealth \in {"unavailable", "degraded"} :
              Import!EndAs(j, batchStatus, status, newHealth)
  BY <1>1, <1>4, EndKeeps
<1>5. ASSUME NEW records, answer.kind \notin Import!Failures,
             records = {r \in answer.records : r.day >= Import!FetchFrom(j, symbol)},
             Import!is_valid(records),
             executions' = [executions EXCEPT
                            ![j].step = "storing", ![j].records = records,
                            ![j].known = {b \in Import!Visible(j) : b.symbol = symbol}]
      PROVE  ImportsInv'
  <2> DEFINE known == {b \in Import!Visible(j) : b.symbol = symbol}
             y == [x EXCEPT !.step = "storing", !.records = records, !.known = known]
  <2>1. IsFiniteSet(records)
    <3>1. IsFiniteSet(answer.records)
      BY <1>2, <1>5, ImportsAssumption DEF Import!Failures
    <3>2. records \subseteq answer.records
      BY <1>5
    <3>3. QED BY <3>1, <3>2, FS_Subset
  <2>2. /\ DOMAIN y = Fields /\ y.step = "storing" /\ y.row = x.row /\ y.batches = x.batches
        /\ y.new = x.new /\ y.records = records /\ y.known = known
    <3>1. DOMAIN x = Fields
      BY <1>1 DEF Runs
    <3> HIDE DEF x, known
    <3>2. QED BY <3>1 DEF Fields
  <2>3. executions' = [executions EXCEPT ![j] = y]
    BY <1>5
  <2>4. \A c \in x.new : c.symbol = symbol => c \in known
    BY DEF Import!Visible
  <2>5. Storable(j, y)
    <3>1. \A r, s \in records : r.day = s.day => r = s
      BY <1>5, <2>1, ValidDaysDiffer
    <3> HIDE DEF y, known
    <3>2. QED BY <1>1, <2>1, <2>2, <2>4, <3>1 DEF Storable
  <2>6. Runs(j, y, bars)
    <3> HIDE DEF y, known, x
    <3>1. QED BY <1>1, <2>2, <2>5 DEF Runs
  <2>7. QED
    <3> HIDE DEF y
    <3>1. QED BY <1>1, <2>2, <2>3, <2>6, RunMovesOn
<1>6. QED BY <1>3, <1>4, <1>5

(* What a run stores: bars of its symbol, one of a day, unlike any that it *)
(* had met.                                                                *)
LEMMA StoreKeeps == ASSUME ImportsInv, NEW j \in ImportJobs, Import!Store(j) PROVE ImportsInv'
<1> DEFINE x == executions[j]
           i == x.row.cursor + 1
           symbol == Config[j].symbols[i]
           fetched == {Import!PriceBar(symbol, r, j) : r \in x.records}
           inserted == IF Config[j].dry_run THEN {}
                       ELSE {b \in fetched : ~\E k \in x.known : Import!SameBar(k, b)}
           n == Cardinality(inserted)
           skip == Cardinality(fetched) - n
           row == [x.row EXCEPT !.cursor = i, !.inserted = @ + n, !.skipped = @ + skip]
           batch == [status |-> "succeeded", inserted |-> x.batches[i].inserted + n,
                     skipped |-> x.batches[i].skipped + skip]
           bt == [x.batches EXCEPT ![i] = batch]
           y == [x EXCEPT !.step = "next", !.new = @ \union inserted,
                        !.row.cursor = i, !.row.inserted = @ + n, !.row.skipped = @ + skip,
                        !.batches[i] = batch, !.observed = @ \/ x.records # {}]
           stored == Own(j, bars) \union x.new
<1>1. /\ x # Import!NotRunning /\ Runs(j, x, bars) /\ Storable(j, x) /\ x.step = "storing"
      /\ UNCHANGED <<bars, jobs, batches>>
  <2>1. x.step = "storing" /\ UNCHANGED <<bars, jobs, batches>>
    BY DEF Import!Store
  <2>2. x # Import!NotRunning /\ Runs(j, x, bars)
    BY <2>1, RunHolds
  <2>3. QED BY <2>1, <2>2 DEF Runs
<1>2. /\ x.row \in Import!ImportJob /\ x.row.cursor \in Nat /\ i \in 1..Size(j)
      /\ x.batches \in [1..Size(j) -> Import!ImportBatch] /\ x.row.cursor < Size(j)
  BY <1>1, StepsAreRuns DEF Storable
<1>3. IsFiniteSet(fetched) /\ IsFiniteSet(inserted) /\ n \in Nat /\ skip \in Nat
  <2>1. IsFiniteSet(fetched)
    <3> DEFINE f == [r \in x.records |-> Import!PriceBar(symbol, r, j)]
    <3>1. f \in Surjection(x.records, fetched)
      BY DEF Surjection
    <3>2. IsFiniteSet(x.records)
      BY <1>1 DEF Storable
    <3> HIDE DEF f, fetched
    <3>3. QED BY <3>1, <3>2, FS_Surjection
  <2>2. inserted \subseteq fetched
    OBVIOUS
  <2> HIDE DEF fetched, inserted, n
  <2>3. /\ IsFiniteSet(inserted) /\ Cardinality(inserted) <= Cardinality(fetched)
        /\ Cardinality(inserted) \in Nat /\ Cardinality(fetched) \in Nat
    BY <2>1, <2>2, FS_Subset, FS_CardinalityType
  <2>4. n \in Nat /\ n <= Cardinality(fetched)
    BY <2>3 DEF n
  <2>5. QED BY <2>1, <2>3, <2>4
<1>4. /\ \A b \in inserted : b.job = j /\ b.symbol = symbol
      /\ NoDoubles(inserted)
      /\ Config[j].dry_run => inserted = {}
      /\ Apart(x.new, inserted)
  <2>1. \A b \in inserted : b.job = j /\ b.symbol = symbol
    BY DEF Import!PriceBar
  <2>2. NoDoubles(inserted)
    <3> SUFFICES ASSUME NEW b \in inserted, NEW c \in inserted, Import!SameBar(b, c)
                 PROVE  b = c
      BY DEF NoDoubles
    <3>1. PICK r \in x.records : b = Import!PriceBar(symbol, r, j)
      OBVIOUS
    <3>2. PICK s \in x.records : c = Import!PriceBar(symbol, s, j)
      OBVIOUS
    <3>3. r.day = s.day
      BY <3>1, <3>2 DEF Import!SameBar, Import!PriceBar
    <3>4. r = s
      BY <1>1, <3>3 DEF Storable
    <3>5. QED BY <3>1, <3>2, <3>4
  <2>3. Apart(x.new, inserted)
    <3> SUFFICES ASSUME NEW c \in x.new, NEW b \in inserted, Import!SameBar(c, b)
                 PROVE  FALSE
      BY DEF Apart
    <3>1. c.symbol = symbol
      BY <2>1 DEF Import!SameBar
    <3>2. c \in x.known
      BY <1>1, <3>1 DEF Storable
    <3>3. ~\E k \in x.known : Import!SameBar(k, b)
      OBVIOUS
    <3>4. QED BY <3>2, <3>3
  <2>4. QED BY <2>1, <2>2, <2>3
<1>5. CASE Import!EndAs(j, "failed", "failed", "degraded")
  BY <1>1, <1>2, <1>5, EndKeeps
<1>6. CASE /\ ~\E b \in inserted, c \in bars : Import!SameBar(b, c)
           /\ executions' = [executions EXCEPT ![j] = y]
           /\ \A o \in ImportJobs \ {j} : executions[o] # Import!NotRunning =>
                ~\E b \in inserted, c \in executions[o].new : Import!SameBar(b, c)
  <2>1. /\ DOMAIN y = Fields /\ y.step = "next" /\ y.row = row /\ y.batches = bt
        /\ y.new = x.new \union inserted
    <3>1. DOMAIN x = Fields
      BY <1>1 DEF Runs
    <3> HIDE DEF x, inserted, n, skip, i, batch
    <3>2. QED BY <3>1 DEF Fields
  <2>2. Apart(inserted, bars) /\ Apart(bars, inserted)
    BY <1>6, ApartIsSymmetric DEF Apart
  <2>3. inserted \cap stored = {}
    <3>1. \A b \in inserted : Import!SameBar(b, b)
      BY DEF Import!SameBar
    <3>2. QED BY <1>4, <2>2, <3>1 DEF Apart, Own
  <2>4. /\ row \in Import!ImportJob /\ row.cursor = x.row.cursor + 1
        /\ row.inserted = x.row.inserted + n /\ row.status = x.row.status
    <3>1. i \in Nat /\ i = x.row.cursor + 1
      BY <1>2
    <3> HIDE DEF n, skip, x, i
    <3>2. PICK r \in Import!ImportJob : r = x.row
      BY <1>2
    <3>3. r.inserted + n \in Nat /\ r.skipped + skip \in Nat
      BY <1>3 DEF Import!ImportJob
    <3>4. /\ [r EXCEPT !.cursor = i, !.inserted = @ + n, !.skipped = @ + skip] \in Import!ImportJob
          /\ row = [r EXCEPT !.cursor = i, !.inserted = @ + n, !.skipped = @ + skip]
      BY <3>1, <3>2, <3>3 DEF Import!ImportJob
    <3>5. row.cursor = i /\ row.inserted = r.inserted + n /\ row.status = r.status
      BY <3>4 DEF Import!ImportJob
    <3>6. QED BY <3>1, <3>2, <3>4, <3>5
  <2>5. /\ bt \in [1..Size(j) -> Import!ImportBatch]
        /\ bt[i].status = "succeeded" /\ bt[i].inserted = x.batches[i].inserted + n
        /\ \A k \in 1..Size(j) : k # i => bt[k] = x.batches[k]
    <3>1. x.batches[i] \in Import!ImportBatch
      BY <1>2
    <3> HIDE DEF n, skip, x, i
    <3>2. batch \in Import!ImportBatch
      BY <1>3, <3>1 DEF Import!ImportBatch
    <3>3. batch.status = "succeeded" /\ batch.inserted = x.batches[i].inserted + n
      OBVIOUS
    <3> HIDE DEF batch
    <3>4. QED BY <1>2, <3>2, <3>3
  <2>6. Tells(j, row, bt, stored \union inserted)
    <3> DEFINE oldRow == x.row
               oldBt == x.batches
    <3>1. Tells(j, oldRow, oldBt, stored)
      BY <1>1 DEF Runs
    <3>2. /\ oldRow.cursor < Size(j) /\ IsFiniteSet(inserted) /\ inserted \cap stored = {}
          /\ \A b \in inserted : b.job = j /\ b.symbol = Config[j].symbols[oldRow.cursor + 1]
          /\ Config[j].dry_run => inserted = {}
      BY <1>2, <1>3, <1>4, <2>3
    <3>3. CountsMore(j, oldRow, oldBt, inserted, row, bt)
      <4> HIDE DEF row, bt, inserted, x
      <4>1. QED BY <2>4, <2>5 DEF CountsMore
    <3> HIDE DEF row, bt, oldRow, oldBt, stored, inserted
    <3>4. QED BY ONLY <3>1, <3>2, <3>3, TellsMore, j \in ImportJobs
  <2>7. Tells(j, row, bt, Own(j, bars) \union (x.new \union inserted))
    <3>1. stored \union inserted = Own(j, bars) \union (x.new \union inserted)
      OBVIOUS
    <3> HIDE DEF row, bt, inserted, stored
    <3>2. QED BY <2>6, <3>1
  <2>8. NoDoubles(x.new \union inserted) /\ Apart(x.new \union inserted, bars)
    <3>1. NoDoubles(x.new) /\ Apart(x.new, bars)
      BY <1>1 DEF Runs
    <3>2. Apart(inserted, x.new)
      BY <1>4, ApartIsSymmetric
    <3> HIDE DEF inserted
    <3>3. QED BY <1>4, <2>2, <3>1, <3>2 DEF NoDoubles, Apart
  <2> HIDE DEF row, bt, inserted, y
  <2>9. Runs(j, y, bars)
    BY <2>1, <2>7, <2>8 DEF Runs
  <2>10. \A o \in ImportJobs : o # j /\ executions[o] # Import!NotRunning =>
             Apart(y.new, executions[o].new)
    <3>1. \A o \in ImportJobs : o # j /\ executions[o] # Import!NotRunning =>
            Apart(x.new, executions[o].new) /\ Apart(inserted, executions[o].new)
      BY <1>1, <1>6 DEF ImportsInv, Sound, Apart
    <3>2. QED BY <2>1, <3>1 DEF Apart
  <2>11. QED BY <1>1, <1>6, <2>9, <2>10, RunMoves
<1>7. QED BY <1>5, <1>6 DEF Import!Store, Import!Symbols, Import!Cardinality, Cardinality

(* The commit of a run publishes its bars with its row.                    *)
LEMMA CommitKeeps == ASSUME ImportsInv, NEW j \in ImportJobs, Import!Commit(j) PROVE ImportsInv'
<1> DEFINE x == executions[j]
<1>1. /\ x # Import!NotRunning /\ Runs(j, x, bars)
      /\ bars' = bars \union x.new
      /\ \A o \in ImportJobs : /\ jobs'[o] = IF o = j THEN x.row ELSE jobs[o]
                               /\ batches'[o] = IF o = j THEN x.batches ELSE batches[o]
                               /\ executions'[o] = IF o = j THEN Import!NotRunning ELSE executions[o]
      /\ DOMAIN jobs' = ImportJobs /\ DOMAIN batches' = ImportJobs /\ DOMAIN executions' = ImportJobs
  <2>1. x # Import!NotRunning /\ Runs(j, x, bars)
    BY RunHolds DEF Import!Commit
  <2>2. DOMAIN jobs = ImportJobs /\ DOMAIN batches = ImportJobs /\ DOMAIN executions = ImportJobs
    BY DEF ImportsInv, Sound
  <2> HIDE DEF x
  <2>3. /\ bars' = bars \union x.new /\ jobs' = [jobs EXCEPT ![j] = x.row]
        /\ batches' = [batches EXCEPT ![j] = x.batches]
        /\ executions' = [executions EXCEPT ![j] = Import!NotRunning]
    BY DEF Import!Commit, x
  <2>4. QED BY <2>1, <2>2, <2>3
<1>2. NoDoubles(bars')
  <2>1. NoDoubles(bars) /\ NoDoubles(x.new) /\ Apart(x.new, bars) /\ Apart(bars, x.new)
    BY <1>1, ApartIsSymmetric DEF ImportsInv, Sound, Runs
  <2>2. QED BY <1>1, <2>1 DEF NoDoubles, Apart
<1>3. \A b \in x.new : b.job = j
  BY <1>1 DEF Runs, Tells
<1>4. ASSUME NEW o \in ImportJobs
      PROVE  Tells(o, jobs'[o], batches'[o], Own(o, bars'))
  <2>1. CASE o = j
    <3>1. Own(j, bars') = Own(j, bars) \union x.new
      BY <1>1, <1>3 DEF Own
    <3>2. Tells(j, x.row, x.batches, Own(j, bars) \union x.new)
      BY <1>1 DEF Runs
    <3> HIDE DEF x
    <3>3. QED BY <1>1, <2>1, <3>1, <3>2
  <2>2. CASE o # j
    <3>1. Own(o, bars') = Own(o, bars)
      BY <1>1, <1>3, <2>2 DEF Own
    <3>2. QED BY <1>1, <2>2, <3>1 DEF ImportsInv, Sound
  <2>3. QED BY <2>1, <2>2
<1>5. ASSUME NEW o \in ImportJobs, executions'[o] # Import!NotRunning
      PROVE  Runs(o, executions'[o], bars')
  <2>1. /\ o # j /\ executions'[o] = executions[o] /\ executions[o] # Import!NotRunning
    BY <1>1, <1>5
  <2>2. Runs(o, executions[o], bars) /\ Apart(executions[o].new, x.new)
    BY <1>1, <2>1 DEF ImportsInv, Sound
  <2>3. Own(o, bars') = Own(o, bars)
    BY <1>1, <1>3, <2>1 DEF Own
  <2>4. Apart(executions[o].new, bars')
    <3>1. Apart(executions[o].new, bars)
      BY <2>2 DEF Runs
    <3>2. QED BY <1>1, <2>2, <3>1 DEF Apart
  <2>5. QED BY <2>1, <2>2, <2>3, <2>4 DEF Runs
<1>6. \A o, p \in ImportJobs :
        o # p /\ executions'[o] # Import!NotRunning /\ executions'[p] # Import!NotRunning
          => Apart(executions'[o].new, executions'[p].new)
  BY <1>1 DEF ImportsInv, Sound
<1>7. Sound(bars', jobs', batches', executions')
  BY <1>1, <1>2, <1>4, <1>5, <1>6 DEF Sound
<1>8. QED BY <1>7, ImportsNext

LEMMA DieKeeps == ASSUME ImportsInv, NEW j \in ImportJobs, Import!Die(j) PROVE ImportsInv'
<1>1. /\ DOMAIN executions' = ImportJobs
      /\ \A o \in ImportJobs :
           executions'[o] = IF o = j THEN Import!NotRunning ELSE executions[o]
      /\ UNCHANGED <<bars, jobs, batches>>
  BY DEF Import!Die, ImportsInv, Sound
<1>2. Sound(bars', jobs', batches', executions')
  BY <1>1 DEF ImportsInv, Sound
<1>3. QED BY <1>2, ImportsNext

(* A request changes the status of a row, and its mark, between runs.      *)
LEMMA RowKeeps ==
    ASSUME ImportsInv, NEW j \in ImportJobs, UNCHANGED <<bars, batches, executions>>,
           NEW row \in Import!ImportJob, jobs' = [jobs EXCEPT ![j] = row],
           row.cursor = jobs[j].cursor, row.inserted = jobs[j].inserted, row.status # "succeeded"
    PROVE  ImportsInv'
<1>1. Tells(j, jobs[j], batches[j], Own(j, bars))
  BY DEF ImportsInv, Sound
<1>2. batches[j] \in [1..Size(j) -> Import!ImportBatch]
  BY <1>1 DEF Tells
<1>3. Tells(j, row, batches[j], Own(j, bars))
  <2>1. CountsAlike(j, jobs[j], batches[j], row, batches[j])
    BY <1>2 DEF CountsAlike
  <2>2. QED BY <1>1, <2>1, TellsAgain
<1>4. /\ DOMAIN jobs' = ImportJobs
      /\ \A o \in ImportJobs : jobs'[o] = IF o = j THEN row ELSE jobs[o]
  BY DEF ImportsInv, Sound
<1>5. \A o \in ImportJobs : Tells(o, jobs'[o], batches'[o], Own(o, bars'))
  BY <1>3, <1>4 DEF ImportsInv, Sound
<1>6. Sound(bars', jobs', batches', executions')
  BY <1>4, <1>5 DEF ImportsInv, Sound
<1>7. QED BY <1>6, ImportsNext

LEMMA RowIsTyped == ASSUME ImportsInv, NEW j \in ImportJobs PROVE jobs[j] \in Import!ImportJob
BY DEF ImportsInv, Sound, Tells

LEMMA CancelKeeps == ASSUME ImportsInv, NEW j \in ImportJobs, Import!request_cancellation(j)
                     PROVE  ImportsInv'
<1> DEFINE row == [jobs[j] EXCEPT !.cancel = TRUE,
                                  !.status = IF @ = "queued" THEN "cancelled" ELSE @]
<1>1. /\ row \in Import!ImportJob /\ row.cursor = jobs[j].cursor /\ row.inserted = jobs[j].inserted
      /\ row.status # "succeeded"
  BY RowIsTyped DEF Import!request_cancellation, Import!ImportJob
<1>2. jobs' = [jobs EXCEPT ![j] = row] /\ UNCHANGED <<bars, batches, executions>>
  BY DEF Import!request_cancellation, ImportsInv, Sound
<1> HIDE DEF row
<1>3. QED BY <1>1, <1>2, RowKeeps

LEMMA RestartImportKeeps == ASSUME ImportsInv, NEW j \in ImportJobs, Import!restart_import_job(j)
                            PROVE  ImportsInv'
<1> DEFINE row == [jobs[j] EXCEPT !.status = "queued", !.cancel = FALSE]
<1>1. /\ row \in Import!ImportJob /\ row.cursor = jobs[j].cursor /\ row.inserted = jobs[j].inserted
      /\ row.status # "succeeded"
  BY RowIsTyped DEF Import!ImportJob
<1>2. jobs' = [jobs EXCEPT ![j] = row] /\ UNCHANGED <<bars, batches, executions>>
  BY DEF Import!restart_import_job, ImportsInv, Sound
<1> HIDE DEF row
<1>3. QED BY <1>1, <1>2, RowKeeps

LEMMA ImportsStep == ImportsInv /\ [Import!Next]_(Import!vars) => ImportsInv'
<1> SUFFICES ASSUME ImportsInv, [Import!Next]_(Import!vars) PROVE ImportsInv'
  OBVIOUS
<1>1. CASE Import!Next
  <2>1. PICK j \in ImportJobs :
          \/ Import!Begin(j) \/ Import!Fetch(j) \/ Import!Store(j) \/ Import!Succeed(j)
          \/ Import!Commit(j) \/ Import!Die(j) \/ Import!request_cancellation(j)
          \/ Import!restart_import_job(j)
    BY <1>1 DEF Import!Next
  <2>2. QED BY <2>1, BeginKeeps, FetchKeeps, StoreKeeps, SucceedKeeps, CommitKeeps, DieKeeps,
               CancelKeeps, RestartImportKeeps
<1>2. CASE UNCHANGED Import!vars
  <2>1. Sound(bars', jobs', batches', executions')
    BY <1>2 DEF Import!vars, ImportsInv
  <2>2. QED BY <2>1, ImportsNext
<1>3. QED BY <1>1, <1>2

LEMMA ImportsMove == [Next]_vars => [Import!Next]_(Import!vars)
BY DEF Next, vars, importVars, Import!vars

(* However runs fail, die, repeat and overlap, the rows of a job tell what *)
(* it stored, for any jobs and any answers of the providers (run_import_job).*)
THEOREM ImportsAreTold == Spec => []CursorTellsWhatIsStored
<1>1. Init => ImportsInv
  BY ImportsStart DEF Init
<1>2. ImportsInv /\ [Next]_vars => ImportsInv'
  BY ImportsStep, ImportsMove
<1>3. ASSUME ImportsInv PROVE CursorTellsWhatIsStored
  <2>1. ASSUME NEW j \in ImportJobs
        PROVE  LET own == {b \in bars : b.job = j}
                   done == {i \in DOMAIN Import!Symbols(j) : batches[j][i].status = "succeeded"}
               IN  /\ done = 1..jobs[j].cursor
                   /\ {b.symbol : b \in own} \subseteq {Import!Symbols(j)[i] : i \in done}
                   /\ jobs[j].inserted = Import!Cardinality(own)
                   /\ jobs[j].inserted =
                        Import!MapThenSumSet(LAMBDA i : batches[j][i].inserted, done)
                   /\ jobs[j].status = "succeeded" => done = DOMAIN Import!Symbols(j)
                   /\ Config[j].dry_run => own = {}
    <3> DEFINE own == {b \in bars : b.job = j}
               done == {i \in DOMAIN Import!Symbols(j) : batches[j][i].status = "succeeded"}
               bt == batches[j]
               f == Inserted(bt)
               g == [i \in done |-> bt[i].inserted]
    <3>1. Tells(j, jobs[j], bt, own)
      BY <1>3 DEF ImportsInv, Sound, Own
    <3>2. /\ jobs[j].cursor \in Nat /\ Size(j) \in Nat /\ jobs[j].cursor <= Size(j)
          /\ DOMAIN Import!Symbols(j) = 1..Size(j) /\ DOMAIN bt = 1..Size(j)
      BY <3>1, ImportsAssumption DEF Tells, Import!ImportJob, Size, Import!Symbols
    <3>3. done = 1..jobs[j].cursor
      BY <3>1, <3>2 DEF Tells
    <3>4. {b.symbol : b \in own} \subseteq {Import!Symbols(j)[i] : i \in done}
      BY <3>1, <3>3 DEF Tells, Import!Symbols
    <3>5. jobs[j].inserted = Import!Cardinality(own)
      <4>1. \A S : Import!Cardinality(S) = Cardinality(S)
        BY DEF Import!Cardinality, Cardinality
      <4>2. QED BY <3>1, <4>1 DEF Tells
    <3>6. jobs[j].inserted = SumFunctionOnSet(f, done)
      BY <3>1, <3>3 DEF Tells
    <3>7. SumFunctionOnSet(f, done) = SumFunctionOnSet(g, done)
      <4>1. IsFiniteSet(1..jobs[j].cursor)
        BY <3>2, FS_Interval
      <4>2. IsFiniteSet(done) /\ \A i \in done : f[i] = g[i]
        BY <3>2, <3>3, <4>1 DEF Inserted
      <4> HIDE DEF f, g, done
      <4>3. QED BY <4>2, SumSame
    <3>8. Import!MapThenSumSet(LAMBDA i : batches[j][i].inserted, done) = SumFunctionOnSet(g, done)
      <4> HIDE DEF done
      <4>1. QED
        BY DEF SumFunctionOnSet, FoldFunctionOnSet, MapThenFoldSet, Import!MapThenSumSet,
               Import!MapThenFoldSet
    <3>9. /\ jobs[j].status = "succeeded" => done = DOMAIN Import!Symbols(j)
          /\ Config[j].dry_run => own = {}
      BY <3>1, <3>2, <3>3 DEF Tells
    <3> HIDE DEF g, f
    <3>10. QED BY <3>3, <3>4, <3>5, <3>6, <3>7, <3>8, <3>9
  <2>2. \A b, c \in bars : Import!SameBar(b, c) => b = c
    BY <1>3 DEF ImportsInv, Sound, NoDoubles
  <2>3. Import!CursorTellsWhatIsStored
    BY <2>1, <2>2 DEF Import!CursorTellsWhatIsStored
  <2>4. QED BY <2>3 DEF CursorTellsWhatIsStored
<1>4. QED BY <1>1, <1>2, <1>3, PTL DEF Spec

-----------------------------------------------------------------------------
(* Backtest.  Weights change only where a rebalance writes the updates of  *)
(* its order into them; the trades of a rebalance, which are two folds     *)
(* over the symbols, leave them alone.                                     *)

LEMMA LatestIsInside ==
    ASSUME NEW S, IsFiniteSet(S), S \subseteq Int, S # {}
    PROVE  Simulation!Max(S) \in S /\ \A y \in S : y <= Simulation!Max(S)
<1>1. PICK x \in S : \A y \in S : x >= y
  BY LargestExists
<1>2. QED BY <1>1 DEF Simulation!Max

LEMMA EarliestIsInside ==
    ASSUME NEW S, IsFiniteSet(S), S \subseteq Int, S # {}
    PROVE  Simulation!Min(S) \in S /\ \A y \in S : Simulation!Min(S) <= y
<1>1. PICK x \in S : \A y \in S : x =< y
  BY SmallestExists
<1>2. QED BY <1>1 DEF Simulation!Min

(* The trades of a rebalance, and a rebalance, as steps of one kind from   *)
(* an account b: x is the index of a symbol, or of an order in q.          *)
Traded(open, order, b, s, side, n) ==
    IF n > 0
    THEN Simulation!execute(b, s, side, n, n * Simulation!execution_price(open[s], side), order)
    ELSE b
Sold(open, desired, order, b, s) == Traded(open, order, b, s, "sell", b.held[s] - desired[s])
Bought(open, desired, order, b, s) ==
    Traded(open, order, b, s, "buy",
           Simulation!Affordable(desired[s] - b.held[s],
                                 Simulation!execution_price(open[s], "buy"), b.cash))
After(kind, q, x, b) ==
    IF kind = "sell" THEN Sold(q.open, q.desired, q.order, b, Simulation!Symbols[x])
    ELSE IF kind = "buy" THEN Bought(q.open, q.desired, q.order, b, Simulation!Symbols[x])
    ELSE Simulation!rebalance(b, q[x])

Last(s) == Simulation!Max(s)
Before(s) == s \ {Last(s)}
IsRun(kind, q, base, S, g) ==
    g = [s \in SUBSET S |-> IF s = {} THEN base ELSE After(kind, q, Last(s), g[Before(s)])]

LEMMA BeforeIsSmaller ==
    ASSUME NEW s, IsFiniteSet(s), s \subseteq Int, s # {}
    PROVE  Last(s) \in s /\ Before(s) \in (SUBSET s) \ {s}
BY LatestIsInside DEF Before, Last

LEMMA RunsAgree ==
    ASSUME NEW kind, NEW q, NEW base, NEW S, NEW T, NEW g, NEW h,
           IsRun(kind, q, base, S, g), IsRun(kind, q, base, T, h),
           NEW U, IsFiniteSet(U), U \subseteq Int, U \subseteq S, U \subseteq T
    PROVE  g[U] = h[U]
<1> DEFINE G == {V \in SUBSET U : g[V] = h[V]}
<1>1. ASSUME NEW V \in SUBSET U, \A W \in (SUBSET V) \ {V} : W \in G PROVE V \in G
  <2>1. V \in SUBSET S /\ V \in SUBSET T /\ IsFiniteSet(V) /\ V \subseteq Int
    BY FS_Subset
  <2>2. /\ g[V] = IF V = {} THEN base ELSE After(kind, q, Last(V), g[Before(V)])
        /\ h[V] = IF V = {} THEN base ELSE After(kind, q, Last(V), h[Before(V)])
    BY <2>1 DEF IsRun
  <2>3. V # {} => g[Before(V)] = h[Before(V)]
    BY <1>1, <2>1, BeforeIsSmaller
  <2>4. QED BY <2>2, <2>3
<1> HIDE DEF G
<1>2. U \in G
  BY <1>1, SubsetInduction
<1>3. QED BY <1>2 DEF G

LEMMA RunAt ==
    ASSUME NEW kind, NEW q, NEW base, NEW S, NEW g, IsRun(kind, q, base, S, g), NEW T \in SUBSET S
    PROVE  g[T] = IF T = {} THEN base ELSE After(kind, q, Last(T), g[Before(T)])
BY DEF IsRun

LEMMA RunExists ==
    ASSUME NEW kind, NEW q, NEW base, NEW S, IsFiniteSet(S), S \subseteq Int
    PROVE  \E g : IsRun(kind, q, base, S, g)
<1> DEFINE G == {T \in SUBSET S : \E g : IsRun(kind, q, base, T, g)}
<1>1. ASSUME NEW T \in SUBSET S, \A U \in (SUBSET T) \ {T} : U \in G PROVE T \in G
  <2> DEFINE F(U) == CHOOSE g : IsRun(kind, q, base, U, g)
             h == [s \in SUBSET T |->
                     IF s = {} THEN base ELSE After(kind, q, Last(s), F(Before(s))[Before(s)])]
  <2>0. \A s \in SUBSET T : IsFiniteSet(s) /\ s \subseteq Int
    BY FS_Subset
  <2>1. ASSUME NEW U \in (SUBSET T) \ {T} PROVE IsRun(kind, q, base, U, F(U))
    BY <1>1
  <2>2. ASSUME NEW s \in SUBSET T, s # {} PROVE h[Before(s)] = F(Before(s))[Before(s)]
    <3> DEFINE U == Before(s)
    <3>1. U \in (SUBSET T) \ {T}
      <4>1. U \in (SUBSET s) \ {s}
        <5> HIDE DEF F, h
        <5>1. QED BY <2>0, <2>2, BeforeIsSmaller
      <4> HIDE DEF U, F, h
      <4>2. QED BY <4>1
    <3>2. IsRun(kind, q, base, U, F(U))
      BY <2>1, <3>1
    <3>3. F(U)[U] = IF U = {} THEN base ELSE After(kind, q, Last(U), F(U)[Before(U)])
      <4> HIDE DEF F, U
      <4>1. QED BY <3>2, RunAt
    <3>4. h[U] = IF U = {} THEN base ELSE After(kind, q, Last(U), F(Before(U))[Before(U)])
      BY <3>1
    <3>5. U # {} => F(U)[Before(U)] = F(Before(U))[Before(U)]
      <4> SUFFICES ASSUME U # {} PROVE F(U)[Before(U)] = F(Before(U))[Before(U)]
        OBVIOUS
      <4>0. IsFiniteSet(U) /\ U \subseteq Int
        BY <2>0, <3>1
      <4> HIDE DEF U
      <4>1. Before(U) \in (SUBSET U) \ {U}
        BY <4>0, BeforeIsSmaller
      <4>2. Before(U) \in (SUBSET T) \ {T}
        BY <3>1, <4>1
      <4>3. IsRun(kind, q, base, Before(U), F(Before(U)))
        BY <2>1, <4>2
      <4>4. IsFiniteSet(Before(U)) /\ Before(U) \subseteq Int
        BY <2>0, <4>2
      <4> HIDE DEF F
      <4>5. QED BY <3>2, <4>1, <4>3, <4>4, RunsAgree
    <3> HIDE DEF F, h
    <3>6. QED BY <3>3, <3>4, <3>5
  <2>3. ASSUME NEW s \in SUBSET T
        PROVE  h[s] = IF s = {} THEN base ELSE After(kind, q, Last(s), h[Before(s)])
    <3>1. h[s] = IF s = {} THEN base ELSE After(kind, q, Last(s), F(Before(s))[Before(s)])
      OBVIOUS
    <3>2. s # {} => h[Before(s)] = F(Before(s))[Before(s)]
      BY <2>2
    <3> HIDE DEF h, F
    <3>3. QED BY <3>1, <3>2
  <2>4. h = [s \in SUBSET T |-> h[s]]
    OBVIOUS
  <2> HIDE DEF h
  <2>5. [s \in SUBSET T |-> h[s]]
          = [s \in SUBSET T |-> IF s = {} THEN base ELSE After(kind, q, Last(s), h[Before(s)])]
    BY <2>3
  <2>6. IsRun(kind, q, base, T, h)
    BY <2>4, <2>5, Zenon DEF IsRun
  <2>7. QED BY <2>6
<1> HIDE DEF G
<1>2. S \in G
  BY <1>1, SubsetInduction
<1>3. QED BY <1>2 DEF G

-----------------------------------------------------------------------------
(* The trades of a rebalance keep the weights.                             *)

AccountFields == {"cash", "held", "targets", "trades"}
Keeps(b, c) == DOMAIN c = AccountFields /\ c.targets = b.targets

LEMMA ExecuteKeeps ==
    ASSUME NEW b, DOMAIN b = AccountFields, NEW s, NEW side, NEW n, NEW gross, NEW order
    PROVE  Keeps(b, Simulation!execute(b, s, side, n, gross, order))
BY DEF Simulation!execute, Keeps, AccountFields

LEMMA TradesKeep ==
    ASSUME NEW b, DOMAIN b = AccountFields, NEW q, NEW x, NEW kind \in {"sell", "buy"}
    PROVE  Keeps(b, After(kind, q, x, b))
<1>1. Keeps(b, b)
  BY DEF Keeps
<1>2. \A open, order, s, side, n : Keeps(b, Traded(open, order, b, s, side, n))
  BY <1>1, ExecuteKeeps DEF Traded
<1>3. QED BY <1>2 DEF After, Sold, Bought

LEMMA FoldKeeps ==
    ASSUME NEW kind \in {"sell", "buy"}, NEW q, NEW base, DOMAIN base = AccountFields,
           NEW S, IsFiniteSet(S), S \subseteq Int, NEW g, IsRun(kind, q, base, S, g)
    PROVE  Keeps(base, g[S])
<1> DEFINE G == {T \in SUBSET S : Keeps(base, g[T])}
<1>1. ASSUME NEW T \in SUBSET S, \A U \in (SUBSET T) \ {T} : U \in G PROVE T \in G
  <2>1. g[T] = IF T = {} THEN base ELSE After(kind, q, Last(T), g[Before(T)])
    BY DEF IsRun
  <2>2. CASE T = {}
    BY <2>1, <2>2 DEF Keeps
  <2>3. CASE T # {}
    <3>1. IsFiniteSet(T) /\ T \subseteq Int
      BY FS_Subset
    <3>2. Keeps(base, g[Before(T)])
      BY <1>1, <2>3, <3>1, BeforeIsSmaller
    <3>3. Keeps(g[Before(T)], After(kind, q, Last(T), g[Before(T)]))
      BY <3>2, TradesKeep DEF Keeps
    <3>4. g[T] = After(kind, q, Last(T), g[Before(T)])
      BY <2>1, <2>3
    <3>5. QED BY <3>2, <3>3, <3>4 DEF Keeps
  <2>4. QED BY <2>2, <2>3
<1> HIDE DEF G
<1>2. S \in G
  BY <1>1, SubsetInduction
<1>3. QED BY <1>2 DEF G

(* The folds of a rebalance, over the symbols in their order.              *)
Places == DOMAIN Simulation!Symbols
IsSelling(open, desired, order, base, g) ==
    g = [s \in SUBSET Places |->
           IF s = {} THEN base
           ELSE Sold(open, desired, order, g[Before(s)], Simulation!Symbols[Last(s)])]
IsBuying(open, desired, order, base, g) ==
    g = [s \in SUBSET Places |->
           IF s = {} THEN base
           ELSE Bought(open, desired, order, g[Before(s)], Simulation!Symbols[Last(s)])]
AfterSells(open, desired, order, base) ==
    (CHOOSE g : IsSelling(open, desired, order, base, g))[Places]
AfterBuys(open, desired, order, base) ==
    (CHOOSE g : IsBuying(open, desired, order, base, g))[Places]
Rewritten(account, order) ==
    [account EXCEPT !.targets =
       [s \in Stocks |-> IF s \in DOMAIN order.updates THEN order.updates[s] ELSE @[s]]]
Opens(order) == [s \in Stocks |-> history[s][order.due].open]
Desired(account, order) ==
    Simulation!desired_quantities(Rewritten(account, order), Opens(order))

LEMMA RebalanceFolds ==
    ASSUME NEW account, NEW order
    PROVE  Simulation!rebalance(account, order)
             = AfterBuys(Opens(order), Desired(account, order), order,
                 AfterSells(Opens(order), Desired(account, order), order,
                            Rewritten(account, order)))
BY DEF Simulation!rebalance, Simulation!FoldLeft, Simulation!MapThenFoldSet, AfterBuys, AfterSells,
       IsSelling, IsBuying, Sold, Bought, Traded, Before, Last, Opens, Desired, Rewritten, Places

LEMMA PlacesAreFinite == IsFiniteSet(Places) /\ Places \subseteq Int
<1>1. Simulation!Cardinality(Stocks) = Cardinality(Stocks)
  BY DEF Simulation!Cardinality, Cardinality
<1>2. Cardinality(Stocks) \in Nat
  BY SimulationAssumption, FS_CardinalityType
<1>3. Places = 1..Cardinality(Stocks)
  BY <1>1 DEF Places, Simulation!Symbols
<1>4. QED BY <1>2, <1>3, FS_Interval

LEMMA SellsAreRun ==
    ASSUME NEW open, NEW desired, NEW order, NEW base,
           NEW q, q = [open |-> open, desired |-> desired, order |-> order]
    PROVE  \E g : /\ IsRun("sell", q, base, Places, g)
                  /\ AfterSells(open, desired, order, base) = g[Places]
<1>1. ASSUME NEW g PROVE IsSelling(open, desired, order, base, g) <=> IsRun("sell", q, base, Places, g)
  <2>1. \A x, b : After("sell", q, x, b) = Sold(open, desired, order, b, Simulation!Symbols[x])
    BY DEF After
  <2>2. [s \in SUBSET Places |-> IF s = {} THEN base ELSE After("sell", q, Last(s), g[Before(s)])]
          = [s \in SUBSET Places |->
               IF s = {} THEN base
               ELSE Sold(open, desired, order, g[Before(s)], Simulation!Symbols[Last(s)])]
    BY <2>1
  <2>3. QED BY <2>2 DEF IsRun, IsSelling
<1>2. \E g : IsSelling(open, desired, order, base, g)
  BY <1>1, PlacesAreFinite, RunExists
<1>3. QED BY <1>1, <1>2 DEF AfterSells

LEMMA BuysAreRun ==
    ASSUME NEW open, NEW desired, NEW order, NEW base,
           NEW q, q = [open |-> open, desired |-> desired, order |-> order]
    PROVE  \E g : /\ IsRun("buy", q, base, Places, g)
                  /\ AfterBuys(open, desired, order, base) = g[Places]
<1>1. ASSUME NEW g PROVE IsBuying(open, desired, order, base, g) <=> IsRun("buy", q, base, Places, g)
  <2>1. \A x, b : After("buy", q, x, b) = Bought(open, desired, order, b, Simulation!Symbols[x])
    BY DEF After
  <2>2. [s \in SUBSET Places |-> IF s = {} THEN base ELSE After("buy", q, Last(s), g[Before(s)])]
          = [s \in SUBSET Places |->
               IF s = {} THEN base
               ELSE Bought(open, desired, order, g[Before(s)], Simulation!Symbols[Last(s)])]
    BY <2>1
  <2>3. QED BY <2>2 DEF IsRun, IsBuying
<1>2. \E g : IsBuying(open, desired, order, base, g)
  BY <1>1, PlacesAreFinite, RunExists
<1>3. QED BY <1>1, <1>2 DEF AfterBuys

LEMMA SellsKeep ==
    ASSUME NEW open, NEW desired, NEW order, NEW base, DOMAIN base = AccountFields
    PROVE  Keeps(base, AfterSells(open, desired, order, base))
BY SellsAreRun, PlacesAreFinite, FoldKeeps

LEMMA BuysKeep ==
    ASSUME NEW open, NEW desired, NEW order, NEW base, DOMAIN base = AccountFields
    PROVE  Keeps(base, AfterBuys(open, desired, order, base))
BY BuysAreRun, PlacesAreFinite, FoldKeeps

(* A rebalance rewrites the weights of its order, and no others.           *)
LEMMA RebalanceRewrites ==
    ASSUME NEW account, DOMAIN account = AccountFields, NEW order
    PROVE  LET b == Simulation!rebalance(account, order)
           IN  /\ DOMAIN b = AccountFields
               /\ b.targets = [s \in Stocks |-> IF s \in DOMAIN order.updates
                                              THEN order.updates[s] ELSE account.targets[s]]
<1> DEFINE a == Rewritten(account, order)
           c == AfterSells(Opens(order), Desired(account, order), order, a)
           b == AfterBuys(Opens(order), Desired(account, order), order, c)
<1>1. /\ DOMAIN a = AccountFields
      /\ a.targets = [s \in Stocks |-> IF s \in DOMAIN order.updates
                                     THEN order.updates[s] ELSE account.targets[s]]
  BY DEF Rewritten, AccountFields
<1> HIDE DEF a
<1>2. Keeps(a, c)
  BY <1>1, SellsKeep
<1> HIDE DEF c
<1>3. Keeps(c, b)
  BY <1>2, BuysKeep DEF Keeps
<1>4. Simulation!rebalance(account, order) = b
  BY RebalanceFolds DEF a, c
<1> HIDE DEF b
<1>5. QED BY <1>1, <1>2, <1>3, <1>4 DEF Keeps

-----------------------------------------------------------------------------
(* The orders of a day, one after the other.                               *)

(* v are the weights w after the orders of S: the last one of a stock      *)
(* counts.                                                                 *)
Updates(orders, n, s) == s \in DOMAIN orders[n].updates
Written(orders, S, w, v) ==
    \A s \in Stocks :
        \/ /\ \A n \in S : ~Updates(orders, n, s)
           /\ v[s] = w[s]
        \/ \E n \in S : /\ Updates(orders, n, s) /\ v[s] = orders[n].updates[s]
                        /\ \A m \in S : Updates(orders, m, s) => m <= n

LEMMA OneMoreWritten ==
    ASSUME NEW orders, NEW S, S \subseteq Int, NEW w, NEW v, Written(orders, S, w, v),
           NEW n \in Int, \A m \in S : m <= n, NEW u,
           u = [s \in Stocks |-> IF s \in DOMAIN orders[n].updates
                                 THEN orders[n].updates[s] ELSE v[s]]
    PROVE  Written(orders, S \union {n}, w, u)
<1> SUFFICES ASSUME NEW s \in Stocks
    PROVE \/ /\ \A m \in S \union {n} : ~Updates(orders, m, s)
             /\ u[s] = w[s]
          \/ \E m \in S \union {n} :
                /\ Updates(orders, m, s) /\ u[s] = orders[m].updates[s]
                /\ \A l \in S \union {n} : Updates(orders, l, s) => l <= m
  BY DEF Written
<1>1. CASE Updates(orders, n, s)
  <2>1. u[s] = orders[n].updates[s]
    BY <1>1 DEF Updates
  <2>2. \A l \in S \union {n} : l <= n
    OBVIOUS
  <2>3. QED BY <1>1, <2>1, <2>2
<1>2. CASE ~Updates(orders, n, s)
  <2>1. u[s] = v[s]
    BY <1>2 DEF Updates
  <2>2. QED BY <1>2, <2>1 DEF Written
<1>3. QED BY <1>1, <1>2

LEMMA RunWrites ==
    ASSUME NEW orders, NEW base, DOMAIN base = AccountFields, DOMAIN base.targets = Stocks,
           NEW S, IsFiniteSet(S), S \subseteq Int, NEW g, IsRun("order", orders, base, S, g)
    PROVE  Written(orders, S, base.targets, g[S].targets) /\ DOMAIN g[S].targets = Stocks
<1> DEFINE G == {T \in SUBSET S :
                   /\ DOMAIN g[T] = AccountFields /\ DOMAIN g[T].targets = Stocks
                   /\ Written(orders, T, base.targets, g[T].targets)}
<1>1. ASSUME NEW T \in SUBSET S, \A U \in (SUBSET T) \ {T} : U \in G PROVE T \in G
  <2>1. g[T] = IF T = {} THEN base ELSE Simulation!rebalance(g[Before(T)], orders[Last(T)])
    BY DEF IsRun, After
  <2>2. CASE T = {}
    BY <2>1, <2>2 DEF Written
  <2>3. CASE T # {}
    <3>1. IsFiniteSet(T) /\ T \subseteq Int
      BY FS_Subset
    <3>2. Before(T) \in G
      BY <1>1, <2>3, <3>1, BeforeIsSmaller
    <3>3. /\ DOMAIN g[Before(T)] = AccountFields
          /\ Written(orders, Before(T), base.targets, g[Before(T)].targets)
      BY <3>2
    <3>4. g[T] = Simulation!rebalance(g[Before(T)], orders[Last(T)])
      BY <2>1, <2>3
    <3>5. /\ DOMAIN g[T] = AccountFields
          /\ g[T].targets = [s \in Stocks |-> IF s \in DOMAIN orders[Last(T)].updates
                                              THEN orders[Last(T)].updates[s]
                                              ELSE g[Before(T)].targets[s]]
      BY <3>3, <3>4, RebalanceRewrites
    <3>6. /\ Last(T) \in Int /\ Before(T) \subseteq Int /\ T = Before(T) \union {Last(T)}
          /\ \A m \in Before(T) : m <= Last(T)
      BY <2>3, <3>1, LatestIsInside DEF Before, Last
    <3>7. Written(orders, T, base.targets, g[T].targets)
      <4>1. Written(orders, Before(T) \union {Last(T)}, base.targets, g[T].targets)
        <5> HIDE DEF G
        <5>1. QED BY <3>3, <3>5, <3>6, OneMoreWritten
      <4>2. QED BY <3>6, <4>1
    <3>8. QED BY <3>5, <3>7
  <2>4. QED BY <2>2, <2>3
<1> HIDE DEF G
<1>2. S \in G
  BY <1>1, SubsetInduction
<1>3. QED BY <1>2 DEF G

Account == [cash |-> purse, held |-> held, targets |-> targets, trades |-> trades]
IsExecuting(orders, base, S, g) ==
    g = [s \in SUBSET S |->
           IF s = {} THEN base ELSE Simulation!rebalance(g[Before(s)], orders[Last(s)])]

LEMMA ExecutedFolds ==
    ASSUME NEW t
    PROVE  Simulation!Executed(t)
             = (CHOOSE g : IsExecuting(Simulation!Orders(t), Account,
                                       DOMAIN Simulation!Orders(t), g))
                 [DOMAIN Simulation!Orders(t)]
BY DEF Simulation!Executed, Simulation!MapThenFoldSet, IsExecuting, Account, Before, Last

LEMMA ExecutedIsRun ==
    ASSUME NEW t, NEW S, S = DOMAIN Simulation!Orders(t), IsFiniteSet(S), S \subseteq Int
    PROVE  \E g : /\ IsRun("order", Simulation!Orders(t), Account, S, g)
                  /\ Simulation!Executed(t) = g[S]
<1> DEFINE O == Simulation!Orders(t)
<1>1. ASSUME NEW o, NEW g PROVE IsExecuting(o, Account, S, g) <=> IsRun("order", o, Account, S, g)
  BY DEF IsExecuting, IsRun, After
<1>2. \E g : IsExecuting(O, Account, S, g)
  BY <1>1, RunExists
<1>3. PICK g : g = CHOOSE f : IsExecuting(O, Account, S, f)
  OBVIOUS
<1>4. IsRun("order", O, Account, S, g)
  BY <1>1, <1>2, <1>3
<1>5. Simulation!Executed(t) = g[S]
  BY <1>3, ExecutedFolds
<1>6. QED BY <1>4, <1>5

LEMMA ExecutedWrites ==
    ASSUME NEW t, DOMAIN targets = Stocks,
           NEW S, S = DOMAIN Simulation!Orders(t), IsFiniteSet(S), S \subseteq Int
    PROVE  /\ Written(Simulation!Orders(t), S, targets, Simulation!Executed(t).targets)
           /\ DOMAIN Simulation!Executed(t).targets = Stocks
<1> DEFINE O == Simulation!Orders(t)
<1>1. PICK g : IsRun("order", O, Account, S, g) /\ Simulation!Executed(t) = g[S]
  BY ExecutedIsRun
<1>2. DOMAIN Account = AccountFields /\ Account.targets = targets
  BY DEF Account, AccountFields
<1> HIDE DEF O
<1>3. Written(O, S, targets, g[S].targets) /\ DOMAIN g[S].targets = Stocks
  BY <1>1, <1>2, RunWrites
<1>4. QED BY <1>1, <1>3 DEF O

(* The orders that are due write what was decided, a risk rebalance none.  *)
DueAt(t) == {n \in DOMAIN pending : pending[n].due = t}

LEMMA OrdersWrite ==
    ASSUME NEW t \in Nat, DOMAIN targets = Stocks, DOMAIN pending \subseteq 1..t
    PROVE  /\ Written(pending, DueAt(t), targets, Simulation!Executed(t).targets)
           /\ DOMAIN Simulation!Executed(t).targets = Stocks
<1> DEFINE O == Simulation!Orders(t)
           D == DueAt(t)
<1>1. IsFiniteSet(D) /\ D \subseteq Int
  <2>1. IsFiniteSet(1..t)
    BY FS_Interval
  <2>2. D \subseteq 1..t
    BY DEF DueAt
  <2>3. QED BY <2>1, <2>2, FS_Subset
<1>2. CASE O = [n \in D |-> pending[n]]
  <2>1. DOMAIN O = D /\ \A n \in D : O[n] = pending[n]
    BY <1>2
  <2> HIDE DEF O, D
  <2>2. /\ Written(O, D, targets, Simulation!Executed(t).targets)
        /\ DOMAIN Simulation!Executed(t).targets = Stocks
    BY <1>1, <2>1, ExecutedWrites DEF O
  <2>3. QED BY <2>1, <2>2 DEF Written, Updates, D
<1>3. CASE O # [n \in D |-> pending[n]]
  <2>1. D = {} /\ DOMAIN O = {t - 1} /\ DOMAIN O[t - 1].updates = {}
    <3> DEFINE none == [s \in {} |-> 0]
               risk == [due |-> t, cause |-> "risk", decided |-> t - 1, updates |-> none]
    <3>1. D = {} /\ O = [n \in {t - 1} |-> risk]
      BY <1>3 DEF Simulation!Orders, DueAt
    <3>2. risk.updates = none /\ DOMAIN none = {}
      OBVIOUS
    <3> HIDE DEF risk, none, O
    <3>3. DOMAIN O = {t - 1} /\ O[t - 1] = risk
      BY <3>1, Zenon
    <3>4. O[t - 1].updates = none
      BY <3>2, <3>3
    <3>5. DOMAIN O[t - 1].updates = {}
      BY <3>2, <3>4
    <3>6. QED BY <3>1, <3>3, <3>5
  <2>2. IsFiniteSet({t - 1}) /\ {t - 1} \subseteq Int
    <3> DEFINE x == t - 1
    <3>1. x \in Int
      OBVIOUS
    <3> HIDE DEF x
    <3>2. IsFiniteSet({x})
      BY FS_Singleton
    <3>3. QED BY <3>1, <3>2 DEF x
  <2> HIDE DEF O, D
  <2>3. /\ Written(O, {t - 1}, targets, Simulation!Executed(t).targets)
        /\ DOMAIN Simulation!Executed(t).targets = Stocks
    BY <2>1, <2>2, ExecutedWrites DEF O
  <2>4. QED BY <2>1, <2>3 DEF Written, Updates, D
<1>4. QED BY <1>2, <1>3

-----------------------------------------------------------------------------
(* The invariant, of prices H, day t, weights W, orders P and signals G:   *)
(* the orders are those of the days whose first open is still to come, and *)
(* the weights are those of the others, the last first open ruling.        *)

Openings(H, G, n) ==
    {d \in 1..Len(H[1]) : /\ d >= n + Delay
                          /\ \A g \in G : g.day = n => d > H[g.stock][n].published}
First(H, G, n) == Simulation!Min(Openings(H, G, n))
Effective(H, t, G, s) ==
    {g \in G : g.stock = s /\ Openings(H, G, g.day) # {} /\ First(H, G, g.day) <= t}
Later(H, G, h, g) ==
    \/ First(H, G, h.day) < First(H, G, g.day)
    \/ First(H, G, h.day) = First(H, G, g.day) /\ h.day <= g.day
Rules(H, t, W, G, s) ==
    \/ Effective(H, t, G, s) = {} /\ W[s] = 0
    \/ \E g \in Effective(H, t, G, s) :
         W[s] = g.weight /\ \A h \in Effective(H, t, G, s) : Later(H, G, h, g)

OrderHolds(H, t, P, G, n) ==
    /\ Openings(H, G, n) # {}
    /\ P[n].due = First(H, G, n) /\ P[n].due > t
    /\ DOMAIN P[n].updates = {g.stock : g \in {f \in G : f.day = n}}
    /\ \A g \in G : g.day = n => P[n].updates[g.stock] = g.weight

SignalHolds(H, t, P, G, g) ==
    /\ g.stock \in Stocks /\ g.day \in 1..t
    /\ Openings(H, G, g.day) # {} /\ First(H, G, g.day) > t => g.day \in DOMAIN P

Simulated(H, t, W, P, G) ==
    /\ t \in Nat
    /\ H = Simulation!NoHistory => t = 0
    /\ H # Simulation!NoHistory => H \in Histories /\ t <= Len(H[1])
    /\ t = 0 => G = {} /\ DOMAIN P = {}
    /\ DOMAIN W = Stocks /\ DOMAIN P \subseteq 1..t
    /\ \A n \in DOMAIN P : OrderHolds(H, t, P, G, n)
    /\ \A g \in G : SignalHolds(H, t, P, G, g)
    /\ \A s \in Stocks : Rules(H, t, W, G, s)

SimulationInv == Simulated(history, today, targets, pending, signals)

LEMMA SimulationNext ==
    Simulated(history', today', targets', pending', signals') => SimulationInv'
BY DEF SimulationInv, Simulated, OrderHolds, SignalHolds, Rules, Later, Effective, First, Openings

LEMMA NothingSimulated ==
    ASSUME NEW H, H = Simulation!NoHistory \/ H \in Histories, NEW W,
           DOMAIN W = Stocks, \A s \in Stocks : W[s] = 0, NEW P, DOMAIN P = {}
    PROVE  Simulated(H, 0, W, P, {})
<1>1. H \in Histories => 0 <= Len(H[1])
  BY SimulationAssumption
<1>2. ASSUME NEW s \in Stocks PROVE Rules(H, 0, W, {}, s)
  BY DEF Rules, Effective
<1>3. QED BY <1>1, <1>2 DEF Simulated

LEMMA FirstIsOpening ==
    ASSUME NEW H, NEW G, NEW n, Openings(H, G, n) # {}, Len(H[1]) \in Nat
    PROVE  First(H, G, n) \in Openings(H, G, n)
           /\ \A d \in Openings(H, G, n) : First(H, G, n) <= d
<1>1. IsFiniteSet(1..Len(H[1]))
  BY FS_Interval
<1>2. Openings(H, G, n) \subseteq 1..Len(H[1])
  BY DEF Openings
<1>3. IsFiniteSet(Openings(H, G, n)) /\ Openings(H, G, n) \subseteq Int
  BY <1>1, <1>2, FS_Subset
<1>4. QED BY <1>3, EarliestIsInside DEF First

(* What the signals of a new day change: nothing about those before.       *)
LEMMA OpeningsKeep ==
    ASSUME NEW H, NEW G, NEW K, NEW n, \A g \in K : g.day # n
    PROVE  Openings(H, G \union K, n) = Openings(H, G, n)
BY DEF Openings

LEMMA FirstKeeps ==
    ASSUME NEW H, NEW G, NEW K, NEW n, \A g \in K : g.day # n
    PROVE  First(H, G \union K, n) = First(H, G, n)
BY OpeningsKeep DEF First

(* A day's own signals cannot be executed on that day.                     *)
LEMMA NewSignalsWait ==
    ASSUME NEW H, NEW G, NEW t \in Nat, Len(H[1]) \in Nat, Openings(H, G, t) # {}
    PROVE  First(H, G, t) > t
<1>1. First(H, G, t) \in Openings(H, G, t)
  BY FirstIsOpening
<1>2. First(H, G, t) \in Int /\ First(H, G, t) >= t + Delay
  BY <1>1 DEF Openings
<1>3. QED BY <1>2, SimulationAssumption

LEMMA RulesAfter ==
    ASSUME NEW H, NEW t \in Nat, Len(H[1]) \in Nat, NEW W, NEW P, NEW G, NEW K,
           \A n \in DOMAIN P : OrderHolds(H, t, P, G, n),
           \A g \in G : SignalHolds(H, t, P, G, g),
           \A g \in K : g.day = t + 1,
           NEW D, D = {n \in DOMAIN P : P[n].due = t + 1}, NEW V, Written(P, D, W, V),
           NEW s \in Stocks, Rules(H, t, W, G, s)
    PROVE  Rules(H, t + 1, V, G \union K, s)
<1> DEFINE E == Effective(H, t, G, s)
           F == Effective(H, t + 1, G \union K, s)
<1>1. ASSUME NEW g \in G
      PROVE  /\ g.day \in 1..t
             /\ Openings(H, G \union K, g.day) = Openings(H, G, g.day)
             /\ First(H, G \union K, g.day) = First(H, G, g.day)
             /\ Openings(H, G, g.day) # {} => First(H, G, g.day) \in Int
  <2>1. g.day \in 1..t
    BY DEF SignalHolds
  <2>2. \A k \in K : k.day # g.day
    BY <2>1
  <2>3. Openings(H, G, g.day) # {} => First(H, G, g.day) \in Openings(H, G, g.day)
    BY FirstIsOpening
  <2>4. Openings(H, G, g.day) \subseteq Int
    BY DEF Openings
  <2>5. QED BY <2>1, <2>2, <2>3, <2>4, OpeningsKeep, FirstKeeps
<1>2. ASSUME NEW g \in F
      PROVE  /\ g \in G /\ Openings(H, G, g.day) # {} /\ g.stock = s
             /\ First(H, G, g.day) \in Int /\ First(H, G, g.day) <= t + 1
  <2>1. /\ g \in G \union K /\ g.stock = s /\ Openings(H, G \union K, g.day) # {}
        /\ First(H, G \union K, g.day) <= t + 1
    BY DEF Effective
  <2>2. g \notin K
    <3> SUFFICES ASSUME g \in K PROVE FALSE
      OBVIOUS
    <3>1. g.day = t + 1 /\ t + 1 \in Nat
      OBVIOUS
    <3>2. First(H, G \union K, t + 1) > t + 1
      BY <2>1, <3>1, NewSignalsWait
    <3>3. First(H, G \union K, t + 1) \in Openings(H, G \union K, t + 1)
      BY <2>1, <3>1, FirstIsOpening
    <3>4. First(H, G \union K, t + 1) \in Int
      BY <3>3 DEF Openings
    <3>5. QED BY <2>1, <3>1, <3>2, <3>4
  <2>3. g \in G
    BY <2>1, <2>2
  <2>4. QED BY <1>1, <2>1, <2>3
<1>3. ASSUME NEW g \in G, g.stock = s, Openings(H, G, g.day) # {}, First(H, G, g.day) = t + 1
      PROVE  g.day \in D /\ Updates(P, g.day, s)
  <2>1. First(H, G, g.day) > t
    BY <1>3
  <2>2. g.day \in DOMAIN P
    BY <1>3, <2>1 DEF SignalHolds
  <2>3. OrderHolds(H, t, P, G, g.day)
    BY <2>2
  <2>4. P[g.day].due = t + 1 /\ g.stock \in DOMAIN P[g.day].updates
    BY <1>3, <2>3 DEF OrderHolds
  <2>5. QED BY <1>3, <2>2, <2>4 DEF Updates
<1>4. CASE (\A n \in D : ~Updates(P, n, s)) /\ V[s] = W[s]
  <2>1. ASSUME NEW g \in F PROVE g \in E
    <3>1. First(H, G, g.day) # t + 1
      <4> SUFFICES ASSUME First(H, G, g.day) = t + 1 PROVE FALSE
        OBVIOUS
      <4>1. g \in G /\ g.stock = s /\ Openings(H, G, g.day) # {}
        BY <1>2
      <4>2. g.day \in D /\ Updates(P, g.day, s)
        BY <1>3, <4>1
      <4>3. QED BY <1>4, <4>2
    <3>2. First(H, G, g.day) <= t
      <4>1. First(H, G, g.day) \in Int /\ First(H, G, g.day) <= t + 1
        BY <1>2
      <4>2. QED BY <3>1, <4>1
    <3>3. QED BY <1>2, <3>2 DEF Effective
  <2>2. ASSUME NEW g \in E PROVE g \in F
    <3>1. g \in G /\ g.stock = s /\ Openings(H, G, g.day) # {} /\ First(H, G, g.day) <= t
      BY DEF Effective
    <3>2. First(H, G, g.day) <= t + 1
      BY <1>1, <3>1
    <3>3. QED BY <1>1, <3>1, <3>2 DEF Effective
  <2>3. F = E
    BY <2>1, <2>2
  <2>4. \A g, h \in E : Later(H, G \union K, h, g) <=> Later(H, G, h, g)
    BY <1>1, <1>2, <2>3 DEF Later
  <2>5. \/ E = {} /\ W[s] = 0
        \/ \E g \in E : W[s] = g.weight /\ \A h \in E : Later(H, G, h, g)
    BY DEF Rules
  <2> HIDE DEF E, F
  <2>6. \/ F = {} /\ V[s] = 0
        \/ \E g \in F : V[s] = g.weight /\ \A h \in F : Later(H, G \union K, h, g)
    BY <1>4, <2>3, <2>4, <2>5
  <2>7. QED BY <2>6 DEF Rules, F
<1>5. ASSUME NEW n \in D, Updates(P, n, s), V[s] = P[n].updates[s],
             \A m \in D : Updates(P, m, s) => m <= n
      PROVE  Rules(H, t + 1, V, G \union K, s)
  <2>1. OrderHolds(H, t, P, G, n) /\ P[n].due = t + 1
    OBVIOUS
  <2>2. PICK g \in G : g.day = n /\ g.stock = s
    BY <1>5, <2>1 DEF OrderHolds, Updates
  <2>3. V[s] = g.weight /\ Openings(H, G, g.day) # {} /\ First(H, G, g.day) = t + 1
    BY <1>5, <2>1, <2>2 DEF OrderHolds
  <2>4. g \in F
    <3>1. Openings(H, G \union K, g.day) # {} /\ First(H, G \union K, g.day) = t + 1
      BY <1>1, <2>2, <2>3
    <3>2. First(H, G \union K, g.day) <= t + 1
      BY <3>1
    <3>3. QED BY <2>2, <3>1, <3>2 DEF Effective
  <2>5. ASSUME NEW h \in F PROVE Later(H, G \union K, h, g)
    <3>1. /\ h \in G /\ Openings(H, G, h.day) # {} /\ h.stock = s
          /\ First(H, G, h.day) \in Int /\ First(H, G, h.day) <= t + 1
      BY <1>2
    <3>2. CASE First(H, G, h.day) = t + 1
      <4>1. h.day <= g.day
        BY <1>3, <1>5, <2>2, <3>1, <3>2
      <4>2. First(H, G \union K, h.day) = First(H, G \union K, g.day)
        BY <1>1, <2>2, <2>3, <3>1, <3>2
      <4>3. QED BY <4>1, <4>2 DEF Later
    <3>3. CASE First(H, G, h.day) # t + 1
      <4>1. First(H, G, h.day) < First(H, G, g.day)
        BY <2>3, <3>1, <3>3
      <4>2. QED BY <1>1, <2>2, <3>1, <4>1 DEF Later
    <3>4. QED BY <3>2, <3>3
  <2> HIDE DEF F
  <2>6. QED BY <2>3, <2>4, <2>5 DEF Rules, F
<1>6. QED BY <1>4, <1>5 DEF Written

(* A weight in force is the newest signal's, if bars are published in      *)
(* order: an older signal's first open is then no later.                   *)
LEMMA RulesAreStated ==
    ASSUME SimulationInv PROVE Simulation!NewestSignalRules
<1> DEFINE H == history
           G == signals
<1>1. ASSUME NEW n PROVE Simulation!OpensFor(n) = Openings(H, G, n)
  BY DEF Simulation!OpensFor, Simulation!Days, Openings
<1>2. ASSUME NEW n PROVE Simulation!FirstOpen(n) = First(H, G, n)
  BY <1>1 DEF Simulation!FirstOpen, First
<1>3. ASSUME NEW g \in G
      PROVE  g.day \in Int /\ g.stock \in Stocks /\ H \in Histories /\ Len(H[1]) \in Nat
  BY SimulationAssumption DEF SimulationInv, Simulated, SignalHolds
<1>4. ASSUME NEW g \in G
      PROVE  /\ Openings(H, G, g.day) # {} =>
                  /\ First(H, G, g.day) \in Openings(H, G, g.day)
                  /\ \A d \in Openings(H, G, g.day) : First(H, G, g.day) <= d
             /\ Openings(H, G, g.day) \subseteq Int
  BY <1>3, FirstIsOpening DEF Openings
<1>5. ASSUME NEW s \in Stocks PROVE Simulation!TakenEffect(s) = Effective(H, today, G, s)
  <2>1. today \in Nat
    BY DEF SimulationInv, Simulated
  <2>2. ASSUME NEW g \in G
        PROVE  (\E d \in Openings(H, G, g.day) : d <= today)
                 <=> Openings(H, G, g.day) # {} /\ First(H, G, g.day) <= today
    BY <1>4, <2>1
  <2>3. QED BY <1>1, <2>2 DEF Simulation!TakenEffect, Effective
<1>6. ASSUME Simulation!PublishedInOrder, NEW s \in Stocks,
             NEW g \in Effective(H, today, G, s), NEW h \in Effective(H, today, G, s),
             Later(H, G, h, g)
      PROVE  h.day <= g.day
  <2> SUFFICES ASSUME g.day < h.day PROVE FALSE
    BY <1>3 DEF Effective
  <2>1. g \in G /\ h \in G /\ Openings(H, G, g.day) # {} /\ Openings(H, G, h.day) # {}
    BY DEF Effective
  <2>2. First(H, G, h.day) \in Openings(H, G, g.day)
    <3> DEFINE d == First(H, G, h.day)
    <3>1. d \in Openings(H, G, h.day)
      BY <1>4, <2>1
    <3>2. d \in 1..Len(H[1]) /\ d >= h.day + Delay /\ d > H[h.stock][h.day].published
      BY <2>1, <3>1 DEF Openings
    <3>3. d >= g.day + Delay
      BY <1>3, <2>1, <3>2, SimulationAssumption
    <3>4. ASSUME NEW f \in G, f.day = g.day PROVE d > H[f.stock][g.day].published
      <4>1. g.day \in 1..Len(H[1]) /\ h.day \in 1..Len(H[1])
        BY <1>3, <2>1 DEF SimulationInv, Simulated, SignalHolds, Simulation!NoHistory
      <4>2. H[f.stock][g.day].published <= H[h.stock][h.day].published
        BY <1>3, <1>6, <2>1, <4>1 DEF Simulation!PublishedInOrder, Simulation!Days
      <4>3. H[f.stock][g.day].published \in Nat /\ H[h.stock][h.day].published \in Nat
        BY <1>3, <2>1, <4>1, SimulationAssumption
      <4>4. QED BY <3>2, <4>2, <4>3
    <3> HIDE DEF d
    <3>5. QED BY <3>2, <3>3, <3>4 DEF Openings, d
  <2>3. First(H, G, g.day) <= First(H, G, h.day)
    BY <1>4, <2>1, <2>2
  <2>4. First(H, G, g.day) \in Int /\ First(H, G, h.day) \in Int
    BY <1>4, <2>1
  <2>5. QED BY <1>3, <1>6, <2>1, <2>3, <2>4 DEF Later
<1>7. ASSUME NEW s \in Stocks
      PROVE  LET effective == Simulation!TakenEffect(s)
             IN  \/ effective = {} /\ targets[s] = 0
                 \/ \E g \in effective :
                      /\ targets[s] = g.weight
                      /\ \A h \in effective :
                           /\ \/ Simulation!FirstOpen(h.day) < Simulation!FirstOpen(g.day)
                              \/ /\ Simulation!FirstOpen(h.day) = Simulation!FirstOpen(g.day)
                                 /\ h.day <= g.day
                           /\ Simulation!PublishedInOrder => h.day <= g.day
  <2>1. Rules(H, today, targets, G, s)
    BY DEF SimulationInv, Simulated
  <2>2. CASE Effective(H, today, G, s) = {} /\ targets[s] = 0
    BY <1>5, <2>2
  <2>3. ASSUME NEW g \in Effective(H, today, G, s), targets[s] = g.weight,
               \A h \in Effective(H, today, G, s) : Later(H, G, h, g)
        PROVE  \E f \in Simulation!TakenEffect(s) :
                 /\ targets[s] = f.weight
                 /\ \A h \in Simulation!TakenEffect(s) :
                      /\ \/ Simulation!FirstOpen(h.day) < Simulation!FirstOpen(f.day)
                         \/ /\ Simulation!FirstOpen(h.day) = Simulation!FirstOpen(f.day)
                            /\ h.day <= f.day
                      /\ Simulation!PublishedInOrder => h.day <= f.day
    <3>1. g \in Simulation!TakenEffect(s)
      BY <1>5
    <3>2. ASSUME NEW h \in Simulation!TakenEffect(s)
          PROVE  /\ \/ Simulation!FirstOpen(h.day) < Simulation!FirstOpen(g.day)
                    \/ /\ Simulation!FirstOpen(h.day) = Simulation!FirstOpen(g.day)
                       /\ h.day <= g.day
                 /\ Simulation!PublishedInOrder => h.day <= g.day
      <4>1. h \in Effective(H, today, G, s)
        BY <1>5
      <4>2. Later(H, G, h, g)
        BY <2>3, <4>1
      <4>3. Simulation!PublishedInOrder => h.day <= g.day
        BY <1>6, <4>1, <4>2
      <4>4. QED BY <1>2, <4>2, <4>3 DEF Later
    <3>3. QED BY <2>3, <3>1, <3>2
  <2>4. QED BY <2>1, <2>2, <2>3 DEF Rules
<1>8. QED BY <1>7 DEF Simulation!NewestSignalRules

-----------------------------------------------------------------------------
(* The orders and signals after a day.                                     *)

Decided(t, u) == {[stock |-> s, day |-> t, weight |-> u[s]] : s \in DOMAIN u}

LEMMA DecidedFields ==
    ASSUME NEW t, NEW u
    PROVE  /\ \A g \in Decided(t, u) : g.day = t /\ g.stock \in DOMAIN u /\ g.weight = u[g.stock]
           /\ \A s \in DOMAIN u : \E g \in Decided(t, u) : g.stock = s
<1>1. ASSUME NEW g \in Decided(t, u)
      PROVE  g.day = t /\ g.stock \in DOMAIN u /\ g.weight = u[g.stock]
  <2>1. PICK s \in DOMAIN u : g = [stock |-> s, day |-> t, weight |-> u[s]]
    BY DEF Decided
  <2>2. QED BY <2>1
<1>2. ASSUME NEW s \in DOMAIN u PROVE \E g \in Decided(t, u) : g.stock = s
  <2> DEFINE g == [stock |-> s, day |-> t, weight |-> u[s]]
  <2>1. g \in Decided(t, u) /\ g.stock = s
    BY DEF Decided
  <2>2. QED BY <2>1
<1>3. QED BY <1>1, <1>2

(* A bar is past all publications if it is past the last one.              *)
LEMMA EligibleDays ==
    ASSUME NEW t \in Nat, history \in Histories, t \in 1..Len(history[1]),
           NEW u, DOMAIN u \subseteq Stocks, DOMAIN u # {},
           NEW G, \A g \in G : g.day # t
    PROVE  Simulation!eligible_execution_days(t, Simulation!Max({history[s][t].published : s \in DOMAIN u}))
             = Openings(history, G \union Decided(t, u), t)
<1> DEFINE f == [s \in DOMAIN u |-> history[s][t].published]
           S == {history[s][t].published : s \in DOMAIN u}
           K == Decided(t, u)
<1>1. f \in Surjection(DOMAIN u, S)
  BY DEF Surjection
<1>2. IsFiniteSet(S)
  <2>1. IsFiniteSet(DOMAIN u)
    BY SimulationAssumption, FS_Subset
  <2> HIDE DEF f, S
  <2>2. QED BY <1>1, <2>1, FS_Surjection
<1>3. ASSUME NEW s \in DOMAIN u PROVE history[s][t].published \in Nat
  BY SimulationAssumption
<1>4. S \subseteq Int /\ S # {}
  BY <1>3
<1>5. Simulation!Max(S) \in S /\ \A y \in S : y <= Simulation!Max(S)
  <2> HIDE DEF S
  <2>1. QED BY <1>2, <1>4, LatestIsInside
<1>6. ASSUME NEW d \in 1..Len(history[1])
      PROVE  d > Simulation!Max(S)
               <=> \A g \in G \union K : g.day = t => d > history[g.stock][t].published
  <2>0. Len(history[1]) \in Nat /\ d \in Int
    BY SimulationAssumption
  <2>1. d > Simulation!Max(S) <=> \A s \in DOMAIN u : d > history[s][t].published
    <3>1. ASSUME d > Simulation!Max(S), NEW s \in DOMAIN u PROVE d > history[s][t].published
      <4>1. history[s][t].published \in S
        OBVIOUS
      <4> HIDE DEF S
      <4>2. QED BY <1>4, <1>5, <2>0, <3>1, <4>1
    <3>2. ASSUME \A s \in DOMAIN u : d > history[s][t].published PROVE d > Simulation!Max(S)
      <4>1. PICK s \in DOMAIN u : Simulation!Max(S) = history[s][t].published
        BY <1>5
      <4> HIDE DEF S
      <4>2. QED BY <3>2, <4>1
    <3>3. QED BY <3>1, <3>2
  <2>2. (\A s \in DOMAIN u : d > history[s][t].published)
          <=> \A g \in G \union K : g.day = t => d > history[g.stock][t].published
    <3>1. \A g \in G \union K : g.day = t => g \in K
      OBVIOUS
    <3> HIDE DEF K
    <3>2. /\ \A g \in K : g.day = t /\ g.stock \in DOMAIN u
          /\ \A s \in DOMAIN u : \E g \in K : g.stock = s
      BY DecidedFields DEF K
    <3>3. QED BY <3>1, <3>2
  <2>3. QED BY <2>1, <2>2
<1> HIDE DEF S, K
<1>7. QED BY <1>6 DEF Simulation!eligible_execution_days, Simulation!Days, Openings, S, K

(* P is rewritten to Q: what is not due stays, a new order is put in.      *)
Waiting(P, t) == {n \in DOMAIN P : P[n].due # t}
Requeued(H, t, P, G, u, Q) ==
    /\ \A n \in Waiting(P, t) : n \in DOMAIN Q /\ Q[n] = P[n]
    /\ \/ DOMAIN Q = Waiting(P, t) /\ (DOMAIN u = {} \/ Openings(H, G, t) = {})
       \/ /\ DOMAIN Q = Waiting(P, t) \union {t} /\ Openings(H, G, t) # {}
          /\ Q[t].due = First(H, G, t) /\ Q[t].updates = u

LEMMA OrdersAfter ==
    ASSUME NEW H, NEW t \in Nat, Len(H[1]) \in Nat, NEW P, NEW G, DOMAIN P \subseteq 1..t,
           \A n \in DOMAIN P : OrderHolds(H, t, P, G, n),
           \A g \in G : SignalHolds(H, t, P, G, g),
           NEW u, DOMAIN u \subseteq Stocks, NEW K, K = Decided(t + 1, u),
           NEW Q, Requeued(H, t + 1, P, G \union K, u, Q)
    PROVE  /\ DOMAIN Q \subseteq 1..(t + 1)
           /\ \A n \in DOMAIN Q : OrderHolds(H, t + 1, Q, G \union K, n)
           /\ \A g \in G \union K : SignalHolds(H, t + 1, Q, G \union K, g)
<1>0. t + 1 \in Nat /\ t + 1 \in 1..(t + 1) /\ \A n \in 1..t : n # t + 1 /\ n \in 1..(t + 1)
  OBVIOUS
<1>1. /\ \A g \in K : g.day = t + 1 /\ g.stock \in DOMAIN u /\ g.weight = u[g.stock]
      /\ \A s \in DOMAIN u : \E g \in K : g.stock = s
  BY DecidedFields
<1>2. ASSUME NEW n \in 1..t
      PROVE  /\ Openings(H, G \union K, n) = Openings(H, G, n)
             /\ First(H, G \union K, n) = First(H, G, n)
             /\ Openings(H, G, n) # {} => First(H, G, n) \in Int
  <2>1. \A k \in K : k.day # n
    BY <1>0, <1>1
  <2>2. Openings(H, G, n) # {} => First(H, G, n) \in Openings(H, G, n)
    BY FirstIsOpening
  <2>3. Openings(H, G, n) \subseteq Int
    BY DEF Openings
  <2>4. Openings(H, G \union K, n) = Openings(H, G, n)
    BY <2>1, OpeningsKeep
  <2>5. First(H, G \union K, n) = First(H, G, n)
    BY <2>1, FirstKeeps
  <2>6. QED BY <2>2, <2>3, <2>4, <2>5
<1>3. DOMAIN Q \subseteq 1..(t + 1)
  BY <1>0 DEF Requeued, Waiting
<1>4. ASSUME NEW n \in Waiting(P, t + 1) PROVE OrderHolds(H, t + 1, Q, G \union K, n)
  <2>1. n \in 1..t /\ OrderHolds(H, t, P, G, n) /\ Q[n] = P[n] /\ P[n].due # t + 1
    BY DEF Requeued, Waiting
  <2>2. P[n].due \in Int /\ P[n].due > t + 1
    BY <1>2, <2>1 DEF OrderHolds
  <2>3. {f \in G \union K : f.day = n} = {f \in G : f.day = n}
    BY <1>0, <1>1, <2>1
  <2>4. QED BY <1>2, <2>1, <2>2, <2>3 DEF OrderHolds
<1>5. ASSUME NEW n \in DOMAIN Q \ Waiting(P, t + 1) PROVE OrderHolds(H, t + 1, Q, G \union K, n)
  <2>1. /\ n = t + 1 /\ Openings(H, G \union K, n) # {}
        /\ Q[n].due = First(H, G \union K, n) /\ Q[n].updates = u
    <3>1. DOMAIN Q # Waiting(P, t + 1)
      OBVIOUS
    <3>2. /\ DOMAIN Q = Waiting(P, t + 1) \union {t + 1}
          /\ Openings(H, G \union K, t + 1) # {}
          /\ Q[t + 1].due = First(H, G \union K, t + 1) /\ Q[t + 1].updates = u
      BY <3>1 DEF Requeued
    <3>3. n = t + 1
      BY <3>2
    <3>4. QED BY <3>2, <3>3
  <2>2. First(H, G \union K, n) > n
    BY <1>0, <2>1, NewSignalsWait
  <2>3. {f \in G \union K : f.day = n} = K
    <3>1. \A g \in G : g.day \in 1..t
      BY DEF SignalHolds
    <3>2. n = t + 1 /\ \A g \in G : g.day # n
      BY <1>0, <2>1, <3>1
    <3>3. \A g \in K : g.day = n
      BY <1>1, <3>2
    <3>4. QED BY <3>2, <3>3
  <2>4. DOMAIN u = {g.stock : g \in K}
    BY <1>1
  <2>5. \A g \in G \union K : g.day = n => u[g.stock] = g.weight
    BY <1>1, <2>3
  <2>6. QED BY <2>1, <2>2, <2>3, <2>4, <2>5 DEF OrderHolds
<1>6. ASSUME NEW g \in G PROVE SignalHolds(H, t + 1, Q, G \union K, g)
  <2>1. g.stock \in Stocks /\ g.day \in 1..t
    BY DEF SignalHolds
  <2>2. ASSUME Openings(H, G, g.day) # {}, First(H, G, g.day) > t + 1 PROVE g.day \in DOMAIN Q
    <3>1. First(H, G, g.day) \in Int /\ First(H, G, g.day) > t
      BY <1>2, <2>1, <2>2
    <3>2. g.day \in DOMAIN P
      BY <2>2, <3>1 DEF SignalHolds
    <3>3. P[g.day].due = First(H, G, g.day)
      BY <3>2 DEF OrderHolds
    <3>4. P[g.day].due # t + 1
      BY <2>2, <3>1, <3>3
    <3>5. g.day \in Waiting(P, t + 1)
      BY <3>2, <3>4 DEF Waiting
    <3>6. QED BY <3>5 DEF Requeued
  <2>3. QED BY <1>0, <1>2, <2>1, <2>2 DEF SignalHolds
<1>7. ASSUME NEW g \in K PROVE SignalHolds(H, t + 1, Q, G \union K, g)
  <2>1. g.day = t + 1 /\ g.stock \in DOMAIN u
    BY <1>1
  <2>2. Openings(H, G \union K, t + 1) # {} => t + 1 \in DOMAIN Q
    BY <2>1 DEF Requeued
  <2>3. QED BY <1>0, <2>1, <2>2 DEF SignalHolds
<1>8. QED BY <1>3, <1>4, <1>5, <1>6, <1>7

LEMMA OrdersAreQueued ==
    ASSUME NEW t \in Nat, history \in Histories, t \in 1..Len(history[1]),
           NEW u, DOMAIN u \subseteq Stocks, t \notin DOMAIN pending,
           NEW G, \A g \in G : g.day # t
    PROVE  Requeued(history, t, pending, G \union Decided(t, u), u, Simulation!Queued(t, u))
<1> DEFINE later == {n \in DOMAIN pending : pending[n].due # t}
           days == Simulation!eligible_execution_days(
                       t, Simulation!Max({history[s][t].published : s \in DOMAIN u}))
           order == [due |-> Simulation!Min(days), cause |-> "signal", decided |-> t,
                     updates |-> u]
           Q == Simulation!Queued(t, u)
           K == Decided(t, u)
<1>1. later = Waiting(pending, t) /\ \A n \in later : n \in DOMAIN pending
  BY DEF Waiting
<1>2. Q = IF DOMAIN u = {} THEN [n \in later |-> pending[n]]
          ELSE IF days = {} THEN [n \in later |-> pending[n]]
          ELSE [n \in later \union {t} |-> IF n = t THEN order ELSE pending[n]]
  BY DEF Simulation!Queued
<1>3. DOMAIN u # {} => days = Openings(history, G \union K, t)
  BY EligibleDays
<1>4. order.due = Simulation!Min(days) /\ order.updates = u
  OBVIOUS
<1>5. \A n \in later : n # t
  OBVIOUS
<1> HIDE DEF later, days, order, Q, K
<1>6. CASE DOMAIN u = {} \/ days = {}
  <2>1. Q = [n \in later |-> pending[n]]
    BY <1>2, <1>6
  <2>2. DOMAIN Q = later /\ \A n \in later : Q[n] = pending[n]
    BY <2>1
  <2>3. QED BY <1>1, <1>3, <1>6, <2>2 DEF Requeued, Q, K
<1>7. CASE DOMAIN u # {} /\ days # {}
  <2>1. Q = [n \in later \union {t} |-> IF n = t THEN order ELSE pending[n]]
    BY <1>2, <1>7
  <2>2. /\ DOMAIN Q = later \union {t} /\ Q[t] = order
        /\ \A n \in later : n \in DOMAIN Q /\ Q[n] = pending[n]
    BY <1>5, <1>7, <2>1
  <2>3. Q[t].due = First(history, G \union K, t) /\ Q[t].updates = u
    BY <1>3, <1>4, <1>7, <2>2 DEF First
  <2>4. QED BY <1>1, <1>3, <1>7, <2>2, <2>3 DEF Requeued, Q, K
<1>8. QED BY <1>6, <1>7

LEMMA DecisionsAreOfStocks ==
    ASSUME NEW t PROVE DOMAIN Simulation!Decisions(t) \subseteq Stocks
BY DEF Simulation!Decisions, Simulation!Restrict

-----------------------------------------------------------------------------
(* The steps.                                                              *)

LEMMA SimulationDay ==
    ASSUME SimulationInv, Simulation!Day PROVE SimulationInv'
<1> DEFINE t == today + 1
           u == Simulation!Decisions(t)
           K == Decided(t, u)
<1>1. /\ history # Simulation!NoHistory /\ today < Len(history[1])
      /\ today' = t /\ history' = history
      /\ targets' = Simulation!Executed(t).targets
      /\ signals' = signals \union K /\ pending' = Simulation!Queued(t, u)
  BY DEF Simulation!Day, Decided
<1>2. /\ today \in Nat /\ history \in Histories /\ DOMAIN targets = Stocks
      /\ DOMAIN pending \subseteq 1..today
      /\ \A n \in DOMAIN pending : OrderHolds(history, today, pending, signals, n)
      /\ \A g \in signals : SignalHolds(history, today, pending, signals, g)
      /\ \A s \in Stocks : Rules(history, today, targets, signals, s)
  BY <1>1 DEF SimulationInv, Simulated
<1>3. Len(history[1]) \in Nat
  BY <1>2, SimulationAssumption
<1>4. t \in Nat /\ t # 0 /\ t \in 1..Len(history[1]) /\ 1..today \subseteq 1..t
  BY <1>1, <1>2, <1>3
<1>5. DOMAIN u \subseteq Stocks
  BY DecisionsAreOfStocks
<1>6. \A g \in K : g.day = t
  BY DecidedFields
<1>7. t \notin DOMAIN pending /\ \A g \in signals : g.day # t
  BY <1>2 DEF SignalHolds
<1>8. /\ Written(pending, DueAt(t), targets, targets')
      /\ DOMAIN targets' = Stocks
  <2>1. DOMAIN pending \subseteq 1..t
    BY <1>2, <1>4
  <2> HIDE DEF t
  <2>2. QED BY <1>1, <1>2, <1>4, <2>1, OrdersWrite
<1>9. Requeued(history, t, pending, signals \union K, u, pending')
  <2> HIDE DEF t, u
  <2>1. QED BY <1>1, <1>2, <1>4, <1>5, <1>7, OrdersAreQueued
<1>10. \A s \in Stocks : Rules(history, t, targets', signals \union K, s)
  <2>1. DueAt(t) = {n \in DOMAIN pending : pending[n].due = today + 1}
    BY DEF DueAt
  <2>2. \A g \in K : g.day = today + 1
    BY <1>6
  <2> HIDE DEF K
  <2>3. ASSUME NEW s \in Stocks PROVE Rules(history, t, targets', signals \union K, s)
    BY <1>2, <1>3, <1>8, <2>1, <2>2, RulesAfter
  <2>4. QED BY <2>3
<1>11. /\ DOMAIN pending' \subseteq 1..t
       /\ \A n \in DOMAIN pending' : OrderHolds(history, t, pending', signals \union K, n)
       /\ \A g \in signals \union K : SignalHolds(history, t, pending', signals \union K, g)
  <2> HIDE DEF u
  <2>1. QED BY <1>2, <1>3, <1>5, <1>9, OrdersAfter
<1> HIDE DEF t, u, K
<1>12. Simulated(history, t, targets', pending', signals \union K)
  <2>1. t <= Len(history[1])
    BY <1>3, <1>4
  <2>2. QED BY <1>1, <1>2, <1>4, <1>8, <1>10, <1>11, <2>1 DEF Simulated
<1>13. QED BY <1>1, <1>12, SimulationNext

(* Nothing is decided before a history is chosen.                          *)
LEMMA SimulationStarts ==
    ASSUME SimulationInv, Simulation!Start PROVE SimulationInv'
<1>1. /\ history = Simulation!NoHistory /\ history' \in Histories
      /\ today' = today /\ targets' = targets /\ pending' = pending /\ signals' = signals
  BY DEF Simulation!Start
<1>2. today = 0 /\ signals = {} /\ DOMAIN pending = {}
  BY <1>1 DEF SimulationInv, Simulated
<1>3. /\ DOMAIN targets = Stocks
      /\ \A s \in Stocks : targets[s] = 0
  BY <1>2 DEF SimulationInv, Simulated, Rules, Effective
<1>4. Simulated(history', 0, targets, pending, {})
  BY <1>1, <1>2, <1>3, NothingSimulated
<1>5. QED BY <1>1, <1>2, <1>4, SimulationNext

LEMMA SimulationStep ==
    ASSUME SimulationInv, [Simulation!Next]_(Simulation!vars) PROVE SimulationInv'
<1>1. CASE Simulation!Start
  BY <1>1, SimulationStarts
<1>2. CASE Simulation!Day
  BY <1>2, SimulationDay
<1>3. CASE UNCHANGED Simulation!vars
  BY <1>3, SimulationNext DEF Simulation!vars, SimulationInv
<1>4. QED BY <1>1, <1>2, <1>3 DEF Simulation!Next

LEMMA SimulationStart == Simulation!Init => SimulationInv
<1> SUFFICES ASSUME Simulation!Init PROVE SimulationInv
  OBVIOUS
<1>1. /\ history = Simulation!NoHistory /\ today = 0 /\ signals = {}
      /\ targets = [s \in Stocks |-> 0] /\ DOMAIN pending = {}
  BY DEF Simulation!Init
<1>2. Simulated(history, 0, targets, pending, {})
  BY <1>1, NothingSimulated
<1>3. QED BY <1>1, <1>2 DEF SimulationInv

LEMMA SimulationMove ==
    ASSUME [Next]_vars PROVE [Simulation!Next]_(Simulation!vars)
BY DEF Next, vars, simulationVars, Simulation!vars

(* Backtest, _strategy_events and the execution loop of                    *)
(* backtesting/engine.py: whatever the prices, publications and strategies, *)
(* the weight in force of a stock is that of its signal whose first open   *)
(* came last: no order is executed before its bars were published, none is *)
(* lost or undone by an older one of the same open, and it is the newest   *)
(* signal whenever bars are published in order.                            *)
THEOREM NewestSignalRule == Spec => []NewestSignalRules
<1>1. Init => SimulationInv
  BY SimulationStart DEF Init
<1>2. SimulationInv /\ [Next]_vars => SimulationInv'
  BY SimulationStep, SimulationMove
<1>3. SimulationInv => NewestSignalRules
  BY RulesAreStated DEF NewestSignalRules
<1>4. QED BY <1>1, <1>2, <1>3, PTL DEF Spec

-----------------------------------------------------------------------------
(* Types of ImportRun.                                                     *)

Conditions == {"unknown", "healthy", "degraded", "unavailable"}
Dated(S) == \A b \in S : b.job \in ImportJobs /\ b.day \in Nat
Carries(x) ==
    /\ Dated(x.new) /\ x.health \in Conditions
    /\ x.step = "storing" => \A r \in x.records : r.day \in Nat

ImportTypes ==
    /\ Dated(bars) /\ health \in Conditions
    /\ \A j \in ImportJobs : executions[j] # Import!NotRunning => Carries(executions[j])

LEMMA ImportTypesStart == Import!Init => ImportTypes
BY DEF Import!Init, ImportTypes, Dated, Conditions

(* A step of a run that goes on, and one that ends it.                     *)
LEMMA RunCarries ==
    ASSUME ImportsInv, ImportTypes, NEW j \in ImportJobs, UNCHANGED <<bars, health>>,
           NEW x, x = Import!NotRunning \/ Carries(x), executions' = [executions EXCEPT ![j] = x]
    PROVE  ImportTypes'
<1>1. \A o \in ImportJobs : executions'[o] = IF o = j THEN x ELSE executions[o]
  BY DEF ImportsInv, Sound
<1>2. \A o \in ImportJobs : executions'[o] # Import!NotRunning => Carries(executions'[o])
  BY <1>1 DEF ImportTypes
<1>3. Dated(bars) /\ health \in Conditions
  BY DEF ImportTypes
<1>4. /\ \A b \in bars' : b.job \in ImportJobs /\ b.day \in Nat
      /\ health' \in Conditions
  BY <1>3 DEF Dated
<1>5. QED BY <1>2, <1>4 DEF ImportTypes, Dated, Carries, Import!NotRunning, Conditions

LEMMA RunCarried ==
    ASSUME ImportsInv, ImportTypes, NEW j \in ImportJobs,
           executions[j].step \in {"next", "storing", "done"}
    PROVE  Carries(executions[j]) /\ DOMAIN executions[j] = Fields
BY RunHolds DEF ImportTypes, Runs

LEMMA EndCarries ==
    ASSUME ImportsInv, ImportTypes, NEW j \in ImportJobs, UNCHANGED <<bars, health>>,
           executions[j].step \in {"next", "storing"}, NEW batchStatus, NEW status,
           NEW newHealth \in Conditions, Import!EndAs(j, batchStatus, status, newHealth)
    PROVE  ImportTypes'
<1> DEFINE x == executions[j]
           y == [x EXCEPT !.step = "done", !.row.status = status, !.health = newHealth,
                          !.batches[x.row.cursor + 1].status = batchStatus]
<1>1. Carries(x) /\ DOMAIN x = Fields
  BY RunCarried
<1>2. y.step = "done" /\ y.health = newHealth /\ y.new = x.new
  BY <1>1 DEF Fields
<1>3. executions' = [executions EXCEPT ![j] = y]
  BY DEF Import!EndAs
<1> HIDE DEF x, y
<1>4. Carries(y)
  BY <1>1, <1>2 DEF Carries
<1>5. QED BY <1>3, <1>4, RunCarries

LEMMA FetchCarries ==
    ASSUME ImportsInv, ImportTypes, NEW j \in ImportJobs, Import!Fetch(j) PROVE ImportTypes'
<1> DEFINE x == executions[j]
           symbol == Config[j].symbols[x.row.cursor + 1]
           known == {b \in Import!Visible(j) : b.symbol = symbol}
<1>1. /\ x.step = "next" /\ x.row.cursor < Size(j) /\ UNCHANGED <<bars, jobs, batches, health>>
  BY DEF Import!Fetch, Size, Import!Symbols
<1>2. x # Import!NotRunning /\ Runs(j, x, bars) /\ Carries(x) /\ DOMAIN x = Fields
  BY <1>1, RunHolds, RunCarried
<1>3. x.row.cursor + 1 \in DOMAIN Config[j].symbols
  <2>1. x.row.cursor \in Nat
    BY <1>2 DEF Runs, Tells, Import!ImportJob
  <2>2. QED BY <1>1, <2>1, ImportsAssumption DEF Size
<1>4. PICK answer \in Answers[symbol] :
        \/ \E batchStatus \in {"failed", "failed_validation"}, status \in {"failed", "retrying"},
              newHealth \in {"unavailable", "degraded"} :
                 Import!EndAs(j, batchStatus, status, newHealth)
        \/ /\ answer.kind \notin Import!Failures
           /\ \E records \in SUBSET answer.records :
                /\ executions' = [executions EXCEPT
                     ![j].step = "storing", ![j].records = records, ![j].known = known]
  <2>1. PICK answer \in Answers[symbol] :
          IF answer.kind \in Import!Failures THEN
              Import!EndAs(j, "failed",
                    IF answer.kind # "permanent" /\ x.row.attempt < Config[j].max_attempts
                    THEN "retrying" ELSE "failed",
                    IF answer.kind = "unreachable" THEN "unavailable" ELSE "degraded")
          ELSE
              LET records == {r \in answer.records : r.day >= Import!FetchFrom(j, symbol)}
              IN  IF Config[j].adjusted /\ \E r \in records : ~r.adjusted
                  THEN Import!EndAs(j, "failed", "failed", "degraded")
                  ELSE IF ~Import!is_valid(records)
                  THEN Import!EndAs(j, "failed_validation", "failed", "degraded")
                  ELSE executions' = [executions EXCEPT
                         ![j].step = "storing", ![j].records = records, ![j].known = known]
    BY Zenon DEF Import!Fetch, Import!Symbols
  <2> HIDE DEF symbol, known, x
  <2>2. CASE answer.kind \in Import!Failures
    BY <2>1, <2>2
  <2>3. CASE answer.kind \notin Import!Failures
    <3> DEFINE records == {r \in answer.records : r.day >= Import!FetchFrom(j, symbol)}
    <3>1. records \in SUBSET answer.records
      OBVIOUS
    <3> HIDE DEF records
    <3>2. QED BY <2>1, <2>3, <3>1, Zenon DEF records
  <2>4. QED BY <2>2, <2>3
<1>5. CASE \E batchStatus \in {"failed", "failed_validation"}, status \in {"failed", "retrying"},
              newHealth \in {"unavailable", "degraded"} :
                 Import!EndAs(j, batchStatus, status, newHealth)
  <2>1. \A h \in {"unavailable", "degraded"} : h \in Conditions
    BY DEF Conditions
  <2>2. QED BY <1>1, <1>5, <2>1, EndCarries
<1>6. ASSUME answer.kind \notin Import!Failures, NEW records \in SUBSET answer.records,
             executions' = [executions EXCEPT
               ![j].step = "storing", ![j].records = records, ![j].known = known]
      PROVE  ImportTypes'
  <2> DEFINE y == [x EXCEPT !.step = "storing", !.records = records, !.known = known]
  <2>1. executions' = [executions EXCEPT ![j] = y]
    BY <1>6 DEF ImportsInv, Sound
  <2>2. \A r \in records : r.day \in Nat
    BY <1>3, <1>6, ImportsAssumption DEF Import!Failures
  <2>3. y.new = x.new /\ y.health = x.health /\ y.records = records
    BY <1>2 DEF Fields
  <2> HIDE DEF y, x
  <2>4. Carries(y)
    BY <1>2, <2>2, <2>3 DEF Carries
  <2>5. QED BY <1>1, <2>1, <2>4, RunCarries
<1>7. QED BY <1>4, <1>5, <1>6

LEMMA StoreCarries ==
    ASSUME ImportsInv, ImportTypes, NEW j \in ImportJobs, Import!Store(j) PROVE ImportTypes'
<1> DEFINE x == executions[j]
           i == x.row.cursor + 1
           fetched == {Import!PriceBar(Config[j].symbols[i], r, j) : r \in x.records}
           inserted == IF Config[j].dry_run THEN {}
                       ELSE {b \in fetched : ~\E k \in x.known : Import!SameBar(k, b)}
           ins == Import!Cardinality(inserted)
           skip == Import!Cardinality(fetched) - ins
           y == [x EXCEPT !.step = "next", !.new = @ \union inserted,
                   !.row.cursor = i, !.row.inserted = @ + ins, !.row.skipped = @ + skip,
                   !.batches[i] = [status |-> "succeeded", inserted |-> @.inserted + ins,
                                   skipped |-> @.skipped + skip],
                   !.observed = @ \/ x.records # {}]
<1>1. x.step = "storing" /\ UNCHANGED <<bars, health>>
  BY DEF Import!Store
<1>2. Carries(x) /\ DOMAIN x = Fields
  BY <1>1, RunCarried
<1>3. Dated(inserted)
  BY <1>1, <1>2 DEF Carries, Dated, Import!PriceBar
<1>4. \/ Import!EndAs(j, "failed", "failed", "degraded")
      \/ executions' = [executions EXCEPT ![j] = y]
  BY DEF Import!Store, Import!Symbols
<1> HIDE DEF inserted, fetched, ins, skip, i
<1>5. y.step = "next" /\ y.health = x.health /\ y.new = x.new \union inserted
  <2> HIDE DEF x
  <2>1. QED BY <1>2 DEF Fields
<1> HIDE DEF x, y
<1>6. Carries(y)
  BY <1>2, <1>3, <1>5 DEF Carries, Dated
<1>7. CASE Import!EndAs(j, "failed", "failed", "degraded")
  BY <1>1, <1>7, EndCarries DEF Conditions, x
<1>8. QED BY <1>1, <1>4, <1>6, <1>7, RunCarries

LEMMA SucceedCarries ==
    ASSUME ImportsInv, ImportTypes, NEW j \in ImportJobs, Import!Succeed(j) PROVE ImportTypes'
<1> DEFINE x == executions[j]
           y == [x EXCEPT !.step = "done", !.row.status = "succeeded",
                          !.health = IF x.observed THEN "healthy" ELSE @]
<1>1. x.step = "next" /\ UNCHANGED <<bars, health>>
  BY DEF Import!Succeed
<1>2. Carries(x) /\ DOMAIN x = Fields
  BY <1>1, RunCarried
<1>3. executions' = [executions EXCEPT ![j] = y]
  BY DEF Import!Succeed, ImportsInv, Sound
<1>4. y.step = "done" /\ y.health \in {x.health, "healthy"} /\ y.new = x.new
  BY <1>2 DEF Fields
<1> HIDE DEF x, y
<1>5. Carries(y)
  BY <1>2, <1>4 DEF Carries, Conditions
<1>6. QED BY <1>1, <1>3, <1>5, RunCarries

LEMMA CommitCarries ==
    ASSUME ImportsInv, ImportTypes, NEW j \in ImportJobs, Import!Commit(j) PROVE ImportTypes'
<1>1. Carries(executions[j])
  BY RunCarried DEF Import!Commit
<1>2. bars' = bars \union executions[j].new /\ health' = executions[j].health
  BY DEF Import!Commit
<1>3. /\ \A b \in bars' : b.job \in ImportJobs /\ b.day \in Nat
      /\ health' \in Conditions
  BY <1>1, <1>2 DEF Carries, Dated, ImportTypes
<1>4. \A o \in ImportJobs : executions'[o] = IF o = j THEN Import!NotRunning ELSE executions[o]
  BY DEF Import!Commit, ImportsInv, Sound
<1>5. \A o \in ImportJobs : executions'[o] # Import!NotRunning => Carries(executions'[o])
  BY <1>4 DEF ImportTypes
<1>6. QED BY <1>3, <1>5 DEF ImportTypes, Dated, Carries, Import!NotRunning, Conditions

LEMMA ImportTypesStep == ImportsInv /\ ImportTypes /\ [Import!Next]_(Import!vars) => ImportTypes'
<1> SUFFICES ASSUME ImportsInv, ImportTypes, [Import!Next]_(Import!vars) PROVE ImportTypes'
  OBVIOUS
<1>1. ASSUME NEW j \in ImportJobs, Import!Begin(j) PROVE ImportTypes'
  <2> DEFINE x == [step |-> "next", row |-> [jobs[j] EXCEPT !.attempt = @ + 1],
                   batches |-> batches[j], new |-> {}, records |-> {}, known |-> {},
                   observed |-> FALSE, health |-> health]
  <2>1. executions' = [executions EXCEPT ![j] = x] /\ UNCHANGED <<bars, health>>
    BY <1>1 DEF Import!Begin
  <2>2. Carries(x)
    BY DEF Carries, Dated, ImportTypes
  <2> HIDE DEF x
  <2>3. QED BY <2>1, <2>2, RunCarries
<1>2. ASSUME NEW j \in ImportJobs, Import!Die(j) PROVE ImportTypes'
  BY <1>2, RunCarries DEF Import!Die
<1>3. CASE UNCHANGED <<bars, executions, health>>
  BY <1>3 DEF ImportTypes, Dated, Carries, Import!NotRunning, Conditions
<1>4. QED BY <1>1, <1>2, <1>3, FetchCarries, StoreCarries, SucceedCarries, CommitCarries
     DEF Import!Next, Import!vars, Import!request_cancellation, Import!restart_import_job

LEMMA ImportTyped == ImportsInv /\ ImportTypes => Import!TypeOK
<1> SUFFICES ASSUME ImportsInv, ImportTypes PROVE Import!TypeOK
  OBVIOUS
<1>1. ASSUME NEW j \in ImportJobs
      PROVE  /\ jobs[j] \in Import!ImportJob
             /\ batches[j] \in [DOMAIN Import!Symbols(j) -> Import!ImportBatch]
             /\ executions[j].step \in {"none", "next", "storing", "done"}
  <2>1. Tells(j, jobs[j], batches[j], Own(j, bars))
    BY DEF ImportsInv, Sound
  <2>2. DOMAIN Import!Symbols(j) = 1..Size(j)
    BY ImportsAssumption DEF Import!Symbols, Size
  <2>3. executions[j] # Import!NotRunning => executions[j].step \in {"next", "storing", "done"}
    BY DEF ImportsInv, Sound, Runs
  <2>4. executions[j] = Import!NotRunning => executions[j].step = "none"
    BY DEF Import!NotRunning
  <2>5. QED BY <2>1, <2>2, <2>3, <2>4 DEF Tells
<1>2. QED BY <1>1 DEF Import!TypeOK, ImportTypes, Dated, Conditions

-----------------------------------------------------------------------------
(* Types of Backtest: prices are positive, and so is what is bought and    *)
(* sold.                                                                   *)

LEMMA PriceTypes ==
    ASSUME NEW base \in Nat \ {0}
    PROVE  /\ Simulation!execution_price(base, "sell") \in Nat
           /\ Simulation!execution_price(base, "buy") \in Nat \ {0}
<1>1. ASSUME NEW n \in Nat
      PROVE  /\ Simulation!RoundHalfEven(n, 100) \in Nat
             /\ n >= 100 => Simulation!RoundHalfEven(n, 100) # 0
  BY <1>1 DEF Simulation!RoundHalfEven
<1>2. PICK f \in 0..100 : f = Friction
  BY PricesAssumption
<1>3. base * (100 - f) \in Nat /\ base * (100 + f) \in Nat /\ base * (100 + f) >= 100
  <2>1. ASSUME NEW g \in Nat PROVE base * g \in Nat /\ base * g >= g
    OBVIOUS
  <2>2. 100 - f \in Nat /\ 100 + f \in Nat /\ 100 + f >= 100
    OBVIOUS
  <2>3. QED BY <2>1, <2>2
<1>4. QED BY <1>1, <1>2, <1>3 DEF Simulation!execution_price

LEMMA LargerIsNat == \A n \in Int : Simulation!Max({n, 0}) \in Nat
BY DEF Simulation!Max

LEMMA SmallerIsInt == \A m, n \in Int : Simulation!Min({m, n}) \in Int
BY DEF Simulation!Min

LEMMA AffordableIsInt ==
    ASSUME NEW wish \in Int, NEW price \in Nat \ {0}, NEW cash \in Int
    PROVE  Simulation!Affordable(wish, price, cash) \in Int
<1>1. PICK left \in Nat : left = Simulation!Max({cash - Commission, 0})
  BY LargerIsNat, PricesAssumption
<1>2. left \div price \in Nat
  OBVIOUS
<1>3. QED BY <1>1, <1>2 DEF Simulation!Affordable

LEMMA ValueIsInt ==
    ASSUME NEW q, NEW price, \A s \in Stocks : q[s] \in Int /\ price[s] \in Int
    PROVE  Simulation!Value(q, price) \in Int
<1> DEFINE f == [s \in Stocks |-> q[s] * price[s]]
<1>1. SumFunctionOnSet(f, Stocks) \in Int
  <2>1. \A s \in Stocks : f[s] \in Int
    OBVIOUS
  <2> HIDE DEF f
  <2>2. QED BY <2>1, SumIsInt, SimulationAssumption
<1>2. Simulation!Value(q, price) = SumFunctionOnSet(f, Stocks)
  BY DEF SumFunctionOnSet, FoldFunctionOnSet, MapThenFoldSet, Simulation!Value,
         Simulation!MapThenSumSet, Simulation!MapThenFoldSet
<1>3. QED BY <1>1, <1>2

LEMMA DivisorIsPositive ==
    \A n \in Int, limit \in Nat, o \in Nat \ {0} : n > limit => n * 100 * o \in Nat \ {0}
<1>1. ASSUME NEW m \in Nat \ {0}, NEW n \in Nat \ {0} PROVE m * n \in Nat \ {0}
  OBVIOUS
<1>2. ASSUME NEW n \in Int, NEW limit \in Nat, NEW o \in Nat \ {0}, n > limit
      PROVE  n * 100 * o \in Nat \ {0}
  <2>1. PICK m \in Nat \ {0} : m = n * 100
    BY <1>2
  <2>2. m * o \in Nat \ {0}
    BY <1>1
  <2>3. QED BY <2>1, <2>2
<1>3. QED BY <1>2

LEMMA DesiredIsInt ==
    ASSUME NEW a, a.cash \in Int, \A s \in Stocks : a.held[s] \in Int /\ a.targets[s] \in Int,
           NEW open, \A s \in Stocks : open[s] \in Nat \ {0}
    PROVE  \A s \in Stocks : Simulation!desired_quantities(a, open)[s] \in Int
<1> DEFINE capped == [s \in Stocks |-> Simulation!Min({a.targets[s], PositionLimit})]
           total == Simulation!MapThenSumSet(LAMBDA s : capped[s], Stocks)
           equity == a.cash + Simulation!Value(a.held, open)
<1>1. equity \in Int
  BY ValueIsInt
<1>2. \A s \in Stocks : capped[s] \in Int
  BY SmallerIsInt, PricesAssumption
<1>3. total \in Int
  <2>1. total = SumFunctionOnSet(capped, Stocks)
    BY DEF SumFunctionOnSet, FoldFunctionOnSet, MapThenFoldSet,
           Simulation!MapThenSumSet, Simulation!MapThenFoldSet
  <2> HIDE DEF capped, total
  <2>2. QED BY <1>2, <2>1, SumIsInt, SimulationAssumption
<1>4. ASSUME NEW n \in Int, NEW d \in Nat \ {0} PROVE Simulation!RoundDown(n, d) \in Int
  BY <1>4 DEF Simulation!RoundDown
<1>5. \A s \in Stocks : Simulation!desired_quantities(a, open)[s]
        = IF total > ExposureLimit
          THEN Simulation!RoundDown(equity * capped[s] * ExposureLimit, total * 100 * open[s])
          ELSE Simulation!RoundDown(equity * capped[s], 100 * open[s])
  BY DEF Simulation!desired_quantities
<1> HIDE DEF capped, total, equity
<1>6. ASSUME NEW s \in Stocks PROVE Simulation!desired_quantities(a, open)[s] \in Int
  <2>1. PICK o \in Nat \ {0} : o = open[s]
    OBVIOUS
  <2>2. PICK c \in Int : c = capped[s]
    BY <1>2
  <2>3. PICK limit \in Nat : limit = ExposureLimit
    BY PricesAssumption
  <2>4. equity * c * limit \in Int /\ equity * c \in Int /\ 100 * o \in Nat \ {0}
    BY <1>1
  <2>5. PICK n \in Int : n = total
    BY <1>3
  <2>6. n > limit => n * 100 * o \in Nat \ {0}
    BY DivisorIsPositive, Zenon
  <2>7. n > limit => Simulation!RoundDown(equity * c * limit, n * 100 * o) \in Int
    BY <1>4, <2>4, <2>6, Zenon
  <2>8. Simulation!RoundDown(equity * c, 100 * o) \in Int
    BY <1>4, <2>4
  <2>9. Simulation!desired_quantities(a, open)[s]
        = IF n > limit
          THEN Simulation!RoundDown(equity * c * limit, n * 100 * o)
          ELSE Simulation!RoundDown(equity * c, 100 * o)
    BY <1>5, <2>1, <2>2, <2>3, <2>5, Zenon
  <2>10. QED BY <2>7, <2>8, <2>9, Zenon
<1>7. QED BY <1>6

Weights == {Simulation!Long, Simulation!Flat}
AccountTyped(a) ==
    /\ DOMAIN a = AccountFields
    /\ a.cash \in Int /\ a.held \in [Stocks -> Nat]
    /\ \A s \in Stocks : a.targets[s] \in Weights
    /\ a.trades \subseteq Simulation!SimulatedTrade
OrderTyped(o) ==
    /\ o.due \in 1..Len(history[1]) /\ o.due \in Nat
    /\ o.cause \in {"signal", "risk"} /\ o.decided \in Nat
    /\ \A s \in DOMAIN o.updates : o.updates[s] \in Weights

LEMMA ExecuteTyped ==
    ASSUME NEW b, AccountTyped(b), NEW s \in Stocks, NEW side \in {"buy", "sell"},
           NEW n \in Nat, NEW gross \in Nat, NEW order, OrderTyped(order)
    PROVE  AccountTyped(Simulation!execute(b, s, side, n, gross, order))
<1> DEFINE trade == [stock |-> s, day |-> order.due, side |-> side, quantity |-> n,
                     gross |-> gross, cause |-> order.cause, decided |-> order.decided]
           more == IF side = "buy" THEN b.held[s] + n ELSE Simulation!Max({b.held[s] - n, 0})
           c == Simulation!execute(b, s, side, n, gross, order)
<1>1. trade \in Simulation!SimulatedTrade
  BY DEF Simulation!SimulatedTrade, OrderTyped
<1>2. more \in Nat
  BY LargerIsNat DEF AccountTyped
<1>3. Commission \in Int
  BY PricesAssumption
<1>4. /\ DOMAIN c = AccountFields
      /\ c.cash = b.cash + (IF side = "buy" THEN -gross ELSE gross) - Commission
      /\ c.held = [b.held EXCEPT ![s] = more]
      /\ c.trades = b.trades \union {trade}
      /\ c.targets = b.targets
  <2> HIDE DEF trade
  <2>1. QED BY DEF Simulation!execute, AccountTyped, AccountFields, trade
<1> HIDE DEF trade, more, c
<1>5. c.cash \in Int
  BY <1>3, <1>4 DEF AccountTyped
<1>6. c.held \in [Stocks -> Nat]
  BY <1>2, <1>4 DEF AccountTyped
<1>7. QED BY <1>1, <1>4, <1>5, <1>6 DEF AccountTyped, c

(* What the trades of a rebalance go by.                                   *)
Quoted(q) ==
    /\ \A s \in Stocks : q.open[s] \in Nat \ {0} /\ q.desired[s] \in Int
    /\ OrderTyped(q.order)

LEMMA TradeTyped ==
    ASSUME NEW b, AccountTyped(b), NEW q, Quoted(q), NEW x \in Places, NEW kind \in {"sell", "buy"}
    PROVE  AccountTyped(After(kind, q, x, b))
<1>1. PICK s \in Stocks : s = Simulation!Symbols[x]
  <2>1. Simulation!Cardinality(Stocks) = Cardinality(Stocks)
    BY DEF Simulation!Cardinality, Cardinality
  <2>2. Simulation!Symbols[x] = x /\ x \in 1..Cardinality(Stocks)
    BY <2>1 DEF Places, Simulation!Symbols
  <2>3. QED BY <2>2, PricesAssumption
<1>2. /\ Simulation!execution_price(q.open[s], "sell") \in Nat
      /\ Simulation!execution_price(q.open[s], "buy") \in Nat \ {0}
  BY PriceTypes DEF Quoted
<1>3. ASSUME NEW side \in {"sell", "buy"}, NEW n \in Int
      PROVE  AccountTyped(Traded(q.open, q.order, b, s, side, n))
  <2>1. CASE n > 0
    <3>1. PICK p \in Nat : p = Simulation!execution_price(q.open[s], side)
      BY <1>2
    <3>2. n \in Nat /\ n * p \in Nat
      BY <2>1
    <3>3. AccountTyped(Simulation!execute(b, s, side, n, n * p, q.order))
      BY <3>2, ExecuteTyped DEF Quoted
    <3>4. QED BY <2>1, <3>1, <3>3 DEF Traded
  <2>2. QED BY <2>1 DEF Traded
<1>4. b.held[s] \in Int /\ q.desired[s] \in Int /\ b.cash \in Int
  BY DEF AccountTyped, Quoted
<1>5. CASE kind = "sell"
  <2>1. After(kind, q, x, b)
          = Traded(q.open, q.order, b, s, "sell", b.held[s] - q.desired[s])
    BY <1>1, <1>5 DEF After, Sold
  <2>2. b.held[s] - q.desired[s] \in Int
    BY <1>4
  <2>3. QED BY <1>3, <2>1, <2>2
<1>6. CASE kind = "buy"
  <2>1. PICK n : n = Simulation!Affordable(q.desired[s] - b.held[s],
                       Simulation!execution_price(q.open[s], "buy"), b.cash)
    OBVIOUS
  <2>2. After(kind, q, x, b) = Traded(q.open, q.order, b, s, "buy", n)
    BY <1>1, <1>6, <2>1 DEF After, Bought
  <2>3. n \in Int
    <3>1. q.desired[s] - b.held[s] \in Int
      BY <1>4
    <3>2. QED BY <1>2, <1>4, <2>1, <3>1, AffordableIsInt
  <2>4. QED BY <1>3, <2>2, <2>3
<1>7. QED BY <1>5, <1>6

LEMMA TradesTyped ==
    ASSUME NEW kind \in {"sell", "buy"}, NEW q, Quoted(q), NEW base, AccountTyped(base),
           NEW g, IsRun(kind, q, base, Places, g)
    PROVE  AccountTyped(g[Places])
<1> DEFINE G == {T \in SUBSET Places : AccountTyped(g[T])}
<1>1. ASSUME NEW T \in SUBSET Places, \A U \in (SUBSET T) \ {T} : U \in G PROVE T \in G
  <2>1. g[T] = IF T = {} THEN base ELSE After(kind, q, Last(T), g[Before(T)])
    BY DEF IsRun
  <2>2. CASE T = {}
    BY <2>1, <2>2
  <2>3. CASE T # {}
    <3>1. IsFiniteSet(T) /\ T \subseteq Int
      BY PlacesAreFinite, FS_Subset
    <3>2. Before(T) \in (SUBSET T) \ {T} /\ Last(T) \in Places
      BY <2>3, <3>1, BeforeIsSmaller
    <3>3. AccountTyped(g[Before(T)])
      BY <1>1, <3>2
    <3> HIDE DEF G
    <3>4. AccountTyped(After(kind, q, Last(T), g[Before(T)]))
      BY <3>2, <3>3, TradeTyped
    <3>5. QED BY <2>1, <2>3, <3>4 DEF G
  <2>4. QED BY <2>2, <2>3
<1> HIDE DEF G
<1>2. Places \in G
  BY <1>1, PlacesAreFinite, SubsetInduction
<1>3. QED BY <1>2 DEF G

LEMMA RebalanceTyped ==
    ASSUME history \in Histories, NEW account, AccountTyped(account),
           NEW order, OrderTyped(order)
    PROVE  AccountTyped(Simulation!rebalance(account, order))
<1> DEFINE a == Rewritten(account, order)
           q == [open |-> Opens(order), desired |-> Desired(account, order), order |-> order]
           c == AfterSells(Opens(order), Desired(account, order), order, a)
           b == AfterBuys(Opens(order), Desired(account, order), order, c)
<1>1. AccountTyped(a)
  <2>1. /\ DOMAIN a = AccountFields
        /\ a.cash = account.cash /\ a.held = account.held /\ a.trades = account.trades
        /\ a.targets = [s \in Stocks |-> IF s \in DOMAIN order.updates
                                       THEN order.updates[s] ELSE account.targets[s]]
    BY DEF Rewritten, AccountTyped, AccountFields
  <2> HIDE DEF a
  <2>2. \A s \in Stocks : a.targets[s] \in Weights
    BY <2>1 DEF AccountTyped, OrderTyped
  <2>3. QED BY <2>1, <2>2 DEF AccountTyped
<1>2. \A s \in Stocks : Opens(order)[s] \in Nat \ {0}
  BY PricesAssumption DEF Opens, OrderTyped
<1>3. \A s \in Stocks : Desired(account, order)[s] \in Int
  <2>1. \A s \in Stocks : a.held[s] \in Int /\ a.targets[s] \in Int
    BY <1>1 DEF AccountTyped, Weights, Simulation!Long, Simulation!Flat
  <2>2. a.cash \in Int
    BY <1>1 DEF AccountTyped
  <2> HIDE DEF a
  <2>3. QED BY <1>2, <2>1, <2>2, DesiredIsInt DEF Desired, a
<1>4. Quoted(q)
  BY <1>2, <1>3 DEF Quoted
<1> HIDE DEF a
<1>5. AccountTyped(c)
  <2>1. \E g : IsRun("sell", q, a, Places, g) /\ c = g[Places]
    BY SellsAreRun
  <2> HIDE DEF q, c
  <2>2. QED BY <1>1, <1>4, <2>1, TradesTyped
<1> HIDE DEF c
<1>6. AccountTyped(b)
  <2>1. \E g : IsRun("buy", q, c, Places, g) /\ b = g[Places]
    BY BuysAreRun
  <2> HIDE DEF q, b
  <2>2. QED BY <1>4, <1>5, <2>1, TradesTyped
<1>7. Simulation!rebalance(account, order) = b
  BY RebalanceFolds DEF a, c
<1> HIDE DEF b
<1>8. QED BY <1>6, <1>7

LEMMA OrdersTyped ==
    ASSUME history \in Histories, NEW orders, NEW base, AccountTyped(base),
           NEW S, IsFiniteSet(S), S \subseteq Int, \A n \in S : OrderTyped(orders[n]),
           NEW g, IsRun("order", orders, base, S, g)
    PROVE  AccountTyped(g[S])
<1> DEFINE G == {T \in SUBSET S : AccountTyped(g[T])}
<1>1. ASSUME NEW T \in SUBSET S, \A U \in (SUBSET T) \ {T} : U \in G PROVE T \in G
  <2>1. g[T] = IF T = {} THEN base ELSE Simulation!rebalance(g[Before(T)], orders[Last(T)])
    BY DEF IsRun, After
  <2>2. CASE T = {}
    BY <2>1, <2>2
  <2>3. CASE T # {}
    <3>1. IsFiniteSet(T) /\ T \subseteq Int
      BY FS_Subset
    <3>2. Before(T) \in (SUBSET T) \ {T} /\ Last(T) \in S
      BY <2>3, <3>1, BeforeIsSmaller
    <3>3. AccountTyped(g[Before(T)])
      BY <1>1, <3>2
    <3> HIDE DEF G
    <3>4. AccountTyped(Simulation!rebalance(g[Before(T)], orders[Last(T)]))
      BY <3>2, <3>3, RebalanceTyped
    <3>5. QED BY <2>1, <2>3, <3>4 DEF G
  <2>4. QED BY <2>2, <2>3
<1> HIDE DEF G
<1>2. S \in G
  BY <1>1, SubsetInduction
<1>3. QED BY <1>2 DEF G

(* What the invariant leaves to say.                                       *)
SimulationTypes ==
    /\ AccountTyped(Account)
    /\ signals \subseteq Simulation!GeneratedSignal
    /\ \A n \in DOMAIN pending : pending[n].cause = "signal" /\ pending[n].decided \in Nat
    /\ history # Simulation!NoHistory => tactic \in Tactics

LEMMA DueOrdersTyped ==
    ASSUME SimulationInv, SimulationTypes, NEW t, t = today + 1,
           history # Simulation!NoHistory, today < Len(history[1])
    PROVE  LET O == Simulation!Orders(t)
           IN  /\ IsFiniteSet(DOMAIN O) /\ DOMAIN O \subseteq Int
               /\ \A n \in DOMAIN O : OrderTyped(O[n])
<1> DEFINE O == Simulation!Orders(t)
           D == DueAt(t)
<1>1. /\ today \in Nat /\ history \in Histories /\ DOMAIN pending \subseteq 1..today
      /\ \A n \in DOMAIN pending : OrderHolds(history, today, pending, signals, n)
  BY DEF SimulationInv, Simulated
<1>2. t \in 1..Len(history[1]) /\ t \in Nat /\ t - 1 \in Nat
  BY <1>1, SimulationAssumption
<1>3. IsFiniteSet(D) /\ D \subseteq Int
  <2>1. IsFiniteSet(1..today)
    BY <1>1, FS_Interval
  <2>2. D \subseteq 1..today
    BY <1>1 DEF DueAt
  <2> HIDE DEF D
  <2>3. IsFiniteSet(D)
    BY <2>1, <2>2, FS_Subset
  <2>4. QED BY <1>1, <2>2, <2>3
<1>4. ASSUME NEW n \in D PROVE OrderTyped(pending[n])
  <2>1. n \in DOMAIN pending /\ pending[n].due = t
    BY DEF DueAt
  <2>2. pending[n].cause \in {"signal", "risk"} /\ pending[n].decided \in Nat
    BY <2>1 DEF SimulationTypes
  <2>3. ASSUME NEW s \in DOMAIN pending[n].updates PROVE pending[n].updates[s] \in Weights
    <3>1. PICK g \in signals : g.day = n /\ g.stock = s
      BY <1>1, <2>1, <2>3 DEF OrderHolds
    <3>2. pending[n].updates[s] = g.weight
      BY <1>1, <2>1, <3>1 DEF OrderHolds
    <3>3. g \in Simulation!GeneratedSignal
      BY DEF SimulationTypes
    <3>4. QED BY <3>2, <3>3 DEF Simulation!GeneratedSignal, Weights
  <2>4. QED BY <1>2, <2>1, <2>2, <2>3 DEF OrderTyped
<1>5. CASE O = [n \in D |-> pending[n]]
  <2>1. DOMAIN O = D /\ \A n \in D : O[n] = pending[n]
    BY <1>5
  <2> HIDE DEF O, D
  <2>2. /\ IsFiniteSet(DOMAIN O) /\ DOMAIN O \subseteq Int
        /\ \A n \in DOMAIN O : OrderTyped(O[n])
    BY <1>3, <1>4, <2>1
  <2>3. QED BY <2>2 DEF O
<1>6. CASE O # [n \in D |-> pending[n]]
  <2> DEFINE none == [s \in {} |-> 0]
             risk == [due |-> t, cause |-> "risk", decided |-> t - 1, updates |-> none]
             x == t - 1
  <2>1. O = [n \in {x} |-> risk]
    BY <1>6 DEF Simulation!Orders, DueAt
  <2>2. OrderTyped(risk)
    <3>1. DOMAIN none = {}
      OBVIOUS
    <3>2. risk.due = t /\ risk.cause = "risk" /\ risk.decided = t - 1 /\ risk.updates = none
      OBVIOUS
    <3> HIDE DEF risk, none
    <3>3. QED BY <1>2, <3>1, <3>2 DEF OrderTyped
  <2>3. x \in Int
    BY <1>2
  <2> HIDE DEF risk, x, O
  <2>4. DOMAIN O = {x} /\ O[x] = risk
    BY <2>1, Zenon
  <2>5. IsFiniteSet({x}) /\ {x} \subseteq Int
    BY <2>3, FS_Singleton
  <2>6. QED BY <2>2, <2>4, <2>5 DEF O
<1>7. QED BY <1>5, <1>6

LEMMA DecisionsTyped ==
    ASSUME tactic \in Tactics, NEW t
    PROVE  LET u == Simulation!Decisions(t)
           IN  \A s \in DOMAIN u : s \in Stocks /\ u[s] \in Weights
<1> DEFINE closes(s) == [i \in 1..t |-> history[s][i].close]
           weight == [s \in Stocks |-> Simulation!generate(tactic, closes(s))]
<1>1. \A c : Simulation!generate(tactic, c) \in Weights \union {Simulation!Hold}
  <2>1. ASSUME NEW c, NEW p
        PROVE  /\ Simulation!buy_and_hold(c, p) \in Weights \union {Simulation!Hold}
               /\ Simulation!equal_weight_rebalance(c, p) \in Weights \union {Simulation!Hold}
               /\ Simulation!moving_average_crossover(c, p) \in Weights \union {Simulation!Hold}
               /\ Simulation!momentum(c, p) \in Weights \union {Simulation!Hold}
               /\ Simulation!volatility_breakout(c, p) \in Weights \union {Simulation!Hold}
               /\ Simulation!mean_reversion(c, p) \in Weights \union {Simulation!Hold}
               /\ Simulation!rsi_threshold(c, p) \in Weights \union {Simulation!Hold}
    BY Zenon DEF Weights, Simulation!LongIf, Simulation!buy_and_hold,
       Simulation!equal_weight_rebalance, Simulation!moving_average_crossover,
       Simulation!momentum, Simulation!volatility_breakout, Simulation!mean_reversion,
       Simulation!rsi_threshold
  <2>2. QED BY <2>1, PricesAssumption DEF Simulation!generate
<1>2. Simulation!Decisions(t) = [s \in {r \in Stocks : weight[r] # Simulation!Hold} |-> weight[s]]
  BY DEF Simulation!Decisions, Simulation!Restrict
<1> HIDE DEF weight
<1>3. \A s \in Stocks : weight[s] \in Weights \union {Simulation!Hold}
  BY <1>1 DEF weight
<1>4. QED BY <1>2, <1>3

LEMMA QueuedTyped ==
    ASSUME SimulationTypes, NEW t \in Nat, NEW u
    PROVE  LET P == Simulation!Queued(t, u)
           IN  \A n \in DOMAIN P : P[n].cause = "signal" /\ P[n].decided \in Nat
<1> DEFINE later == {n \in DOMAIN pending : pending[n].due # t}
           days == Simulation!eligible_execution_days(
                       t, Simulation!Max({history[s][t].published : s \in DOMAIN u}))
           order == [due |-> Simulation!Min(days), cause |-> "signal", decided |-> t,
                     updates |-> u]
           P == Simulation!Queued(t, u)
<1>1. P = IF DOMAIN u = {} THEN [n \in later |-> pending[n]]
          ELSE IF days = {} THEN [n \in later |-> pending[n]]
          ELSE [n \in later \union {t} |-> IF n = t THEN order ELSE pending[n]]
  BY DEF Simulation!Queued
<1>2. order.cause = "signal" /\ order.decided \in Nat
  OBVIOUS
<1>3. \A n \in later : pending[n].cause = "signal" /\ pending[n].decided \in Nat
  BY DEF SimulationTypes
<1> HIDE DEF later, days, order, P
<1>4. \A n \in DOMAIN P : P[n].cause = "signal" /\ P[n].decided \in Nat
  BY <1>1, <1>2, <1>3
<1>5. QED BY <1>4 DEF P

LEMMA AccountNext ==
    ASSUME NEW a, AccountTyped(a), purse' = a.cash, held' = a.held, targets' = a.targets,
           trades' = a.trades
    PROVE  AccountTyped(Account)'
BY DEF AccountTyped, AccountFields, Account, Weights, Simulation!SimulatedTrade,
       Simulation!Long, Simulation!Flat

LEMMA SimulationTypesDay ==
    ASSUME SimulationInv, SimulationTypes, Simulation!Day PROVE SimulationTypes'
<1> DEFINE t == today + 1
           u == Simulation!Decisions(t)
           K == Decided(t, u)
           a == Simulation!Executed(t)
<1>1. /\ history # Simulation!NoHistory /\ today < Len(history[1])
      /\ purse' = a.cash /\ held' = a.held /\ targets' = a.targets /\ trades' = a.trades
      /\ signals' = signals \union K /\ pending' = Simulation!Queued(t, u)
      /\ UNCHANGED <<history, tactic>>
  BY DEF Simulation!Day, Decided
<1>2. today \in Nat /\ history \in Histories /\ tactic \in Tactics
  BY <1>1 DEF SimulationInv, Simulated, SimulationTypes
<1>3. t \in Nat
  BY <1>2
<1>4. AccountTyped(a)
  <2>1. PICK O : O = Simulation!Orders(t)
    OBVIOUS
  <2>2. /\ IsFiniteSet(DOMAIN O) /\ DOMAIN O \subseteq Int
        /\ \A n \in DOMAIN O : OrderTyped(O[n])
    BY <1>1, <2>1, DueOrdersTyped
  <2> HIDE DEF t, a
  <2>3. PICK g : IsRun("order", O, Account, DOMAIN O, g) /\ a = g[DOMAIN O]
    BY <2>1, <2>2, ExecutedIsRun DEF a
  <2>4. QED BY <1>2, <2>2, <2>3, OrdersTyped DEF SimulationTypes
<1>5. K \subseteq Simulation!GeneratedSignal
  <2>1. \A s \in DOMAIN u : s \in Stocks /\ u[s] \in Weights
    BY <1>2, DecisionsTyped
  <2> HIDE DEF u, t
  <2>2. QED BY <1>3, <2>1 DEF Decided, Simulation!GeneratedSignal, Weights
<1>6. \A n \in DOMAIN pending' : pending'[n].cause = "signal" /\ pending'[n].decided \in Nat
  <2> HIDE DEF t, u
  <2>1. QED BY <1>1, <1>3, QueuedTyped
<1> HIDE DEF t, u, K, a
<1>7. AccountTyped(Account)'
  BY <1>1, <1>4, AccountNext
<1>8. signals' \subseteq Simulation!GeneratedSignal
  BY <1>1, <1>5 DEF SimulationTypes
<1>9. tactic' \in Tactics
  BY <1>1, <1>2
<1>10. QED BY <1>6, <1>7, <1>8, <1>9
       DEF SimulationTypes, Simulation!GeneratedSignal, Simulation!Long, Simulation!Flat

LEMMA SimulationTypesStep ==
    ASSUME SimulationInv, SimulationTypes, [Simulation!Next]_(Simulation!vars)
    PROVE  SimulationTypes'
<1>1. CASE /\ UNCHANGED <<purse, held, targets, pending, signals, trades>>
           /\ history' # Simulation!NoHistory => tactic' \in Tactics
  <2>1. AccountTyped(Account)'
    BY <1>1 DEF SimulationTypes, AccountTyped, AccountFields, Account, Weights,
                Simulation!SimulatedTrade, Simulation!Long, Simulation!Flat
  <2>2. QED BY <1>1, <2>1 DEF SimulationTypes, Simulation!GeneratedSignal, Simulation!Long,
                              Simulation!Flat, Simulation!NoHistory
<1>2. QED BY <1>1, SimulationTypesDay
          DEF Simulation!Next, Simulation!vars, Simulation!Start, SimulationTypes,
              Simulation!NoHistory

LEMMA SimulationTypesStart == Simulation!Init => SimulationTypes
BY PricesAssumption DEF Simulation!Init, SimulationTypes, AccountTyped, Account, AccountFields,
   Weights, Simulation!Flat, Simulation!NoHistory

LEMMA SimulationTyped == SimulationInv /\ SimulationTypes => Simulation!TypeOK
BY DEF SimulationInv, Simulated, SimulationTypes, AccountTyped, Account, Weights,
       Simulation!TypeOK

-----------------------------------------------------------------------------
(* All of them.                                                            *)

MarketTyped ==
    SchedulesInv /\ ImportsInv /\ ImportTypes /\ SimulationInv /\ SimulationTypes

(* Schedules and their runs, jobs, batches, bars and the transactions that *)
(* write them, accounts, orders, signals and trades keep their types:      *)
(* whatever is bought and sold at whatever price, no position becomes      *)
(* negative and no trade has a negative value (_execute of                 *)
(* backtesting/engine.py), and a row's counters stay numbers through every *)
(* failure of an import (run_import_job).                                  *)
THEOREM MarketTypes == Spec => [](component \in {"schedule", "import", "simulation"} => TypeOK)
<1>1. Init => MarketTyped
  BY SchedulesStart, ImportsStart, ImportTypesStart, SimulationStart, SimulationTypesStart
     DEF Init, MarketTyped
<1>2. MarketTyped /\ [Next]_vars => MarketTyped'
  BY SchedulesStep, SchedulesMove, ImportsStep, ImportTypesStep, ImportsMove, SimulationStep,
     SimulationTypesStep, SimulationMove DEF MarketTyped
<1>3. MarketTyped => (component \in {"schedule", "import", "simulation"} => TypeOK)
  <2> SUFFICES ASSUME MarketTyped, component \in {"schedule", "import", "simulation"}
               PROVE  TypeOK
    OBVIOUS
  <2>1. Schedule!TypeOK /\ Import!TypeOK /\ Simulation!TypeOK
    BY ImportTyped, SimulationTyped DEF MarketTyped, SchedulesInv
  <2>2. QED BY <2>1 DEF TypeOK
<1>4. QED BY <1>1, <1>2, <1>3, PTL DEF Spec
=============================================================================
