--------------------------- MODULE ForecastLedger ---------------------------
(***************************************************************************)
(* Forecasts of the prospective intelligence (apps/api/routers/            *)
(* prospective_intelligence and packages/prospective_intelligence): they   *)
(* are posted OPEN, locked before their outcome can be eligible, observed  *)
(* in numbered versions and scored once per observation.                   *)
(*                                                                         *)
(* A request reads its rows without a lock and writes them in its commit:  *)
(* only unique constraints are checked again.  The listeners of            *)
(* database/models refuse any update of outcomes and scores and any of a   *)
(* locked forecast but of its state and locked_at: the requests below make *)
(* no other.  What is measured is abstract: a score is the pair it is      *)
(* computed from.                                                          *)
(***************************************************************************)
EXTENDS Integers, FiniteSets

CONSTANTS
    Forecasts,      \* ids
    Requests,       \* concurrent requests
    Windows,        \* times that a client may send
    Values,         \* forecast and realized values
    MaxTime,        \* bound on the clock
    MaxVersions     \* bound on the observations of a forecast

Times == 0..MaxTime
Modes == {"PROSPECTIVE", "HISTORICAL_REPLAY"}     \* FIXTURE is a third of the kind

VARIABLES
    clock,          \* utc_now()
    forecasts,      \* research_forecasts
    outcomes,       \* forecast_outcome_observations of each forecast
    scores,         \* forecast_scores, one for each observation
    errand          \* what each request has read and will write

vars == <<clock, forecasts, outcomes, scores, errand>>

NoForecast == [state |-> "ABSENT"]
NoErrand == [kind |-> "none"]
Never == MaxTime + 1              \* locked_at of a forecast that is open

Window == [as_of : Times, start : Times, end : Times, eligible : Times]
ResearchForecast ==
    [state : {"OPEN", "LOCKED"}, mode : Modes, value : Values, window : Window,
     locked_at : Times \union {Never}]
Observation == [version : 1..MaxVersions, observed_at : Times, realized : Values]
Score == [forecast : Forecasts, mode : Modes, observation : Observation,
          metrics : Values \X Values]

TypeOK ==
    /\ clock \in Times
    /\ \A f \in Forecasts : forecasts[f] \in ResearchForecast \union {NoForecast}
    /\ \A f \in Forecasts : outcomes[f] \subseteq Observation
    /\ scores \subseteq Score
    /\ \A r \in Requests : errand[r].kind \in {"none", "lock", "observe", "score"}

Init ==
    /\ clock = 0
    /\ forecasts = [f \in Forecasts |-> NoForecast]
    /\ outcomes = [f \in Forecasts |-> {}]
    /\ scores = {}
    /\ errand = [r \in Requests |-> NoErrand]

Tick == clock < MaxTime /\ clock' = clock + 1 /\ UNCHANGED <<forecasts, outcomes, scores, errand>>

Start(r, e) == errand[r] = NoErrand /\ errand' = [errand EXCEPT ![r] = e]
Finish(r) == errand' = [errand EXCEPT ![r] = NoErrand]

(* 422 unless the boundaries are in order; nothing compares them with the  *)
(* clock.  The checksum of the body is unique.                             *)
post_forecast(f, mode, value, w) ==
    /\ forecasts[f] = NoForecast
    /\ w.start >= w.as_of /\ w.eligible >= w.end
    /\ LET row == [state |-> "OPEN", mode |-> mode, value |-> value, window |-> w,
                   locked_at |-> Never]
       IN  /\ \A g \in Forecasts : forecasts[g] # NoForecast =>
                <<forecasts[g].mode, forecasts[g].value, forecasts[g].window>>
                  # <<mode, value, w>>
           /\ forecasts' = [forecasts EXCEPT ![f] = row]
    /\ UNCHANGED <<clock, outcomes, scores, errand>>

(* A defect: the eligibility of the outcome is not compared with the clock. *)
lock_forecast_late(r, f) ==
    /\ forecasts[f].state = "OPEN"
    /\ Start(r, [kind |-> "lock", forecast |-> f, at |-> clock])
    /\ UNCHANGED <<clock, forecasts, outcomes, scores>>

(* The checks of lock_forecast, with the clock it will write.              *)
lock_forecast(r, f) ==
    /\ forecasts[f].state = "OPEN"
    /\ clock <= forecasts[f].window.eligible
    /\ Start(r, [kind |-> "lock", forecast |-> f, at |-> clock])
    /\ UNCHANGED <<clock, forecasts, outcomes, scores>>

(* The time of observation is the client's.                                *)
post_outcome(r, f, realized, at) ==
    /\ forecasts[f].state = "LOCKED"
    /\ at >= forecasts[f].window.eligible
    /\ Cardinality(outcomes[f]) < MaxVersions
    /\ Start(r, [kind |-> "observe", forecast |-> f, row |->
                   [version |-> Cardinality(outcomes[f]) + 1, observed_at |-> at,
                    realized |-> realized]])
    /\ UNCHANGED <<clock, forecasts, outcomes, scores>>

LatestOutcome(f) == {o \in outcomes[f] : \A p \in outcomes[f] : p.version <= o.version}

(* get_score: the latest outcome is scored unless it has a score.          *)
get_score(r, f) ==
    /\ \E o \in LatestOutcome(f) :
         /\ \A s \in scores : s.forecast = f => s.observation # o
         /\ Start(r, [kind |-> "score", row |->
                        [forecast |-> f, mode |-> forecasts[f].mode, observation |-> o,
                         metrics |-> <<forecasts[f].value, o.realized>>]])
    /\ UNCHANGED <<clock, forecasts, outcomes, scores>>

(* The UPDATE by id, without a condition on the state.                     *)
CommitLock(r) ==
    /\ errand[r].kind = "lock"
    /\ forecasts' = [forecasts EXCEPT ![errand[r].forecast].state = "LOCKED",
                                      ![errand[r].forecast].locked_at = errand[r].at]
    /\ Finish(r) /\ UNCHANGED <<clock, outcomes, scores>>

(* The version of a forecast and the observation of a score are unique: a  *)
(* second insert fails the request.                                        *)
CommitOutcome(r) ==
    /\ errand[r].kind = "observe"
    /\ LET f == errand[r].forecast
           row == errand[r].row
           taken == \E o \in outcomes[f] : o.version = row.version
       IN  outcomes' = [outcomes EXCEPT ![f] = IF taken THEN @ ELSE @ \union {row}]
    /\ Finish(r) /\ UNCHANGED <<clock, forecasts, scores>>

CommitScore(r) ==
    /\ errand[r].kind = "score"
    /\ LET row == errand[r].row
           taken == \E s \in scores : /\ s.forecast = row.forecast
                                      /\ s.observation = row.observation
       IN  scores' = IF taken THEN scores ELSE scores \union {row}
    /\ Finish(r) /\ UNCHANGED <<clock, forecasts, outcomes>>

Next ==
    \/ Tick
    \/ \E f \in Forecasts, m \in Modes, v \in Values, w \in Windows : post_forecast(f, m, v, w)
    \/ \E r \in Requests, f \in Forecasts :
         \/ lock_forecast(r, f)
         \/ \E v \in Values, t \in Times : post_outcome(r, f, v, t)
         \/ get_score(r, f)
    \/ \E r \in Requests : CommitLock(r) \/ CommitOutcome(r) \/ CommitScore(r)

Spec == Init /\ [][Next]_vars

(* The scores that calibration reads: those of one evaluation mode, and of *)
(* outcomes observed by a time.                                            *)
Sample(mode, as_of) == {s \in scores : s.mode = mode /\ s.observation.observed_at <= as_of}

-----------------------------------------------------------------------------
(* Properties.                                                             *)

(* Whatever requests overlap, a calibration as of a time is made of        *)
(* forecasts of its own evaluation mode that were locked by then, no later *)
(* than their outcome became eligible.  Docs: "PROSPECTIVE" forecasts are  *)
(* locked before eligibility and other modes "never improve prospective    *)
(* statistics".                                                            *)
CalibrationHasNoHindsight ==
    \A m \in Modes, t \in Times : \A s \in Sample(m, t) :
        LET f == forecasts[s.forecast]
        IN  /\ f.mode = m /\ s.metrics = <<f.value, s.observation.realized>>
            /\ f.locked_at <= f.window.eligible /\ f.locked_at <= t
            /\ s.observation \in outcomes[s.forecast]
=============================================================================
