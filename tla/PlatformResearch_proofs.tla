----------------------- MODULE PlatformResearch_proofs -----------------------
(***************************************************************************)
(* Theorems about the components of Platform that keep research:           *)
(* ForecastLedger, FeatureStore, EntityResolution, HypothesisLifecycle and *)
(* EconomicGraph, for any forecasts, rows, entities and requests.          *)
(***************************************************************************)
EXTENDS Platform, SumTheorems, FiniteSetTheorems, SequenceTheorems, TLAPS

-----------------------------------------------------------------------------
(* ForecastLedger.  A request writes what it decided on rows that others   *)
(* may have changed: what it relies on must survive.  A forecast keeps its *)
(* boundaries, mode and value, stays locked, and is locked in time         *)
(* whichever of several requests locks it last; an outcome and a score     *)
(* stay what they were.                                                    *)

LEMMA ForecastsAreBounded ==
    MaxTime \in Nat /\ MaxVersions \in Nat /\ Windows \subseteq Ledger!Window
BY ForecastsAssumption DEF Ledger!Window, Ledger!Times

LEMMA LedgerCardinality == \A S : Ledger!Cardinality(S) = Cardinality(S)
BY DEF Ledger!Cardinality, Cardinality

LedgerDomains ==
    /\ DOMAIN forecasts = Forecasts /\ DOMAIN outcomes = Forecasts
    /\ DOMAIN errand = Requests

Posted(f) == f \in Forecasts /\ forecasts[f] \in Ledger!ResearchForecast

LockedAhead ==
    \A f \in Forecasts : forecasts[f].state = "LOCKED" =>
        forecasts[f].locked_at \in Ledger!Times
           /\ forecasts[f].locked_at <= forecasts[f].window.eligible

(* What may be observed of a forecast, and how it may be scored.           *)
Observable(f, o) ==
    /\ o \in Ledger!Observation /\ Posted(f) /\ forecasts[f].state = "LOCKED"
    /\ forecasts[f].window.eligible <= o.observed_at
Scorable(s) ==
    /\ s \in Ledger!Score /\ Posted(s.forecast) /\ s.mode = forecasts[s.forecast].mode
    /\ s.metrics = <<forecasts[s.forecast].value, s.observation.realized>>
    /\ s.observation \in outcomes[s.forecast]

OutcomesAreDue == \A f \in Forecasts : \A o \in outcomes[f] : Observable(f, o)
OutcomesAreFinite == \A f \in Forecasts : IsFiniteSet(outcomes[f])
ScoresAreTrue == \A s \in scores : Scorable(s)

(* What a request has decided still holds when it commits.                 *)
Holds(e) ==
    /\ e.kind = "lock" => /\ Posted(e.forecast) /\ e.at \in Ledger!Times
                          /\ e.at <= forecasts[e.forecast].window.eligible
    /\ e.kind = "observe" => Observable(e.forecast, e.row)
    /\ e.kind = "score" => Scorable(e.row)
DecisionsHold == \A r \in Requests : Holds(errand[r])

LedgerInv == /\ Ledger!TypeOK /\ LedgerDomains /\ LockedAhead
        /\ OutcomesAreDue /\ OutcomesAreFinite /\ ScoresAreTrue /\ DecisionsHold

LEMMA LedgerStart == Ledger!Init => LedgerInv
<1> SUFFICES ASSUME Ledger!Init PROVE LedgerInv
  OBVIOUS
<1>1. Ledger!NoForecast.state = "ABSENT" /\ Ledger!NoErrand.kind = "none"
  BY DEF Ledger!NoForecast, Ledger!NoErrand
<1>2. Ledger!TypeOK /\ LedgerDomains /\ LockedAhead
  BY <1>1, ForecastsAreBounded
     DEF Ledger!Init, Ledger!TypeOK, LedgerDomains, LockedAhead, Ledger!Times
<1>3. OutcomesAreDue /\ OutcomesAreFinite /\ ScoresAreTrue /\ DecisionsHold
  BY <1>1, FS_EmptySet
     DEF Ledger!Init, OutcomesAreDue, OutcomesAreFinite, ScoresAreTrue, DecisionsHold, Holds
<1>4. QED BY <1>2, <1>3 DEF LedgerInv

-----------------------------------------------------------------------------
(* Records.                                                                *)

LEMMA ForecastFields ==
    ASSUME NEW w \in Ledger!ResearchForecast
    PROVE  /\ w = [state |-> w.state, mode |-> w.mode, value |-> w.value, window |-> w.window,
                   locked_at |-> w.locked_at]
           /\ w.state \in {"OPEN", "LOCKED"} /\ w.mode \in Ledger!Modes
              /\ w.value \in ForecastValues
           /\ w.window \in Ledger!Window /\ w.window.eligible \in Ledger!Times
              /\ w # Ledger!NoForecast
<1>1. Ledger!NoForecast.state = "ABSENT"
  BY DEF Ledger!NoForecast
<1>2. QED BY <1>1 DEF Ledger!ResearchForecast, Ledger!Window

LEMMA PostedHaveState ==
    ASSUME LedgerInv, NEW f \in Forecasts, forecasts[f].state \in {"OPEN", "LOCKED"}
    PROVE Posted(f)
BY DEF LedgerInv, Ledger!TypeOK, Ledger!NoForecast, Posted

-----------------------------------------------------------------------------
(* What others do to what a request relies on.                             *)

(* Rows of forecasts change in state and locked_at only, and stay locked.  *)
LEMMA ForecastsChange ==
    ASSUME LedgerInv, UNCHANGED <<clock, outcomes, scores>>, DOMAIN forecasts' = Forecasts,
           \A f \in Forecasts : forecasts'[f] \in Ledger!ResearchForecast \union {Ledger!NoForecast},
           \A f \in Forecasts : Posted(f) =>
              /\ forecasts'[f] \in Ledger!ResearchForecast
              /\ forecasts'[f].mode = forecasts[f].mode
                 /\ forecasts'[f].value = forecasts[f].value
              /\ forecasts'[f].window = forecasts[f].window
              /\ forecasts[f].state = "LOCKED" => forecasts'[f].state = "LOCKED",
           LockedAhead', DOMAIN errand' = Requests,
           \A r \in Requests : errand'[r] = errand[r] \/ errand'[r] = Ledger!NoErrand
    PROVE  LedgerInv'
<1>1. Ledger!NoErrand.kind = "none"
  BY DEF Ledger!NoErrand
<1>2. Ledger!TypeOK' /\ LedgerDomains'
  BY <1>1 DEF LedgerInv, Ledger!TypeOK, LedgerDomains
<1>3. \A f, o : Observable(f, o) => Observable(f, o)'
  BY DEF Observable, Posted
<1>4. \A s : Scorable(s) => Scorable(s)'
  BY DEF Scorable, Posted
<1>5. \A e : Holds(e) => Holds(e)'
  <2>1. SUFFICES ASSUME NEW e, Holds(e) PROVE Holds(e)'
    OBVIOUS
  <2>2. e.kind = "lock" => /\ Posted(e.forecast)' /\ e.at \in Ledger!Times
                           /\ e.at <= forecasts'[e.forecast].window.eligible
    BY <2>1 DEF Holds, Posted
  <2>3. QED BY <1>3, <1>4, <2>1, <2>2 DEF Holds
<1>6. OutcomesAreDue' /\ OutcomesAreFinite'
  BY <1>3 DEF LedgerInv, OutcomesAreDue, OutcomesAreFinite
<1>7. ScoresAreTrue'
  BY <1>4 DEF LedgerInv, ScoresAreTrue
<1>8. DecisionsHold'
  <2>1. ASSUME NEW r \in Requests PROVE Holds(errand[r])'
    <3>1. CASE errand'[r] = Ledger!NoErrand
      BY <1>1, <3>1 DEF Holds
    <3>2. CASE errand'[r] = errand[r]
      <4>1. Holds(errand[r])
        BY DEF LedgerInv, DecisionsHold
      <4>2. PICK e : e = errand[r]
        OBVIOUS
      <4>3. Holds(e)'
        BY <1>5, <4>1, <4>2
      <4>4. errand'[r] = e
        BY <3>2, <4>2
      <4>5. QED BY <4>3, <4>4 DEF Holds
    <3>3. QED BY <3>1, <3>2
  <2>2. QED BY <2>1 DEF DecisionsHold
<1>9. QED BY <1>2, <1>6, <1>7, <1>8 DEF LedgerInv

LEMMA LedgerTickKeeps == ASSUME LedgerInv, Ledger!Tick \/ UNCHANGED Ledger!vars PROVE LedgerInv'
<1>1. UNCHANGED <<forecasts, outcomes, scores, errand>> /\ clock' \in Ledger!Times
  BY ForecastsAreBounded DEF Ledger!Tick, Ledger!vars, LedgerInv, Ledger!TypeOK, Ledger!Times
<1>2. Ledger!TypeOK' /\ LedgerDomains' /\ LockedAhead' /\ OutcomesAreFinite'
  BY <1>1 DEF LedgerInv, Ledger!TypeOK, LedgerDomains, LockedAhead, OutcomesAreFinite
<1>3. \A f, o : Observable(f, o) => Observable(f, o)'
  BY <1>1 DEF Observable, Posted
<1>4. \A s : Scorable(s) => Scorable(s)'
  BY <1>1 DEF Scorable, Posted
<1>5. OutcomesAreDue' /\ ScoresAreTrue'
  BY <1>1, <1>3, <1>4 DEF LedgerInv, OutcomesAreDue, ScoresAreTrue
<1>6. DecisionsHold'
  BY <1>1 DEF LedgerInv, DecisionsHold, Holds, Observable, Scorable, Posted
<1>7. QED BY <1>2, <1>5, <1>6 DEF LedgerInv

LEMMA PostKeeps ==
    ASSUME LedgerInv, NEW f \in Forecasts, NEW m \in Ledger!Modes, NEW v \in ForecastValues,
           NEW w \in Windows,
           Ledger!post_forecast(f, m, v, w)
    PROVE  LedgerInv'
<1> DEFINE row == [state |-> "OPEN", mode |-> m, value |-> v, window |-> w,
                   locked_at |-> Ledger!Never]
<1>1. /\ forecasts[f] = Ledger!NoForecast /\ forecasts' = [forecasts EXCEPT ![f] = row]
      /\ UNCHANGED <<clock, outcomes, scores, errand>>
  BY DEF Ledger!post_forecast
<1>2. row \in Ledger!ResearchForecast /\ row.state = "OPEN"
  BY ForecastsAreBounded DEF Ledger!ResearchForecast, Ledger!Never
<1>3. ~Posted(f)
  BY <1>1, ForecastFields DEF Posted
<1> HIDE DEF row
<1>4. \A g \in Forecasts : forecasts'[g] = IF g = f THEN row ELSE forecasts[g]
  BY <1>1 DEF LedgerInv, LedgerDomains
<1>5. LockedAhead'
  BY <1>2, <1>4 DEF LedgerInv, LockedAhead
<1>6. \A g \in Forecasts : Posted(g) => forecasts'[g] = forecasts[g]
         /\ forecasts[g] \in Ledger!ResearchForecast
  BY <1>3, <1>4 DEF Posted
<1>7. \A g \in Forecasts : forecasts'[g] \in Ledger!ResearchForecast \union {Ledger!NoForecast}
  BY <1>2, <1>4 DEF LedgerInv, Ledger!TypeOK
<1>8. DOMAIN forecasts' = Forecasts /\ DOMAIN errand' = Requests
  BY <1>1 DEF LedgerInv, LedgerDomains
<1>9. QED BY <1>1, <1>5, <1>6, <1>7, <1>8, ForecastsChange

(* A request that starts relies on what it has just read.                  *)
LEMMA ErrandStarts ==
    ASSUME LedgerInv, NEW r \in Requests, NEW e, Ledger!Start(r, e), Holds(e),
           e.kind \in {"lock", "observe", "score"}, UNCHANGED <<clock, forecasts, outcomes, scores>>
    PROVE  LedgerInv'
<1>1. \A q \in Requests : errand'[q] = IF q = r THEN e ELSE errand[q]
  BY DEF Ledger!Start, LedgerInv, LedgerDomains
<1>2. Ledger!TypeOK' /\ LedgerDomains' /\ LockedAhead' /\ OutcomesAreFinite'
  BY <1>1 DEF Ledger!Start, LedgerInv, Ledger!TypeOK, LedgerDomains, LockedAhead,
     OutcomesAreFinite
<1>3. \A f, o : Observable(f, o) => Observable(f, o)'
  BY DEF Observable, Posted
<1>4. \A s : Scorable(s) => Scorable(s)'
  BY DEF Scorable, Posted
<1>5. OutcomesAreDue' /\ ScoresAreTrue'
  BY <1>3, <1>4 DEF LedgerInv, OutcomesAreDue, ScoresAreTrue
<1>6. \A q \in Requests : Holds(IF q = r THEN e ELSE errand[q])
  BY DEF LedgerInv, DecisionsHold
<1>7. DecisionsHold'
  BY <1>1, <1>6 DEF DecisionsHold, Holds, Observable, Scorable, Posted
<1>8. QED BY <1>2, <1>5, <1>7 DEF LedgerInv

LEMMA LockStarts ==
    ASSUME LedgerInv, NEW r \in Requests, NEW f \in Forecasts, Ledger!lock_forecast(r, f)
    PROVE LedgerInv'
<1> DEFINE e == [kind |-> "lock", forecast |-> f, at |-> clock]
<1>1. Posted(f) /\ clock \in Ledger!Times /\ clock <= forecasts[f].window.eligible
  BY PostedHaveState DEF Ledger!lock_forecast, LedgerInv, Ledger!TypeOK
<1>2. Holds(e)
  BY <1>1 DEF Holds
<1>3. QED BY <1>2, ErrandStarts DEF Ledger!lock_forecast

LEMMA OutcomeStarts ==
    ASSUME LedgerInv, NEW r \in Requests, NEW f \in Forecasts, NEW v \in ForecastValues,
           NEW t \in Ledger!Times,
           Ledger!post_outcome(r, f, v, t)
    PROVE  LedgerInv'
<1> DEFINE row == [version |-> Ledger!Cardinality(outcomes[f]) + 1, observed_at |-> t,
                   realized |-> v]
           e == [kind |-> "observe", forecast |-> f, row |-> row]
<1>1. Posted(f) /\ forecasts[f].state = "LOCKED" /\ forecasts[f].window.eligible <= t
  BY PostedHaveState, ForecastFields, ForecastsAreBounded
     DEF Ledger!post_outcome, Posted, Ledger!Times
<1>2. Ledger!Cardinality(outcomes[f]) \in Nat
  BY FS_CardinalityType, LedgerCardinality DEF LedgerInv, OutcomesAreFinite
<1>3. row \in Ledger!Observation
  BY <1>2, ForecastsAreBounded DEF Ledger!post_outcome, Ledger!Observation
<1>4. Holds(e)
  BY <1>1, <1>3 DEF Holds, Observable
<1>5. QED BY <1>4, ErrandStarts DEF Ledger!post_outcome

LEMMA ScoreStarts ==
    ASSUME LedgerInv, NEW r \in Requests, NEW f \in Forecasts, Ledger!get_score(r, f)
    PROVE LedgerInv'
<1>1. PICK o \in outcomes[f] :
        Ledger!Start(r, [kind |-> "score", row |->
                    [forecast |-> f, mode |-> forecasts[f].mode, observation |-> o,
                     metrics |-> <<forecasts[f].value, o.realized>>]])
  BY DEF Ledger!get_score, Ledger!LatestOutcome
<1> DEFINE row == [forecast |-> f, mode |-> forecasts[f].mode, observation |-> o,
                   metrics |-> <<forecasts[f].value, o.realized>>]
           e == [kind |-> "score", row |-> row]
<1>2. Posted(f) /\ o \in Ledger!Observation
  BY DEF LedgerInv, OutcomesAreDue, Observable
<1>3. forecasts[f].mode \in Ledger!Modes /\ forecasts[f].value \in ForecastValues
         /\ o.realized \in ForecastValues
  BY <1>2, ForecastFields DEF Posted, Ledger!Observation
<1>4. row \in Ledger!Score
  BY <1>2, <1>3 DEF Ledger!Score
<1>5. Holds(e)
  BY <1>2, <1>4 DEF Holds, Scorable
<1>6. QED BY <1>1, <1>5, ErrandStarts DEF Ledger!get_score

-----------------------------------------------------------------------------
(* The commits.                                                            *)

(* Whoever locks, the lock that is written came before eligibility.        *)
LEMMA CommitLockKeeps == ASSUME LedgerInv, NEW r \in Requests, Ledger!CommitLock(r)
    PROVE LedgerInv'
<1> DEFINE f == errand[r].forecast
           t == errand[r].at
           old == forecasts[f]
           row == [state |-> "LOCKED", mode |-> old.mode, value |-> old.value,
                   window |-> old.window, locked_at |-> t]
<1>1. f \in Forecasts /\ old \in Ledger!ResearchForecast /\ t \in Ledger!Times
         /\ t <= old.window.eligible
  BY DEF Ledger!CommitLock, LedgerInv, DecisionsHold, Holds, Posted
<1>2. old = [state |-> old.state, mode |-> old.mode, value |-> old.value, window |-> old.window,
             locked_at |-> old.locked_at]
  BY <1>1, ForecastFields
<1>3. forecasts' = [forecasts EXCEPT ![f].state = "LOCKED", ![f].locked_at = t]
  BY DEF Ledger!CommitLock
<1>4. \A g \in Forecasts :
        forecasts'[g] = IF g = f THEN [[old EXCEPT !.state = "LOCKED"] EXCEPT !.locked_at = t]
                        ELSE forecasts[g]
  BY <1>1, <1>3 DEF LedgerInv, LedgerDomains
<1>5. [[old EXCEPT !.state = "LOCKED"] EXCEPT !.locked_at = t] = row
  <2>1. PICK state, mode, value, window, at :
          old = [state |-> state, mode |-> mode, value |-> value, window |-> window, locked_at |-> at]
    BY <1>2
  <2>2. [old EXCEPT !.state = "LOCKED"]
          = [state |-> "LOCKED", mode |-> mode, value |-> value, window |-> window, locked_at |-> at]
    BY <2>1
  <2>3. [[old EXCEPT !.state = "LOCKED"] EXCEPT !.locked_at = t]
          = [state |-> "LOCKED", mode |-> mode, value |-> value, window |-> window, locked_at |-> t]
    <3>1. PICK mid : mid = [old EXCEPT !.state = "LOCKED"]
      OBVIOUS
    <3>2. mid = [state |-> "LOCKED", mode |-> mode, value |-> value, window |-> window,
                 locked_at |-> at]
      BY <2>2, <3>1
    <3>3. PICK time : time = t
      OBVIOUS
    <3>4. [mid EXCEPT !.locked_at = time]
            = [state |-> "LOCKED", mode |-> mode, value |-> value, window |-> window,
               locked_at |-> time]
      BY <3>2
    <3>5. QED BY <3>1, <3>3, <3>4, Zenon
  <2>4. old.mode = mode /\ old.value = value /\ old.window = window
    BY <2>1
  <2>5. QED BY <2>3, <2>4
<1>6. row \in Ledger!ResearchForecast
  BY <1>1, ForecastFields DEF Ledger!ResearchForecast
<1>7. row.state = "LOCKED" /\ row.locked_at = t /\ row.mode = old.mode /\ row.value = old.value
      /\ row.window = old.window
  OBVIOUS
<1> HIDE DEF row
<1>8. \A g \in Forecasts : forecasts'[g] = IF g = f THEN row ELSE forecasts[g]
  BY <1>4, <1>5
<1>9. LockedAhead'
  <2>1. ASSUME NEW g \in Forecasts, forecasts'[g].state = "LOCKED"
        PROVE  forecasts'[g].locked_at \in Ledger!Times
           /\ forecasts'[g].locked_at <= forecasts'[g].window.eligible
    BY <1>1, <1>7, <1>8, <2>1 DEF LedgerInv, LockedAhead
  <2>2. QED BY <2>1 DEF LockedAhead
<1>10. \A g \in Forecasts : forecasts'[g] \in Ledger!ResearchForecast \union {Ledger!NoForecast}
  BY <1>6, <1>8 DEF LedgerInv, Ledger!TypeOK
<1>11. \A g \in Forecasts : Posted(g) =>
         /\ forecasts'[g] \in Ledger!ResearchForecast
         /\ forecasts'[g].mode = forecasts[g].mode /\ forecasts'[g].value = forecasts[g].value
         /\ forecasts'[g].window = forecasts[g].window
         /\ forecasts[g].state = "LOCKED" => forecasts'[g].state = "LOCKED"
  BY <1>6, <1>7, <1>8 DEF Posted
<1>12. /\ DOMAIN forecasts' = Forecasts /\ DOMAIN errand' = Requests
       /\ \A q \in Requests : errand'[q] = errand[q] \/ errand'[q] = Ledger!NoErrand
       /\ UNCHANGED <<clock, outcomes, scores>>
  BY <1>3 DEF Ledger!CommitLock, Ledger!Finish, LedgerInv, LedgerDomains
<1>13. QED BY <1>9, <1>10, <1>11, <1>12, ForecastsChange

(* Outcomes and scores are only added to.                                  *)
LEMMA RowsAreAdded ==
    ASSUME LedgerInv, UNCHANGED <<clock, forecasts>>, NEW r \in Requests, Ledger!Finish(r),
           DOMAIN outcomes' = Forecasts, OutcomesAreFinite',
           \A f \in Forecasts : outcomes[f] \subseteq outcomes'[f],
           \A f \in Forecasts : \A o \in outcomes'[f] : o \in outcomes[f] \/ Observable(f, o),
           \A s \in scores' : s \in scores \/ Scorable(s)
    PROVE  LedgerInv'
<1>1. \A q \in Requests : errand'[q] = IF q = r THEN Ledger!NoErrand ELSE errand[q]
  BY DEF Ledger!Finish, LedgerInv, LedgerDomains
<1>2. Ledger!NoErrand.kind = "none"
  BY DEF Ledger!NoErrand
<1>3. \A f, o : Observable(f, o) => Observable(f, o)'
  BY DEF Observable, Posted
<1>4. \A s : Scorable(s) => Scorable(s)'
  BY DEF Scorable, Posted
<1>5. OutcomesAreDue'
  BY <1>3 DEF LedgerInv, OutcomesAreDue
<1>6. ScoresAreTrue'
  BY <1>4 DEF LedgerInv, ScoresAreTrue
<1>7. Ledger!TypeOK' /\ LedgerDomains' /\ LockedAhead'
  <2>1. \A f \in Forecasts : outcomes'[f] \subseteq Ledger!Observation
    BY DEF LedgerInv, OutcomesAreDue, Observable
  <2>2. scores' \subseteq Ledger!Score
    BY DEF LedgerInv, ScoresAreTrue, Scorable
  <2>3. QED BY <1>1, <1>2, <2>1, <2>2
               DEF Ledger!Finish, LedgerInv, Ledger!TypeOK, LedgerDomains, LockedAhead
<1>8. DecisionsHold'
  <2>1. \A e : e.kind = "none" \/ Holds(e) => Holds(e)'
    BY DEF Holds, Observable, Scorable, Posted
  <2>2. \A q \in Requests : errand'[q].kind = "none" \/ Holds(errand'[q])
    BY <1>1, <1>2 DEF LedgerInv, DecisionsHold
  <2>3. QED BY <2>1, <2>2 DEF DecisionsHold, Holds, Observable, Scorable, Posted
<1>9. QED BY <1>5, <1>6, <1>7, <1>8 DEF LedgerInv

LEMMA CommitOutcomeKeeps == ASSUME LedgerInv, NEW r \in Requests, Ledger!CommitOutcome(r)
    PROVE LedgerInv'
<1> DEFINE f == errand[r].forecast
           row == errand[r].row
<1>1. Observable(f, row) /\ f \in Forecasts
  BY DEF Ledger!CommitOutcome, LedgerInv, DecisionsHold, Holds, Observable, Posted
<1>2. PICK added \in {outcomes[f], outcomes[f] \union {row}} :
        outcomes' = [outcomes EXCEPT ![f] = added]
  BY DEF Ledger!CommitOutcome
<1>3. IsFiniteSet(added)
  BY <1>1, <1>2, FS_AddElement DEF LedgerInv, OutcomesAreFinite
<1>4. \A g \in Forecasts : outcomes'[g] = IF g = f THEN added ELSE outcomes[g]
  BY <1>2 DEF LedgerInv, LedgerDomains
<1>5. OutcomesAreFinite'
  BY <1>3, <1>4 DEF LedgerInv, OutcomesAreFinite
<1>6. DOMAIN outcomes' = Forecasts /\ Ledger!Finish(r) /\ UNCHANGED <<clock, forecasts, scores>>
  BY <1>2 DEF Ledger!CommitOutcome, LedgerInv, LedgerDomains
<1>7. \A g \in Forecasts : /\ outcomes[g] \subseteq outcomes'[g]
                           /\ \A o \in outcomes'[g] : o \in outcomes[g] \/ Observable(g, o)
  BY <1>1, <1>2, <1>4
<1>8. QED BY <1>5, <1>6, <1>7, RowsAreAdded

LEMMA CommitScoreKeeps == ASSUME LedgerInv, NEW r \in Requests, Ledger!CommitScore(r)
    PROVE LedgerInv'
<1>1. Scorable(errand[r].row)
  BY DEF Ledger!CommitScore, LedgerInv, DecisionsHold, Holds
<1>2. \A s \in scores' : s \in scores \/ Scorable(s)
  BY <1>1 DEF Ledger!CommitScore
<1>3. /\ Ledger!Finish(r) /\ UNCHANGED <<clock, forecasts, outcomes>>
      /\ DOMAIN outcomes' = Forecasts /\ OutcomesAreFinite'
  BY DEF Ledger!CommitScore, LedgerInv, LedgerDomains, OutcomesAreFinite
<1>4. QED BY <1>2, <1>3, RowsAreAdded

LEMMA LedgerStep == LedgerInv /\ [Ledger!Next]_(Ledger!vars) => LedgerInv'
<1> SUFFICES ASSUME LedgerInv, [Ledger!Next]_(Ledger!vars) PROVE LedgerInv'
  OBVIOUS
<1>1. CASE Ledger!Tick \/ UNCHANGED Ledger!vars
  BY <1>1, LedgerTickKeeps
<1>2. ASSUME NEW f \in Forecasts, NEW m \in Ledger!Modes, NEW v \in ForecastValues,
             NEW w \in Windows,
             Ledger!post_forecast(f, m, v, w)
      PROVE  LedgerInv'
  BY <1>2, PostKeeps
<1>3. ASSUME NEW r \in Requests, NEW f \in Forecasts,
             Ledger!lock_forecast(r, f) \/ Ledger!get_score(r, f)
      PROVE  LedgerInv'
  BY <1>3, LockStarts, ScoreStarts
<1>4. ASSUME NEW r \in Requests, NEW f \in Forecasts, NEW v \in ForecastValues,
             NEW t \in Ledger!Times,
             Ledger!post_outcome(r, f, v, t)
      PROVE  LedgerInv'
  BY <1>4, OutcomeStarts
<1>5. ASSUME NEW r \in Requests,
             Ledger!CommitLock(r) \/ Ledger!CommitOutcome(r) \/ Ledger!CommitScore(r)
      PROVE LedgerInv'
  BY <1>5, CommitLockKeeps, CommitOutcomeKeeps, CommitScoreKeeps
<1>6. QED BY <1>1, <1>2, <1>3, <1>4, <1>5 DEF Ledger!Next

LEMMA LedgerMove == [Next]_vars => [Ledger!Next]_(Ledger!vars)
BY DEF Next, vars, ledgerVars, Ledger!vars

LEMMA LedgerAlways == Spec => []LedgerInv
<1>1. Init => LedgerInv
  BY LedgerStart DEF Init
<1>2. LedgerInv /\ [Next]_vars => LedgerInv'
  BY LedgerStep, LedgerMove
<1>3. QED BY <1>1, <1>2, PTL DEF Spec

(* Whatever requests overlap, and however many observations, a calibration *)
(* as of a time is made of forecasts of its mode that were locked by then  *)
(* (lock_forecast, post_outcome, get_score).                               *)
THEOREM NoHindsight == Spec => []CalibrationHasNoHindsight
<1>1. ASSUME LedgerInv PROVE Ledger!CalibrationHasNoHindsight
  <2>1. SUFFICES ASSUME NEW m \in Ledger!Modes, NEW t \in Ledger!Times,
                        NEW s \in Ledger!Sample(m, t)
                 PROVE  LET f == forecasts[s.forecast]
                        IN  /\ f.mode = m /\ s.metrics = <<f.value, s.observation.realized>>
                            /\ f.locked_at <= f.window.eligible /\ f.locked_at <= t
                            /\ s.observation \in outcomes[s.forecast]
    BY DEF Ledger!CalibrationHasNoHindsight
  <2> DEFINE f == forecasts[s.forecast]
             o == s.observation
  <2>2. Scorable(s) /\ s.mode = m /\ o.observed_at <= t
    BY <1>1 DEF Ledger!Sample, LedgerInv, ScoresAreTrue
  <2>3. /\ f.mode = m /\ s.metrics = <<f.value, o.realized>>
        /\ o \in outcomes[s.forecast] /\ Posted(s.forecast)
    BY <2>2 DEF Scorable
  <2>4. Observable(s.forecast, o)
    BY <1>1, <2>3 DEF LedgerInv, OutcomesAreDue, Posted
  <2>5. f.state = "LOCKED" /\ f.window.eligible <= o.observed_at /\ o.observed_at \in Int
    BY <2>4 DEF Observable, Ledger!Observation, Ledger!Times
  <2>6. f.locked_at \in Int /\ f.locked_at <= f.window.eligible
    BY <1>1, <2>3, <2>5 DEF LedgerInv, LockedAhead, Posted, Ledger!Times
  <2>7. f.window.eligible \in Int /\ t \in Int
    BY <2>3, ForecastFields DEF Posted, Ledger!Times
  <2>8. f.locked_at <= t
    BY <2>2, <2>5, <2>6, <2>7
  <2>9. QED BY <2>3, <2>6, <2>8
<1>2. LedgerInv => CalibrationHasNoHindsight
  BY <1>1 DEF CalibrationHasNoHindsight
<1>3. QED BY <1>2, LedgerAlways, PTL

-----------------------------------------------------------------------------
(* FeatureStore.  A row that is added is of one company and visible from    *)
(* its eligible time on: the rows that a screening showed of the other     *)
(* companies, or showed before that time, are found again.                 *)

(* A run was made of rows, versions and a time there were.                 *)
RunHolds(r) ==
    /\ r.screening.as_of \in 0..MaxTime
    /\ r.screening.levels = [e \in r.screening.entities |-> r.screening.levels[e]]
    /\ r.stored \in Int /\ r.stored <= Cardinality(values)
    /\ \A f \in FeatureDefinitions : r.definitions[f] \in Int /\ r.definitions[f] <= definitions[f]

(* It finds, repeated, what it found.                                      *)
RunReplays(r) ==
    LET s == r.screening
        again == Features!Screening(s.as_of)
        rewritten == {e \in s.entities : Features!Rewritten(r, e, s.as_of)}
    IN  /\ again.universe = s.universe /\ again.entities = s.entities
        /\ \A e \in s.entities \ rewritten : again.rows[e] = s.rows[e]
        /\ rewritten = {} => again.levels = s.levels

FeaturesInv ==
    /\ DOMAIN definitions = FeatureDefinitions
    /\ \A f \in FeatureDefinitions : definitions[f] \in Nat
    /\ IsFiniteSet(values)
    /\ \A r \in runs : RunHolds(r) /\ RunReplays(r)

LEMMA FeaturesCardinality == \A S : Features!Cardinality(S) = Cardinality(S)
BY DEF Features!Cardinality, Cardinality

LEMMA ReplaysAll == FeaturesInv => Features!ScreeningsReplay
BY DEF FeaturesInv, RunReplays, Features!ScreeningsReplay

LEMMA FeaturesStart == Features!Init => FeaturesInv
BY FS_EmptySet DEF Features!Init, FeaturesInv

(* A value of another company, or one eligible later, changes no row.      *)
LEMMA OtherRowsKeep ==
    ASSUME NEW t, NEW x, NEW e, UNCHANGED definitions, values' = values \union {x},
           x.entity # e \/ ~(x.eligible <= t)
    PROVE  Features!MatrixRow(e, t)' = Features!MatrixRow(e, t)
<1>1. ASSUME NEW f PROVE Features!get_feature_as_of(f, e, t)' = Features!get_feature_as_of(f, e, t)
  BY DEF Features!get_feature_as_of, Features!Visible
<1>2. QED BY <1>1 DEF Features!MatrixRow

(* The universe and its members are given; the rest is read from the rows. *)
LEMMA ScreeningsOfRows ==
    ASSUME NEW t
    PROVE  /\ Features!Screening(t)'.universe = Features!Screening(t).universe
           /\ Features!Screening(t)'.entities = Features!Screening(t).entities
           /\ \A e \in Features!Screening(t).entities :
                /\ Features!Screening(t)'.rows[e] = Features!MatrixRow(e, t)'
                /\ Features!Screening(t).rows[e] = Features!MatrixRow(e, t)
           /\ (\A e \in Features!Screening(t).entities :
                 Features!MatrixRow(e, t)' = Features!MatrixRow(e, t))
                => Features!Screening(t)' = Features!Screening(t)
<1> DEFINE members == Features!memberships_as_of(Features!universe_version_as_of(t), t)
<1>1. /\ Features!Screening(t).entities = members /\ Features!Screening(t)'.entities = members
      /\ Features!Screening(t)'.universe = Features!Screening(t).universe
  BY DEF Features!Screening
<1>2. ASSUME NEW e \in members
      PROVE  /\ Features!Screening(t)'.rows[e] = Features!MatrixRow(e, t)'
             /\ Features!Screening(t).rows[e] = Features!MatrixRow(e, t)
  BY DEF Features!Screening
<1>3. ASSUME \A e \in members : Features!MatrixRow(e, t)' = Features!MatrixRow(e, t)
      PROVE  Features!Screening(t)' = Features!Screening(t)
  <2>1. [e \in members |-> Features!MatrixRow(e, t)'] = [e \in members |-> Features!MatrixRow(e, t)]
    BY <1>3
  <2>2. QED BY <2>1 DEF Features!Screening
<1>4. QED BY <1>1, <1>2, <1>3

(* The screening of a company whose row was rewritten is not compared; the *)
(* others keep their rows.                                                 *)
LEMMA RowsKeepScreenings ==
    ASSUME FeaturesInv, NEW x, x.created = Cardinality(values) + 1,
           values' = values \union {x}, x \notin values, UNCHANGED <<definitions, runs>>
    PROVE  FeaturesInv'
<1>1. IsFiniteSet(values') /\ Cardinality(values') = Cardinality(values) + 1
      /\ Cardinality(values) \in Nat
  BY FS_AddElement, FS_CardinalityType DEF FeaturesInv
<1>2. ASSUME NEW r \in runs PROVE RunHolds(r)'
  BY <1>1, <1>2 DEF FeaturesInv, RunHolds
<1>3. ASSUME NEW r \in runs PROVE RunReplays(r)'
  <2> DEFINE s == r.screening
  <2>1. PICK t : t = s.as_of
    OBVIOUS
  <2>2. RunReplays(r) /\ RunHolds(r)
    BY <1>3 DEF FeaturesInv
  <2>3. /\ Features!Screening(t).universe = s.universe /\ Features!Screening(t).entities = s.entities
        /\ \A e \in s.entities : ~Features!Rewritten(r, e, t) => Features!Screening(t).rows[e] = s.rows[e]
        /\ (\A e \in s.entities : ~Features!Rewritten(r, e, t)) => Features!Screening(t).levels = s.levels
    BY <2>1, <2>2 DEF RunReplays
  <2>4. ASSUME NEW e, ~Features!Rewritten(r, e, t)'
        PROVE  /\ ~Features!Rewritten(r, e, t)
               /\ Features!MatrixRow(e, t)' = Features!MatrixRow(e, t)
    <3>1. ~Features!Rewritten(r, e, t)
      BY <2>4 DEF Features!Rewritten
    <3>2. x.created > r.stored
      BY <1>1, <2>2 DEF RunHolds
    <3>3. x.entity # e \/ ~(x.eligible <= t)
      BY <2>4, <3>2 DEF Features!Rewritten
    <3>4. QED BY <3>1, <3>3, OtherRowsKeep
  <2> HIDE DEF s
  <2>5. /\ Features!Screening(t)'.universe = s.universe /\ Features!Screening(t)'.entities = s.entities
        /\ \A e \in s.entities :
             ~Features!Rewritten(r, e, t)' => Features!Screening(t)'.rows[e] = s.rows[e]
        /\ (\A e \in s.entities : ~Features!Rewritten(r, e, t)')
             => Features!Screening(t)'.levels = s.levels
    BY <2>3, <2>4, ScreeningsOfRows
  <2>6. QED BY <2>1, <2>5 DEF RunReplays, s
<1>4. QED BY <1>1, <1>2, <1>3 DEF FeaturesInv

(* A new version rewrites every company of every run.                      *)
LEMMA VersionsKeepScreenings ==
    ASSUME FeaturesInv, NEW f \in FeatureDefinitions,
           definitions' = [definitions EXCEPT ![f] = @ + 1], UNCHANGED <<values, runs>>
    PROVE  FeaturesInv'
<1>1. /\ DOMAIN definitions' = FeatureDefinitions
      /\ \A g \in FeatureDefinitions :
           /\ definitions'[g] \in Nat /\ definitions[g] <= definitions'[g]
           /\ g = f => definitions'[g] = definitions[g] + 1
  BY DEF FeaturesInv
<1>2. ASSUME NEW r \in runs PROVE RunHolds(r)'
  BY <1>1, <1>2 DEF FeaturesInv, RunHolds
<1>3. ASSUME NEW r \in runs PROVE RunReplays(r)'
  <2> DEFINE s == r.screening
  <2>1. PICK t : t = s.as_of
    OBVIOUS
  <2>2. RunReplays(r) /\ RunHolds(r)
    BY <1>3 DEF FeaturesInv
  <2>3. Features!Screening(t).universe = s.universe /\ Features!Screening(t).entities = s.entities
    BY <2>1, <2>2 DEF RunReplays
  <2>4. ASSUME NEW e PROVE Features!Rewritten(r, e, t)'
    <3>1. definitions'[f] # r.definitions[f]
      BY <1>1, <2>2 DEF RunHolds, FeaturesInv
    <3>2. QED BY <3>1 DEF Features!Rewritten
  <2>5. s.levels = [e \in s.entities |-> s.levels[e]]
    BY <2>2 DEF RunHolds
  <2> HIDE DEF s
  <2>6. Features!Screening(t)'.universe = s.universe /\ Features!Screening(t)'.entities = s.entities
    BY <2>3, ScreeningsOfRows
  <2>7. ASSUME s.entities = {} PROVE Features!Screening(t)'.levels = s.levels
    <3>1. Features!Screening(t)'.levels
            = [e \in Features!Screening(t)'.entities |-> Features!Screening(t)'.levels[e]]
      BY DEF Features!Screening
    <3>2. QED BY <2>5, <2>6, <2>7, <3>1
  <2>8. QED BY <2>1, <2>4, <2>6, <2>7 DEF RunReplays, s
<1>4. QED BY <1>1, <1>2, <1>3 DEF FeaturesInv

(* A run freezes what it has just read.                                    *)
LEMMA RunsAreScreenings ==
    ASSUME FeaturesInv, NEW t \in 0..MaxTime, UNCHANGED <<definitions, values>>,
           runs' = runs \union {[screening |-> Features!Screening(t),
                                 stored |-> Cardinality(values), definitions |-> definitions]}
    PROVE  FeaturesInv'
<1> DEFINE made == [screening |-> Features!Screening(t),
                    stored |-> Cardinality(values), definitions |-> definitions]
<1>1. \A u : Features!Screening(u)' = Features!Screening(u)
  <2>1. \A e, u : Features!MatrixRow(e, u)' = Features!MatrixRow(e, u)
    BY DEF Features!MatrixRow, Features!get_feature_as_of, Features!Visible
  <2>2. QED BY <2>1, ScreeningsOfRows
<1>2. ASSUME NEW r PROVE RunHolds(r)' <=> RunHolds(r)
  BY DEF RunHolds
<1>3. ASSUME NEW r PROVE RunReplays(r)' <=> RunReplays(r)
  <2>1. \A e, u : Features!Rewritten(r, e, u)' = Features!Rewritten(r, e, u)
    BY DEF Features!Rewritten
  <2>2. QED BY <1>1, <2>1 DEF RunReplays
<1>4. /\ Features!Screening(t).as_of = t
      /\ Features!Screening(t).levels
           = [e \in Features!Screening(t).entities |-> Features!Screening(t).levels[e]]
  BY DEF Features!Screening
<1>5. RunHolds(made)
  <2>1. Cardinality(values) \in Int
    BY FS_CardinalityType DEF FeaturesInv
  <2>2. QED BY <1>4, <2>1 DEF RunHolds, FeaturesInv
<1>6. RunReplays(made)
  BY <1>4 DEF RunReplays
<1> HIDE DEF made
<1>7. runs' = runs \union {made}
  BY DEF made
<1>8. QED BY <1>2, <1>3, <1>5, <1>6, <1>7 DEF FeaturesInv

LEMMA FeaturesStep == FeaturesInv /\ [Features!Next]_(Features!vars) => FeaturesInv'
<1> SUFFICES ASSUME FeaturesInv, [Features!Next]_(Features!vars) PROVE FeaturesInv'
  OBVIOUS
<1>1. ASSUME NEW f \in FeatureDefinitions, Features!publish_version(f) PROVE FeaturesInv'
  BY <1>1, VersionsKeepScreenings DEF Features!publish_version
<1>2. ASSUME NEW f \in FeatureDefinitions, NEW e \in CompanyIds, NEW v,
             NEW o \in Features!Moments, NEW x \in Features!Moments, NEW t \in Features!Moments,
             NEW i \in Inputs, NEW n \in Numbers,
             Features!create_feature_value(f, v, e, o, x, t, i, n)
      PROVE  FeaturesInv'
  <2> DEFINE row ==
        [feature |-> f, version |-> v, entity |-> e, observation |-> o, eligible |-> t,
         quality |-> IF t < o \/ t < x THEN "temporally_unsafe" ELSE "complete",
         input |-> i, number |-> n, created |-> Cardinality(values) + 1]
  <2>1. values' = values \union {row} /\ UNCHANGED <<definitions, runs>>
    BY <1>2, FeaturesCardinality DEF Features!create_feature_value
  <2>2. row \notin values
    <3>1. <<row.feature, row.version, row.entity, row.observation, row.input>> = <<f, v, e, o, i>>
      OBVIOUS
    <3>2. \A y \in values : <<y.feature, y.version, y.entity, y.observation, y.input>> # <<f, v, e, o, i>>
      BY <1>2 DEF Features!create_feature_value
    <3> HIDE DEF row
    <3>3. QED BY <3>1, <3>2
  <2>3. row.created = Cardinality(values) + 1
    OBVIOUS
  <2> HIDE DEF row
  <2>4. QED BY <2>1, <2>2, <2>3, RowsKeepScreenings
<1>3. ASSUME NEW t \in Features!Moments, Features!run_screening(t) PROVE FeaturesInv'
  BY <1>3, FeaturesCardinality, RunsAreScreenings
     DEF Features!run_screening, Features!Moments
<1>4. CASE UNCHANGED Features!vars
  <2>1. \A e, u : Features!MatrixRow(e, u)' = Features!MatrixRow(e, u)
    BY <1>4 DEF Features!vars, Features!MatrixRow, Features!get_feature_as_of, Features!Visible
  <2>2. \A u : Features!Screening(u)' = Features!Screening(u)
    BY <2>1, ScreeningsOfRows
  <2>3. \A r, e, u : Features!Rewritten(r, e, u)' = Features!Rewritten(r, e, u)
    BY <1>4 DEF Features!vars, Features!Rewritten
  <2>4. \A r : RunReplays(r)' <=> RunReplays(r)
    BY <2>2, <2>3 DEF RunReplays
  <2>5. QED BY <1>4, <2>4 DEF Features!vars, FeaturesInv, RunHolds
<1>5. QED BY <1>1, <1>2, <1>3, <1>4 DEF Features!Next

LEMMA FeaturesMove == [Next]_vars => [Features!Next]_(Features!vars)
BY DEF Next, vars, featuresVars, Features!vars

(* A screening repeated as of its time finds its universe, its companies   *)
(* and their rows, and the same levels when no row was rewritten, for any  *)
(* features, companies, universe and levels: values stored late, under any *)
(* time (create_feature_value), rewrite rows of their own company that are *)
(* read after they became eligible, and a new version of a definition      *)
(* rewrites every row (publish_version).                                   *)
THEOREM ScreeningsAreReproducible == Spec => []ScreeningsReplay
<1>1. Init => FeaturesInv
  BY FeaturesStart DEF Init
<1>2. FeaturesInv /\ [Next]_vars => FeaturesInv'
  BY FeaturesStep, FeaturesMove
<1>3. FeaturesInv => ScreeningsReplay
  BY ReplaysAll DEF ScreeningsReplay
<1>4. QED BY <1>1, <1>2, <1>3, PTL DEF Spec

-----------------------------------------------------------------------------
(* EntityResolution.  A transaction commits what it read; that its value   *)
(* had an owner stays true, since identifiers are never deleted, and that  *)
(* it had none is what the unique constraint checks again.                 *)

ReviewHolds(q) ==
    /\ q.step \in {"none", "loaded", "checked"}
    /\ q.step # "none" => q.does \in Resolution!Verdicts \union {"attach"}
    /\ q.step = "checked" =>
         /\ q.owners \subseteq Resolution!Owners(q.value)
         /\ q.does = "confirmed" => q.owners \subseteq {q.entity}

OneOwner == \A i, j \in identifiers : i.value = j.value => i.entity = j.entity
DecisionsStand ==
    \A v \in IdentifierValues, e \in Entities :
        {d.decision : d \in Resolution!Rows(decisions, v, e)}
          = {c.status : c \in Resolution!Rows(matches, v, e)} \intersect Resolution!Verdicts
ConfirmedOwn ==
    \A c \in matches : c.status = "confirmed" => c.entity \in Resolution!Owners(c.value)

ResolutionsInv ==
    /\ DOMAIN review = Requests /\ \A r \in Requests : ReviewHolds(review[r])
    /\ OneOwner /\ DecisionsStand /\ ConfirmedOwn

LEMMA ResolutionsStart == Resolution!Init => ResolutionsInv
BY DEF Resolution!Init, Resolution!NoReview, Resolution!Rows, ResolutionsInv, ReviewHolds,
       OneOwner, DecisionsStand, ConfirmedOwn

(* A transaction that goes on or ends changes no row.                      *)
LEMMA ReviewMoves ==
    ASSUME ResolutionsInv, NEW r \in Requests, NEW q, ReviewHolds(q),
           review' = [review EXCEPT ![r] = q], UNCHANGED <<identifiers, matches, decisions>>
    PROVE  ResolutionsInv'
<1>1. \A s \in Requests : ReviewHolds(review'[s])
  BY DEF ResolutionsInv
<1>2. OneOwner' /\ ConfirmedOwn'
  BY DEF ResolutionsInv, OneOwner, ConfirmedOwn, Resolution!Owners
<1>3. DecisionsStand'
  BY DEF ResolutionsInv, DecisionsStand, Resolution!Rows
<1>4. \A s \in Requests : ReviewHolds(review[s])'
  BY <1>1 DEF ReviewHolds, Resolution!Owners
<1>5. DOMAIN review' = Requests
  BY DEF ResolutionsInv
<1>6. QED BY <1>2, <1>3, <1>4, <1>5 DEF ResolutionsInv

(* Identifiers are only added to, and a transaction that commits is over.  *)
LEMMA ReviewsSurvive ==
    ASSUME ResolutionsInv, identifiers \subseteq identifiers',
           \/ UNCHANGED review
           \/ \E r \in Requests : review' = [review EXCEPT ![r] = Resolution!NoReview]
    PROVE  DOMAIN review' = Requests /\ \A s \in Requests : ReviewHolds(review[s])'
<1>1. DOMAIN review' = Requests
  BY DEF ResolutionsInv
<1>2. \A s \in Requests : review'[s] = review[s] \/ review'[s].step = "none"
  BY DEF ResolutionsInv, Resolution!NoReview
<1>3. \A v : Resolution!Owners(v) \subseteq Resolution!Owners(v)'
  BY DEF Resolution!Owners
<1>4. ASSUME NEW s \in Requests PROVE ReviewHolds(review[s])'
  <2>1. ReviewHolds(review[s])
    BY DEF ResolutionsInv
  <2>2. PICK q : q = review'[s]
    OBVIOUS
  <2>3. q.step = "none" \/ ReviewHolds(q)
    BY <1>2, <2>1, <2>2
  <2>4. Resolution!Owners(q.value) \subseteq Resolution!Owners(q.value)'
    BY <1>3
  <2>5. /\ q.step \in {"none", "loaded", "checked"}
        /\ q.step # "none" => q.does \in Resolution!Verdicts \union {"attach"}
        /\ q.step = "checked" =>
             /\ q.owners \subseteq Resolution!Owners(q.value)'
             /\ q.does = "confirmed" => q.owners \subseteq {q.entity}
    BY <2>3, <2>4 DEF ReviewHolds
  <2>6. QED BY <2>2, <2>5 DEF ReviewHolds, Resolution!Owners
<1>5. QED BY <1>1, <1>4

(* A candidate without a verdict, where there was none.                    *)
LEMMA CandidatesKeep ==
    ASSUME ResolutionsInv, NEW v, NEW e, NEW status \in {"candidate", "ambiguous"},
           matches' = Resolution!WithCandidate(v, e, status), UNCHANGED decisions,
           identifiers \subseteq identifiers'
    PROVE  DecisionsStand' /\ ConfirmedOwn'
<1> DEFINE row == [value |-> v, entity |-> e, status |-> status]
<1>1. matches' = matches \/ matches' = matches \union {row}
  BY DEF Resolution!WithCandidate
<1>2. row.status = status /\ status \notin Resolution!Verdicts
  BY DEF Resolution!Verdicts
<1>3. \A u : Resolution!Owners(u) \subseteq Resolution!Owners(u)'
  BY DEF Resolution!Owners
<1> HIDE DEF row
<1>4. ConfirmedOwn'
  BY <1>1, <1>2, <1>3 DEF ResolutionsInv, ConfirmedOwn
<1>5. ASSUME NEW u \in IdentifierValues, NEW d \in Entities
      PROVE  {c.status : c \in Resolution!Rows(matches', u, d)} \intersect Resolution!Verdicts
               = {c.status : c \in Resolution!Rows(matches, u, d)} \intersect Resolution!Verdicts
  BY <1>1, <1>2 DEF Resolution!Rows
<1>6. DecisionsStand'
  BY <1>5 DEF ResolutionsInv, DecisionsStand, Resolution!Rows
<1>7. QED BY <1>4, <1>6

(* What a transaction inserts, and what it has seen, after the constraint. *)
LEMMA InsertionsKeepOwners ==
    ASSUME ResolutionsInv, NEW q, ~Resolution!Violated(q),
           identifiers' = identifiers \union Resolution!Inserted(q)
    PROVE  OneOwner'
BY DEF ResolutionsInv, OneOwner, Resolution!Violated, Resolution!Inserted, Resolution!Owners

LEMMA DecisionsKeep ==
    ASSUME ResolutionsInv, NEW q, ReviewHolds(q), q.step = "checked", q.does # "attach",
           ~Resolution!Violated(q), Resolution!CommitDecision(q)
    PROVE  DecisionsStand' /\ ConfirmedOwn'
<1> DEFINE row == [value |-> q.value, entity |-> q.entity, status |-> q.does]
           decision == [value |-> q.value, entity |-> q.entity, decision |-> q.does]
           others == {c \in matches : ~(c.value = q.value /\ c.entity = q.entity)}
<1>1. /\ row.value = q.value /\ row.entity = q.entity /\ row.status = q.does
      /\ decision.value = q.value /\ decision.entity = q.entity /\ decision.decision = q.does
      /\ q.does \in Resolution!Verdicts
  BY DEF ReviewHolds
<1>2. matches' = others \union {row} /\ decisions' = decisions \union {decision}
  BY DEF Resolution!CommitDecision
<1>3. Resolution!Rows(decisions, q.value, q.entity) = {}
  BY DEF Resolution!Violated
<1>4. \A u : Resolution!Owners(u) \subseteq Resolution!Owners(u)'
  BY DEF Resolution!CommitDecision, Resolution!Owners
<1>5. q.does = "confirmed" => q.entity \in Resolution!Owners(q.value)'
  <2>1. CASE q.owners = {} /\ q.does = "confirmed"
    <3> DEFINE identifier == [value |-> q.value, entity |-> q.entity]
    <3>1. identifier \in identifiers'
      BY <2>1 DEF Resolution!CommitDecision, Resolution!Inserted
    <3>2. identifier.value = q.value /\ identifier.entity = q.entity
      OBVIOUS
    <3> HIDE DEF identifier
    <3>3. QED BY <3>1, <3>2 DEF Resolution!Owners
  <2>2. CASE q.owners # {}
    BY <1>4, <2>2 DEF ReviewHolds
  <2>3. QED BY <2>1, <2>2
<1> HIDE DEF row, decision
<1>6. ConfirmedOwn'
  BY <1>1, <1>2, <1>4, <1>5 DEF ResolutionsInv, ConfirmedOwn
<1>7. ASSUME NEW v \in IdentifierValues, NEW e \in Entities
      PROVE  {d.decision : d \in Resolution!Rows(decisions', v, e)}
               = {c.status : c \in Resolution!Rows(matches', v, e)} \intersect Resolution!Verdicts
  <2>1. CASE v = q.value /\ e = q.entity
    <3>1. Resolution!Rows(decisions', v, e) = {decision}
      BY <1>1, <1>2, <1>3, <2>1 DEF Resolution!Rows
    <3>2. Resolution!Rows(matches', v, e) = {row}
      BY <1>1, <1>2, <2>1 DEF Resolution!Rows
    <3>3. QED BY <1>1, <3>1, <3>2
  <2>2. CASE ~(v = q.value /\ e = q.entity)
    <3>1. Resolution!Rows(decisions', v, e) = Resolution!Rows(decisions, v, e)
      BY <1>1, <1>2, <2>2 DEF Resolution!Rows
    <3>2. Resolution!Rows(matches', v, e) = Resolution!Rows(matches, v, e)
      BY <1>1, <1>2, <2>2 DEF Resolution!Rows
    <3>3. QED BY <3>1, <3>2 DEF ResolutionsInv, DecisionsStand
  <2>3. QED BY <2>1, <2>2
<1>8. DecisionsStand'
  BY <1>7 DEF DecisionsStand, Resolution!Rows
<1>9. QED BY <1>6, <1>8

LEMMA CommitKeepsResolutions ==
    ASSUME ResolutionsInv, NEW r \in Requests, Resolution!Commit(r) PROVE ResolutionsInv'
<1>1. PICK q : q = review[r]
  OBVIOUS
<1>2. /\ ReviewHolds(q) /\ q.step = "checked" /\ ~Resolution!Violated(q)
      /\ \/ q.does = "attach" /\ Resolution!CommitAttach(q)
         \/ q.does # "attach" /\ Resolution!CommitDecision(q)
      /\ review' = [review EXCEPT ![r] = Resolution!NoReview]
  BY <1>1 DEF Resolution!Commit, ResolutionsInv
<1>3. identifiers' = identifiers \union Resolution!Inserted(q)
  BY <1>2 DEF Resolution!CommitAttach, Resolution!CommitDecision
<1>4. OneOwner'
  BY <1>2, <1>3, InsertionsKeepOwners
<1>5. DOMAIN review' = Requests /\ \A s \in Requests : ReviewHolds(review[s])'
  BY <1>2, <1>3, ReviewsSurvive
<1>6. CASE q.does = "attach" /\ Resolution!CommitAttach(q)
  <2>1. DecisionsStand' /\ ConfirmedOwn'
    <3>1. CASE UNCHANGED <<matches, decisions>>
      BY <1>3, <3>1
         DEF ResolutionsInv, DecisionsStand, ConfirmedOwn, Resolution!Rows, Resolution!Owners
    <3>2. CASE matches' = Resolution!WithCandidate(q.value, q.entity, "ambiguous")
      BY <1>3, <1>6, <3>2, CandidatesKeep DEF Resolution!CommitAttach
    <3>3. QED BY <1>6, <3>1, <3>2 DEF Resolution!CommitAttach
  <2>2. QED BY <1>4, <1>5, <2>1 DEF ResolutionsInv
<1>7. CASE q.does # "attach" /\ Resolution!CommitDecision(q)
  BY <1>2, <1>4, <1>5, <1>7, DecisionsKeep DEF ResolutionsInv
<1>8. QED BY <1>2, <1>6, <1>7

LEMMA CheckOwnerKeeps ==
    ASSUME ResolutionsInv, NEW r \in Requests, Resolution!CheckOwner(r) PROVE ResolutionsInv'
<1> DEFINE old == review[r]
           owners == Resolution!Owners(old.value)
           checked == [step |-> "checked", value |-> old.value, entity |-> old.entity,
                       does |-> old.does, owners |-> owners]
<1>1. ReviewHolds(Resolution!NoReview)
  BY DEF ReviewHolds, Resolution!NoReview
<1>2. ~(old.does = "confirmed" /\ owners \ {old.entity} # {}) => ReviewHolds(checked)
  BY DEF ReviewHolds, ResolutionsInv, Resolution!CheckOwner
<1>3. PICK q \in {Resolution!NoReview, checked} :
        ReviewHolds(q) /\ review' = [review EXCEPT ![r] = q]
  BY <1>1, <1>2 DEF Resolution!CheckOwner
<1>4. QED BY <1>3, ReviewMoves DEF Resolution!CheckOwner

LEMMA ResolutionsStep == ResolutionsInv /\ [Resolution!Next]_(Resolution!vars) => ResolutionsInv'
<1> SUFFICES ASSUME ResolutionsInv, [Resolution!Next]_(Resolution!vars) PROVE ResolutionsInv'
  OBVIOUS
<1>1. ASSUME NEW v \in IdentifierValues, NEW e \in Entities,
             Resolution!create_resolution_candidate(v, e)
      PROVE  ResolutionsInv'
  <2>1. DecisionsStand' /\ ConfirmedOwn'
    BY <1>1, CandidatesKeep DEF Resolution!create_resolution_candidate
  <2>2. DOMAIN review' = Requests /\ \A s \in Requests : ReviewHolds(review[s])'
    BY <1>1, ReviewsSurvive DEF Resolution!create_resolution_candidate
  <2>3. OneOwner'
    BY <1>1 DEF Resolution!create_resolution_candidate, ResolutionsInv, OneOwner
  <2>4. QED BY <2>1, <2>2, <2>3 DEF ResolutionsInv
<1>2. ASSUME NEW r \in Requests, NEW v, NEW e, NEW does \in Resolution!Verdicts \union {"attach"},
             review' = [review EXCEPT ![r] =
                          [step |-> "loaded", value |-> v, entity |-> e, does |-> does]],
             UNCHANGED <<identifiers, matches, decisions>>
      PROVE  ResolutionsInv'
  <2>1. ReviewHolds([step |-> "loaded", value |-> v, entity |-> e, does |-> does])
    BY DEF ReviewHolds
  <2>2. QED BY <1>2, <2>1, ReviewMoves
<1>3. ASSUME NEW r \in Requests, Resolution!Rollback(r) PROVE ResolutionsInv'
  <2>1. ReviewHolds(Resolution!NoReview)
    BY DEF ReviewHolds, Resolution!NoReview
  <2>2. QED BY <1>3, <2>1, ReviewMoves DEF Resolution!Rollback
<1>4. ASSUME NEW r \in Requests, NEW v \in IdentifierValues, NEW e \in Entities,
             \/ Resolution!StartAttach(r, v, e)
             \/ \E verdict \in Resolution!Verdicts : Resolution!LoadCandidate(r, v, e, verdict)
      PROVE  ResolutionsInv'
  BY <1>2, <1>4 DEF Resolution!StartAttach, Resolution!LoadCandidate
<1>5. CASE UNCHANGED Resolution!vars
  <2>1. DOMAIN review' = Requests /\ \A s \in Requests : ReviewHolds(review[s])'
    BY <1>5, ReviewsSurvive DEF Resolution!vars
  <2>2. OneOwner' /\ DecisionsStand' /\ ConfirmedOwn'
    BY <1>5 DEF Resolution!vars, ResolutionsInv, OneOwner, DecisionsStand, ConfirmedOwn,
                Resolution!Rows, Resolution!Owners
  <2>3. QED BY <2>1, <2>2 DEF ResolutionsInv
<1>6. QED
  BY <1>1, <1>3, <1>4, <1>5, CheckOwnerKeeps, CommitKeepsResolutions DEF Resolution!Next

LEMMA ResolutionsMove == [Next]_vars => [Resolution!Next]_(Resolution!vars)
BY DEF Next, vars, resolutionVars, Resolution!vars

LEMMA ResolutionCardinality == \A S : Resolution!Cardinality(S) = Cardinality(S)
BY DEF Resolution!Cardinality, Cardinality

(* Reviewers who contradict each other, or confirm one value for two       *)
(* entities while ingestion attaches it to a third, leave one story, for   *)
(* any values, entities and transactions (attach_identifier,               *)
(* decide_resolution).                                                     *)
THEOREM OneStory == Spec => []ResolutionsAgree
<1>1. Init => ResolutionsInv
  BY ResolutionsStart DEF Init
<1>2. ResolutionsInv /\ [Next]_vars => ResolutionsInv'
  BY ResolutionsStep, ResolutionsMove
<1>3. ASSUME ResolutionsInv PROVE ResolutionsAgree
  <2>1. ASSUME NEW v \in IdentifierValues PROVE Resolution!Cardinality(Resolution!Owners(v)) <= 1
    <3>1. CASE Resolution!Owners(v) = {}
      BY <3>1, FS_EmptySet, ResolutionCardinality
    <3>2. CASE Resolution!Owners(v) # {}
      <4>1. PICK e : Resolution!Owners(v) = {e}
        BY <1>3, <3>2 DEF ResolutionsInv, OneOwner, Resolution!Owners
      <4>2. QED BY <4>1, FS_Singleton, ResolutionCardinality
    <3>3. QED BY <3>1, <3>2
  <2>2. ASSUME NEW v \in IdentifierValues, NEW e \in Entities,
               NEW c \in Resolution!Rows(matches, v, e), c.status = "confirmed"
        PROVE  e \in Resolution!Owners(v)
    BY <1>3, <2>2 DEF ResolutionsInv, ConfirmedOwn, Resolution!Rows
  <2>3. Resolution!ResolutionsAgree
    BY <1>3, <2>1, <2>2 DEF Resolution!ResolutionsAgree, ResolutionsInv, DecisionsStand
  <2>4. QED BY <2>3 DEF ResolutionsAgree
<1>4. QED BY <1>1, <1>2, <1>3, PTL DEF Spec

-----------------------------------------------------------------------------
(* HypothesisLifecycle.  The invariant follows the rows of the archetype   *)
(* at hand through the calls of a transaction; those before it are done.   *)

Trail(significant) ==
    IF significant THEN Hypotheses!PROMOTION_ORDER
    ELSE Append(SubSeq(Hypotheses!PROMOTION_ORDER, 1, 5), "REJECTED")
Rows(hypothesis, status, folds, significant, valid, promotions, manifest) ==
    [hypothesis |-> hypothesis,
     experiment |-> [status |-> status, folds |-> folds, significant |-> significant,
                     controls_valid |-> valid],
     promotions |-> promotions, manifest |-> manifest]
Scheduled == Rows("TESTING", "RUNNING", 0, FALSE, FALSE, <<>>, FALSE)
Tested(significant) == Rows("TESTING", "RUNNING", Folds, significant, TRUE, <<>>, FALSE)
Promoted(significant) ==
    Rows("TESTING", "RUNNING", Folds, significant, TRUE, Trail(significant), FALSE)
Judged(significant) ==
    IF significant THEN Rows("VALIDATED", "COMPLETED", Folds, TRUE, TRUE, Trail(TRUE), TRUE)
    ELSE Rows("REJECTED", "REJECTED", Folds, FALSE, TRUE, Trail(FALSE), TRUE)
IsJudged(x) == \E significant \in BOOLEAN : x = Judged(significant)

InCall(t) == t.step \in {"evaluate", "promote", "conclude"}
SeedingHolds(t) ==
    /\ t.step \in Hypotheses!Steps
    /\ InCall(t) \/ t.step = "hypothesize" =>
         /\ t.next \in 1..(Len(Archetypes) + 1) /\ DOMAIN t.rows = Hypotheses!Researched
         /\ \A i \in 1..(t.next - 1) :
              \/ IsJudged(t.rows[Archetypes[i]])
              \/ InCall(t) /\ Archetypes[i] = Archetypes[t.next]
    /\ InCall(t) => t.next <= Len(Archetypes)
    /\ t.step = "evaluate" => t.rows[Archetypes[t.next]] = Scheduled
    /\ t.step = "promote" => \E b \in BOOLEAN : t.rows[Archetypes[t.next]] = Tested(b)
    /\ t.step = "conclude" => \E b \in BOOLEAN : t.rows[Archetypes[t.next]] = Promoted(b)

HypothesesInv ==
    /\ \/ \A a \in Hypotheses!Researched : research[a] = Hypotheses!Nothing
       \/ \A a \in Hypotheses!Researched : IsJudged(research[a])
    /\ DOMAIN seeding = Requests
    /\ \A s \in Requests : SeedingHolds(seeding[s])

LEMMA HypothesesStart == Hypotheses!Init => HypothesesInv
BY DEF Hypotheses!Init, HypothesesInv, SeedingHolds, InCall, Hypotheses!NotSeeding,
       Hypotheses!Steps

(* The rows with fields rewritten, as each call of the service does it.    *)
Moved(x, h, s) == [x EXCEPT !.hypothesis = h, !.experiment.status = s]
Measured(x, f, b, v) ==
    [x EXCEPT !.experiment.folds = f, !.experiment.significant = b, !.experiment.controls_valid = v]
Recorded(x, p) == [x EXCEPT !.promotions = p]
Described(x, h, m) == [x EXCEPT !.hypothesis = h, !.manifest = m]

LEMMA RowsMoved ==
    ASSUME NEW h, NEW st, NEW fo, NEW sg, NEW va, NEW pr, NEW ma, NEW h2, NEW st2
    PROVE  Moved(Rows(h, st, fo, sg, va, pr, ma), h2, st2) = Rows(h2, st2, fo, sg, va, pr, ma)
<1>1. [Rows(h, st, fo, sg, va, pr, ma) EXCEPT !.hypothesis = h2]
        = Rows(h2, st, fo, sg, va, pr, ma)
  BY DEF Rows
<1>2. [Rows(h2, st, fo, sg, va, pr, ma) EXCEPT !.experiment.status = st2]
        = Rows(h2, st2, fo, sg, va, pr, ma)
  BY DEF Rows
<1>3. QED BY <1>1, <1>2, Zenon DEF Moved

LEMMA RowsMeasured ==
    ASSUME NEW h, NEW st, NEW fo, NEW sg, NEW va, NEW pr, NEW ma, NEW f2, NEW b2, NEW v2
    PROVE  Measured(Rows(h, st, fo, sg, va, pr, ma), f2, b2, v2) = Rows(h, st, f2, b2, v2, pr, ma)
<1>1. [Rows(h, st, fo, sg, va, pr, ma) EXCEPT !.experiment.folds = f2]
        = Rows(h, st, f2, sg, va, pr, ma)
  BY DEF Rows
<1>2. [Rows(h, st, f2, sg, va, pr, ma) EXCEPT !.experiment.significant = b2]
        = Rows(h, st, f2, b2, va, pr, ma)
  BY DEF Rows
<1>3. [Rows(h, st, f2, b2, va, pr, ma) EXCEPT !.experiment.controls_valid = v2]
        = Rows(h, st, f2, b2, v2, pr, ma)
  BY DEF Rows
<1>4. QED BY <1>1, <1>2, <1>3, Zenon DEF Measured

LEMMA RowsRecorded ==
    ASSUME NEW h, NEW st, NEW fo, NEW sg, NEW va, NEW pr, NEW ma, NEW p2
    PROVE  Recorded(Rows(h, st, fo, sg, va, pr, ma), p2) = Rows(h, st, fo, sg, va, p2, ma)
BY DEF Rows, Recorded

LEMMA RowsDescribed ==
    ASSUME NEW h, NEW st, NEW fo, NEW sg, NEW va, NEW pr, NEW ma, NEW h2, NEW m2
    PROVE  Described(Rows(h, st, fo, sg, va, pr, ma), h2, m2) = Rows(h2, st, fo, sg, va, pr, m2)
<1>1. [Rows(h, st, fo, sg, va, pr, ma) EXCEPT !.hypothesis = h2]
        = Rows(h2, st, fo, sg, va, pr, ma)
  BY DEF Rows
<1>2. [Rows(h2, st, fo, sg, va, pr, ma) EXCEPT !.manifest = m2]
        = Rows(h2, st, fo, sg, va, pr, m2)
  BY DEF Rows
<1>3. QED BY <1>1, <1>2, Zenon DEF Described

(* What each call makes of the rows it is given.                           *)
LEMMA Scheduling ==
    \A x \in Hypotheses!schedule_experiment(Hypotheses!create_hypothesis) : x = Scheduled
<1>1. PICK no : no = FALSE
  OBVIOUS
<1> DEFINE made == Rows("DRAFT", "SCHEDULED", 0, no, no, <<>>, no)
           scheduled == Rows("TESTING", "RUNNING", 0, no, no, <<>>, no)
<1>2. Hypotheses!create_hypothesis = made
  BY <1>1 DEF Hypotheses!create_hypothesis, Rows
<1>3. scheduled = Scheduled
  BY <1>1 DEF Scheduled
<1>4. Moved(made, "TESTING", "RUNNING") = scheduled
  BY RowsMoved
<1> HIDE DEF made, scheduled
<1>5. \A x \in Hypotheses!schedule_experiment(made) : x = Moved(made, "TESTING", "RUNNING")
  BY Zenon DEF Hypotheses!schedule_experiment, Moved
<1>6. QED BY <1>2, <1>3, <1>4, <1>5, Zenon

LEMMA Testing ==
    ASSUME NEW b
    PROVE  [Scheduled EXCEPT !.experiment.folds = Folds, !.experiment.significant = b,
                             !.experiment.controls_valid = TRUE] = Tested(b)
<1>1. PICK no : no = FALSE
  OBVIOUS
<1>2. PICK yes : yes = TRUE
  OBVIOUS
<1> DEFINE scheduled == Rows("TESTING", "RUNNING", 0, no, no, <<>>, no)
           tested == Rows("TESTING", "RUNNING", Folds, b, yes, <<>>, no)
<1>3. scheduled = Scheduled /\ tested = Tested(b)
  BY <1>1, <1>2 DEF Scheduled, Tested
<1>4. Measured(scheduled, Folds, b, yes) = tested
  BY RowsMeasured
<1> HIDE DEF scheduled, tested
<1>5. Measured(Scheduled, Folds, b, TRUE) = Tested(b)
  BY <1>2, <1>3, <1>4
<1>6. QED BY <1>5, Zenon DEF Measured

LEMMA Promoting ==
    ASSUME NEW b \in BOOLEAN,
           NEW x \in Hypotheses!record_promotions(Tested(b), Hypotheses!Stages(Tested(b)))
    PROVE  x = Promoted(b)
<1>1. Tested(b).experiment.significant = b /\ Tested(b).experiment.controls_valid = TRUE
  BY DEF Tested, Rows
<1>2. Hypotheses!Stages(Tested(b)) = Trail(b)
  BY <1>1 DEF Hypotheses!Stages, Hypotheses!Passed, Trail
<1>3. PICK S : Trail(b) \in Seq(S)
  <2> DEFINE S == {"DRAFT", "EVIDENCE_CHECKED", "IMPLEMENTED", "LEAKAGE_CHECKED", "BACKTESTED",
                   "WALK_FORWARD_PASSED", "ROBUSTNESS_PASSED", "OOS_PASSED", "PAPER_ELIGIBLE",
                   "REJECTED"}
  <2>1. Hypotheses!PROMOTION_ORDER \in Seq(S)
    BY DEF Hypotheses!PROMOTION_ORDER
  <2>2. Len(Hypotheses!PROMOTION_ORDER) = 9
    BY DEF Hypotheses!PROMOTION_ORDER
  <2>3. "REJECTED" \in S
    OBVIOUS
  <2> HIDE DEF S
  <2>4. SubSeq(Hypotheses!PROMOTION_ORDER, 1, 5) \in Seq(S)
    <3>1. PICK order : order = Hypotheses!PROMOTION_ORDER
      OBVIOUS
    <3>2. order \in Seq(S) /\ Len(order) = 9
      BY <2>1, <2>2, <3>1
    <3>3. ASSUME NEW i \in 1..5 PROVE order[i] \in S
      <4>1. i \in 1..Len(order)
        BY <3>2
      <4>2. QED BY <3>2, <4>1, ElementOfSeq, Zenon
    <3>4. SubSeq(order, 1, 5) \in Seq(S)
      <4>1. 1 \in Int /\ 5 \in Int
        OBVIOUS
      <4>2. QED BY <3>3, <4>1, SubSeqProperties, Zenon
    <3>5. QED BY <3>1, <3>4
  <2>5. QED BY <2>1, <2>3, <2>4 DEF Trail
<1>4. Tested(b).promotions = <<>>
  BY DEF Tested, Rows
<1>5. <<>> \o Trail(b) = Trail(b)
  BY <1>3
<1>6. x = Recorded(Tested(b), Tested(b).promotions \o Trail(b))
  BY <1>2, Zenon DEF Hypotheses!record_promotions, Recorded
<1>7. Recorded(Tested(b), Trail(b)) = Promoted(b)
  <2>1. PICK no : no = FALSE
    OBVIOUS
  <2>2. PICK yes : yes = TRUE
    OBVIOUS
  <2>3. PICK trail : trail = Trail(b)
    OBVIOUS
  <2> DEFINE tested == Rows("TESTING", "RUNNING", Folds, b, yes, <<>>, no)
             promoted == Rows("TESTING", "RUNNING", Folds, b, yes, trail, no)
  <2>4. tested = Tested(b) /\ promoted = Promoted(b)
    BY <2>1, <2>2, <2>3 DEF Tested, Promoted
  <2>5. Recorded(tested, trail) = promoted
    BY RowsRecorded
  <2> HIDE DEF tested, promoted
  <2>6. QED BY <2>3, <2>4, <2>5
<1>8. QED BY <1>4, <1>5, <1>6, <1>7, Zenon

LEMMA Concluding ==
    ASSUME NEW b \in BOOLEAN,
           NEW x \in Hypotheses!complete_experiment(Promoted(b), Promoted(b).experiment.significant)
    PROVE  Hypotheses!Validated(x) = Judged(b)
<1>1. Promoted(b).experiment.significant = b
  BY DEF Promoted, Rows
<1>2. PICK no : no = FALSE
  OBVIOUS
<1>3. PICK yes : yes = TRUE
  OBVIOUS
<1>4. PICK trail : trail = Trail(b)
  OBVIOUS
<1>5. PICK verdict : verdict = IF b THEN "PROMISING" ELSE "REJECTED"
  OBVIOUS
<1>6. PICK status : status = IF b THEN "COMPLETED" ELSE "REJECTED"
  OBVIOUS
<1>7. PICK final : final = IF b THEN "VALIDATED" ELSE "REJECTED"
  OBVIOUS
<1> DEFINE promoted == Rows("TESTING", "RUNNING", Folds, b, yes, trail, no)
           completed == Rows(verdict, status, Folds, b, yes, trail, no)
           judged == Rows(final, status, Folds, b, yes, trail, yes)
<1>8. completed.hypothesis = verdict
  BY DEF Rows
<1>9. promoted = Promoted(b)
  BY <1>2, <1>3, <1>4 DEF Promoted
<1>10. judged = Judged(b)
  BY <1>3, <1>4, <1>6, <1>7 DEF Judged
<1>11. (IF verdict = "PROMISING" THEN "VALIDATED" ELSE verdict) = final
  BY <1>5, <1>7
<1>12. Moved(promoted, verdict, status) = completed
  BY RowsMoved
<1>13. Described(completed, final, yes) = judged
  BY RowsDescribed
<1> HIDE DEF promoted, completed, judged
<1>14. x = Moved(Promoted(b), verdict, status)
  BY <1>1, <1>5, <1>6, Zenon DEF Hypotheses!complete_experiment, Moved
<1>15. x = completed
  BY <1>9, <1>12, <1>14
<1>16. Hypotheses!Validated(completed)
        = Described(completed, IF completed.hypothesis = "PROMISING" THEN "VALIDATED"
                               ELSE completed.hypothesis, TRUE)
  BY Zenon DEF Hypotheses!Validated, Described
<1>17. Hypotheses!Validated(completed) = Described(completed, final, yes)
  BY <1>3, <1>8, <1>11, <1>16
<1>18. QED BY <1>10, <1>13, <1>15, <1>17

(* A transaction that goes on with other rows keeps the invariant.         *)
LEMMA SeedingMoves ==
    ASSUME HypothesesInv, NEW s \in Requests, NEW t, SeedingHolds(t),
           seeding' = [seeding EXCEPT ![s] = t], UNCHANGED research
    PROVE  HypothesesInv'
<1>1. DOMAIN seeding' = Requests /\ \A r \in Requests : SeedingHolds(seeding'[r])
  BY Zenon DEF HypothesesInv
<1>2. \A r \in Requests : SeedingHolds(seeding[r])'
  BY <1>1 DEF SeedingHolds, InCall
<1>3. QED BY <1>1, <1>2 DEF HypothesesInv, IsJudged, Judged, Trail, Rows

LEMMA EndedHolds ==
    SeedingHolds([step |-> "failed"]) /\ SeedingHolds(Hypotheses!NotSeeding)
    /\ SeedingHolds([step |-> "existing"])
BY DEF SeedingHolds, InCall, Hypotheses!Steps, Hypotheses!NotSeeding

LEMMA RowsWritten ==
    ASSUME NEW t, SeedingHolds(t), InCall(t) \/ t.step = "hypothesize",
           t.next <= Len(Archetypes), NEW x, NEW to, NEW n,
           \/ to = "evaluate" /\ n = t.next /\ x = Scheduled
           \/ to = "promote" /\ n = t.next /\ \E b \in BOOLEAN : x = Tested(b)
           \/ to = "conclude" /\ n = t.next /\ \E b \in BOOLEAN : x = Promoted(b)
           \/ to = "hypothesize" /\ n = t.next + 1 /\ IsJudged(x)
    PROVE  SeedingHolds([step |-> to, next |-> n,
                         rows |-> [t.rows EXCEPT ![Archetypes[t.next]] = x]])
<1> DEFINE a == Archetypes[t.next]
           rows == [t.rows EXCEPT ![a] = x]
           u == [step |-> to, next |-> n, rows |-> rows]
<1>1. u.step = to /\ u.next = n /\ u.rows = rows
  OBVIOUS
<1>2. t.next \in 1..Len(Archetypes) /\ DOMAIN t.rows = Hypotheses!Researched
  BY HypothesesAssumption DEF SeedingHolds
<1>3. a \in Hypotheses!Researched
  BY <1>2 DEF Hypotheses!Researched
<1>4. DOMAIN rows = Hypotheses!Researched /\ rows[a] = x
  BY <1>2, <1>3
<1>5. \A i \in 1..(t.next - 1) : Archetypes[i] # a => IsJudged(rows[Archetypes[i]])
  <2> SUFFICES ASSUME NEW i \in 1..(t.next - 1), Archetypes[i] # a
               PROVE  IsJudged(rows[Archetypes[i]])
    OBVIOUS
  <2>1. IsJudged(t.rows[Archetypes[i]])
    BY DEF SeedingHolds
  <2>2. Archetypes[i] \in Hypotheses!Researched
    BY <1>2, HypothesesAssumption DEF Hypotheses!Researched
  <2>3. rows[Archetypes[i]] = t.rows[Archetypes[i]]
    BY <1>2, <2>2
  <2>4. QED BY <2>1, <2>3
<1>6. to \in Hypotheses!Steps /\ n \in 1..(Len(Archetypes) + 1)
  BY <1>2, HypothesesAssumption DEF Hypotheses!Steps
<1>7. InCall(u) <=> to \in {"evaluate", "promote", "conclude"}
  BY <1>1 DEF InCall
<1> SUFFICES SeedingHolds(u)
  OBVIOUS
<1> HIDE DEF rows, u
<1>8. CASE to \in {"evaluate", "promote", "conclude"}
  <2>1. n = t.next /\ n <= Len(Archetypes) /\ Archetypes[n] = a
    BY <1>8
  <2>2. \A i \in 1..(u.next - 1) : \/ IsJudged(u.rows[Archetypes[i]])
                                   \/ InCall(u) /\ Archetypes[i] = Archetypes[u.next]
    BY <1>1, <1>5, <1>7, <1>8, <2>1
  <2>3. /\ u.step = "evaluate" => u.rows[Archetypes[u.next]] = Scheduled
        /\ u.step = "promote" => \E b \in BOOLEAN : u.rows[Archetypes[u.next]] = Tested(b)
        /\ u.step = "conclude" => \E b \in BOOLEAN : u.rows[Archetypes[u.next]] = Promoted(b)
    BY <1>1, <1>4, <2>1
  <2>4. /\ u.step \in Hypotheses!Steps /\ u.next \in 1..(Len(Archetypes) + 1)
        /\ DOMAIN u.rows = Hypotheses!Researched /\ u.next <= Len(Archetypes)
    BY <1>1, <1>4, <1>6, <2>1
  <2>5. QED BY <2>2, <2>3, <2>4, Zenon DEF SeedingHolds
<1>9. CASE to = "hypothesize"
  <2>1. n = t.next + 1 /\ IsJudged(rows[a])
    BY <1>4, <1>9
  <2>2. ASSUME NEW i \in 1..(n - 1) PROVE IsJudged(rows[Archetypes[i]])
    <3>1. i \in 1..(t.next - 1) \/ i = t.next
      BY <1>2, <2>1, HypothesesAssumption
    <3>2. QED BY <1>5, <2>1, <3>1
  <2>3. ~InCall(u)
    BY <1>7, <1>9
  <2>4. \A i \in 1..(u.next - 1) : IsJudged(u.rows[Archetypes[i]])
    BY <1>1, <2>2
  <2>5. /\ u.step \in Hypotheses!Steps /\ u.next \in 1..(Len(Archetypes) + 1)
        /\ DOMAIN u.rows = Hypotheses!Researched
    BY <1>1, <1>4, <1>6
  <2>6. u.step # "evaluate" /\ u.step # "promote" /\ u.step # "conclude"
    BY <1>1, <1>9
  <2>7. QED BY <2>3, <2>4, <2>5, <2>6, Zenon DEF SeedingHolds
<1>10. QED BY <1>8, <1>9

(* One call of the service on the current archetype, or its refusal.       *)
LEMMA ProceedKeeps ==
    ASSUME HypothesesInv, NEW s \in Requests, NEW from, NEW to, NEW n, NEW results,
           Hypotheses!Proceed(s, from, to, n, results),
           InCall(seeding[s]) \/ seeding[s].step = "hypothesize",
           seeding[s].next <= Len(Archetypes),
           \A x \in results :
             \/ to = "evaluate" /\ n = seeding[s].next /\ x = Scheduled
             \/ to = "promote" /\ n = seeding[s].next /\ \E b \in BOOLEAN : x = Tested(b)
             \/ to = "conclude" /\ n = seeding[s].next /\ \E b \in BOOLEAN : x = Promoted(b)
             \/ to = "hypothesize" /\ n = seeding[s].next + 1 /\ IsJudged(x)
    PROVE  HypothesesInv'
<1>1. UNCHANGED research
  BY Zenon DEF Hypotheses!Proceed
<1>2. CASE results = {}
  BY <1>1, <1>2, EndedHolds, SeedingMoves DEF Hypotheses!Proceed
<1>3. CASE results # {}
  <2>1. PICK x \in results :
          seeding' = [seeding EXCEPT ![s] =
            [step |-> to, next |-> n,
             rows |-> [seeding[s].rows EXCEPT ![Hypotheses!Current(s)] = x]]]
    BY <1>3, Zenon DEF Hypotheses!Proceed
  <2>2. PICK t : t = seeding[s]
    OBVIOUS
  <2>3. SeedingHolds(t)
    BY <2>2 DEF HypothesesInv
  <2>4. PICK u : u = [step |-> to, next |-> n,
                      rows |-> [t.rows EXCEPT ![Archetypes[t.next]] = x]]
    OBVIOUS
  <2>5. SeedingHolds(u)
    BY <2>2, <2>3, <2>4, RowsWritten
  <2>6. seeding' = [seeding EXCEPT ![s] = u]
    BY <2>1, <2>2, <2>4, Zenon DEF Hypotheses!Current
  <2>7. QED BY <1>1, <2>5, <2>6, SeedingMoves
<1>4. QED BY <1>2, <1>3

LEMMA SeedingStep ==
    ASSUME HypothesesInv, NEW s \in Requests,
           \/ Hypotheses!Hypothesize(s) \/ Hypotheses!Evaluate(s) \/ Hypotheses!Promote(s)
           \/ Hypotheses!Conclude(s)
    PROVE  HypothesesInv'
<1>1. PICK t : t = seeding[s]
  OBVIOUS
<1>2. SeedingHolds(t)
  BY <1>1 DEF HypothesesInv
<1>3. CASE Hypotheses!Hypothesize(s)
  <2>1. Hypotheses!Proceed(s, "hypothesize", "evaluate", seeding[s].next,
                           Hypotheses!schedule_experiment(Hypotheses!create_hypothesis))
    BY <1>3 DEF Hypotheses!Hypothesize
  <2>2. seeding[s].step = "hypothesize" /\ seeding[s].next <= Len(Archetypes)
    BY <1>3 DEF Hypotheses!Hypothesize
  <2>3. QED BY <2>1, <2>2, Scheduling, ProceedKeeps
<1>4. CASE Hypotheses!Evaluate(s)
  <2>1. InCall(t) /\ t.next <= Len(Archetypes) /\ t.rows[Archetypes[t.next]] = Scheduled
    BY <1>1, <1>2, <1>4 DEF Hypotheses!Evaluate, SeedingHolds, InCall
  <2>2. Hypotheses!Work(s) = Scheduled
    BY <1>1, <2>1 DEF Hypotheses!Work, Hypotheses!Current
  <2>3. PICK b \in IF Hypotheses!Current(s) \in Unpromising THEN {FALSE} ELSE BOOLEAN :
          Hypotheses!Proceed(s, "evaluate", "promote", seeding[s].next,
            {[Hypotheses!Work(s) EXCEPT !.experiment.folds = Folds, !.experiment.significant = b,
                                        !.experiment.controls_valid = TRUE]})
    BY <1>4, Zenon DEF Hypotheses!Evaluate
  <2>4. b \in BOOLEAN
    OBVIOUS
  <2>5. Hypotheses!Proceed(s, "evaluate", "promote", seeding[s].next, {Tested(b)})
    BY <2>2, <2>3, Testing, Zenon
  <2>6. QED BY <1>1, <2>1, <2>4, <2>5, ProceedKeeps
<1>5. CASE Hypotheses!Promote(s)
  <2>1. InCall(t) /\ t.next <= Len(Archetypes)
        /\ \E b \in BOOLEAN : t.rows[Archetypes[t.next]] = Tested(b)
    BY <1>1, <1>2, <1>5 DEF Hypotheses!Promote, SeedingHolds, InCall
  <2>2. PICK b \in BOOLEAN : Hypotheses!Work(s) = Tested(b)
    BY <1>1, <2>1 DEF Hypotheses!Work, Hypotheses!Current
  <2>3. Hypotheses!Proceed(s, "promote", "conclude", seeding[s].next,
          Hypotheses!record_promotions(Tested(b), Hypotheses!Stages(Tested(b))))
    BY <1>5, <2>2, Zenon DEF Hypotheses!Promote
  <2>4. \A x \in Hypotheses!record_promotions(Tested(b), Hypotheses!Stages(Tested(b))) :
          x = Promoted(b)
    BY <2>2, Promoting
  <2>5. QED BY <1>1, <2>1, <2>3, <2>4, ProceedKeeps
<1>6. CASE Hypotheses!Conclude(s)
  <2>1. InCall(t) /\ t.next <= Len(Archetypes)
        /\ \E b \in BOOLEAN : t.rows[Archetypes[t.next]] = Promoted(b)
    BY <1>1, <1>2, <1>6 DEF Hypotheses!Conclude, SeedingHolds, InCall
  <2>2. PICK b \in BOOLEAN : Hypotheses!Work(s) = Promoted(b)
    BY <1>1, <2>1 DEF Hypotheses!Work, Hypotheses!Current
  <2> DEFINE results == {Hypotheses!Validated(x) : x \in
               Hypotheses!complete_experiment(Promoted(b), Promoted(b).experiment.significant)}
  <2>3. Hypotheses!Proceed(s, "conclude", "hypothesize", seeding[s].next + 1, results)
    BY <1>6, <2>2, Zenon DEF Hypotheses!Conclude
  <2>4. \A x \in results : IsJudged(x)
    BY <2>2, Concluding DEF IsJudged
  <2> HIDE DEF results
  <2>5. QED BY <1>1, <2>1, <2>3, <2>4, ProceedKeeps
<1>7. QED BY <1>3, <1>4, <1>5, <1>6

LEMMA HypothesesStep ==
    HypothesesInv /\ [Hypotheses!Next]_(Hypotheses!vars) => HypothesesInv'
<1> SUFFICES ASSUME HypothesesInv, [Hypotheses!Next]_(Hypotheses!vars) PROVE HypothesesInv'
  OBVIOUS
<1>1. ASSUME NEW s \in Requests, Hypotheses!Begin(s) PROVE HypothesesInv'
  <2> DEFINE fresh == [step |-> "hypothesize", next |-> 1,
                       rows |-> [a \in Hypotheses!Researched |-> Hypotheses!Nothing]]
  <2>1. SeedingHolds(fresh)
    BY HypothesesAssumption DEF SeedingHolds, InCall, Hypotheses!Steps
  <2> HIDE DEF fresh
  <2>2. PICK t \in {[step |-> "existing"], fresh} : seeding' = [seeding EXCEPT ![s] = t]
    BY <1>1 DEF Hypotheses!Begin, fresh
  <2>3. SeedingHolds(t) /\ UNCHANGED research
    BY <1>1, <2>1, EndedHolds DEF Hypotheses!Begin
  <2>4. QED BY <2>2, <2>3, SeedingMoves
<1>2. ASSUME NEW s \in Requests, Hypotheses!Commit(s) PROVE HypothesesInv'
  <2>1. CASE \E a \in Hypotheses!Researched : research[a] # Hypotheses!Nothing
    BY <1>2, <2>1, EndedHolds, SeedingMoves DEF Hypotheses!Commit
  <2>2. CASE ~ \E a \in Hypotheses!Researched : research[a] # Hypotheses!Nothing
    <3>1. /\ research' = seeding[s].rows /\ seeding' = [seeding EXCEPT ![s] = Hypotheses!NotSeeding]
          /\ seeding[s].step = "hypothesize" /\ seeding[s].next > Len(Archetypes)
      BY <1>2, <2>2 DEF Hypotheses!Commit
    <3>2. PICK t : t = seeding[s]
      OBVIOUS
    <3>3. SeedingHolds(t) /\ ~InCall(t)
      BY <3>1, <3>2 DEF HypothesesInv, InCall
    <3>4. t.next = Len(Archetypes) + 1
      BY <3>1, <3>2, <3>3, HypothesesAssumption DEF SeedingHolds
    <3>5. \A i \in 1..Len(Archetypes) : IsJudged(t.rows[Archetypes[i]])
      BY <3>1, <3>2, <3>3, <3>4, HypothesesAssumption DEF SeedingHolds
    <3>6. \A a \in Hypotheses!Researched : IsJudged(research'[a])
      BY <3>1, <3>2, <3>5 DEF Hypotheses!Researched
    <3>7. DOMAIN seeding' = Requests /\ \A r \in Requests : SeedingHolds(seeding'[r])
      BY <3>1, EndedHolds, Zenon DEF HypothesesInv
    <3>8. \A r \in Requests : SeedingHolds(seeding[r])'
      BY <3>7 DEF SeedingHolds, InCall
    <3>9. \A a \in Hypotheses!Researched : IsJudged(research[a])'
      BY <3>6 DEF IsJudged, Judged, Trail, Rows
    <3>10. QED BY <3>7, <3>8, <3>9 DEF HypothesesInv
  <2>3. QED BY <2>1, <2>2
<1>3. ASSUME NEW s \in Requests, Hypotheses!End(s) PROVE HypothesesInv'
  BY <1>3, EndedHolds, SeedingMoves DEF Hypotheses!End
<1>4. CASE UNCHANGED Hypotheses!vars
  BY <1>4 DEF Hypotheses!vars, HypothesesInv, SeedingHolds, InCall, IsJudged, Judged, Trail, Rows
<1>5. QED
  BY <1>1, <1>2, <1>3, <1>4, SeedingStep DEF Hypotheses!Next

LEMMA HypothesesMove == [Next]_vars => [Hypotheses!Next]_(Hypotheses!vars)
BY DEF Next, vars, hypothesesVars, Hypotheses!vars

(* Whatever overlaps or fails, what is visible of a workspace's research   *)
(* is complete, and status, experiment and promotion trail give one        *)
(* verdict, for any number of archetypes, folds and requests               *)
(* (seed_reference_hypothesis_research, complete_experiment,               *)
(* record_promotion).                                                      *)
THEOREM VerdictsAreOne == Spec => []VerdictsAgree
<1>1. Init => HypothesesInv
  BY HypothesesStart DEF Init
<1>2. HypothesesInv /\ [Next]_vars => HypothesesInv'
  BY HypothesesStep, HypothesesMove
<1>3. ASSUME HypothesesInv PROVE VerdictsAgree
  <2>1. ASSUME NEW x, IsJudged(x)
        PROVE  LET last == x.promotions[Len(x.promotions)]
               IN  /\ x # Hypotheses!Nothing
                   /\ x.manifest /\ x.experiment.folds = Folds
                   /\ x.hypothesis \in {"VALIDATED", "REJECTED"}
                   /\ (x.hypothesis = "VALIDATED") <=> (x.experiment.status = "COMPLETED")
                   /\ (x.hypothesis = "VALIDATED") <=> (last = "PAPER_ELIGIBLE")
                   /\ (x.hypothesis = "REJECTED") <=> (last = "REJECTED")
    <3>1. PICK b \in BOOLEAN : x = Judged(b)
      BY <2>1 DEF IsJudged
    <3>2. CASE b
      BY <3>1, <3>2 DEF Judged, Rows, Trail, Hypotheses!PROMOTION_ORDER, Hypotheses!Nothing
    <3>3. CASE ~b
      BY <3>1, <3>3 DEF Judged, Rows, Trail, Hypotheses!PROMOTION_ORDER, Hypotheses!Nothing
    <3>4. QED BY <3>2, <3>3
  <2>2. Hypotheses!VerdictsAgree
    BY <1>3, <2>1 DEF Hypotheses!VerdictsAgree, HypothesesInv
  <2>3. QED BY <2>2 DEF VerdictsAgree
<1>4. QED BY <1>1, <1>2, <1>3, PTL DEF Spec

-----------------------------------------------------------------------------
(* EconomicGraph.  Types first: a profile takes the next version and the   *)
(* latest of some times.                                                   *)

LEMMA GraphMax ==
    ASSUME NEW S, IsFiniteSet(S), S \subseteq Int, S # {} PROVE Graph!Max(S) \in S
<1>1. \E x \in S : \A y \in S : x >= y
  BY LargestExists
<1>2. QED BY <1>1 DEF Graph!Max

GraphTypes == Graph!TypeOK /\ IsFiniteSet(profiles)

LEMMA GraphTypesStart == Graph!Init => GraphTypes
<1>1. Graph!Absent \in Graph!EconomicEntity
  BY WalksAssumption DEF Graph!Absent, Graph!EconomicEntity, Graph!Times, Graph!Never
<1>2. QED BY <1>1, FS_EmptySet DEF Graph!Init, GraphTypes, Graph!TypeOK

LEMMA NextVersion ==
    ASSUME GraphTypes, NEW c
    PROVE  Graph!Max({0} \union {p.version : p \in {q \in profiles : q.company = c}}) + 1 \in Nat
<1> DEFINE own == {q \in profiles : q.company = c}
           versions == {0} \union {p.version : p \in own}
<1>1. IsFiniteSet(own)
  BY FS_Subset DEF GraphTypes
<1>2. IsFiniteSet({p.version : p \in own})
  <2> DEFINE f == [p \in own |-> p.version]
             image == {f[p] : p \in DOMAIN f}
  <2>1. image = {p.version : p \in own} /\ f \in Surjection(own, image)
    BY DEF Surjection
  <2> HIDE DEF own, f, image
  <2>2. QED BY <1>1, <2>1, FS_Surjection
<1>3. IsFiniteSet({0})
  BY FS_Singleton
<1>4. IsFiniteSet(versions)
  BY <1>2, <1>3, FS_Union
<1>5. versions \subseteq Nat /\ versions \subseteq Int /\ versions # {}
  BY DEF GraphTypes, Graph!TypeOK, Graph!CompanyDriverProfile
<1> HIDE DEF versions
<1>6. Graph!Max(versions) \in versions
  BY <1>4, <1>5, GraphMax
<1>7. QED BY <1>5, <1>6 DEF versions

LEMMA LatestTime ==
    ASSUME GraphTypes, NEW c \in Companies, NEW t
    PROVE  Graph!Max({entities[c].eligible} \union {r.eligible : r \in Graph!Active(c, t)}) \in Graph!Times
<1> DEFINE times == {entities[c].eligible} \union {r.eligible : r \in Graph!Active(c, t)}
<1>1. entities[c] \in Graph!EconomicEntity
  BY DEF GraphTypes, Graph!TypeOK, Graph!Names
<1>2. Graph!Active(c, t) \subseteq Graph!EconomicRelationship
  BY DEF GraphTypes, Graph!TypeOK, Graph!Active, Graph!VisibleRelationships
<1>3. times \subseteq Graph!Times
  BY <1>1, <1>2 DEF Graph!EconomicEntity, Graph!EconomicRelationship
<1>4. IsFiniteSet(Graph!Times)
  BY FS_Interval, WalksAssumption DEF Graph!Times
<1>5. IsFiniteSet(times)
  BY <1>3, <1>4, FS_Subset, Zenon
<1>6. times \subseteq Int /\ times # {}
  BY <1>3 DEF Graph!Times
<1> HIDE DEF times
<1>7. QED BY <1>3, <1>5, <1>6, GraphMax DEF times

LEMMA ProfileTypes ==
    ASSUME GraphTypes, NEW c \in Companies
    PROVE  Graph!generate_driver_profile(c, Now) \in Graph!CompanyDriverProfile
<1> DEFINE active == Graph!Active(c, Now)
           linked == {n \in {Graph!Other(r, c) : r \in active} : entities[n].eligible <= Now}
<1>1. Graph!Max({0} \union {p.version : p \in {q \in profiles : q.company = c}}) + 1 \in Nat
  BY NextVersion
<1>2. Graph!Max({entities[c].eligible} \union {r.eligible : r \in active}) \in Graph!Times
  BY LatestTime
<1>3. linked \subseteq Graph!Names
  BY DEF Graph!Active, Graph!VisibleRelationships, Graph!Other, GraphTypes, Graph!TypeOK,
         Graph!EconomicRelationship
<1>4. Now \in Graph!Times
  BY WalksAssumption DEF Graph!Times
<1> HIDE DEF active, linked
<1>5. QED BY <1>1, <1>2, <1>3, <1>4
  DEF Graph!generate_driver_profile, Graph!CompanyDriverProfile, active, linked

LEMMA FactsAreTyped ==
    /\ EntityFacts \subseteq Graph!EconomicEntity
    /\ \A fact \in EntityFacts : fact # Graph!Absent
    /\ RelationshipFacts \subseteq Graph!EconomicRelationship
<1>1. 0..(Now + 1) = Graph!Times \union {Graph!Never}
  BY WalksAssumption DEF Graph!Times, Graph!Never
<1>2. Graph!Absent.status = "absent"
  BY DEF Graph!Absent
<1>3. QED BY <1>1, <1>2, WalksAssumption
          DEF Graph!EconomicEntity, Graph!EconomicRelationship, Graph!Names,
              Graph!VALID_ENTITY_STATUSES, Graph!Times

LEMMA JobTypes ==
    ASSUME GraphTypes, NEW job \in recomputes,
           Graph!process_recompute_job(job) \/ Graph!FailRecomputeJob(job)
    PROVE  /\ profiles' \subseteq Graph!CompanyDriverProfile /\ IsFiniteSet(profiles')
           /\ recomputes' \subseteq Graph!GraphRecomputeJob
<1>1. job \in Graph!GraphRecomputeJob /\ job.company \in Companies
  BY DEF GraphTypes, Graph!TypeOK, Graph!GraphRecomputeJob
<1>2. Graph!generate_driver_profile(job.company, Now) \in Graph!CompanyDriverProfile
  BY <1>1, ProfileTypes
<1>3. \/ profiles' = profiles
      \/ profiles' = profiles \union {Graph!generate_driver_profile(job.company, Now)}
  BY DEF Graph!process_recompute_job, Graph!FailRecomputeJob
<1>4. PICK status \in {"failed", "succeeded"} : Graph!EndAs(job, status)
  BY DEF Graph!process_recompute_job, Graph!FailRecomputeJob
<1>5. [job EXCEPT !.status = status] \in Graph!GraphRecomputeJob
  BY <1>1 DEF Graph!GraphRecomputeJob
<1>6. QED BY <1>2, <1>3, <1>4, <1>5, FS_AddElement DEF GraphTypes, Graph!TypeOK, Graph!EndAs

LEMMA GraphTypesStep == GraphTypes /\ [Graph!Next]_(Graph!vars) => GraphTypes'
<1> SUFFICES ASSUME GraphTypes, [Graph!Next]_(Graph!vars) PROVE GraphTypes'
  OBVIOUS
<1>1. ASSUME UNCHANGED <<profiles, recomputes>>, entities' \in [Graph!Names -> Graph!EconomicEntity],
             relationships' \subseteq Graph!EconomicRelationship
      PROVE  GraphTypes'
  BY <1>1 DEF GraphTypes, Graph!TypeOK, Graph!EconomicEntity, Graph!EconomicRelationship,
              Graph!CompanyDriverProfile, Graph!GraphRecomputeJob
<1>2. ASSUME UNCHANGED <<entities, relationships>>,
             profiles' \subseteq Graph!CompanyDriverProfile, IsFiniteSet(profiles'),
             recomputes' \subseteq Graph!GraphRecomputeJob
      PROVE  GraphTypes'
  BY <1>2 DEF GraphTypes, Graph!TypeOK, Graph!EconomicEntity, Graph!EconomicRelationship,
              Graph!CompanyDriverProfile, Graph!GraphRecomputeJob
<1>3. ASSUME NEW n \in Graph!Names, NEW fact \in EntityFacts, Graph!create_entity(n, fact)
      PROVE  GraphTypes'
  BY <1>1, <1>3, FactsAreTyped DEF Graph!create_entity, GraphTypes, Graph!TypeOK
<1>4. ASSUME NEW r \in RelationshipFacts, Graph!create_relationship(r) PROVE GraphTypes'
  BY <1>1, <1>4, FactsAreTyped DEF Graph!create_relationship, GraphTypes, Graph!TypeOK
<1>5. ASSUME NEW r \in relationships, NEW t \in Graph!Times, Graph!expire_relationship(r, t)
      PROVE  GraphTypes'
  <2>1. [r EXCEPT !.valid_to = t, !.status = "expired"] \in Graph!EconomicRelationship
    BY DEF GraphTypes, Graph!TypeOK, Graph!EconomicRelationship, Graph!VALID_ENTITY_STATUSES
  <2>2. QED BY <1>1, <1>5, <2>1 DEF Graph!expire_relationship, GraphTypes, Graph!TypeOK
<1>6. ASSUME NEW c \in Companies, NEW key \in RecomputeKeys, Graph!queue_recompute(c, key)
      PROVE  GraphTypes'
  BY <1>2, <1>6 DEF Graph!queue_recompute, Graph!GraphRecomputeJob, GraphTypes, Graph!TypeOK
<1>7. ASSUME NEW job \in recomputes,
             Graph!process_recompute_job(job) \/ Graph!FailRecomputeJob(job)
      PROVE  GraphTypes'
  BY <1>2, <1>7, JobTypes DEF Graph!process_recompute_job, Graph!FailRecomputeJob
<1>8. CASE UNCHANGED Graph!vars
  BY <1>1, <1>8 DEF Graph!vars, GraphTypes, Graph!TypeOK
<1>9. QED BY <1>3, <1>4, <1>5, <1>6, <1>7, <1>8 DEF Graph!Next

(* The walks.  What they read of a time are the visible entities and       *)
(* relationships, which a step changes only if it writes a row that was    *)
(* eligible by then: an expiry does, since it replaces the one row of that *)
(* subject, object and start.                                              *)

OneRow == \A r, s \in relationships :
    r.subject = s.subject /\ r.object = s.object /\ r.valid_from = s.valid_from => r = s
HaveSupport == \A r \in relationships :
    r.status = "verified" => \E e \in r.evidence : e <= r.eligible

WalksInv == GraphTypes /\ OneRow /\ HaveSupport

LEMMA WalksStart == Graph!Init => WalksInv
BY GraphTypesStart DEF Graph!Init, WalksInv, OneRow, HaveSupport

LEMMA WalksStep == WalksInv /\ [Graph!Next]_(Graph!vars) => WalksInv'
<1> SUFFICES ASSUME WalksInv, [Graph!Next]_(Graph!vars) PROVE WalksInv'
  OBVIOUS
<1>1. GraphTypes'
  BY GraphTypesStep DEF WalksInv
<1>2. ASSUME NEW r, Graph!create_relationship(r) PROVE OneRow' /\ HaveSupport'
  <2>1. relationships' = relationships \union {r} /\ ~Graph!Stored(r) /\ Graph!Supported(r)
    BY <1>2 DEF Graph!create_relationship
  <2>2. QED BY <2>1 DEF WalksInv, OneRow, HaveSupport, Graph!Stored, Graph!Supported
<1>3. ASSUME NEW r \in relationships, NEW t \in Graph!Times, Graph!expire_relationship(r, t)
      PROVE  OneRow' /\ HaveSupport'
  <2> DEFINE x == [r EXCEPT !.valid_to = t, !.status = "expired"]
  <2>1. r \in Graph!EconomicRelationship
    BY DEF WalksInv, GraphTypes, Graph!TypeOK
  <2>2. /\ x.subject = r.subject /\ x.object = r.object /\ x.valid_from = r.valid_from
        /\ x.status = "expired"
    BY <2>1 DEF Graph!EconomicRelationship
  <2>3. relationships' = (relationships \ {r}) \union {x}
    BY <1>3 DEF Graph!expire_relationship
  <2> HIDE DEF x
  <2>4. QED BY <2>2, <2>3 DEF WalksInv, OneRow, HaveSupport
<1>4. ASSUME UNCHANGED relationships PROVE OneRow' /\ HaveSupport'
  BY <1>4 DEF WalksInv, OneRow, HaveSupport
<1>5. OneRow' /\ HaveSupport'
  BY <1>2, <1>3, <1>4 DEF Graph!Next, Graph!vars, Graph!create_entity, Graph!queue_recompute,
     Graph!process_recompute_job, Graph!FailRecomputeJob
<1>6. QED BY <1>1, <1>5 DEF WalksInv

(* The entities that are visible as of a time.                             *)
LEMMA EntitiesKeep ==
    ASSUME WalksInv, [Graph!Next]_(Graph!vars), NEW t \in Graph!Times, ~Graph!ChangesThePast(t)
    PROVE  Graph!VisibleEntities(t)' = Graph!VisibleEntities(t)
<1>1. ASSUME NEW n \in Graph!Names, NEW fact \in EntityFacts, Graph!create_entity(n, fact)
      PROVE  Graph!VisibleEntities(t)' = Graph!VisibleEntities(t)
  <2>1. /\ entities[n] = Graph!Absent /\ fact # Graph!Absent
        /\ \A m \in Graph!Names : entities'[m] = IF m = n THEN fact ELSE entities[m]
    BY <1>1, FactsAreTyped DEF Graph!create_entity, WalksInv, GraphTypes, Graph!TypeOK
  <2>2. ~(fact.eligible <= t)
    BY <2>1 DEF Graph!ChangesThePast
  <2>3. ~Graph!Visible(fact, t) /\ ~Graph!Visible(Graph!Absent, t)
    BY <2>2 DEF Graph!Visible, Graph!Absent
  <2>4. \A m \in Graph!Names : Graph!Visible(entities'[m], t) <=> Graph!Visible(entities[m], t)
    BY <2>1, <2>3
  <2>5. QED BY <2>4 DEF Graph!VisibleEntities
<1>2. ASSUME UNCHANGED entities PROVE Graph!VisibleEntities(t)' = Graph!VisibleEntities(t)
  BY <1>2 DEF Graph!VisibleEntities
<1>3. QED BY <1>1, <1>2 DEF Graph!Next, Graph!vars, Graph!create_relationship,
  Graph!expire_relationship, Graph!queue_recompute, Graph!process_recompute_job,
  Graph!FailRecomputeJob

(* The relationships.                                                      *)
LEMMA RelationshipsKeep ==
    ASSUME WalksInv, [Graph!Next]_(Graph!vars), NEW t \in Graph!Times, ~Graph!ChangesThePast(t)
    PROVE  Graph!VisibleRelationships(t)' = Graph!VisibleRelationships(t)
<1>1. \A r \in relationships' \ relationships : ~(r.eligible <= t)
  BY DEF Graph!ChangesThePast
<1>2. ASSUME NEW r, Graph!create_relationship(r)
      PROVE  Graph!VisibleRelationships(t)' = Graph!VisibleRelationships(t)
  <2>1. relationships' = relationships \union {r} /\ r \notin relationships
    BY <1>2 DEF Graph!create_relationship, Graph!Stored
  <2>2. ~Graph!Visible(r, t)
    BY <1>1, <2>1 DEF Graph!Visible
  <2>3. QED BY <2>1, <2>2 DEF Graph!VisibleRelationships
<1>3. ASSUME NEW r \in relationships, NEW u \in Graph!Times, Graph!expire_relationship(r, u)
      PROVE  Graph!VisibleRelationships(t)' = Graph!VisibleRelationships(t)
  <2> DEFINE x == [r EXCEPT !.valid_to = u, !.status = "expired"]
  <2>1. r \in Graph!EconomicRelationship
    BY DEF WalksInv, GraphTypes, Graph!TypeOK
  <2>2. /\ x.subject = r.subject /\ x.object = r.object /\ x.valid_from = r.valid_from
        /\ x.eligible = r.eligible
    BY <2>1 DEF Graph!EconomicRelationship
  <2>3. relationships' = (relationships \ {r}) \union {x}
    BY <1>3 DEF Graph!expire_relationship
  <2> HIDE DEF x
  <2>4. CASE x = r
    BY <2>3, <2>4 DEF Graph!VisibleRelationships
  <2>5. CASE x # r
    <3>1. x \notin relationships
      BY <2>2, <2>5 DEF WalksInv, OneRow
    <3>2. ~(x.eligible <= t)
      BY <1>1, <2>3, <3>1
    <3>3. ~Graph!Visible(x, t) /\ ~Graph!Visible(r, t)
      BY <2>2, <3>2 DEF Graph!Visible
    <3>4. QED BY <2>3, <3>3 DEF Graph!VisibleRelationships
  <2>6. QED BY <2>4, <2>5
<1>4. ASSUME UNCHANGED relationships
      PROVE  Graph!VisibleRelationships(t)' = Graph!VisibleRelationships(t)
  BY <1>4 DEF Graph!VisibleRelationships
<1>5. QED BY <1>2, <1>3, <1>4 DEF Graph!Next, Graph!vars, Graph!create_entity,
  Graph!queue_recompute, Graph!process_recompute_job, Graph!FailRecomputeJob

(* The walks and the support shown are functions of them.                  *)
LEMMA WalksReadTheVisible ==
    ASSUME NEW t, Graph!VisibleEntities(t)' = Graph!VisibleEntities(t),
           Graph!VisibleRelationships(t)' = Graph!VisibleRelationships(t), NEW n
    PROVE  Graph!Shown(n, t)' = Graph!Shown(n, t)
BY DEF Graph!Shown, Graph!bounded_graph_as_of, Graph!postgres_recursive_neighborhood

LEMMA WalksMove == [Next]_vars => [Graph!Next]_(Graph!vars)
BY DEF Next, vars, graphVars, Graph!vars

(* What a walk as of a time shows, by breadth or by the recursive query,   *)
(* and the support of its relationships, changes only by a fact stored     *)
(* late or an expiry (create_entity, create_relationship,                  *)
(* expire_relationship), and support is there: for any facts, in any       *)
(* order, and walks of any depth.                                          *)
THEOREM WalksKeepTheirTime == Spec => WalksHoldAtTheirTime
<1>1. Init => WalksInv
  BY WalksStart DEF Init
<1>2. WalksInv /\ [Next]_vars => WalksInv'
  BY WalksStep, WalksMove
<1>3. ASSUME WalksInv, WalksInv', [Next]_vars, NEW t \in Graph!Times
      PROVE  /\ (\E n \in Graph!Names : Graph!Shown(n, t)' # Graph!Shown(n, t))
                  => Graph!ChangesThePast(t)
             /\ \A r \in Graph!VisibleRelationships(t)' :
                  r.status = "verified" => Graph!explain_relationship_path(r, t) # {}
  <2>1. [Graph!Next]_(Graph!vars)
    BY <1>3, WalksMove
  <2>2. ASSUME ~Graph!ChangesThePast(t)
        PROVE  \A n \in Graph!Names : Graph!Shown(n, t)' = Graph!Shown(n, t)
    BY <1>3, <2>1, <2>2, EntitiesKeep, RelationshipsKeep, WalksReadTheVisible
  <2>3. ASSUME NEW r \in Graph!VisibleRelationships(t)', r.status = "verified"
        PROVE  Graph!explain_relationship_path(r, t) # {}
    <3>1. r \in relationships' /\ r \in Graph!EconomicRelationship /\ r.eligible <= t
      BY <1>3, <2>3
         DEF Graph!VisibleRelationships, Graph!Visible, WalksInv, GraphTypes, Graph!TypeOK
    <3>2. QED
      <4>1. PICK e \in r.evidence : e <= r.eligible
        BY <1>3, <2>3, <3>1 DEF WalksInv, HaveSupport
      <4>2. e <= t
        BY <3>1, <4>1, WalksAssumption DEF Graph!EconomicRelationship, Graph!Times
      <4>3. QED BY <4>1, <4>2 DEF Graph!explain_relationship_path
  <2>4. QED BY <2>2, <2>3
<1>4. WalksInv /\ WalksInv' /\ [Next]_vars =>
        [\A t \in Graph!Times :
           /\ (\E n \in Graph!Names : Graph!Shown(n, t)' # Graph!Shown(n, t))
                => Graph!ChangesThePast(t)
           /\ \A r \in Graph!VisibleRelationships(t)' :
                r.status = "verified" => Graph!explain_relationship_path(r, t) # {}]_(Graph!vars)
  BY <1>3
<1>5. QED BY <1>1, <1>2, <1>4, PTL
          DEF Spec, WalksHoldAtTheirTime, Graph!WalksHoldAtTheirTime

-----------------------------------------------------------------------------
(* Types of FeatureStore: the number of a row is within the bound, and the *)
(* level of a rank is one of the ladder.                                   *)

FeatureTypes ==
    /\ Features!TypeOK /\ DOMAIN candidates = CompanyIds
    /\ IsFiniteSet(values) /\ Cardinality(values) \in 0..MaxRows

LEMMA FeatureTypesStart == Features!Init => FeatureTypes
BY FS_EmptySet, FeaturesAssumption
   DEF Features!Init, Features!NoState, FeatureTypes, Features!TypeOK, Features!Moments

LEMMA LevelsAreLevels == \A rank : Features!LevelOfRank(rank) \in Features!Levels
<1> SUFFICES ASSUME NEW rank PROVE Features!LevelOfRank(rank) \in Features!Levels
  OBVIOUS
<1> DEFINE fits == {i \in DOMAIN Capacity : rank < Capacity[i]}
<1>1. CASE fits = {}
  BY <1>1, FeaturesAssumption DEF Features!LevelOfRank, Features!Levels
<1>2. CASE fits # {}
  <2>1. PICK N \in Nat : N = Len(Capacity) /\ DOMAIN Capacity = 1..N
    BY FeaturesAssumption
  <2>2. fits \subseteq 1..N
    BY <2>1
  <2>3. IsFiniteSet(1..N)
    BY <2>1, FS_Interval
  <2>4. fits \subseteq Int
    BY <2>2
  <2> HIDE DEF fits
  <2>5. IsFiniteSet(fits)
    BY <2>2, <2>3, FS_Subset
  <2>6. \E x \in fits : \A y \in fits : x <= y
    BY <1>2, <2>4, <2>5, SmallestExists
  <2>7. Features!Min(fits) \in fits
    BY <2>6 DEF Features!Min
  <2>8. Len(Capacity) + 1 - Features!Min(fits) \in Features!Levels
    <3>1. PICK m \in 1..N : m = Features!Min(fits)
      BY <2>2, <2>7
    <3>2. N + 1 - m \in 0..N
      BY <2>1
    <3>3. QED BY <2>1, <3>1, <3>2 DEF Features!Levels
  <2>9. QED BY <1>2, <2>8 DEF Features!LevelOfRank, fits
<1>3. QED BY <1>1, <1>2

LEMMA ScreeningTypes ==
    ASSUME NEW t
    PROVE  LET s == Features!Screening(t)
           IN  s.as_of = t /\ s.levels \in [s.entities -> Features!Levels]
BY LevelsAreLevels DEF Features!Screening

LEMMA ValueTypes ==
    ASSUME FeatureTypes, NEW f \in FeatureDefinitions, NEW v \in 1..definitions[f],
           NEW e \in CompanyIds,
           NEW o \in Features!Moments, NEW x \in Features!Moments, NEW t \in Features!Moments,
           NEW i \in Inputs, NEW n \in Numbers,
           Features!create_feature_value(f, v, e, o, x, t, i, n)
    PROVE  values' \subseteq Features!FeatureValue /\ IsFiniteSet(values')
<1>1. PICK row : /\ values' = values \union {row}
                 /\ row = [feature |-> f, version |-> v, entity |-> e, observation |-> o,
                           eligible |-> t,
                           quality |-> IF t < o \/ t < x THEN "temporally_unsafe" ELSE "complete",
                           input |-> i, number |-> n, created |-> Features!Cardinality(values) + 1]
  BY DEF Features!create_feature_value
<1>2. Cardinality(values) \in Nat /\ Cardinality(values) < MaxRows
  BY FS_CardinalityType, FeaturesCardinality DEF Features!create_feature_value, FeatureTypes
<1>3. Features!Cardinality(values) + 1 \in 1..MaxRows
  BY <1>2, FeaturesAssumption, FeaturesCardinality
<1>4. v \in 1..MaxDefinitions
  BY FeaturesAssumption DEF FeatureTypes, Features!TypeOK
<1>5. row \in Features!FeatureValue
  BY <1>1, <1>3, <1>4 DEF Features!FeatureValue, Features!Quality
<1>6. QED BY <1>1, <1>5, FS_AddElement DEF FeatureTypes, Features!TypeOK

LEMMA FeatureTypesStep == FeatureTypes /\ [Features!Next]_(Features!vars) => FeatureTypes'
<1> SUFFICES ASSUME FeatureTypes, [Features!Next]_(Features!vars) PROVE FeatureTypes'
  OBVIOUS
<1>1. definitions' \in [FeatureDefinitions -> 1..MaxDefinitions]
  BY FeaturesAssumption
     DEF Features!Next, Features!vars, Features!publish_version, Features!create_feature_value,
         Features!run_screening, FeatureTypes, Features!TypeOK
<1>2. values' \subseteq Features!FeatureValue /\ IsFiniteSet(values')
  BY ValueTypes DEF Features!Next, Features!vars, Features!publish_version,
     Features!run_screening, FeatureTypes, Features!TypeOK
<1>3. /\ \A r \in runs' : /\ r.screening.as_of \in Features!Moments
                          /\ r.screening.levels \in [r.screening.entities -> Features!Levels]
                          /\ r.stored \in 0..MaxRows
      /\ \A e \in CompanyIds : candidates'[e].level \in Features!Levels \union {-1}
      /\ DOMAIN candidates' = CompanyIds
  <2>1. ASSUME NEW t \in Features!Moments, Features!run_screening(t) PROVE <1>3!:
    <3>1. PICK s : s = Features!Screening(t)
      OBVIOUS
    <3>2. s.as_of = t /\ s.levels \in [s.entities -> Features!Levels]
      BY <3>1, ScreeningTypes
    <3>3. /\ runs' = runs \union {[screening |-> s, stored |-> Features!Cardinality(values),
                                   definitions |-> definitions]}
          /\ candidates' = [e \in CompanyIds |->
               IF e \in s.entities THEN [level |-> s.levels[e], as_of |-> t] ELSE candidates[e]]
      BY <2>1, <3>1 DEF Features!run_screening
    <3>4. Features!Cardinality(values) \in 0..MaxRows
      BY FeaturesCardinality DEF FeatureTypes
    <3>5. QED BY <3>2, <3>3, <3>4 DEF FeatureTypes, Features!TypeOK
  <2>2. ASSUME UNCHANGED <<runs, candidates>> PROVE <1>3!:
    BY <2>2 DEF FeatureTypes, Features!TypeOK
  <2>3. QED BY <2>1, <2>2 DEF Features!Next, Features!vars, Features!publish_version,
               Features!create_feature_value
<1>4. Features!TypeOK'
  BY <1>1, <1>2, <1>3 DEF Features!TypeOK, Features!Moments, Features!Levels, Features!FeatureValue
<1>5. Cardinality(values') \in 0..MaxRows
  <2>1. CASE UNCHANGED values
    BY <2>1 DEF FeatureTypes
  <2>2. ASSUME NEW x, values' = values \union {x}, Cardinality(values) < MaxRows PROVE <1>5!:
    <3>1. IsFiniteSet(values) /\ Cardinality(values) \in 0..MaxRows
      BY DEF FeatureTypes
    <3>2. Cardinality(values') = IF x \in values THEN Cardinality(values) ELSE Cardinality(values) + 1
      BY <2>2, <3>1, FS_AddElement
    <3>3. QED BY <2>2, <3>1, <3>2, FeaturesAssumption
  <2>3. \/ UNCHANGED values
        \/ \E x : values' = values \union {x} /\ Cardinality(values) < MaxRows
    <3>1. ASSUME NEW f, NEW v, NEW e, NEW o, NEW x, NEW t, NEW i, NEW n,
                 Features!create_feature_value(f, v, e, o, x, t, i, n)
          PROVE  \E y : values' = values \union {y} /\ Cardinality(values) < MaxRows
      BY <3>1, FeaturesCardinality DEF Features!create_feature_value
    <3>2. QED BY <3>1 DEF Features!Next, Features!vars, Features!publish_version,
                          Features!run_screening
  <2>4. QED BY <2>1, <2>2, <2>3
<1>6. QED BY <1>2, <1>3, <1>4, <1>5, Zenon DEF FeatureTypes, IsFiniteSet

-----------------------------------------------------------------------------
(* Types of EntityResolution, beside the invariant.                         *)

(* A transaction is about a value and an entity that exist.                *)
ResolutionTypes ==
    /\ Resolution!TypeOK
    /\ \A r \in Requests : review[r].step # "none" =>
         review[r].value \in IdentifierValues /\ review[r].entity \in Entities

LEMMA ResolutionTypesStart == Resolution!Init => ResolutionTypes
BY DEF Resolution!Init, Resolution!NoReview, ResolutionTypes, Resolution!TypeOK

LEMMA ReviewTypes ==
    ASSUME ResolutionsInv, ResolutionTypes, NEW r \in Requests, NEW q,
           review' = [review EXCEPT ![r] = q], q.step \in {"none", "loaded", "checked"},
           q.step # "none" => q.value \in IdentifierValues /\ q.entity \in Entities,
           identifiers' \subseteq Resolution!EntityIdentifier,
           matches' \subseteq Resolution!EntityResolutionCandidate,
           decisions' \subseteq Resolution!EntityResolutionDecision
    PROVE  ResolutionTypes'
BY DEF ResolutionsInv, ResolutionTypes, Resolution!TypeOK, Resolution!EntityIdentifier,
       Resolution!EntityResolutionCandidate, Resolution!EntityResolutionDecision

LEMMA CandidateTypes ==
    ASSUME ResolutionTypes, NEW v \in IdentifierValues, NEW e \in Entities,
           NEW status \in {"candidate", "ambiguous"}
    PROVE  Resolution!WithCandidate(v, e, status) \subseteq Resolution!EntityResolutionCandidate
BY DEF ResolutionTypes, Resolution!TypeOK, Resolution!WithCandidate,
       Resolution!EntityResolutionCandidate

LEMMA CommitTypes ==
    ASSUME ResolutionsInv, ResolutionTypes, NEW r \in Requests, Resolution!Commit(r)
    PROVE  ResolutionTypes'
<1>1. PICK q : q = review[r]
  OBVIOUS
<1>2. /\ ReviewHolds(q) /\ q.step = "checked"
      /\ q.value \in IdentifierValues /\ q.entity \in Entities
      /\ \/ q.does = "attach" /\ Resolution!CommitAttach(q)
         \/ q.does # "attach" /\ Resolution!CommitDecision(q)
      /\ review' = [review EXCEPT ![r] = Resolution!NoReview]
  BY <1>1 DEF Resolution!Commit, ResolutionsInv, ResolutionTypes
<1>3. Resolution!NoReview.step = "none"
  BY DEF Resolution!NoReview
<1>4. Resolution!Inserted(q) \subseteq Resolution!EntityIdentifier
  BY <1>2 DEF Resolution!Inserted, Resolution!EntityIdentifier
<1>5. identifiers' \subseteq Resolution!EntityIdentifier
  BY <1>2, <1>4 DEF Resolution!CommitAttach, Resolution!CommitDecision, ResolutionTypes,
     Resolution!TypeOK
<1>6. matches' \subseteq Resolution!EntityResolutionCandidate
  <2>1. CASE q.does = "attach" /\ Resolution!CommitAttach(q)
    BY <1>2, <2>1, CandidateTypes DEF Resolution!CommitAttach, ResolutionTypes, Resolution!TypeOK
  <2>2. CASE q.does # "attach" /\ Resolution!CommitDecision(q)
    <3>1. [value |-> q.value, entity |-> q.entity, status |-> q.does]
            \in Resolution!EntityResolutionCandidate
      BY <1>2, <2>2 DEF ReviewHolds, Resolution!EntityResolutionCandidate
    <3>2. QED BY <2>2, <3>1 DEF Resolution!CommitDecision, ResolutionTypes, Resolution!TypeOK
  <2>3. QED BY <1>2, <2>1, <2>2
<1>7. decisions' \subseteq Resolution!EntityResolutionDecision
  <2>1. q.does # "attach" => [value |-> q.value, entity |-> q.entity, decision |-> q.does]
                               \in Resolution!EntityResolutionDecision
    BY <1>2 DEF ReviewHolds, Resolution!EntityResolutionDecision
  <2>2. QED BY <1>2, <2>1 DEF Resolution!CommitAttach, Resolution!CommitDecision, ResolutionTypes,
     Resolution!TypeOK
<1>8. QED BY <1>2, <1>3, <1>5, <1>6, <1>7, ReviewTypes

LEMMA ResolutionTypesStep ==
    ResolutionsInv /\ ResolutionTypes /\ [Resolution!Next]_(Resolution!vars) => ResolutionTypes'
<1> SUFFICES ASSUME ResolutionsInv, ResolutionTypes, [Resolution!Next]_(Resolution!vars)
             PROVE  ResolutionTypes'
  OBVIOUS
<1>1. ASSUME NEW v \in IdentifierValues, NEW e \in Entities,
             Resolution!create_resolution_candidate(v, e)
      PROVE  ResolutionTypes'
  <2>1. matches' \subseteq Resolution!EntityResolutionCandidate
    BY <1>1, CandidateTypes DEF Resolution!create_resolution_candidate
  <2>2. QED
    BY <1>1, <2>1 DEF Resolution!create_resolution_candidate, ResolutionTypes, Resolution!TypeOK,
       Resolution!EntityIdentifier, Resolution!EntityResolutionCandidate,
       Resolution!EntityResolutionDecision
<1>2. ASSUME NEW r \in Requests, NEW q, review' = [review EXCEPT ![r] = q],
             q.step \in {"none", "loaded", "checked"},
             q.step # "none" => q.value \in IdentifierValues /\ q.entity \in Entities,
             UNCHANGED <<identifiers, matches, decisions>>
      PROVE  ResolutionTypes'
  BY <1>2, ReviewTypes DEF ResolutionTypes, Resolution!TypeOK
<1>3. ASSUME NEW r \in Requests, NEW v \in IdentifierValues, NEW e \in Entities,
             \/ Resolution!StartAttach(r, v, e)
             \/ \E verdict \in Resolution!Verdicts : Resolution!LoadCandidate(r, v, e, verdict)
      PROVE  ResolutionTypes'
  <2>1. PICK does : review' = [review EXCEPT ![r] =
                      [step |-> "loaded", value |-> v, entity |-> e, does |-> does]]
    BY <1>3 DEF Resolution!StartAttach, Resolution!LoadCandidate
  <2>2. QED BY <1>2, <1>3, <2>1 DEF Resolution!StartAttach, Resolution!LoadCandidate
<1>4. ASSUME NEW r \in Requests, Resolution!CheckOwner(r) PROVE ResolutionTypes'
  <2>1. PICK q : /\ review' = [review EXCEPT ![r] = q]
                 /\ q = Resolution!NoReview
                    \/ \E owners : q = [step |-> "checked", value |-> review[r].value,
                                        entity |-> review[r].entity, does |-> review[r].does,
                                        owners |-> owners]
    BY <1>4 DEF Resolution!CheckOwner
  <2>2. /\ q.step \in {"none", "loaded", "checked"}
        /\ q.step # "none" => q.value = review[r].value /\ q.entity = review[r].entity
    BY <2>1 DEF Resolution!NoReview
  <2>3. review[r].value \in IdentifierValues /\ review[r].entity \in Entities
    BY <1>4 DEF Resolution!CheckOwner, ResolutionTypes
  <2>4. QED BY <1>2, <1>4, <2>1, <2>2, <2>3 DEF Resolution!CheckOwner
<1>5. ASSUME NEW r \in Requests, Resolution!Rollback(r) PROVE ResolutionTypes'
  <2>1. Resolution!NoReview.step = "none"
    BY DEF Resolution!NoReview
  <2>2. QED BY <1>2, <1>5, <2>1 DEF Resolution!Rollback
<1>6. CASE UNCHANGED Resolution!vars
  BY <1>6 DEF Resolution!vars, ResolutionTypes, Resolution!TypeOK,
     Resolution!EntityIdentifier, Resolution!EntityResolutionCandidate,
     Resolution!EntityResolutionDecision
<1>7. QED BY <1>1, <1>3, <1>4, <1>5, <1>6, CommitTypes DEF Resolution!Next

-----------------------------------------------------------------------------
(* Types of HypothesisLifecycle: what a seeding that has ended leaves.      *)

LEMMA JudgedIsResearch == \A x : IsJudged(x) => Hypotheses!IsResearch(x)
<1> SUFFICES ASSUME NEW x, IsJudged(x) PROVE Hypotheses!IsResearch(x)
  OBVIOUS
<1>1. PICK b \in BOOLEAN : x = Judged(b)
  BY DEF IsJudged
<1>2. /\ x.hypothesis = IF b THEN "VALIDATED" ELSE "REJECTED"
      /\ x.experiment = [status |-> IF b THEN "COMPLETED" ELSE "REJECTED", folds |-> Folds,
                         significant |-> b, controls_valid |-> TRUE]
      /\ x.promotions = Trail(b) /\ x.manifest = TRUE
  BY <1>1 DEF Judged, Rows
<1>3. x.hypothesis \in Hypotheses!HypothesisStatus
  BY <1>2 DEF Hypotheses!HypothesisStatus, Hypotheses!HYPOTHESIS_TRANSITIONS
<1>4. x.experiment \in Hypotheses!FactorExperiment
  BY <1>2, HypothesesAssumption DEF Hypotheses!FactorExperiment
<1>5. \A i \in 1..Len(x.promotions) : x.promotions[i] \in Hypotheses!PromotionStage
  <2>1. CASE b
    <3>1. Trail(b) = Hypotheses!PROMOTION_ORDER
      BY <2>1 DEF Trail
    <3>2. Len(Hypotheses!PROMOTION_ORDER) = 9
      BY DEF Hypotheses!PROMOTION_ORDER
    <3>3. QED BY <1>2, <3>1, <3>2 DEF Hypotheses!PromotionStage
  <2>2. CASE ~b
    <3> DEFINE S == Hypotheses!PromotionStage
               head == SubSeq(Hypotheses!PROMOTION_ORDER, 1, 5)
    <3>2. \A i \in 1..5 : Hypotheses!PROMOTION_ORDER[i] \in S
      BY DEF Hypotheses!PromotionStage
    <3>3. "REJECTED" \in S
      BY DEF Hypotheses!PromotionStage
    <3> HIDE DEF S
    <3>4. 1 \in Int /\ 5 \in Int
      OBVIOUS
    <3>5. head \in Seq(S)
      BY <3>2, <3>4, SubSeqProperties, Zenon
    <3> HIDE DEF head
    <3>6. Append(head, "REJECTED") \in Seq(S)
      BY <3>3, <3>5, AppendProperties
    <3>7. Trail(b) \in Seq(S)
      BY <2>2, <3>6 DEF Trail, head
    <3>8. QED BY <1>2, <3>7 DEF S
  <2>3. QED BY <2>1, <2>2
<1>6. QED BY <1>2, <1>3, <1>4, <1>5 DEF Hypotheses!IsResearch

LEMMA HypothesesTyped == HypothesesInv => Hypotheses!TypeOK
BY JudgedIsResearch DEF HypothesesInv, Hypotheses!TypeOK, SeedingHolds

-----------------------------------------------------------------------------
(* All of them.                                                            *)

ResearchTyped ==
    /\ LedgerInv /\ FeatureTypes /\ GraphTypes /\ HypothesesInv
    /\ ResolutionsInv /\ ResolutionTypes

(* Forecasts, outcomes and scores, rows of features, screenings and        *)
(* candidates, identifiers and decisions, relationships and profiles,      *)
(* hypotheses and the transactions about them keep their types: every rank *)
(* has a level of the ladder (run_screening), a profile the version after  *)
(* the latest one (generate_driver_profile), and a review only values and  *)
(* entities that it was given (decide_resolution).                         *)
THEOREM ResearchTypes ==
    Spec => [](component \in {"ledger", "features", "resolution", "graph", "hypotheses"} => TypeOK)
<1>1. Init => ResearchTyped
  BY LedgerStart, FeatureTypesStart, GraphTypesStart, HypothesesStart, ResolutionsStart,
     ResolutionTypesStart DEF Init, ResearchTyped
<1>2. ResearchTyped /\ [Next]_vars => ResearchTyped'
  BY LedgerStep, LedgerMove, FeatureTypesStep, FeaturesMove, GraphTypesStep, WalksMove,
     HypothesesStep, HypothesesMove, ResolutionsStep, ResolutionsMove, ResolutionTypesStep
     DEF ResearchTyped
<1>3. ResearchTyped =>
        (component \in {"ledger", "features", "resolution", "graph", "hypotheses"} => TypeOK)
  <2> SUFFICES ASSUME ResearchTyped,
                      component \in {"ledger", "features", "resolution", "graph", "hypotheses"}
               PROVE  TypeOK
    OBVIOUS
  <2>1. /\ Ledger!TypeOK /\ Features!TypeOK /\ Resolution!TypeOK /\ Graph!TypeOK
        /\ Hypotheses!TypeOK
    BY HypothesesTyped DEF ResearchTyped, LedgerInv, FeatureTypes, ResolutionTypes, GraphTypes
  <2>2. QED BY <2>1 DEF TypeOK
<1>4. QED BY <1>1, <1>2, <1>3, PTL DEF Spec
=============================================================================
