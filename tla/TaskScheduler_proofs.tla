------------------------ MODULE TaskScheduler_proofs ------------------------
(***************************************************************************)
(* Theorems about TaskScheduler, for any number of definitions, processes  *)
(* and requests, whichever handlers keep failing.  The inductive invariant *)
(* adds to the properties what row locks give: a scheduler that holds a    *)
(* definition holds its current due slot, and holds it alone.              *)
(* At the end, that TaskScheduler implements OccurrenceLedger.             *)
(***************************************************************************)
EXTENDS TaskScheduler, SequenceTheorems, TLAPS

(* What is locked by a scan: the current due slot, whose time has come.    *)
HeldIsDue ==
    \A s \in Schedulers : \A o \in held[s] : o[2] = nextDue[o[1]] /\ o[2] <= now
HeldIsExclusive ==
    \A s, t \in Schedulers : \A o \in held[s], p \in held[t] : o[1] = p[1] => s = t

(* A definition is never moved past the first slot that is still to come.  *)
DueFollowsClock == \A d \in Definitions : nextDue[d] <= now + 1

IInv ==
    /\ TypeOK
    /\ HeldIsDue /\ HeldIsExclusive /\ DueFollowsClock
    /\ NoSlotLostOrEarly /\ RunningIsExclusive
    /\ EffectOnce /\ AttemptBudget

-----------------------------------------------------------------------------
(* Lemmas about the operators.                                             *)

(* The delay before a retry never exceeds the cap (compute_retry_delay).   *)
LEMMA DelaysAreCapped == ASSUME NEW attempt PROVE RetryDelays(attempt) \subseteq 0..CapDelay
<1>1. \A t : Bounded(t) \in 0..CapDelay
  BY PolicyAssumption DEF Bounded
<1>2. QED BY <1>1 DEF RetryDelays

(* A failure keeps the attempt it made, never counts as a success and asks *)
(* for a retry only while attempts remain (fail_occurrence).               *)
LEMMA FailureOutcome ==
    ASSUME NEW attempt \in Nat, NEW failure \in Failures(attempt)
    PROVE  /\ failure.row \in Row /\ failure.delay \in 0..CapDelay
           /\ failure.row.attempts = attempt
           /\ failure.row.status \in {"QUARANTINED", "RETRY_WAIT"}
           /\ failure.row.status = "RETRY_WAIT" => attempt < MaxAttempts
<1>1. CASE failure = [row |-> [status |-> "QUARANTINED", attempts |-> attempt], delay |-> 0]
  BY <1>1, PolicyAssumption DEF Row, Statuses, Settled, Finished
<1>2. ASSUME NEW t \in RetryDelays(attempt), Retryable(attempt),
             failure = [row |-> [status |-> "RETRY_WAIT", attempts |-> attempt], delay |-> t]
      PROVE  /\ failure.row \in Row /\ failure.delay \in 0..CapDelay
             /\ failure.row.attempts = attempt
             /\ failure.row.status \in {"QUARANTINED", "RETRY_WAIT"}
             /\ failure.row.status = "RETRY_WAIT" => attempt < MaxAttempts
  BY <1>2, DelaysAreCapped DEF Row, Statuses, Retryable
<1>3. failure = [row |-> [status |-> "QUARANTINED", attempts |-> attempt], delay |-> 0]
        \/ \E t \in RetryDelays(attempt) :
              /\ Retryable(attempt)
              /\ failure = [row |-> [status |-> "RETRY_WAIT", attempts |-> attempt], delay |-> t]
  BY DEF Failures
<1>4. QED BY <1>1, <1>2, <1>3

LEMMA RowsAreRows == Absent \in Row /\ NewRow \in Row
BY DEF Absent, NewRow, Row, Statuses

-----------------------------------------------------------------------------
(* The invariant holds initially and every action keeps it.                *)

LEMMA InitIInv == Init => IInv
<1> SUFFICES ASSUME Init PROVE IInv
  OBVIOUS
<1>1. TypeOK
  BY BoundsAssumption, PolicyAssumption, RowsAreRows DEF Init, TypeOK, Actors
<1>2. HeldIsDue /\ HeldIsExclusive /\ DueFollowsClock
  BY DEF Init, HeldIsDue, HeldIsExclusive, DueFollowsClock
<1>3. NoSlotLostOrEarly
  BY DEF Init, NoSlotLostOrEarly, Slots, Occurrences, Absent
<1>4. RunningIsExclusive
  BY DEF Init, RunningIsExclusive, Actors
<1>5. EffectOnce /\ AttemptBudget
  BY PolicyAssumption DEF Init, EffectOnce, AttemptBudget, Absent
<1>6. QED BY <1>1, <1>2, <1>3, <1>4, <1>5 DEF IInv

LEMMA ScanKeeps == ASSUME IInv, NEW s \in Schedulers, Scan(s) PROVE IInv'
<1>1. PICK batch :
        /\ \A o \in batch : \E d \in Definitions :
              o = <<d, nextDue[d]>> /\ nextDue[d] <= now /\ ~DefinitionLocked(d)
        /\ held' = [held EXCEPT ![s] = batch]
  BY DEF Scan
<1>2. batch \subseteq Occurrences
  <2>1. \A d \in Definitions : nextDue[d] <= now => nextDue[d] \in Slots
    BY BoundsAssumption DEF IInv, TypeOK, Slots
  <2>2. QED BY <1>1, <2>1 DEF Occurrences
<1>3. held'[s] = batch /\ \A t \in Schedulers \ {s} : held'[t] = held[t]
  BY <1>1 DEF IInv, TypeOK
<1>4. TypeOK'
  BY <1>1, <1>2 DEF Scan, IInv, TypeOK
<1>5. HeldIsDue'
  BY <1>1, <1>3 DEF Scan, IInv, HeldIsDue
<1>6. HeldIsExclusive'
  <2>1. \A o \in batch, t \in Schedulers : \A p \in held[t] : o[1] # p[1]
    BY <1>1 DEF DefinitionLocked
  <2>2. QED BY <1>3, <2>1 DEF IInv, HeldIsExclusive
<1>7. DueFollowsClock' /\ NoSlotLostOrEarly' /\ EffectOnce' /\ AttemptBudget'
  BY DEF Scan, IInv, DueFollowsClock, NoSlotLostOrEarly, EffectOnce, AttemptBudget
<1>8. RunningIsExclusive'
  BY DEF Scan, IInv, RunningIsExclusive, Runnable
<1>9. QED BY <1>4, <1>5, <1>6, <1>7, <1>8 DEF IInv

(* The rows a scheduler inserts did not exist, so no unique constraint     *)
(* stops a definition it holds from moving on.                             *)
LEMMA HeldIsAbsent ==
    ASSUME IInv, NEW s \in Schedulers, NEW o \in held[s]
    PROVE  /\ o \in Occurrences /\ o[1] \in Definitions /\ o[2] \in Slots
           /\ o = <<o[1], o[2]>> /\ o[2] = nextDue[o[1]] /\ o[2] <= now
           /\ occ[o].status = "ABSENT"
<1>1. o \in Occurrences
  BY DEF IInv, TypeOK
<1>2. /\ o[1] \in Definitions /\ o[2] \in Slots /\ o = <<o[1], o[2]>>
      /\ o[2] = nextDue[o[1]] /\ o[2] <= now
  BY <1>1 DEF Occurrences, IInv, HeldIsDue
<1>3. occ[<<o[1], o[2]>>].status = "ABSENT"
  BY <1>2 DEF IInv, NoSlotLostOrEarly, Slots
<1>4. QED BY <1>1, <1>2, <1>3

LEMMA MaterializeKeeps == ASSUME IInv, NEW s \in Schedulers, Materialize(s) PROVE IInv'
<1>1. /\ occ' = [o \in Occurrences |-> IF o \in held[s] THEN NewRow ELSE occ[o]]
      /\ nextDue' = [d \in Definitions |->
           IF \E o \in held[s] : o[1] = d THEN nextDue[d] + 1 ELSE nextDue[d]]
  <2>1. {o \in held[s] : occ[o].status = "ABSENT"} = held[s]
    BY HeldIsAbsent
  <2>2. QED BY <2>1 DEF Materialize, next_due
<1>2. now \in 0..MaxSlots /\ nextDue \in [Definitions -> 1..(MaxSlots + 1)]
  BY DEF IInv, TypeOK
<1>3. held'[s] = {} /\ \A t \in Schedulers \ {s} : held'[t] = held[t]
  BY DEF Materialize, IInv, TypeOK
<1>4. \A d \in Definitions : nextDue'[d] \in 1..(MaxSlots + 1) /\ nextDue'[d] <= now + 1
  BY <1>1, <1>2, HeldIsAbsent, BoundsAssumption DEF IInv, DueFollowsClock
<1>5. TypeOK'
  <2>1. occ' \in [Occurrences -> Row]
    BY <1>1, RowsAreRows DEF IInv, TypeOK
  <2>2. nextDue' \in [Definitions -> 1..(MaxSlots + 1)]
    BY <1>1, <1>4
  <2>3. QED BY <2>1, <2>2 DEF Materialize, IInv, TypeOK
<1>6. HeldIsDue'
  <2>1. ASSUME NEW t \in Schedulers, NEW o \in held'[t]
        PROVE  o[2] = nextDue'[o[1]] /\ o[2] <= now'
    <3>1. t # s /\ o \in held[t]
      BY <1>3, <2>1
    <3>2. o[1] \in Definitions /\ o[2] = nextDue[o[1]] /\ o[2] <= now
      BY <3>1, HeldIsAbsent
    <3>3. ~ \E p \in held[s] : p[1] = o[1]
      BY <3>1 DEF IInv, HeldIsExclusive
    <3>4. QED BY <1>1, <3>2, <3>3 DEF Materialize
  <2>2. QED BY <2>1 DEF HeldIsDue
<1>7. HeldIsExclusive'
  BY <1>3 DEF IInv, HeldIsExclusive
<1>8. DueFollowsClock'
  BY <1>4 DEF DueFollowsClock, Materialize
<1>9. NoSlotLostOrEarly'
  <2>1. ASSUME NEW d \in Definitions, NEW k \in Slots
        PROVE  (occ'[<<d, k>>].status # "ABSENT") <=> (k < nextDue'[d] /\ k <= now)
    <3>1. <<d, k>> \in Occurrences /\ nextDue[d] \in Int /\ k \in Int
      BY <1>2 DEF Occurrences, Slots
    <3>2. CASE <<d, k>> \in held[s]
      <4>1. k = nextDue[d] /\ k <= now /\ nextDue'[d] = nextDue[d] + 1
        BY <1>1, <3>2, HeldIsAbsent
      <4>2. occ'[<<d, k>>].status = "QUEUED"
        BY <1>1, <3>1, <3>2 DEF NewRow
      <4>3. QED BY <3>1, <4>1, <4>2
    <3>3. CASE <<d, k>> \notin held[s]
      <4>1. occ'[<<d, k>>] = occ[<<d, k>>]
        BY <1>1, <3>1, <3>3
      <4>2. (occ[<<d, k>>].status # "ABSENT") <=> (k < nextDue[d] /\ k <= now)
        BY DEF IInv, NoSlotLostOrEarly
      <4>3. nextDue'[d] = nextDue[d] \/ (nextDue'[d] = nextDue[d] + 1 /\ k # nextDue[d])
        <5>1. CASE \E o \in held[s] : o[1] = d
          <6>1. PICK o \in held[s] : o[1] = d
            BY <5>1
          <6>2. o = <<d, nextDue[d]>>
            BY <6>1, HeldIsAbsent
          <6>3. QED BY <1>1, <3>3, <5>1, <6>1, <6>2
        <5>2. CASE ~ \E o \in held[s] : o[1] = d
          BY <1>1, <5>2
        <5>3. QED BY <5>1, <5>2
      <4>4. QED BY <3>1, <4>1, <4>2, <4>3
    <3>4. QED BY <3>2, <3>3
  <2>2. now' = now
    BY DEF Materialize
  <2>3. QED BY <2>1, <2>2 DEF NoSlotLostOrEarly
<1>10. \A o \in Occurrences : occ[o].status # "ABSENT" => occ'[o] = occ[o]
  BY <1>1, HeldIsAbsent
<1>11. RunningIsExclusive'
  <2>1. \A o \in Occurrences : Runnable(o) => Runnable(o)'
    BY <1>10 DEF Runnable, Materialize
  <2>2. \A w \in Workers : pc[w] = "running" => target[w] \in Occurrences
    BY DEF IInv, TypeOK, Actors
  <2>3. QED BY <2>1, <2>2 DEF Materialize, IInv, RunningIsExclusive
<1>12. EffectOnce'
  <2>1. \A o \in Occurrences :
          (occ'[o].status = "SUCCEEDED") <=> (occ[o].status = "SUCCEEDED")
    BY <1>1, HeldIsAbsent DEF NewRow
  <2>2. effects' = effects
    BY DEF Materialize
  <2>3. QED BY <2>1, <2>2 DEF IInv, EffectOnce
<1>13. AttemptBudget'
  <2>1. ASSUME NEW o \in Occurrences
        PROVE  /\ occ'[o].attempts <= MaxAttempts + retries[o]
               /\ occ'[o].status \in {"QUEUED", "RETRY_WAIT"}
                    => occ'[o].attempts < MaxAttempts + retries[o]
    <3>1. retries[o] \in Nat
      BY DEF IInv, TypeOK
    <3>2. CASE o \in held[s]
      BY <1>1, <3>1, <3>2, PolicyAssumption DEF NewRow
    <3>3. CASE o \notin held[s]
      BY <1>1, <3>3 DEF IInv, AttemptBudget
    <3>4. QED BY <3>2, <3>3
  <2>2. retries' = retries
    BY DEF Materialize
  <2>3. QED BY <2>1, <2>2 DEF AttemptBudget
<1>14. QED BY <1>5, <1>6, <1>7, <1>8, <1>9, <1>11, <1>12, <1>13 DEF IInv

LEMMA KillSchedulerKeeps == ASSUME IInv, NEW s \in Schedulers, KillScheduler(s) PROVE IInv'
<1>1. held'[s] = {} /\ \A t \in Schedulers \ {s} : held'[t] = held[t]
  BY DEF KillScheduler, IInv, TypeOK
<1>2. TypeOK'
  BY DEF KillScheduler, IInv, TypeOK
<1>3. HeldIsDue' /\ HeldIsExclusive'
  BY <1>1 DEF KillScheduler, IInv, HeldIsDue, HeldIsExclusive
<1>4. DueFollowsClock' /\ NoSlotLostOrEarly' /\ EffectOnce' /\ AttemptBudget'
  BY DEF KillScheduler, IInv, DueFollowsClock, NoSlotLostOrEarly, EffectOnce, AttemptBudget
<1>5. RunningIsExclusive'
  BY DEF KillScheduler, IInv, RunningIsExclusive, Runnable
<1>6. QED BY <1>2, <1>3, <1>4, <1>5 DEF IInv

(* A step of one worker or request that writes no row.                     *)
LEMMA PlaceStep ==
    ASSUME IInv, NEW a \in Actors, NEW state \in {"idle", "running", "retry", "dismiss"},
           NEW o \in Occurrences \union {Nothing},
           pc' = [pc EXCEPT ![a] = state], target' = [target EXCEPT ![a] = o],
           state # "idle" => o \in Occurrences,
           a \in Workers => state \in {"idle", "running"},
           a \in Clients => state # "running",
           state = "running" => Runnable(o) /\ ~OccurrenceLocked(o),
           UNCHANGED <<now, nextDue, occ, wait, held, effects, retries>>,
           crashes' \in Nat, resolutions' \in Nat
    PROVE  IInv'
<1>1. /\ pc'[a] = state /\ target'[a] = o
      /\ \A b \in Actors \ {a} : pc'[b] = pc[b] /\ target'[b] = target[b]
  BY DEF IInv, TypeOK
<1>2. TypeOK'
  <2>1. /\ pc' \in [Actors -> {"idle", "running", "retry", "dismiss"}]
        /\ target' \in [Actors -> Occurrences \union {Nothing}]
    BY DEF IInv, TypeOK
  <2>2. /\ \A w \in Workers : pc'[w] \in {"idle", "running"}
        /\ \A c \in Clients : pc'[c] # "running"
        /\ \A b \in Actors : pc'[b] # "idle" => target'[b] \in Occurrences
    BY <1>1 DEF IInv, TypeOK, Actors
  <2>3. QED BY <2>1, <2>2 DEF IInv, TypeOK
<1>3. HeldIsDue' /\ HeldIsExclusive' /\ DueFollowsClock'
  BY DEF IInv, HeldIsDue, HeldIsExclusive, DueFollowsClock
<1>4. NoSlotLostOrEarly' /\ EffectOnce' /\ AttemptBudget'
  BY DEF IInv, NoSlotLostOrEarly, EffectOnce, AttemptBudget
<1>5. RunningIsExclusive'
  <2>1. ASSUME NEW w \in Workers, pc'[w] = "running"
        PROVE  /\ Runnable(target[w])'
               /\ \A v \in Workers : pc'[v] = "running" /\ target'[v] = target'[w] => v = w
    <3>1. CASE w = a
      BY <1>1, <2>1, <3>1 DEF Runnable, OccurrenceLocked, Actors
    <3>2. CASE w # a
      <4>1. pc[w] = "running" /\ target'[w] = target[w] /\ Runnable(target[w])
        BY <1>1, <2>1, <3>2 DEF IInv, RunningIsExclusive, Actors
      <4>2. ASSUME NEW v \in Workers, pc'[v] = "running", target'[v] = target'[w] PROVE v = w
        BY <1>1, <4>1, <4>2 DEF IInv, RunningIsExclusive, OccurrenceLocked, Actors
      <4>3. QED BY <4>1, <4>2 DEF Runnable
    <3>3. QED BY <3>1, <3>2
  <2>2. QED BY <2>1 DEF RunningIsExclusive
<1>6. QED BY <1>2, <1>3, <1>4, <1>5 DEF IInv

LEMMA ClaimKeeps == ASSUME IInv, NEW w \in Workers, Claim(w) PROVE IInv'
<1>1. PICK o \in Occurrences :
        /\ Runnable(o) /\ ~OccurrenceLocked(o)
        /\ pc' = [pc EXCEPT ![w] = "running"] /\ target' = [target EXCEPT ![w] = o]
  BY DEF Claim, Take
<1>2. w \in Actors /\ w \notin Clients
  BY ActorsAssumption DEF Actors
<1>3. crashes' \in Nat /\ resolutions' \in Nat
  BY DEF Claim, IInv, TypeOK
<1>4. QED BY <1>1, <1>2, <1>3, PlaceStep DEF Claim

LEMMA AbandonKeeps == ASSUME IInv, NEW w \in Workers, Abandon(w) PROVE IInv'
<1>1. w \in Actors /\ w \notin Clients
  BY ActorsAssumption DEF Actors
<1>2. crashes' \in Nat /\ resolutions' \in Nat
  BY DEF Abandon, IInv, TypeOK
<1>3. QED BY <1>1, <1>2, PlaceStep DEF Abandon, Leave

LEMMA ReadQuarantinedKeeps ==
    ASSUME IInv, NEW c \in Clients, NEW o \in Occurrences, NEW action \in {"retry", "dismiss"},
           ReadQuarantined(c, o, action)
    PROVE  IInv'
<1>1. c \in Actors /\ c \notin Workers
  BY ActorsAssumption DEF Actors
<1>2. crashes' \in Nat /\ resolutions' \in Nat
  BY DEF ReadQuarantined, IInv, TypeOK
<1>3. QED BY <1>1, <1>2, PlaceStep DEF ReadQuarantined

(* A step of one worker or request that writes one row, which no other     *)
(* worker holds, and leaves it.                                            *)
LEMMA RowStep ==
    ASSUME IInv, NEW a \in Actors, NEW o \in Occurrences, NEW row \in Row, NEW delay \in 0..CapDelay,
           occ[o].status # "ABSENT", row.status # "ABSENT",
           \A w \in Workers \ {a} : pc[w] = "running" => target[w] # o,
           occ' = [occ EXCEPT ![o] = row],
           wait' = [wait EXCEPT ![o] = delay],
           effects' \in [Occurrences -> Nat],
           \A p \in Occurrences \ {o} : effects'[p] = effects[p],
           effects'[o] = IF row.status = "SUCCEEDED" THEN 1 ELSE 0,
           retries' \in [Occurrences -> Nat],
           \A p \in Occurrences \ {o} : retries'[p] = retries[p],
           row.attempts <= MaxAttempts + retries'[o],
           row.status \in {"QUEUED", "RETRY_WAIT"} => row.attempts < MaxAttempts + retries'[o],
           Leave(a),
           UNCHANGED <<now, nextDue, held, crashes, resolutions>>
    PROVE  IInv'
<1>1. /\ pc'[a] = "idle"
      /\ \A b \in Actors \ {a} : pc'[b] = pc[b] /\ target'[b] = target[b]
  BY DEF Leave, IInv, TypeOK
<1>2. /\ occ'[o] = row /\ \A p \in Occurrences \ {o} : occ'[p] = occ[p] /\ wait'[p] = wait[p]
  BY DEF IInv, TypeOK
<1>3. TypeOK'
  <2>1. /\ pc' \in [Actors -> {"idle", "running", "retry", "dismiss"}]
        /\ target' \in [Actors -> Occurrences \union {Nothing}]
    BY DEF Leave, IInv, TypeOK
  <2>2. /\ \A w \in Workers : pc'[w] \in {"idle", "running"}
        /\ \A c \in Clients : pc'[c] # "running"
        /\ \A b \in Actors : pc'[b] # "idle" => target'[b] \in Occurrences
    BY <1>1 DEF IInv, TypeOK, Actors
  <2>3. QED BY <2>1, <2>2 DEF IInv, TypeOK
<1>4. HeldIsDue' /\ HeldIsExclusive' /\ DueFollowsClock'
  BY DEF IInv, HeldIsDue, HeldIsExclusive, DueFollowsClock
<1>5. NoSlotLostOrEarly'
  <2>1. \A p \in Occurrences : (occ'[p].status = "ABSENT") <=> (occ[p].status = "ABSENT")
    BY <1>2
  <2>2. \A d \in Definitions, k \in Slots : <<d, k>> \in Occurrences
    BY DEF Occurrences
  <2>3. ASSUME NEW d \in Definitions, NEW k \in Slots
        PROVE  (occ'[<<d, k>>].status # "ABSENT") <=> (k < nextDue'[d] /\ k <= now')
    <3>1. (occ[<<d, k>>].status # "ABSENT") <=> (k < nextDue[d] /\ k <= now)
      BY DEF IInv, NoSlotLostOrEarly
    <3>2. (occ'[<<d, k>>].status # "ABSENT") <=> (occ[<<d, k>>].status # "ABSENT")
      BY <2>1, <2>2
    <3>3. QED BY <3>1, <3>2
  <2>4. QED BY <2>3 DEF NoSlotLostOrEarly
<1>6. RunningIsExclusive'
  <2>1. ASSUME NEW w \in Workers, pc'[w] = "running"
        PROVE  /\ Runnable(target[w])'
               /\ \A v \in Workers : pc'[v] = "running" /\ target'[v] = target'[w] => v = w
    <3>1. /\ w # a /\ pc[w] = "running" /\ target'[w] = target[w]
          /\ target[w] \in Occurrences \ {o} /\ Runnable(target[w])
      BY <1>1, <2>1 DEF IInv, RunningIsExclusive, TypeOK, Actors
    <3>2. ASSUME NEW v \in Workers, pc'[v] = "running", target'[v] = target'[w] PROVE v = w
      BY <1>1, <3>1, <3>2 DEF IInv, RunningIsExclusive, Actors
    <3>3. QED BY <1>2, <3>1, <3>2 DEF Runnable
  <2>2. QED BY <2>1 DEF RunningIsExclusive
<1>7. EffectOnce'
  BY <1>2 DEF IInv, EffectOnce
<1>8. AttemptBudget'
  BY <1>2 DEF IInv, AttemptBudget
<1>9. QED BY <1>3, <1>4, <1>5, <1>6, <1>7, <1>8 DEF IInv

(* What a worker that is about to finish knows of its row.                 *)
LEMMA RunningRow ==
    ASSUME IInv, NEW w \in Workers, pc[w] = "running"
    PROVE  /\ w \in Actors /\ target[w] \in Occurrences
           /\ occ[target[w]] \in Row /\ occ[target[w]].attempts \in Nat
           /\ occ[target[w]].status \in {"QUEUED", "RETRY_WAIT"}
           /\ effects[target[w]] = 0 /\ retries[target[w]] \in Nat
           /\ occ[target[w]].attempts + 1 <= MaxAttempts + retries[target[w]]
           /\ \A v \in Workers \ {w} : pc[v] = "running" => target[v] # target[w]
<1>1. w \in Actors /\ target[w] \in Occurrences
  BY DEF IInv, TypeOK, Actors
<1>2. occ[target[w]] \in Row /\ retries[target[w]] \in Nat
  BY <1>1 DEF IInv, TypeOK
<1>3. occ[target[w]].attempts \in Nat
  BY <1>2 DEF Row
<1>4. occ[target[w]].status \in {"QUEUED", "RETRY_WAIT"}
  BY DEF IInv, RunningIsExclusive, Runnable
<1>5. effects[target[w]] = 0
  BY <1>1, <1>4 DEF IInv, EffectOnce
<1>6. occ[target[w]].attempts + 1 <= MaxAttempts + retries[target[w]]
  BY <1>1, <1>2, <1>3, <1>4, PolicyAssumption DEF IInv, AttemptBudget
<1>7. \A v \in Workers \ {w} : pc[v] = "running" => target[v] # target[w]
  BY DEF IInv, RunningIsExclusive
<1>8. QED BY <1>1, <1>2, <1>3, <1>4, <1>5, <1>6, <1>7

LEMMA CompleteKeeps == ASSUME IInv, NEW w \in Workers, CompleteOccurrence(w) PROVE IInv'
<1> DEFINE o == target[w]
           row == [status |-> "SUCCEEDED", attempts |-> occ[o].attempts + 1]
<1>1. /\ w \in Actors /\ o \in Occurrences /\ occ[o].attempts \in Nat
      /\ occ[o].status # "ABSENT" /\ effects[o] = 0 /\ retries[o] \in Nat
      /\ occ[o].attempts + 1 <= MaxAttempts + retries[o]
      /\ \A v \in Workers \ {w} : pc[v] = "running" => target[v] # o
  BY RunningRow DEF CompleteOccurrence
<1>2. row \in Row /\ row.status = "SUCCEEDED" /\ row.attempts = occ[o].attempts + 1
  BY <1>1 DEF Row, Statuses, Settled, Finished
<1>3. occ' = [occ EXCEPT ![o] = row]
  BY <1>1 DEF CompleteOccurrence, IInv, TypeOK
<1>4. effects' \in [Occurrences -> Nat] /\ effects'[o] = 1
        /\ \A p \in Occurrences \ {o} : effects'[p] = effects[p]
  BY <1>1 DEF CompleteOccurrence, IInv, TypeOK
<1>5. wait[o] \in 0..CapDelay /\ wait' = [wait EXCEPT ![o] = wait[o]]
  BY <1>1 DEF CompleteOccurrence, IInv, TypeOK
<1>6. retries' \in [Occurrences -> Nat] /\ retries' = retries
  BY DEF CompleteOccurrence, IInv, TypeOK
<1>7. Leave(w) /\ UNCHANGED <<now, nextDue, held, crashes, resolutions>>
  BY DEF CompleteOccurrence
<1> HIDE DEF o, row
<1>8. QED BY <1>1, <1>2, <1>3, <1>4, <1>5, <1>6, <1>7, RowStep

LEMMA FailKeeps == ASSUME IInv, NEW w \in Workers, FailOccurrence(w) PROVE IInv'
<1> DEFINE o == target[w]
<1>1. /\ w \in Actors /\ o \in Occurrences /\ occ[o].attempts \in Nat
      /\ occ[o].status # "ABSENT" /\ effects[o] = 0 /\ retries[o] \in Nat
      /\ occ[o].attempts + 1 <= MaxAttempts + retries[o]
      /\ \A v \in Workers \ {w} : pc[v] = "running" => target[v] # o
  BY RunningRow DEF FailOccurrence
<1>2. PICK failure \in Failures(occ[o].attempts + 1) :
        /\ occ' = [occ EXCEPT ![o] = failure.row]
        /\ wait' = [wait EXCEPT ![o] = failure.delay]
  BY DEF FailOccurrence
<1>3. /\ failure.row \in Row /\ failure.delay \in 0..CapDelay
      /\ failure.row.attempts = occ[o].attempts + 1
      /\ failure.row.status \in {"QUARANTINED", "RETRY_WAIT"}
      /\ failure.row.status = "RETRY_WAIT" => occ[o].attempts + 1 < MaxAttempts
  BY <1>1, FailureOutcome
<1>4. /\ effects' \in [Occurrences -> Nat] /\ effects' = effects
      /\ retries' \in [Occurrences -> Nat] /\ retries' = retries
  BY DEF FailOccurrence, IInv, TypeOK
<1>5. Leave(w) /\ UNCHANGED <<now, nextDue, held, crashes, resolutions>>
  BY DEF FailOccurrence
<1>6. failure.row.status \in {"QUEUED", "RETRY_WAIT"}
        => failure.row.attempts < MaxAttempts + retries'[o]
  BY <1>1, <1>3, <1>4, PolicyAssumption
<1>7. PICK row \in Row, delay \in 0..CapDelay :
        /\ row = failure.row /\ delay = failure.delay
  BY <1>3
<1>8. /\ row.status # "ABSENT"
      /\ effects'[o] = IF row.status = "SUCCEEDED" THEN 1 ELSE 0
      /\ row.attempts <= MaxAttempts + retries'[o]
      /\ row.status \in {"QUEUED", "RETRY_WAIT"} => row.attempts < MaxAttempts + retries'[o]
      /\ \A p \in Occurrences \ {o} : effects'[p] = effects[p] /\ retries'[p] = retries[p]
  BY <1>1, <1>3, <1>4, <1>6, <1>7
<1>9. /\ occ' = [occ EXCEPT ![o] = row]
      /\ wait' = [wait EXCEPT ![o] = delay]
  BY <1>2, <1>7
<1> HIDE DEF o
<1>10. QED BY <1>1, <1>4, <1>5, <1>8, <1>9, RowStep

LEMMA ResolveKeeps == ASSUME IInv, NEW c \in Clients, Resolve(c) PROVE IInv'
<1> DEFINE o == target[c]
           row == Resolution(o, pc[c])
<1>1. c \in Actors /\ c \notin Workers /\ o \in Occurrences
  BY ActorsAssumption DEF Resolve, IInv, TypeOK, Actors
<1>2. CASE UNCHANGED <<occ, wait, retries>>
  <2>1. crashes' \in Nat /\ resolutions' \in Nat
    BY DEF Resolve, IInv, TypeOK
  <2>2. UNCHANGED <<now, nextDue, occ, wait, held, effects, retries>>
    BY <1>2 DEF Resolve
  <2>3. QED BY <1>1, <2>1, <2>2, PlaceStep DEF Resolve, Leave
<1>3. CASE /\ occ[o].status = "QUARANTINED"
           /\ occ' = [occ EXCEPT ![o] = row]
           /\ wait' = [wait EXCEPT ![o] = 0]
           /\ retries' = [retries EXCEPT ![o] = IF pc[c] = "retry" THEN @ + 1 ELSE @]
  <2>1. occ[o].attempts \in Nat /\ retries[o] \in Nat /\ effects[o] = 0
    BY <1>1, <1>3 DEF IInv, TypeOK, Row, EffectOnce
  <2>2. occ[o].attempts <= MaxAttempts + retries[o]
    BY <1>1 DEF IInv, AttemptBudget
  <2>3. /\ row \in Row /\ row.attempts = occ[o].attempts
        /\ row.status = IF pc[c] = "retry" THEN "RETRY_WAIT" ELSE "CANCELLED"
    BY <2>1 DEF Resolution, Row, Statuses, Settled, Finished
  <2>4. /\ retries' \in [Occurrences -> Nat]
        /\ \A p \in Occurrences \ {o} : retries'[p] = retries[p]
        /\ retries'[o] = IF pc[c] = "retry" THEN retries[o] + 1 ELSE retries[o]
    BY <1>1, <1>3, <2>1 DEF IInv, TypeOK
  <2>5. effects' \in [Occurrences -> Nat] /\ effects' = effects
    BY DEF Resolve, IInv, TypeOK
  <2>6. \A w \in Workers \ {c} : pc[w] = "running" => target[w] # o
    BY DEF Resolve, OccurrenceLocked
  <2>7. Leave(c) /\ UNCHANGED <<now, nextDue, held, crashes, resolutions>> /\ 0 \in 0..CapDelay
    BY PolicyAssumption DEF Resolve
  <2>8. /\ row.attempts <= MaxAttempts + retries'[o]
        /\ row.status \in {"QUEUED", "RETRY_WAIT"} => row.attempts < MaxAttempts + retries'[o]
    BY <2>1, <2>2, <2>3, <2>4, PolicyAssumption
  <2>9. effects'[o] = IF row.status = "SUCCEEDED" THEN 1 ELSE 0
    BY <2>1, <2>3, <2>5
  <2>10. row.status # "ABSENT" /\ occ[o].status # "ABSENT"
    BY <1>3, <2>3
  <2> HIDE DEF o, row
  <2>11. QED BY <1>1, <1>3, <2>3, <2>4, <2>5, <2>6, <2>7, <2>8, <2>9, <2>10, RowStep
<1>4. QED BY <1>2, <1>3 DEF Resolve

LEMMA TickKeeps == ASSUME IInv, Tick \/ UNCHANGED vars PROVE IInv'
<1>1. /\ UNCHANGED <<nextDue, occ, held, target, pc, effects, retries, crashes, resolutions>>
      /\ now' \in 0..MaxSlots /\ now <= now'
      /\ wait' \in [Occurrences -> 0..CapDelay]
      /\ \A o \in Occurrences : wait[o] = 0 => wait'[o] = 0
  BY BoundsAssumption, PolicyAssumption DEF Tick, vars, IInv, TypeOK
<1>2. now \in Nat /\ now' \in Nat
  BY <1>1, BoundsAssumption DEF IInv, TypeOK
<1>3. TypeOK' /\ HeldIsExclusive' /\ EffectOnce' /\ AttemptBudget'
  <2>1. TypeOK'
    BY <1>1 DEF IInv, TypeOK
  <2>2. QED BY <1>1, <2>1 DEF IInv, HeldIsExclusive, EffectOnce, AttemptBudget
<1>4. HeldIsDue'
  <2>1. ASSUME NEW s \in Schedulers, NEW o \in held[s] PROVE o[2] = nextDue[o[1]] /\ o[2] <= now'
    <3>1. o[2] \in Slots /\ o[2] = nextDue[o[1]] /\ o[2] <= now
      BY HeldIsAbsent
    <3>2. QED BY <1>1, <1>2, <3>1 DEF Slots
  <2>2. QED BY <1>1, <2>1 DEF HeldIsDue
<1>5. DueFollowsClock' /\ NoSlotLostOrEarly'
  <2>1. \A d \in Definitions : nextDue[d] \in Nat /\ nextDue[d] <= now + 1
    BY BoundsAssumption DEF IInv, TypeOK, DueFollowsClock
  <2>2. DueFollowsClock'
    BY <1>1, <1>2, <2>1 DEF DueFollowsClock
  <2>3. ASSUME NEW d \in Definitions, NEW k \in Slots
        PROVE  (occ[<<d, k>>].status # "ABSENT") <=> (k < nextDue[d] /\ k <= now')
    <3>1. (occ[<<d, k>>].status # "ABSENT") <=> (k < nextDue[d] /\ k <= now)
      BY DEF IInv, NoSlotLostOrEarly
    <3>2. k \in Nat
      BY DEF Slots
    <3>3. QED BY <1>1, <1>2, <2>1, <3>1, <3>2
  <2>4. QED BY <1>1, <2>2, <2>3 DEF NoSlotLostOrEarly
<1>6. RunningIsExclusive'
  <2>1. \A w \in Workers : pc[w] = "running" => target[w] \in Occurrences
    BY DEF IInv, TypeOK, Actors
  <2>2. QED BY <1>1, <2>1 DEF IInv, RunningIsExclusive, Runnable
<1>7. QED BY <1>3, <1>4, <1>5, <1>6 DEF IInv

LEMMA StepKeeps == IInv /\ [Next]_vars => IInv'
<1> SUFFICES ASSUME IInv, [Next]_vars PROVE IInv'
  OBVIOUS
<1>1. ASSUME NEW s \in Schedulers, SchedulerStep(s) \/ KillScheduler(s) PROVE IInv'
  BY <1>1, ScanKeeps, MaterializeKeeps, KillSchedulerKeeps DEF SchedulerStep
<1>2. ASSUME NEW w \in Workers, WorkerStep(w) \/ Abandon(w) PROVE IInv'
  BY <1>2, ClaimKeeps, CompleteKeeps, FailKeeps, AbandonKeeps DEF WorkerStep
<1>3. ASSUME NEW c \in Clients, ClientStep(c) PROVE IInv'
  BY <1>3, ReadQuarantinedKeeps, ResolveKeeps DEF ClientStep
<1>4. QED BY <1>1, <1>2, <1>3, TickKeeps DEF Next

-----------------------------------------------------------------------------
(* The theorems.                                                           *)

THEOREM Invariance == Spec => []IInv
<1>1. QED BY InitIInv, StepKeeps, PTL DEF Spec

(* Every variable keeps its type and no retry waits longer than the cap    *)
(* (compute_retry_delay).                                                  *)
THEOREM TypeSafety == Spec => []TypeOK
<1>1. IInv => TypeOK
  BY DEF IInv
<1>2. QED BY Invariance, <1>1, PTL

(* The occurrences of a definition are its slots before next_due_at,       *)
(* without gaps or duplicates, for any number of schedulers that overlap   *)
(* and crash (claim_due_occurrences).                                      *)
THEOREM SlotsAreExact == Spec => []NoSlotLostOrEarly
<1>1. IInv => NoSlotLostOrEarly
  BY DEF IInv
<1>2. QED BY Invariance, <1>1, PTL

(* A success is committed once, by a worker that held the row alone        *)
(* (claim_next_occurrence, complete_occurrence).                           *)
THEOREM ExactlyOneEffect == Spec => [](EffectOnce /\ RunningIsExclusive)
<1>1. IInv => EffectOnce /\ RunningIsExclusive
  BY DEF IInv
<1>2. QED BY Invariance, <1>1, PTL

(* Attempts stay within the retry policy and the manual retries            *)
(* (fail_occurrence, resolve_quarantined_occurrence).                      *)
THEOREM BoundedAttempts == Spec => []AttemptBudget
<1>1. IInv => AttemptBudget
  BY DEF IInv
<1>2. QED BY Invariance, <1>1, PTL

(* Only five kinds of step change an occurrence: the insert of an absent   *)
(* one, the two ends of an attempt, whose row was runnable, and the        *)
(* resolution of a quarantined one.                                        *)
LEMMA OccurrenceStep ==
    ASSUME IInv, [Next]_vars, NEW o \in Occurrences, occ'[o] # occ[o]
    PROVE  \/ occ[o].status = "QUARANTINED"
           \/ occ[o].status \in {"ABSENT", "QUEUED", "RETRY_WAIT"} /\ occ'[o].status # "CANCELLED"
<1>1. ASSUME NEW s \in Schedulers, SchedulerStep(s) \/ KillScheduler(s)
      PROVE  occ[o].status = "ABSENT" /\ occ'[o].status # "CANCELLED"
  <2>1. Materialize(s)
    BY <1>1 DEF SchedulerStep, Scan, KillScheduler
  <2>2. QED BY <2>1 DEF Materialize, NewRow
<1>2. ASSUME NEW w \in Workers, WorkerStep(w) \/ Abandon(w)
      PROVE  occ[o].status \in {"QUEUED", "RETRY_WAIT"} /\ occ'[o].status # "CANCELLED"
  <2>1. CompleteOccurrence(w) \/ FailOccurrence(w)
    BY <1>2 DEF WorkerStep, Claim, Abandon
  <2>2. pc[w] = "running"
    BY <2>1 DEF CompleteOccurrence, FailOccurrence
  <2>3. target[w] \in Occurrences /\ occ[target[w]].status \in {"QUEUED", "RETRY_WAIT"}
        /\ occ[target[w]].attempts \in Nat
    BY <2>2, RunningRow DEF IInv, RunningIsExclusive, Runnable
  <2>4. CASE CompleteOccurrence(w)
    <3>1. occ' = [occ EXCEPT ![target[w]] = [status |-> "SUCCEEDED", attempts |-> occ[target[w]].attempts + 1]]
      BY <2>4, <2>3 DEF CompleteOccurrence, IInv, TypeOK
    <3>2. QED BY <2>3, <3>1 DEF IInv, TypeOK
  <2>5. CASE FailOccurrence(w)
    <3>1. PICK failure \in Failures(occ[target[w]].attempts + 1) :
            occ' = [occ EXCEPT ![target[w]] = failure.row]
      BY <2>5 DEF FailOccurrence
    <3>2. failure.row.status \in {"QUARANTINED", "RETRY_WAIT"}
      BY <2>3, FailureOutcome
    <3>3. QED BY <2>3, <3>1, <3>2 DEF IInv, TypeOK
  <2>6. QED BY <2>1, <2>4, <2>5
<1>3. ASSUME NEW c \in Clients, ClientStep(c) PROVE occ[o].status = "QUARANTINED"
  <2>1. Resolve(c)
    BY <1>3 DEF ClientStep, ReadQuarantined
  <2>2. QED BY <2>1 DEF Resolve, IInv, TypeOK
<1>4. CASE Tick \/ UNCHANGED vars
  BY <1>4 DEF Tick, vars
<1>5. QED BY <1>1, <1>2, <1>3, <1>4 DEF Next

(* No step changes an occurrence that succeeded or was dismissed, and only *)
(* quarantined ones are dismissed, however long ago the request read the   *)
(* row (resolve_quarantined_occurrence).                                   *)
THEOREM FinishedStays == Spec => FinishedIsFinal
<1>1. ASSUME IInv, [Next]_vars, NEW o \in Occurrences
      PROVE  /\ occ[o].status \in Finished => occ'[o] = occ[o]
             /\ occ'[o].status = "CANCELLED" /\ occ[o] # occ'[o] => occ[o].status = "QUARANTINED"
  BY <1>1, OccurrenceStep DEF Finished
<1>2. IInv /\ [Next]_vars =>
        \A o \in Occurrences :
           /\ occ[o].status \in Finished => occ'[o] = occ[o]
           /\ occ'[o].status = "CANCELLED" /\ occ[o] # occ'[o] => occ[o].status = "QUARANTINED"
  BY <1>1
<1>3. QED BY Invariance, <1>2, PTL DEF Spec, FinishedIsFinal

-----------------------------------------------------------------------------
(* Refinement.  TaskScheduler implements OccurrenceLedger: each step of a  *)
(* scheduler, worker, request or the clock is a step of the ledger, or     *)
(* changes nothing in it.  The argument rests on the inductive invariant   *)
(* and on what it does not say: nobody has retried what is not there yet.  *)

AbsentIsUntouched == \A o \in Occurrences : occ[o].status = "ABSENT" => retries[o] = 0

RInv == IInv /\ AbsentIsUntouched

-----------------------------------------------------------------------------
(* The entries as sequences.                                               *)

(* What exists are the slots before the next due time, as entries.         *)
LEMMA EntryIsEntry ==
    ASSUME IInv, NEW d \in Definitions, NEW k \in 1..(nextDue[d] - 1)
    PROVE  /\ <<d, k>> \in Occurrences /\ k \in Slots /\ k <= now
           /\ occ[<<d, k>>].status # "ABSENT"
           /\ LedgerEntry(<<d, k>>) \in Ledger!Entry
<1>1. nextDue[d] \in 1..(MaxSlots + 1) /\ nextDue[d] <= now + 1 /\ now \in 0..MaxSlots
  BY DEF IInv, TypeOK, DueFollowsClock
<1>2. k \in Slots /\ k <= now /\ k < nextDue[d]
  BY <1>1, BoundsAssumption DEF Slots
<1>3. <<d, k>> \in Occurrences
  BY <1>2 DEF Occurrences
<1>4. occ[<<d, k>>].status # "ABSENT"
  BY <1>2 DEF IInv, NoSlotLostOrEarly
<1>5. occ[<<d, k>>] \in Row /\ retries[<<d, k>>] \in Nat
  BY <1>3 DEF IInv, TypeOK
<1>6. occ[<<d, k>>].attempts \in Nat
      /\ occ[<<d, k>>].attempts <= MaxAttempts + retries[<<d, k>>]
  BY <1>3, <1>5 DEF IInv, AttemptBudget, Row
<1>7. MaxAttempts + retries[<<d, k>>] - occ[<<d, k>>].attempts \in Nat
  BY <1>5, <1>6, PolicyAssumption
<1>8. LedgerEntry(<<d, k>>) \in Ledger!Entry
  <2>1. occ[<<d, k>>].status \in Statuses
    BY <1>5 DEF Row
  <2>2. QED BY <1>4, <1>7, <2>1
            DEF LedgerEntry, Ledger!Entry, Ledger!Closed, Statuses, Settled, Finished
<1>9. QED BY <1>2, <1>3, <1>4, <1>8

LEMMA EntriesAreSequences ==
    ASSUME IInv, NEW d \in Definitions
    PROVE  /\ nextDue[d] - 1 \in Nat
           /\ Entries[d] \in Seq(Ledger!Entry) /\ Len(Entries[d]) = nextDue[d] - 1
           /\ \A k \in 1..(nextDue[d] - 1) : Entries[d][k] = LedgerEntry(<<d, k>>)
<1>1. nextDue[d] - 1 \in Nat
  BY BoundsAssumption DEF IInv, TypeOK
<1>2. Entries[d] = [k \in 1..(nextDue[d] - 1) |-> LedgerEntry(<<d, k>>)]
  BY DEF Entries
<1>3. Entries[d] \in [1..(nextDue[d] - 1) -> Ledger!Entry]
  BY <1>2, EntryIsEntry
<1>4. Entries[d] \in Seq(Ledger!Entry)
  BY <1>1, <1>3, IsASeq
<1>5. QED BY <1>1, <1>2, <1>3, <1>4, LenProperties

(* An occurrence that exists is a numbered entry.                          *)
LEMMA ExistingIsNumbered ==
    ASSUME IInv, NEW o \in Occurrences, occ[o].status # "ABSENT"
    PROVE  /\ o \in Ledger!Numbered /\ o = <<o[1], o[2]>> /\ o[1] \in Definitions
           /\ o[2] \in 1..(nextDue[o[1]] - 1)
           /\ Ledger!At(o) = LedgerEntry(o)
<1>1. o[1] \in Definitions /\ o[2] \in Slots /\ o = <<o[1], o[2]>>
  BY DEF Occurrences
<1>2. o[2] < nextDue[o[1]] /\ o[2] <= now
  BY <1>1 DEF IInv, NoSlotLostOrEarly
<1>3. o[2] \in 1..(nextDue[o[1]] - 1) /\ o[2] \in 1..now
  BY <1>1, <1>2, BoundsAssumption DEF Slots, IInv, TypeOK
<1>4. Len(Entries[o[1]]) = nextDue[o[1]] - 1 /\ Entries[o[1]][o[2]] = LedgerEntry(o)
  BY <1>1, <1>3, EntriesAreSequences
<1>5. nextDue[o[1]] \in Int
  BY <1>1 DEF IInv, TypeOK
<1>6. o \in Ledger!Numbered
  BY <1>1, <1>3, <1>4, <1>5 DEF Ledger!Numbered
<1>7. QED BY <1>1, <1>3, <1>4, <1>6 DEF Ledger!At

(* A row that is written is one entry that is.                             *)
LEMMA RowIsEntry ==
    ASSUME IInv, NEW o \in Occurrences, occ[o].status # "ABSENT", nextDue' = nextDue,
           \A p \in Occurrences \ {o} : occ'[p] = occ[p] /\ retries'[p] = retries[p],
           NEW e, LedgerEntry(o)' = e
    PROVE  Entries' = [Entries EXCEPT ![o[1]][o[2]] = e]
<1>1. o = <<o[1], o[2]>> /\ o[1] \in Definitions /\ o[2] \in 1..(nextDue[o[1]] - 1)
  BY ExistingIsNumbered
<1>2. \A d \in Definitions : \A k \in 1..(nextDue[d] - 1) : <<d, k>> \in Occurrences
  BY EntryIsEntry
<1>3. ASSUME NEW d \in Definitions, NEW k \in 1..(nextDue[d] - 1)
      PROVE  LedgerEntry(<<d, k>>)' = IF d = o[1] /\ k = o[2] THEN e ELSE LedgerEntry(<<d, k>>)
  <2>1. CASE <<d, k>> = o
    <3>1. LedgerEntry(<<d, k>>)' = LedgerEntry(o)'
      BY <2>1 DEF LedgerEntry
    <3>2. QED BY <2>1, <3>1
  <2>2. CASE <<d, k>> # o
    <3>1. occ'[<<d, k>>] = occ[<<d, k>>] /\ retries'[<<d, k>>] = retries[<<d, k>>]
      BY <1>2, <2>2
    <3>2. ~(d = o[1] /\ k = o[2])
      BY <1>1, <2>2
    <3>3. QED BY <3>1, <3>2 DEF LedgerEntry
  <2>3. QED BY <2>1, <2>2
<1>4. Entries' = [d \in Definitions |-> [k \in 1..(nextDue[d] - 1) |->
                    IF d = o[1] /\ k = o[2] THEN e ELSE LedgerEntry(<<d, k>>)]]
  BY <1>3 DEF Entries
<1> DEFINE old == [k \in 1..(nextDue[o[1]] - 1) |-> LedgerEntry(<<o[1], k>>)]
           new == [k \in 1..(nextDue[o[1]] - 1) |->
                     IF k = o[2] THEN e ELSE LedgerEntry(<<o[1], k>>)]
<1>5. new = [old EXCEPT ![o[2]] = e]
  BY <1>1
<1>6. Entries[o[1]] = old /\ Entries = [d \in Definitions |-> Entries[d]]
  BY <1>1 DEF Entries
<1>7. ASSUME NEW d \in Definitions PROVE Entries'[d] = IF d = o[1] THEN new ELSE Entries[d]
  <2>1. Entries'[d] = [k \in 1..(nextDue[d] - 1) |->
                         IF d = o[1] /\ k = o[2] THEN e ELSE LedgerEntry(<<d, k>>)]
    BY <1>4
  <2>2. CASE d = o[1]
    BY <2>1, <2>2
  <2>3. CASE d # o[1]
    <3>1. Entries[d] = [k \in 1..(nextDue[d] - 1) |-> LedgerEntry(<<d, k>>)]
      BY DEF Entries
    <3>2. QED BY <2>1, <2>3, <3>1
  <2>4. QED BY <2>2, <2>3
<1>8. Entries' = [d \in Definitions |-> Entries'[d]]
  BY <1>4
<1> HIDE DEF old, new
<1>9. [Entries EXCEPT ![o[1]][o[2]] = e] = [Entries EXCEPT ![o[1]] = new]
  BY <1>5, <1>6
<1>10. [Entries EXCEPT ![o[1]] = new] = [d \in Definitions |-> IF d = o[1] THEN new ELSE Entries[d]]
  BY <1>1, <1>6
<1>11. QED BY <1>7, <1>8, <1>9, <1>10

(* What does not touch the rows of what exists, or the due times, leaves   *)
(* the entries.                                                            *)
LEMMA SameEntries ==
    ASSUME UNCHANGED <<occ, retries, nextDue>> PROVE Entries' = Entries
BY DEF Entries, LedgerEntry

-----------------------------------------------------------------------------
(* The holders.                                                            *)

LEMMA SameHolders ==
    ASSUME \A w \in Workers : /\ (pc'[w] = "running") <=> (pc[w] = "running")
                              /\ pc[w] = "running" => target'[w] = target[w]
    PROVE  Holders' = Holders
BY DEF Holders

(* A request is not a worker: what it does is not in the holders.          *)
LEMMA ClientHoldsNothing ==
    ASSUME IInv, NEW c \in Clients, NEW state \in {"idle", "retry", "dismiss"}, NEW o,
           pc' = [pc EXCEPT ![c] = state], target' = [target EXCEPT ![c] = o]
    PROVE  Holders' = Holders
<1>1. \A w \in Workers : pc'[w] = pc[w] /\ target'[w] = target[w]
  BY ActorsAssumption DEF IInv, TypeOK, Actors
<1>2. QED BY <1>1, SameHolders

LEMMA HoldersAre ==
    ASSUME NEW w \in Workers, NEW o
    PROVE  (<<w, o>> \in Holders) <=> (pc[w] = "running" /\ target[w] = o)
BY DEF Holders

(* A worker that takes an occurrence is a holder of it, one that leaves it *)
(* no longer is.                                                           *)
LEMMA TakeHolds ==
    ASSUME IInv, NEW w \in Workers, NEW o \in Occurrences, pc[w] = "idle", Take(w, o)
    PROVE  Holders' = Holders \union {<<w, o>>}
<1>1. \A v \in Workers : /\ pc'[v] = IF v = w THEN "running" ELSE pc[v]
                         /\ target'[v] = IF v = w THEN o ELSE target[v]
  BY DEF Take, IInv, TypeOK, Actors
<1>2. Holders' = {<<v, target'[v]>> : v \in {u \in Workers : pc'[u] = "running"}}
  BY DEF Holders
<1>3. QED BY <1>1, <1>2 DEF Holders

LEMMA LeaveDrops ==
    ASSUME IInv, NEW w \in Workers, pc[w] = "running", Leave(w)
    PROVE  <<w, target[w]>> \in Holders /\ Holders' = Holders \ {<<w, target[w]>>}
<1>1. \A v \in Workers : /\ pc'[v] = IF v = w THEN "idle" ELSE pc[v]
                         /\ v # w => target'[v] = target[v]
  BY DEF Leave, IInv, TypeOK, Actors
<1>2. Holders' = {<<v, target'[v]>> : v \in {u \in Workers : pc'[u] = "running"}}
  BY DEF Holders
<1>3. QED BY <1>1, <1>2 DEF Holders

-----------------------------------------------------------------------------
(* The steps, one by one.                                                  *)

LEMMA Stutter == ASSUME now' = now, Entries' = Entries, Holders' = Holders
                 PROVE  UNCHANGED Ledger!vars
BY DEF Ledger!vars

LEMMA SchedulerWaits ==
    ASSUME IInv, NEW s \in Schedulers, Scan(s) \/ KillScheduler(s)
    PROVE  UNCHANGED Ledger!vars
<1>1. UNCHANGED <<now, occ, retries, nextDue, pc, target>>
  BY DEF Scan, KillScheduler
<1>2. QED BY <1>1, SameEntries, SameHolders, Stutter

(* The commit of a pass opens the next entry of what the scheduler holds.  *)
LEMMA MaterializeOpens ==
    ASSUME RInv, NEW s \in Schedulers, Materialize(s)
    PROVE  \E ds \in SUBSET Definitions : Ledger!Open(ds)
<1> DEFINE ds == {o[1] : o \in held[s]}
<1>1. IInv
  BY DEF RInv
<1>2. ds \in SUBSET Definitions
  BY <1>1, HeldIsAbsent
<1>3. ASSUME NEW d \in ds
      PROVE  <<d, nextDue[d]>> \in held[s] /\ nextDue[d] <= now
             /\ <<d, nextDue[d]>> \in Occurrences /\ occ[<<d, nextDue[d]>>].status = "ABSENT"
  <2>1. PICK o \in held[s] : o[1] = d
    OBVIOUS
  <2>2. o = <<o[1], o[2]>> /\ o[2] = nextDue[o[1]]
    BY <1>1, HeldIsAbsent
  <2>3. o = <<d, nextDue[d]>>
    BY <2>1, <2>2
  <2>4. o \in held[s] /\ o \in Occurrences /\ o[2] <= now /\ occ[o].status = "ABSENT"
    BY <1>1, HeldIsAbsent
  <2>5. QED BY <2>2, <2>3, <2>4
<1>4. /\ occ' = [o \in Occurrences |-> IF o \in held[s] THEN NewRow ELSE occ[o]]
      /\ nextDue' = [d \in Definitions |-> IF d \in ds THEN nextDue[d] + 1 ELSE nextDue[d]]
  <2>1. {o \in held[s] : occ[o].status = "ABSENT"} = held[s]
    BY <1>1, HeldIsAbsent
  <2>2. QED BY <2>1 DEF Materialize, next_due
<1> HIDE DEF ds
<1>5. ASSUME NEW d \in Definitions, NEW k \in 1..(nextDue[d] - 1)
      PROVE  LedgerEntry(<<d, k>>)' = LedgerEntry(<<d, k>>)
  <2>1. <<d, k>> \in Occurrences /\ occ[<<d, k>>].status # "ABSENT"
    BY <1>1, EntryIsEntry
  <2>2. <<d, k>> \notin held[s]
    BY <1>1, <2>1, HeldIsAbsent
  <2>3. occ'[<<d, k>>] = occ[<<d, k>>] /\ retries' = retries
    BY <1>4, <2>1, <2>2 DEF Materialize
  <2>4. QED BY <2>3 DEF LedgerEntry
<1>6. ASSUME NEW d \in ds, NEW k, k = nextDue[d] PROVE LedgerEntry(<<d, k>>)' = Ledger!NewEntry
  <2>1. <<d, k>> \in held[s] /\ <<d, k>> \in Occurrences /\ occ[<<d, k>>].status = "ABSENT"
    BY <1>3, <1>6
  <2>2. occ'[<<d, k>>] = NewRow /\ retries'[<<d, k>>] = 0
    BY <1>4, <2>1 DEF Materialize, RInv, AbsentIsUntouched
  <2>3. QED BY <2>2, PolicyAssumption DEF LedgerEntry, Ledger!NewEntry, NewRow
<1>7. ASSUME NEW d \in Definitions, d \in ds
      PROVE  Entries'[d] = Append(Entries[d], Ledger!NewEntry)
  <2> DEFINE n == nextDue[d] - 1
             f == [k \in 1..(n + 1) |-> IF k = n + 1 THEN Ledger!NewEntry ELSE Entries[d][k]]
  <2>1. /\ n \in Nat /\ Entries[d] \in Seq(Ledger!Entry) /\ Len(Entries[d]) = n
        /\ \A k \in 1..n : Entries[d][k] = LedgerEntry(<<d, k>>)
    BY <1>1, EntriesAreSequences
  <2>2. nextDue'[d] - 1 = n + 1 /\ nextDue[d] = n + 1
    BY <1>1, <1>4, <1>7 DEF IInv, TypeOK
  <2>3. Entries'[d] = [k \in 1..(n + 1) |-> LedgerEntry(<<d, k>>)']
    BY <2>2 DEF Entries
  <2>4. \A k \in 1..(n + 1) :
          LedgerEntry(<<d, k>>)' = IF k = n + 1 THEN Ledger!NewEntry ELSE Entries[d][k]
    BY <1>5, <1>6, <1>7, <2>1, <2>2
  <2>5. Entries'[d] = f
    BY <2>3, <2>4
  <2>6. Ledger!NewEntry \in Ledger!Entry
    BY PolicyAssumption DEF Ledger!NewEntry, Ledger!Entry
  <2>7. \A k \in 1..n : Entries[d][k] \in Ledger!Entry
    BY <2>1, ElementOfSeq
  <2>8. f \in [1..(n + 1) -> Ledger!Entry]
    BY <2>1, <2>6, <2>7
  <2>9. f \in Seq(Ledger!Entry) /\ Len(f) = n + 1
    <3> HIDE DEF f
    <3>1. n + 1 \in Nat
      BY <2>1
    <3>2. f \in Seq(Ledger!Entry)
      BY <2>8, <3>1, IsASeq
    <3>3. DOMAIN f = 1..Len(f) /\ Len(f) \in Nat
      BY <3>2, LenProperties
    <3>4. DOMAIN f = 1..(n + 1)
      BY <2>8
    <3>5. QED BY <3>1, <3>2, <3>3, <3>4
  <2> DEFINE g == Append(Entries[d], Ledger!NewEntry)
  <2>10. /\ g \in Seq(Ledger!Entry) /\ Len(g) = n + 1 /\ g[n + 1] = Ledger!NewEntry
         /\ \A k \in 1..n : g[k] = Entries[d][k]
    BY <2>1, <2>6, AppendProperties
  <2>11. \A k \in 1..(n + 1) : f[k] = g[k]
    BY <2>1, <2>10
  <2> HIDE DEF f, g
  <2>12. f = g
    BY <2>9, <2>10, <2>11, SeqEqual
  <2>13. QED BY <2>5, <2>12 DEF g
<1>8. ASSUME NEW d \in Definitions, d \notin ds PROVE Entries'[d] = Entries[d]
  <2>1. nextDue'[d] = nextDue[d]
    BY <1>4, <1>8
  <2>2. QED BY <1>5, <2>1 DEF Entries
<1>9. Entries' = [d \in Definitions |->
                    IF d \in ds THEN Append(Entries[d], Ledger!NewEntry) ELSE Entries[d]]
  <2>1. Entries' = [d \in Definitions |-> Entries'[d]]
    BY DEF Entries
  <2>2. QED BY <1>7, <1>8, <2>1
<1>10. \A d \in ds : Len(Entries[d]) < now
  <2>1. ASSUME NEW d \in ds PROVE Len(Entries[d]) < now
    <3>1. d \in Definitions /\ nextDue[d] <= now
      BY <1>2, <1>3
    <3>2. Len(Entries[d]) = nextDue[d] - 1 /\ nextDue[d] - 1 \in Nat
      BY <1>1, <3>1, EntriesAreSequences
    <3>3. now \in Nat /\ nextDue[d] \in Int
      BY <1>1, <3>1, BoundsAssumption DEF IInv, TypeOK
    <3>4. QED BY <3>1, <3>2, <3>3
  <2>2. QED BY <2>1
<1>11. now' = now /\ Holders' = Holders
  BY SameHolders DEF Materialize
<1>12. Ledger!Open(ds)
  BY <1>9, <1>10, <1>11 DEF Ledger!Open
<1>13. QED BY <1>2, <1>12

LEMMA ClaimTakes ==
    ASSUME IInv, NEW w \in Workers, Claim(w)
    PROVE  \E o \in Ledger!Numbered : Ledger!Take(w, o)
<1>1. PICK o \in Occurrences : Runnable(o) /\ ~OccurrenceLocked(o) /\ Take(w, o)
  BY DEF Claim
<1>2. pc[w] = "idle" /\ UNCHANGED <<now, occ, retries, nextDue>>
  BY DEF Claim
<1>3. occ[o].status \in {"QUEUED", "RETRY_WAIT"}
  BY <1>1 DEF Runnable
<1>4. o \in Ledger!Numbered /\ Ledger!At(o) = LedgerEntry(o)
  BY <1>3, ExistingIsNumbered
<1>5. Ledger!At(o).status = "OPEN"
  BY <1>3, <1>4 DEF LedgerEntry
<1>6. ~Ledger!Held(o)
  BY <1>1, HoldersAre DEF Ledger!Held, OccurrenceLocked
<1>7. \A p \in Ledger!Numbered : <<w, p>> \notin Holders
  BY <1>2, HoldersAre
<1>8. Holders' = Holders \union {<<w, o>>} /\ Entries' = Entries
  BY <1>1, <1>2, TakeHolds, SameEntries
<1>9. QED BY <1>2, <1>4, <1>5, <1>6, <1>7, <1>8 DEF Ledger!Take

(* A worker that commits an outcome finishes the entry it holds.           *)
LEMMA OutcomeFinishes ==
    ASSUME IInv, NEW w \in Workers, pc[w] = "running", Leave(w),
           NEW row \in Row, occ' = [occ EXCEPT ![target[w]] = row],
           row.attempts = occ[target[w]].attempts + 1,
           row.status \in {"SUCCEEDED", "QUARANTINED", "RETRY_WAIT"},
           row.status = "RETRY_WAIT" => row.attempts < MaxAttempts,
           UNCHANGED <<now, nextDue, retries>>
    PROVE  \E o \in Ledger!Numbered, status \in {"OPEN", "SUCCEEDED", "QUARANTINED"} :
              Ledger!Finish(w, o, status)
<1> DEFINE o == target[w]
           status == IF row.status = "RETRY_WAIT" THEN "OPEN" ELSE row.status
           left == MaxAttempts + retries[o] - occ[o].attempts
           e == [status |-> status, left |-> left - 1]
<1>1. /\ o \in Occurrences /\ occ[o].attempts \in Nat /\ retries[o] \in Nat
      /\ occ[o].status \in {"QUEUED", "RETRY_WAIT"}
      /\ occ[o].attempts + 1 <= MaxAttempts + retries[o]
  BY RunningRow
<1>2. /\ o \in Ledger!Numbered /\ Ledger!At(o) = LedgerEntry(o)
      /\ o[1] \in Definitions /\ o[2] \in 1..(nextDue[o[1]] - 1)
  BY <1>1, ExistingIsNumbered
<1>3. LedgerEntry(o) = [status |-> "OPEN", left |-> left]
  BY <1>1 DEF LedgerEntry
<1>4. left \in Nat /\ left > 0 /\ (status = "OPEN" => left > 1)
  BY <1>1, PolicyAssumption
<1>5. occ'[o] = row /\ \A p \in Occurrences \ {o} : occ'[p] = occ[p]
  BY <1>1 DEF IInv, TypeOK
<1>6. MaxAttempts + retries[o] - row.attempts = left - 1
  BY <1>1, PolicyAssumption
<1>7. \A p : p = o => LedgerEntry(p)' = e
  BY <1>5, <1>6 DEF LedgerEntry
<1> HIDE DEF e
<1>8. PICK p \in Occurrences : p = o
  BY <1>1
<1>9. Entries' = [Entries EXCEPT ![p[1]][p[2]] = e]
  BY <1>1, <1>5, <1>7, <1>8, RowIsEntry
<1>10. <<w, o>> \in Holders /\ Holders' = Holders \ {<<w, o>>}
  BY LeaveDrops
<1>11. e = [status |-> status, left |-> Ledger!At(o).left - 1]
  BY <1>2, <1>3 DEF e
<1>12. Ledger!At(o) = Entries[o[1]][o[2]]
  BY DEF Ledger!At
<1>13. Ledger!Finish(w, o, status)
  BY <1>2, <1>3, <1>4, <1>8, <1>9, <1>10, <1>11, <1>12 DEF Ledger!Finish
<1>14. status \in {"OPEN", "SUCCEEDED", "QUARANTINED"}
  OBVIOUS
<1>15. QED BY <1>2, <1>13, <1>14

LEMMA CompleteFinishes ==
    ASSUME IInv, NEW w \in Workers, CompleteOccurrence(w)
    PROVE  \E o \in Ledger!Numbered, status \in {"OPEN", "SUCCEEDED", "QUARANTINED"} :
              Ledger!Finish(w, o, status)
<1>1. target[w] \in Occurrences /\ occ[target[w]].attempts \in Nat
  BY RunningRow DEF CompleteOccurrence
<1>2. PICK row : row = [status |-> "SUCCEEDED", attempts |-> occ[target[w]].attempts + 1]
  OBVIOUS
<1>3. row \in Row /\ row.status = "SUCCEEDED" /\ row.attempts = occ[target[w]].attempts + 1
  BY <1>1, <1>2 DEF Row, Statuses, Settled, Finished
<1>4. occ' = [occ EXCEPT ![target[w]] = row]
  BY <1>1, <1>2 DEF CompleteOccurrence, IInv, TypeOK
<1>5. pc[w] = "running" /\ Leave(w) /\ UNCHANGED <<now, nextDue, retries>>
  BY DEF CompleteOccurrence
<1>6. QED BY <1>3, <1>4, <1>5, OutcomeFinishes

LEMMA FailFinishes ==
    ASSUME IInv, NEW w \in Workers, FailOccurrence(w)
    PROVE  \E o \in Ledger!Numbered, status \in {"OPEN", "SUCCEEDED", "QUARANTINED"} :
              Ledger!Finish(w, o, status)
<1>1. target[w] \in Occurrences /\ occ[target[w]].attempts + 1 \in Nat
  BY RunningRow DEF FailOccurrence
<1>2. PICK failure \in Failures(occ[target[w]].attempts + 1) :
        occ' = [occ EXCEPT ![target[w]] = failure.row]
  BY DEF FailOccurrence
<1>3. /\ failure.row \in Row /\ failure.row.attempts = occ[target[w]].attempts + 1
      /\ failure.row.status \in {"QUARANTINED", "RETRY_WAIT"}
      /\ failure.row.status = "RETRY_WAIT" => occ[target[w]].attempts + 1 < MaxAttempts
  BY <1>1, FailureOutcome
<1>4. PICK row \in Row : row = failure.row
  BY <1>3
<1>5. pc[w] = "running" /\ Leave(w) /\ UNCHANGED <<now, nextDue, retries>>
  BY DEF FailOccurrence
<1>6. QED BY <1>2, <1>3, <1>4, <1>5, OutcomeFinishes

LEMMA AbandonDrops ==
    ASSUME IInv, NEW w \in Workers, Abandon(w)
    PROVE  \E o \in Ledger!Numbered : Ledger!Drop(w, o)
<1>1. target[w] \in Occurrences /\ occ[target[w]].status # "ABSENT"
  BY RunningRow DEF Abandon
<1>2. target[w] \in Ledger!Numbered
  BY <1>1, ExistingIsNumbered
<1>3. <<w, target[w]>> \in Holders /\ Holders' = Holders \ {<<w, target[w]>>}
  BY LeaveDrops DEF Abandon
<1>4. Entries' = Entries /\ now' = now
  BY SameEntries DEF Abandon
<1>5. QED BY <1>2, <1>3, <1>4 DEF Ledger!Drop

LEMMA ReadingWaits ==
    ASSUME IInv, NEW c \in Clients, NEW o \in Occurrences, NEW action \in {"retry", "dismiss"},
           ReadQuarantined(c, o, action)
    PROVE  UNCHANGED Ledger!vars
<1>1. Holders' = Holders
  BY ClientHoldsNothing DEF ReadQuarantined
<1>2. QED BY <1>1, SameEntries, Stutter DEF ReadQuarantined

(* A resolution reopens or closes a quarantined entry, or comes too late.  *)
LEMMA ResolveResolves ==
    ASSUME IInv, NEW c \in Clients, Resolve(c)
    PROVE  \/ UNCHANGED Ledger!vars
           \/ \E o \in Ledger!Numbered : Ledger!Regrant(o) \/ Ledger!Dismiss(o)
<1> DEFINE o == target[c]
           row == Resolution(o, pc[c])
<1>1. c \in Actors /\ o \in Occurrences /\ Leave(c) /\ UNCHANGED <<now, nextDue>>
  BY DEF Resolve, IInv, TypeOK, Actors
<1>2. Holders' = Holders
  BY <1>1, ClientHoldsNothing DEF Leave
<1>3. CASE UNCHANGED <<occ, wait, retries>>
  BY <1>1, <1>2, <1>3, SameEntries, Stutter
<1>4. CASE /\ occ[o].status = "QUARANTINED"
           /\ occ' = [occ EXCEPT ![o] = row]
           /\ retries' = [retries EXCEPT ![o] = IF pc[c] = "retry" THEN @ + 1 ELSE @]
  <2> DEFINE left == MaxAttempts + retries[o] - occ[o].attempts
             e == IF pc[c] = "retry" THEN [status |-> "OPEN", left |-> left + 1]
                                     ELSE [status |-> "CANCELLED", left |-> left]
  <2>1. occ[o].attempts \in Nat /\ retries[o] \in Nat
    BY <1>1 DEF IInv, TypeOK, Row
  <2>2. /\ o \in Ledger!Numbered /\ Ledger!At(o) = LedgerEntry(o)
        /\ o[1] \in Definitions /\ o[2] \in 1..(nextDue[o[1]] - 1)
    BY <1>1, <1>4, ExistingIsNumbered
  <2>3. LedgerEntry(o) = [status |-> "QUARANTINED", left |-> left]
    BY <1>4 DEF LedgerEntry
  <2>4. /\ occ'[o] = row /\ retries'[o] = IF pc[c] = "retry" THEN retries[o] + 1 ELSE retries[o]
        /\ \A p \in Occurrences \ {o} : occ'[p] = occ[p] /\ retries'[p] = retries[p]
    BY <1>1, <1>4 DEF IInv, TypeOK
  <2>5. MaxAttempts + (retries[o] + 1) - occ[o].attempts = left + 1
    BY <2>1, PolicyAssumption
  <2>6. \A p : p = o => LedgerEntry(p)' = e
    BY <2>4, <2>5 DEF LedgerEntry, Resolution
  <2> HIDE DEF e
  <2>7. PICK p \in Occurrences : p = o
    BY <1>1
  <2>8. Entries' = [Entries EXCEPT ![p[1]][p[2]] = e]
    BY <1>1, <1>4, <2>4, <2>6, <2>7, RowIsEntry
  <2>9. Ledger!At(o) = Entries[o[1]][o[2]]
    BY DEF Ledger!At
  <2>10. CASE pc[c] = "retry"
    <3>1. e = [status |-> "OPEN", left |-> Ledger!At(o).left + 1]
      BY <2>2, <2>3, <2>10 DEF e
    <3>2. Ledger!Regrant(o)
      BY <1>1, <1>2, <2>2, <2>3, <2>7, <2>8, <2>9, <3>1 DEF Ledger!Regrant
    <3>3. QED BY <2>2, <3>2
  <2>11. CASE pc[c] # "retry"
    <3>1. e = [Ledger!At(o) EXCEPT !.status = "CANCELLED"]
      BY <2>2, <2>3, <2>11 DEF e
    <3>2. Ledger!Dismiss(o)
      BY <1>1, <1>2, <2>2, <2>3, <2>7, <2>8, <2>9, <3>1 DEF Ledger!Dismiss
    <3>3. QED BY <2>2, <3>2
  <2>12. QED BY <2>10, <2>11
<1>5. QED BY <1>3, <1>4 DEF Resolve

LEMMA TimeAdvances ==
    ASSUME IInv, Tick \/ UNCHANGED vars PROVE Ledger!Advance \/ UNCHANGED Ledger!vars
<1>1. UNCHANGED <<occ, retries, nextDue, pc, target>> /\ (now' = now + 1 \/ now' = now)
  BY DEF Tick, vars
<1>2. Entries' = Entries /\ Holders' = Holders
  BY <1>1, SameEntries, SameHolders
<1>3. QED BY <1>1, <1>2, Stutter DEF Ledger!Advance

LEMMA StepSimulates == RInv /\ [Next]_vars => [Ledger!Next]_(Ledger!vars)
<1> SUFFICES ASSUME RInv, [Next]_vars PROVE Ledger!Next \/ UNCHANGED Ledger!vars
  OBVIOUS
<1>1. IInv
  BY DEF RInv
<1>2. ASSUME NEW s \in Schedulers, SchedulerStep(s) \/ KillScheduler(s)
      PROVE  Ledger!Next \/ UNCHANGED Ledger!vars
  BY <1>1, <1>2, SchedulerWaits, MaterializeOpens DEF SchedulerStep, Ledger!Next
<1>3. ASSUME NEW w \in Workers, WorkerStep(w) \/ Abandon(w) PROVE Ledger!Next
  <2>1. CASE Claim(w)
    BY <1>1, <2>1, ClaimTakes DEF Ledger!Next
  <2>2. CASE CompleteOccurrence(w)
    BY <1>1, <2>2, CompleteFinishes DEF Ledger!Next
  <2>3. CASE FailOccurrence(w)
    BY <1>1, <2>3, FailFinishes DEF Ledger!Next
  <2>4. CASE Abandon(w)
    BY <1>1, <2>4, AbandonDrops DEF Ledger!Next
  <2>5. QED BY <1>3, <2>1, <2>2, <2>3, <2>4 DEF WorkerStep
<1>4. ASSUME NEW c \in Clients, ClientStep(c) PROVE Ledger!Next \/ UNCHANGED Ledger!vars
  BY <1>1, <1>4, ReadingWaits, ResolveResolves DEF ClientStep, Ledger!Next
<1>5. CASE Tick \/ UNCHANGED vars
  BY <1>1, <1>5, TimeAdvances DEF Ledger!Next
<1>6. QED BY <1>2, <1>3, <1>4, <1>5 DEF Next

-----------------------------------------------------------------------------
(* The initial states, and what is untouched.                              *)

LEMMA InitSimulates == Init => Ledger!Init
<1> SUFFICES ASSUME Init PROVE Ledger!Init
  OBVIOUS
<1>1. Holders = {}
  BY DEF Init, Holders, Actors
<1>2. ASSUME NEW d \in Definitions PROVE Entries[d] = <<>>
  <2>1. Entries[d] = [k \in 1..(nextDue[d] - 1) |-> LedgerEntry(<<d, k>>)] /\ nextDue[d] = 1
    BY DEF Init, Entries
  <2>2. Entries[d] \in [1..0 -> Ledger!Entry]
    BY <2>1
  <2>3. Entries[d] \in Seq(Ledger!Entry) /\ Len(Entries[d]) = 0
    BY <2>2, IsASeq, LenProperties
  <2>4. QED BY <2>3, EmptySeq
<1>3. Entries = [d \in Definitions |-> <<>>]
  BY <1>2 DEF Entries
<1>4. QED BY <1>1, <1>3 DEF Init, Ledger!Init

LEMMA UntouchedKeeps == RInv /\ [Next]_vars => AbsentIsUntouched'
<1> SUFFICES ASSUME RInv, [Next]_vars, NEW o \in Occurrences, occ'[o].status = "ABSENT"
             PROVE  retries'[o] = 0
  BY DEF AbsentIsUntouched
<1>1. IInv /\ (occ[o].status = "ABSENT" => retries[o] = 0)
  BY DEF RInv, AbsentIsUntouched
<1>2. IInv'
  BY <1>1, StepKeeps
<1>3. occ[o].status = "ABSENT"
  <2>1. \A d \in Definitions : nextDue[d] <= nextDue'[d] /\ nextDue[d] \in Int /\ nextDue'[d] \in Int
    <3>1. nextDue \in [Definitions -> Int] /\ nextDue' \in [Definitions -> Int]
      BY <1>1, <1>2 DEF IInv, TypeOK
    <3>2. CASE UNCHANGED nextDue
      BY <3>1, <3>2
    <3>3. ASSUME NEW s \in Schedulers, Materialize(s) PROVE \A d \in Definitions : nextDue[d] <= nextDue'[d]
      BY <3>1, <3>3 DEF Materialize, next_due
    <3>4. QED BY <3>1, <3>2, <3>3
              DEF Next, vars, SchedulerStep, Scan, KillScheduler,
                  WorkerStep, Claim, CompleteOccurrence, FailOccurrence, Abandon,
                  ClientStep, ReadQuarantined, Resolve, Tick
  <2>2. now <= now' /\ now \in Int /\ now' \in Int
    <3>1. now \in Int /\ now' \in Int
      BY <1>1, <1>2 DEF IInv, TypeOK
    <3>2. now' = now \/ now' = now + 1
      BY DEF Next, vars, SchedulerStep, Scan, Materialize, KillScheduler,
             WorkerStep, Claim, CompleteOccurrence, FailOccurrence, Abandon,
             ClientStep, ReadQuarantined, Resolve, Tick
    <3>3. QED BY <3>1, <3>2
  <2>3. PICK d \in Definitions, k \in Slots : o = <<d, k>>
    BY DEF Occurrences
  <2>4. ~(k < nextDue'[d] /\ k <= now')
    BY <1>2, <2>3 DEF IInv, NoSlotLostOrEarly
  <2>5. ~(k < nextDue[d] /\ k <= now)
    BY <2>1, <2>2, <2>4 DEF Slots
  <2>6. QED BY <1>1, <2>3, <2>5 DEF IInv, NoSlotLostOrEarly
<1>4. retries'[o] = retries[o]
  <2>1. CASE UNCHANGED retries
    BY <2>1
  <2>2. ASSUME NEW c \in Clients, Resolve(c) PROVE retries'[o] = retries[o]
    BY <1>1, <1>3, <2>2 DEF Resolve, IInv, TypeOK, Actors
  <2>3. QED BY <2>1, <2>2
            DEF Next, vars, SchedulerStep, Scan, Materialize, KillScheduler,
                WorkerStep, Claim, CompleteOccurrence, FailOccurrence, Abandon,
                ClientStep, ReadQuarantined, Tick
<1>5. QED BY <1>1, <1>3, <1>4

(* TaskScheduler implements OccurrenceLedger, for any definitions,         *)
(* schedulers, workers, requests, crashes and retries: what the tables     *)
(* show of the occurrences (claim_due_occurrences, claim_next_occurrence,  *)
(* complete_occurrence, fail_occurrence, resolve_quarantined_occurrence)   *)
(* is an orderly ledger.                                                   *)
THEOREM SchedulerImplementsLedger == Spec => ImplementsLedger
<1>1. Init => RInv /\ Ledger!Init
  BY InitIInv, InitSimulates DEF RInv, AbsentIsUntouched, Init
<1>2. RInv /\ [Next]_vars => RInv'
  BY StepKeeps, UntouchedKeeps DEF RInv
<1>3. RInv /\ [Next]_vars => [Ledger!Next]_(Ledger!vars)
  BY StepSimulates
<1>4. QED BY <1>1, <1>2, <1>3, PTL DEF Spec, ImplementsLedger, Ledger!Spec
=============================================================================
