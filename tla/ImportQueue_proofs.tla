------------------------- MODULE ImportQueue_proofs -------------------------
(***************************************************************************)
(* Theorems about ImportQueue, for any number of jobs, workers and         *)
(* requests.  One inductive invariant carries them: beside the types it    *)
(* says what a transaction may rely on while it waits for a row and while  *)
(* it holds one, and how far attempts may have got at each status.         *)
(***************************************************************************)
EXTENDS ImportQueue, TLAPS

(* Only workers claim, only API requests run through a handler.            *)
ActorRoles ==
    /\ \A w \in Workers : pc[w] \in {"idle", "selected", "running", "down"}
    /\ \A c \in Clients : pc[c] \in {"idle", "restarting", "executing"} \union AllClientOps

(* A row in the queue, or read from it, has an attempt left; no row has    *)
(* made more attempts than it was granted.                                 *)
WithinBudget(row, j) ==
    /\ row.attempt <= MaxAttempts + requeues[j]
    /\ row.status \in RUNNABLE_STATUSES => row.attempt < MaxAttempts + requeues[j]

RowsWithinBudget == \A j \in Jobs : WithinBudget(job[j], j)
ImagesWithinBudget == \A a \in Actors : WithinBudget(image[a], target[a])

(* What an actor is about to run was runnable when it was read.            *)
ImagesRunnable ==
    /\ \A a \in Actors :
         pc[a] \in {"selected", "execute", "executing"} => image[a].status \in RUNNABLE_STATUSES
    /\ \A a \in Actors :
         pc[a] \in {"retry"} => image[a].status \in RESTARTABLE_STATUSES
    /\ \A w \in Workers :
         pc[w] = "running" => job[target[w]].status \in RUNNABLE_STATUSES

AttemptsCommitted ==
    /\ \A j \in Jobs : job[j].attempt <= runs[j]
    /\ \A a \in Actors : image[a].attempt <= runs[target[a]]

IInv ==
    /\ TypeOK /\ ActorRoles
    /\ RunningWorkerOwnsRow
    /\ RowsWithinBudget /\ ImagesWithinBudget /\ ImagesRunnable
    /\ AttemptsCommitted

-----------------------------------------------------------------------------
(* Lemmas about the operators.                                             *)

(* The backoff never exceeds the cap (retry_delay_seconds).                *)
LEMMA DelayIsCapped ==
    ASSUME NEW attempt PROVE retry_delay_seconds(attempt) \in 0..CapDelay
<1> DEFINE delay == BaseDelay * 2^(attempt - 1)
<1>1. CASE delay \in 1..CapDelay
  BY <1>1, BoundsAssumption DEF retry_delay_seconds
<1>2. CASE delay \notin 1..CapDelay
  BY <1>2, BoundsAssumption DEF retry_delay_seconds
<1>3. QED BY <1>1, <1>2

(* One execution makes exactly one attempt, ends in one of four statuses   *)
(* and asks for a retry only while attempts remain (run_import_job).       *)
LEMMA RunOutcome ==
    ASSUME NEW row \in Row, NEW result \in run_import_job(row)
    PROVE  /\ result \in Row
           /\ result.attempt = row.attempt + 1
           /\ result.cancel = row.cancel
           /\ result.status \in TERMINAL_STATUSES \union {"retrying"}
           /\ result.status = "retrying" => result.attempt < MaxAttempts
           /\ row.cancel => result.status \in {"failed", "cancelled"}
<1>1. PICK status \in TERMINAL_STATUSES \union {"retrying"} :
        /\ result = EndRun(row, status)
        /\ status = "retrying" => ~row.cancel /\ row.attempt + 1 < MaxAttempts
        /\ row.cancel => status \in {"failed", "cancelled"}
  <2>1. CASE result = EndRun(row, "failed")
    BY <2>1 DEF TERMINAL_STATUSES
  <2>2. CASE row.cancel /\ result = EndRun(row, "cancelled")
    BY <2>2 DEF TERMINAL_STATUSES
  <2>3. CASE ~row.cancel /\ result = EndRun(row, "succeeded")
    BY <2>3 DEF TERMINAL_STATUSES
  <2>4. CASE /\ ~row.cancel /\ row.attempt + 1 < MaxAttempts
             /\ result = EndRun(row, "retrying")
    BY <2>4
  <2>5. QED BY <2>1, <2>2, <2>3, <2>4 DEF run_import_job
<1>2. QED BY <1>1 DEF EndRun, Row, Statuses, TERMINAL_STATUSES

(* A wait within the cap, or one that a provider asked for.                *)
LEMMA WaitsGrow ==
    /\ 0..CapDelay \subseteq Waits
    /\ RetryAfters \subseteq Waits
    /\ \A t \in Waits \ {0} : t - 1 \in Waits
BY BoundsAssumption DEF Waits

LEMMA BackoffKeepsType ==
    ASSUME TypeOK, NEW j \in Jobs, NEW row, NEW after \in BackoffAfter(j, row)
    PROVE  after \in [Jobs -> Waits]
<1>1. PICK wait \in RetryWaits(row) : after = [backoff EXCEPT ![j] = wait]
  BY DEF BackoffAfter
<1>2. retry_delay_seconds(row.attempt) \in Waits /\ 0 \in Waits
  BY DelayIsCapped, WaitsGrow, BoundsAssumption
<1>3. wait \in Waits
  BY <1>2, WaitsGrow DEF RetryWaits
<1>4. QED BY <1>1, <1>3 DEF TypeOK

LEMMA FlushKeepsType ==
    ASSUME NEW row \in Row, NEW loaded \in Row, NEW changed \in Row
    PROVE  Flush(row, loaded, changed) \in Row
BY DEF Flush, Row

(* A history counter of the jobs that counts one more only grows.          *)
LEMMA CountingGrows ==
    ASSUME NEW f \in [Jobs -> Nat], NEW g, NEW j \in Jobs,
           g = f \/ g = [f EXCEPT ![j] = @ + 1]
    PROVE  g \in [Jobs -> Nat] /\ \A k \in Jobs : f[k] <= g[k]
<1>1. CASE g = f
  BY <1>1
<1>2. CASE g = [f EXCEPT ![j] = @ + 1]
  <2>1. g \in [Jobs -> Nat]
    BY <1>2
  <2>2. ASSUME NEW k \in Jobs PROVE f[k] <= g[k]
    <3>1. f[k] \in Nat /\ (g[k] = f[k] \/ g[k] = f[k] + 1)
      BY <1>2
    <3>2. QED BY <3>1
  <2>3. QED BY <2>1, <2>2
<1>3. QED BY <1>1, <1>2

LEMMA NoTargetIsAJob == NoTarget \in Jobs
BY JobsAssumption DEF NoTarget

LEMMA NoRowIsARow == NoRow \in Row /\ NewRow \in Row
BY DEF NoRow, NewRow, Row, Statuses

-----------------------------------------------------------------------------
(* The invariant holds initially and every action keeps it.                *)

LEMMA InitIInv == Init => IInv
<1> SUFFICES ASSUME Init PROVE IInv
  OBVIOUS
<1>1. TypeOK
  <2>1. 0 \in Waits
    BY WaitsGrow, BoundsAssumption
  <2>2. QED BY <2>1, BoundsAssumption, NoTargetIsAJob, NoRowIsARow DEF Init, TypeOK, ActorStates
<1>2. ActorRoles /\ RunningWorkerOwnsRow
  BY DEF Init, ActorRoles, RunningWorkerOwnsRow, Actors
<1>3. RowsWithinBudget /\ ImagesWithinBudget
  BY BoundsAssumption, NoTargetIsAJob
  DEF Init, RowsWithinBudget, ImagesWithinBudget, WithinBudget, NoRow, RUNNABLE_STATUSES
<1>4. ImagesRunnable
  BY DEF Init, ImagesRunnable, Actors
<1>5. AttemptsCommitted
  BY NoTargetIsAJob DEF Init, AttemptsCommitted, NoRow
<1>6. QED BY <1>1, <1>2, <1>3, <1>4, <1>5 DEF IInv

LEMMA CreateJobKeeps ==
    ASSUME IInv, NEW j \in Jobs, CreateJob(j) PROVE IInv'
<1> USE DEF CreateJob, budgets
<1>1. TypeOK'
  BY NoRowIsARow DEF IInv, TypeOK
<1>2. ActorRoles'
  BY DEF IInv, ActorRoles
<1>3. \A w \in Workers : pc[w] = "running" => target[w] # j
  BY DEF IInv, ImagesRunnable, RUNNABLE_STATUSES
<1>4. RunningWorkerOwnsRow'
  BY <1>3 DEF IInv, RunningWorkerOwnsRow, TypeOK, Actors, Holding
<1>5. RowsWithinBudget' /\ ImagesWithinBudget'
  BY BoundsAssumption
  DEF IInv, TypeOK, RowsWithinBudget, ImagesWithinBudget, WithinBudget, NewRow, NoRow
<1>6. ImagesRunnable'
  BY <1>3 DEF IInv, ImagesRunnable, TypeOK, Actors
<1>7. AttemptsCommitted'
  BY DEF IInv, TypeOK, AttemptsCommitted, NewRow, NoRow
<1>8. QED BY <1>1, <1>2, <1>4, <1>5, <1>6, <1>7 DEF IInv

LEMMA CreateAndRunJobKeeps ==
    ASSUME IInv, NEW j \in Jobs, CreateAndRunJob(j) PROVE IInv'
<1>1. PICK row \in run_import_job(NewRow) :
        job' = [job EXCEPT ![j] = row] /\ backoff' \in BackoffAfter(j, row)
  BY DEF CreateAndRunJob
<1>2. row \in Row /\ row.attempt = 1 /\ row.status # "queued"
      /\ (row.status = "retrying" => 1 < MaxAttempts)
  BY RunOutcome, NoRowIsARow DEF NewRow, NoRow, TERMINAL_STATUSES
<1>3. /\ runs' = [runs EXCEPT ![j] = @ + 1]
      /\ UNCHANGED <<disabled, pc, target, image, requeues, requests, crashes, reseeds>>
  BY DEF CreateAndRunJob, budgets
<1>4. backoff' \in [Jobs -> Waits]
  BY <1>1, BackoffKeepsType DEF IInv
<1>5. \A w \in Workers : pc[w] = "running" => target[w] # j
  BY DEF IInv, ImagesRunnable, RUNNABLE_STATUSES, CreateAndRunJob
<1>6. TypeOK'
  <2>1. job' \in [Jobs -> Row]
    BY <1>1, <1>2 DEF IInv, TypeOK
  <2>2. runs' \in [Jobs -> Nat]
    BY <1>3 DEF IInv, TypeOK
  <2>3. disabled' \subseteq Jobs /\ requests' \in Nat /\ crashes' \in Nat /\ reseeds' \in Nat
    BY <1>3 DEF IInv, TypeOK
  <2>4. pc' \in [Actors -> ActorStates] /\ target' \in [Actors -> Jobs]
        /\ image' \in [Actors -> Row] /\ requeues' \in [Jobs -> Nat]
    BY <1>3 DEF IInv, TypeOK
  <2>5. QED BY <1>4, <2>1, <2>2, <2>3, <2>4 DEF TypeOK
<1>7. ActorRoles'
  BY <1>3 DEF IInv, ActorRoles
<1>8. RunningWorkerOwnsRow'
  BY <1>1, <1>3, <1>5 DEF IInv, RunningWorkerOwnsRow, TypeOK, Actors, Holding
<1>9. RowsWithinBudget' /\ ImagesWithinBudget'
  BY <1>1, <1>2, <1>3, BoundsAssumption
  DEF IInv, TypeOK, RowsWithinBudget, ImagesWithinBudget, WithinBudget, RUNNABLE_STATUSES
<1>10. ImagesRunnable'
  BY <1>1, <1>3, <1>5 DEF IInv, ImagesRunnable, TypeOK, Actors
<1>11. AttemptsCommitted'
  BY <1>1, <1>2, <1>3 DEF IInv, TypeOK, AttemptsCommitted, Row
<1>12. QED BY <1>6, <1>7, <1>8, <1>9, <1>10, <1>11 DEF IInv

-----------------------------------------------------------------------------
(* Two lemmas shared by the actions of a transaction: one for the steps    *)
(* that leave the tables alone, one for those that commit a row.           *)

(* Actor a moves to a new place in its transaction, with j as its target   *)
(* and row as its image; it does not become the worker executing j.        *)
LEMMA MovingKeeps ==
    ASSUME IInv,
           NEW a \in Actors, NEW state \in ActorStates \ {"running"},
           NEW j \in Jobs, NEW row \in Row,
           pc' = [pc EXCEPT ![a] = state],
           target' = [target EXCEPT ![a] = j],
           image' = [image EXCEPT ![a] = row],
           UNCHANGED <<job, backoff, disabled, runs, requeues>>,
           requests' \in Nat, crashes' \in Nat, reseeds' \in Nat,
           WithinBudget(row, j), row.attempt <= runs[j],
           a \in Workers => state \in {"idle", "selected", "down"},
           a \in Clients => state \in {"idle", "restarting", "executing"} \union AllClientOps,
           state \in {"selected", "execute", "executing"} => row.status \in RUNNABLE_STATUSES,
           state = "retry" => row.status \in RESTARTABLE_STATUSES,
           state \in Holding => \A w \in Workers : ~(pc[w] = "running" /\ target[w] = j)
    PROVE  IInv'
<1>1. TypeOK'
  <2>1. pc' \in [Actors -> ActorStates] /\ target' \in [Actors -> Jobs]
        /\ image' \in [Actors -> Row]
    BY DEF IInv, TypeOK
  <2>2. /\ job' \in [Jobs -> Row] /\ backoff' \in [Jobs -> Waits]
        /\ disabled' \subseteq Jobs /\ runs' \in [Jobs -> Nat] /\ requeues' \in [Jobs -> Nat]
    BY DEF IInv, TypeOK
  <2>3. QED BY <2>1, <2>2 DEF TypeOK
<1>2. ActorRoles'
  BY DEF IInv, TypeOK, ActorRoles, Actors
<1>3. RunningWorkerOwnsRow'
  <2> SUFFICES ASSUME NEW w \in Workers, pc'[w] = "running"
               PROVE  /\ image'[w] = [job'[target'[w]] EXCEPT !.status = "running"]
                      /\ \A b \in Actors \ {w} : ~(pc'[b] \in Holding /\ target'[b] = target'[w])
    BY DEF RunningWorkerOwnsRow
  <2>1. w # a /\ pc[w] = "running" /\ target'[w] = target[w] /\ image'[w] = image[w]
    BY DEF IInv, TypeOK, Actors
  <2>2. /\ image[w] = [job[target[w]] EXCEPT !.status = "running"]
        /\ \A b \in Actors \ {w} : ~(pc[b] \in Holding /\ target[b] = target[w])
    BY <2>1 DEF IInv, RunningWorkerOwnsRow
  <2>3. image'[w] = [job'[target'[w]] EXCEPT !.status = "running"]
    BY <2>1, <2>2, Zenon
  <2>4. \A b \in Actors \ {w} : ~(pc'[b] \in Holding /\ target'[b] = target'[w])
    BY <2>1, <2>2 DEF IInv, TypeOK
  <2>5. QED BY <2>3, <2>4
<1>4. RowsWithinBudget' /\ ImagesWithinBudget'
  BY DEF IInv, TypeOK, RowsWithinBudget, ImagesWithinBudget, WithinBudget
<1>5. ImagesRunnable'
  BY DEF IInv, ImagesRunnable, TypeOK, Actors
<1>6. AttemptsCommitted'
  BY DEF IInv, TypeOK, AttemptsCommitted
<1>7. QED BY <1>1, <1>2, <1>3, <1>4, <1>5, <1>6 DEF IInv

(* Actor a ends its transaction and row becomes the committed row of j,    *)
(* which no other worker is executing.                                     *)
LEMMA CommitKeeps ==
    ASSUME IInv,
           NEW a \in Actors, NEW j \in Jobs, NEW row \in Row,
           EndTransaction(a, "idle"),
           job' = [job EXCEPT ![j] = row],
           backoff' \in [Jobs -> Waits],
           runs' \in [Jobs -> Nat], requeues' \in [Jobs -> Nat],
           \A k \in Jobs : runs[k] <= runs'[k] /\ requeues[k] <= requeues'[k],
           UNCHANGED <<disabled, requests, crashes, reseeds>>,
           row.attempt <= runs'[j],
           row.attempt <= MaxAttempts + requeues'[j],
           row.status \in RUNNABLE_STATUSES => row.attempt < MaxAttempts + requeues'[j],
           \A w \in Workers \ {a} : ~(pc[w] = "running" /\ target[w] = j)
    PROVE  IInv'
<1>0. /\ pc' = [pc EXCEPT ![a] = "idle"]
      /\ image' = [image EXCEPT ![a] = NoRow]
      /\ target' = [target EXCEPT ![a] = NoTarget]
  BY DEF EndTransaction, MoveTo
<1>1. TypeOK'
  <2>1. pc' \in [Actors -> ActorStates] /\ target' \in [Actors -> Jobs]
        /\ image' \in [Actors -> Row]
    BY <1>0, NoTargetIsAJob, NoRowIsARow DEF IInv, TypeOK, ActorStates
  <2>2. /\ job' \in [Jobs -> Row] /\ disabled' \subseteq Jobs
        /\ requests' \in Nat /\ crashes' \in Nat /\ reseeds' \in Nat
    BY DEF IInv, TypeOK
  <2>3. QED BY <2>1, <2>2 DEF TypeOK
<1>2. ActorRoles'
  BY <1>0 DEF IInv, TypeOK, ActorRoles, Actors
<1>3. \A w \in Workers : pc'[w] = "running" =>
        w # a /\ pc[w] = "running" /\ target'[w] = target[w] /\ image'[w] = image[w]
        /\ job'[target[w]] = job[target[w]]
  BY <1>0 DEF IInv, TypeOK, Actors
<1>4. RunningWorkerOwnsRow'
  <2> SUFFICES ASSUME NEW w \in Workers, pc'[w] = "running"
               PROVE  /\ image'[w] = [job'[target'[w]] EXCEPT !.status = "running"]
                      /\ \A b \in Actors \ {w} : ~(pc'[b] \in Holding /\ target'[b] = target'[w])
    BY DEF RunningWorkerOwnsRow
  <2>1. /\ image[w] = [job[target[w]] EXCEPT !.status = "running"]
        /\ \A b \in Actors \ {w} : ~(pc[b] \in Holding /\ target[b] = target[w])
    BY <1>3 DEF IInv, RunningWorkerOwnsRow
  <2>2. image'[w] = [job'[target'[w]] EXCEPT !.status = "running"]
    BY <1>3, <2>1, Zenon
  <2>3. \A b \in Actors \ {w} : ~(pc'[b] \in Holding /\ target'[b] = target'[w])
    BY <1>0, <1>3, <2>1 DEF IInv, TypeOK, Holding
  <2>4. QED BY <2>2, <2>3
<1>5. RowsWithinBudget'
  <2> SUFFICES ASSUME NEW k \in Jobs PROVE WithinBudget(job[k], k)'
    BY DEF RowsWithinBudget
  <2>1. CASE k = j
    BY <2>1 DEF IInv, TypeOK, WithinBudget
  <2>2. CASE k # j
    <3>1. job'[k] = job[k] /\ job[k] \in Row /\ requeues[k] \in Nat /\ requeues'[k] \in Nat
          /\ requeues[k] <= requeues'[k]
      BY <2>2 DEF IInv, TypeOK
    <3>2. QED BY <3>1, BoundsAssumption DEF IInv, RowsWithinBudget, WithinBudget, Row
  <2>3. QED BY <2>1, <2>2
<1>6. ImagesWithinBudget'
  <2> SUFFICES ASSUME NEW b \in Actors PROVE WithinBudget(image[b], target[b])'
    BY DEF ImagesWithinBudget
  <2>1. CASE b = a
    BY <1>0, <1>1, <2>1, NoTargetIsAJob, BoundsAssumption
    DEF IInv, TypeOK, WithinBudget, NoRow, RUNNABLE_STATUSES
  <2>2. CASE b # a
    <3>1. image'[b] = image[b] /\ target'[b] = target[b] /\ target[b] \in Jobs /\ image[b] \in Row
      BY <1>0, <2>2 DEF IInv, TypeOK
    <3>2. requeues[target[b]] \in Nat /\ requeues'[target[b]] \in Nat
          /\ requeues[target[b]] <= requeues'[target[b]]
      BY <3>1 DEF IInv, TypeOK
    <3>3. QED BY <3>1, <3>2, BoundsAssumption DEF IInv, ImagesWithinBudget, WithinBudget, Row
  <2>3. QED BY <2>1, <2>2
<1>7. ImagesRunnable'
  BY <1>0, <1>3 DEF IInv, ImagesRunnable, TypeOK, Actors
<1>8. AttemptsCommitted'
  <2>1. \A k \in Jobs : job'[k].attempt <= runs'[k]
    <3> SUFFICES ASSUME NEW k \in Jobs PROVE job'[k].attempt <= runs'[k]
      OBVIOUS
    <3>1. CASE k = j
      BY <3>1 DEF IInv, TypeOK
    <3>2. CASE k # j
      <4>1. job'[k] = job[k] /\ job[k] \in Row /\ runs[k] \in Nat /\ runs'[k] \in Nat
            /\ runs[k] <= runs'[k]
        BY <3>2 DEF IInv, TypeOK
      <4>2. QED BY <4>1 DEF IInv, AttemptsCommitted, Row
    <3>3. QED BY <3>1, <3>2
  <2>2. ASSUME NEW b \in Actors PROVE image'[b].attempt <= runs'[target'[b]]
    <3>1. CASE b = a
      <4>1. image'[b].attempt = 0 /\ target'[b] = NoTarget /\ runs'[NoTarget] \in Nat
        BY <1>0, <3>1, NoTargetIsAJob DEF IInv, TypeOK, NoRow
      <4>2. QED BY <4>1
    <3>2. CASE b # a
      <4>1. image'[b] = image[b] /\ target'[b] = target[b] /\ target[b] \in Jobs /\ image[b] \in Row
        BY <1>0, <3>2 DEF IInv, TypeOK
      <4>2. runs[target[b]] \in Nat /\ runs'[target[b]] \in Nat
            /\ runs[target[b]] <= runs'[target[b]]
        BY <4>1 DEF IInv, TypeOK
      <4>3. QED BY <4>1, <4>2 DEF IInv, AttemptsCommitted, Row
    <3>3. QED BY <3>1, <3>2
  <2>3. QED BY <2>1, <2>2 DEF AttemptsCommitted
<1>9. QED BY <1>1, <1>2, <1>4, <1>5, <1>6, <1>7, <1>8 DEF IInv

-----------------------------------------------------------------------------
(* The steps that leave the tables alone.                                  *)

(* An actor whose transaction ends has no image, hence no claim on a row.  *)
LEMMA EndingKeeps ==
    ASSUME IInv, NEW a \in Actors, NEW state \in {"idle", "down"},
           a \in Clients => state = "idle",
           EndTransaction(a, state),
           UNCHANGED <<job, backoff, disabled, runs, requeues>>,
           requests' \in Nat, crashes' \in Nat, reseeds' \in Nat
    PROVE  IInv'
<1>1. /\ pc' = [pc EXCEPT ![a] = state]
      /\ target' = [target EXCEPT ![a] = NoTarget]
      /\ image' = [image EXCEPT ![a] = NoRow]
  BY DEF EndTransaction, MoveTo
<1>2. WithinBudget(NoRow, NoTarget) /\ NoRow.attempt <= runs[NoTarget]
  BY NoTargetIsAJob, BoundsAssumption
  DEF IInv, TypeOK, WithinBudget, NoRow, RUNNABLE_STATUSES
<1>3. state \in ActorStates \ {"running"} /\ state \notin Holding
  BY DEF ActorStates, Holding
<1>4. QED BY <1>1, <1>2, <1>3, MovingKeeps, NoTargetIsAJob, NoRowIsARow

LEMMA SelectCandidateKeeps ==
    ASSUME IInv, NEW w \in Workers, SelectCandidate(w) PROVE IInv'
<1>1. PICK j \in Jobs : /\ Eligible(j)
                        /\ target' = [target EXCEPT ![w] = j]
                        /\ image' = [image EXCEPT ![w] = job[j]]
  BY DEF SelectCandidate
<1>2. /\ pc' = [pc EXCEPT ![w] = "selected"]
      /\ UNCHANGED <<job, backoff, disabled, runs, requeues, requests, crashes, reseeds>>
  BY DEF SelectCandidate, MoveTo, budgets
<1>3. job[j] \in Row /\ job[j].status \in RUNNABLE_STATUSES
  BY <1>1 DEF IInv, TypeOK, Eligible, RUNNABLE_STATUSES
<1>4. WithinBudget(job[j], j) /\ job[j].attempt <= runs[j]
  BY DEF IInv, RowsWithinBudget, AttemptsCommitted
<1>5. w \in Actors /\ w \notin Clients /\ "selected" \in ActorStates /\ "selected" \notin Holding
  BY ActorsAssumption DEF Actors, ActorStates, Holding
<1>6. requests' \in Nat /\ crashes' \in Nat /\ reseeds' \in Nat
  BY <1>2 DEF IInv, TypeOK
<1>7. QED BY <1>1, <1>2, <1>3, <1>4, <1>5, <1>6, MovingKeeps

LEMMA ReadJobKeeps ==
    ASSUME IInv, NEW c \in Clients, NEW op \in ClientOps, NEW j \in Jobs, ReadJob(c, op, j)
    PROVE  IInv'
<1>1. /\ pc' = [pc EXCEPT ![c] = op]
      /\ target' = [target EXCEPT ![c] = j]
      /\ image' = [image EXCEPT ![c] = job[j]]
      /\ UNCHANGED <<job, backoff, disabled, runs, requeues, crashes, reseeds>>
  BY DEF ReadJob, MoveTo
<1>2. requests' \in Nat /\ crashes' \in Nat /\ reseeds' \in Nat
  BY DEF ReadJob, IInv, TypeOK
<1>3. job[j] \in Row
  BY DEF IInv, TypeOK
<1>4. WithinBudget(job[j], j) /\ job[j].attempt <= runs[j]
  BY DEF IInv, RowsWithinBudget, AttemptsCommitted
<1>5. op \in AllClientOps
  BY OpsAssumption
<1>6. c \in Actors /\ c \notin Workers /\ op \in ActorStates \ {"running"} /\ op \notin Holding
  BY <1>5, ActorsAssumption DEF Actors, ActorStates, Holding, AllClientOps
<1>7. op \in {"selected", "execute", "executing"} => job[j].status \in RUNNABLE_STATUSES
  BY <1>5 DEF ReadJob, Accepts, AllClientOps
<1>8. op = "retry" => job[j].status \in RESTARTABLE_STATUSES
  BY DEF ReadJob, Accepts
<1>9. QED BY <1>1, <1>2, <1>3, <1>4, <1>5, <1>6, <1>7, <1>8, MovingKeeps

LEMMA StartApiRunKeeps ==
    ASSUME IInv, NEW c \in Clients, StartApiRun(c) PROVE IInv'
<1> DEFINE state == IF pc[c] = "restart" THEN "restarting" ELSE "executing"
<1>1. c \in Actors /\ c \notin Workers
  BY ActorsAssumption DEF Actors
<1>2. target[c] \in Jobs /\ image[c] \in Row
  BY <1>1 DEF IInv, TypeOK
<1>3. /\ pc' = [pc EXCEPT ![c] = state]
      /\ target' = [target EXCEPT ![c] = target[c]]
      /\ image' = [image EXCEPT ![c] = image[c]]
      /\ UNCHANGED <<job, backoff, disabled, runs, requeues>>
  BY <1>1 DEF StartApiRun, MoveTo, IInv, TypeOK
<1>4. requests' \in Nat /\ crashes' \in Nat /\ reseeds' \in Nat
  BY DEF StartApiRun, budgets, IInv, TypeOK
<1>5. WithinBudget(image[c], target[c]) /\ image[c].attempt <= runs[target[c]]
  BY <1>1 DEF IInv, ImagesWithinBudget, AttemptsCommitted
<1>6. state = "executing" => image[c].status \in RUNNABLE_STATUSES
  BY <1>1 DEF StartApiRun, IInv, ImagesRunnable
<1>7. \A w \in Workers : ~(pc[w] = "running" /\ target[w] = target[c])
  BY DEF StartApiRun, Locked, Actors, Holding
<1>8. state \in {"restarting", "executing"} /\ state \in ActorStates \ {"running"}
  BY DEF ActorStates
<1> HIDE DEF state
<1>9. QED BY <1>1, <1>2, <1>3, <1>4, <1>5, <1>6, <1>7, <1>8, MovingKeeps

LEMMA RestartWorkerKeeps ==
    ASSUME IInv, NEW w \in Workers, RestartWorker(w) PROVE IInv'
<1>1. w \in Actors /\ w \notin Clients /\ "idle" \in ActorStates /\ "idle" \notin Holding
  BY ActorsAssumption DEF Actors, ActorStates, Holding
<1>2. target[w] \in Jobs /\ image[w] \in Row
  BY <1>1 DEF IInv, TypeOK
<1>3. /\ pc' = [pc EXCEPT ![w] = "idle"]
      /\ target' = [target EXCEPT ![w] = target[w]]
      /\ image' = [image EXCEPT ![w] = image[w]]
      /\ UNCHANGED <<job, backoff, disabled, runs, requeues>>
  BY <1>1 DEF RestartWorker, MoveTo, IInv, TypeOK
<1>4. requests' \in Nat /\ crashes' \in Nat /\ reseeds' \in Nat
  BY DEF RestartWorker, budgets, IInv, TypeOK
<1>5. WithinBudget(image[w], target[w]) /\ image[w].attempt <= runs[target[w]]
  BY <1>1 DEF IInv, ImagesWithinBudget, AttemptsCommitted
<1>6. QED BY <1>1, <1>2, <1>3, <1>4, <1>5, MovingKeeps

LEMMA RollbackKeeps ==
    /\ \A w \in Workers : IInv /\ AbortRun(w) => IInv'
    /\ \A w \in Workers : IInv /\ Crash(w) => IInv'
    /\ \A c \in Clients : IInv /\ RejectApiRun(c) => IInv'
<1>1. ASSUME NEW w \in Workers, IInv, AbortRun(w) PROVE IInv'
  <2>1. w \in Actors /\ w \notin Clients
    BY ActorsAssumption DEF Actors
  <2>2. requests' \in Nat /\ crashes' \in Nat /\ reseeds' \in Nat
    BY <1>1 DEF AbortRun, budgets, IInv, TypeOK
  <2>3. QED BY <1>1, <2>1, <2>2, EndingKeeps DEF AbortRun
<1>2. ASSUME NEW w \in Workers, IInv, Crash(w) PROVE IInv'
  <2>1. w \in Actors /\ w \notin Clients
    BY ActorsAssumption DEF Actors
  <2>2. requests' \in Nat /\ crashes' \in Nat /\ reseeds' \in Nat
    BY <1>2 DEF Crash, IInv, TypeOK
  <2>3. QED BY <1>2, <2>1, <2>2, EndingKeeps DEF Crash
<1>3. ASSUME NEW c \in Clients, IInv, RejectApiRun(c) PROVE IInv'
  <2>1. c \in Actors
    BY DEF Actors
  <2>2. requests' \in Nat /\ crashes' \in Nat /\ reseeds' \in Nat
    BY <1>3 DEF RejectApiRun, budgets, IInv, TypeOK
  <2>3. QED BY <1>3, <2>1, <2>2, EndingKeeps DEF RejectApiRun
<1>4. QED BY <1>1, <1>2, <1>3

(* The claim: the row is free, so nobody else holds it, and the refresh    *)
(* makes the image the row.                                                *)
LEMMA ClaimKeeps ==
    ASSUME IInv, NEW w \in Workers, Claim(w) PROVE IInv'
<1> DEFINE j == target[w]
<1>1. w \in Actors /\ w \notin Clients /\ j \in Jobs
  BY ActorsAssumption DEF Actors, IInv, TypeOK
<1>2. /\ UNCHANGED <<job, backoff, disabled, runs, requeues>>
      /\ requests' \in Nat /\ crashes' \in Nat /\ reseeds' \in Nat
  BY DEF Claim, budgets, IInv, TypeOK
<1>3. CASE EndTransaction(w, "idle")
  BY <1>1, <1>2, <1>3, EndingKeeps
<1>4. CASE /\ job[j].status = image[w].status
           /\ pc' = [pc EXCEPT ![w] = "running"]
           /\ image' = [image EXCEPT ![w] = [job[j] EXCEPT !.status = "running"]]
           /\ UNCHANGED target
  <2>1. job[j] \in Row /\ job[j].status \in RUNNABLE_STATUSES
    BY <1>1, <1>4 DEF Claim, IInv, TypeOK, ImagesRunnable
  <2>2. \A a \in Actors : ~(pc[a] \in Holding /\ target[a] = j)
    BY DEF Claim, Locked
  <2> DEFINE taken == [job[j] EXCEPT !.status = "running"]
  <2>3. taken \in Row /\ taken.attempt = job[j].attempt /\ taken.status = "running"
    BY <2>1 DEF Row, Statuses
  <2>4. image' = [image EXCEPT ![w] = taken]
    BY <1>4
  <2>5. \A a \in Actors \ {w} : pc'[a] = pc[a] /\ image'[a] = image[a]
    BY <1>1, <1>4 DEF IInv, TypeOK
  <2>6. pc'[w] = "running" /\ image'[w] = taken
    BY <1>1, <1>4 DEF IInv, TypeOK
  <2> HIDE DEF taken
  <2>7. TypeOK'
    <3>1. pc' \in [Actors -> ActorStates] /\ image' \in [Actors -> Row]
      BY <1>4, <2>3, <2>4 DEF IInv, TypeOK, ActorStates
    <3>2. QED BY <1>2, <1>4, <3>1 DEF IInv, TypeOK
  <2>8. ActorRoles'
    BY <1>1, <2>5, <2>6 DEF IInv, ActorRoles, Actors
  <2>9. RunningWorkerOwnsRow'
    <3>1. ASSUME NEW v \in Workers, pc'[v] = "running"
          PROVE  image'[v] = [job'[target'[v]] EXCEPT !.status = "running"]
      <4>1. CASE v = w
        BY <1>2, <1>4, <2>6, <4>1, Zenon DEF taken
      <4>2. CASE v # w
        <5>1. pc[v] = "running" /\ image'[v] = image[v]
          BY <2>5, <3>1, <4>2 DEF Actors
        <5>2. image[v] = [job[target[v]] EXCEPT !.status = "running"]
          BY <5>1 DEF IInv, RunningWorkerOwnsRow
        <5>3. QED BY <1>2, <1>4, <5>1, <5>2, Zenon
      <4>3. QED BY <4>1, <4>2
    <3>2. ASSUME NEW v \in Workers, pc'[v] = "running", NEW a \in Actors \ {v}
          PROVE  ~(pc'[a] \in Holding /\ target'[a] = target'[v])
      <4>1. CASE v = w
        BY <1>4, <2>2, <2>5, <3>2, <4>1
      <4>2. CASE v # w /\ a = w
        <5>1. v \in Actors /\ pc[v] = "running"
          BY <2>5, <3>2, <4>2 DEF Actors
        <5>2. target[v] # j
          BY <2>2, <5>1 DEF Holding
        <5>3. QED BY <1>4, <4>2, <5>2
      <4>3. CASE v # w /\ a # w
        <5>1. pc[v] = "running" /\ pc'[a] = pc[a]
          BY <2>5, <3>2, <4>3 DEF Actors
        <5>2. QED BY <1>4, <3>2, <5>1 DEF IInv, RunningWorkerOwnsRow
      <4>4. QED BY <4>1, <4>2, <4>3
    <3>3. QED BY <3>1, <3>2 DEF RunningWorkerOwnsRow
  <2>10. RowsWithinBudget' /\ ImagesWithinBudget'
    BY <1>1, <1>2, <1>4, <2>3, <2>5, <2>6
    DEF IInv, RowsWithinBudget, ImagesWithinBudget, WithinBudget, RUNNABLE_STATUSES
  <2>11. ImagesRunnable'
    BY <1>1, <1>2, <1>4, <2>1, <2>5, <2>6 DEF IInv, ImagesRunnable, Actors
  <2>12. AttemptsCommitted'
    BY <1>1, <1>2, <1>4, <2>3, <2>5, <2>6 DEF IInv, AttemptsCommitted
  <2>13. QED BY <2>7, <2>8, <2>9, <2>10, <2>11, <2>12 DEF IInv
<1>5. QED BY <1>3, <1>4 DEF Claim, MoveTo

-----------------------------------------------------------------------------
(* The steps that commit a row.                                            *)

LEMMA FinishRunKeeps ==
    ASSUME IInv, NEW w \in Workers, FinishRun(w) PROVE IInv'
<1> DEFINE j == target[w]
<1>1. w \in Actors /\ j \in Jobs /\ image[w] \in Row /\ job[j] \in Row
      /\ runs[j] \in Nat /\ requeues[j] \in Nat
  BY DEF Actors, IInv, TypeOK
<1>2. PICK row \in run_import_job(image[w]) :
        job' = [job EXCEPT ![j] = row] /\ backoff' \in BackoffAfter(j, row)
  BY DEF FinishRun
<1>3. /\ runs' = [runs EXCEPT ![j] = @ + 1]
      /\ UNCHANGED <<disabled, requeues, requests, crashes, reseeds>>
      /\ EndTransaction(w, "idle")
  BY DEF FinishRun, budgets
<1>4. row \in Row /\ row.attempt = image[w].attempt + 1
      /\ row.status \in TERMINAL_STATUSES \union {"retrying"}
      /\ (row.status = "retrying" => row.attempt < MaxAttempts)
  BY <1>1, RunOutcome
<1>5. image[w].attempt = job[j].attempt /\ job[j].status \in RUNNABLE_STATUSES
  BY <1>1 DEF FinishRun, IInv, RunningWorkerOwnsRow, ImagesRunnable, Row
<1>6. job[j].attempt < MaxAttempts + requeues[j] /\ job[j].attempt <= runs[j]
  BY <1>1, <1>5 DEF IInv, RowsWithinBudget, WithinBudget, AttemptsCommitted
<1>7. /\ row.attempt <= MaxAttempts + requeues'[j]
      /\ row.status \in RUNNABLE_STATUSES => row.attempt < MaxAttempts + requeues'[j]
      /\ row.attempt <= runs'[j]
  BY <1>1, <1>3, <1>4, <1>5, <1>6, BoundsAssumption
  DEF IInv, TypeOK, Row, RUNNABLE_STATUSES, TERMINAL_STATUSES
<1>8. /\ runs' \in [Jobs -> Nat] /\ requeues' \in [Jobs -> Nat]
      /\ \A k \in Jobs : runs[k] <= runs'[k] /\ requeues[k] <= requeues'[k]
  BY <1>1, <1>3, CountingGrows DEF IInv, TypeOK
<1>9. backoff' \in [Jobs -> Waits]
  BY <1>1, <1>2, BackoffKeepsType DEF IInv
<1>10. \A v \in Workers \ {w} : ~(pc[v] = "running" /\ target[v] = j)
  BY DEF FinishRun, IInv, RunningWorkerOwnsRow, Actors, Holding
<1>11. QED BY <1>1, <1>2, <1>3, <1>4, <1>7, <1>8, <1>9, <1>10, CommitKeeps

LEMMA CancelJobKeeps ==
    ASSUME IInv, NEW c \in Clients, CancelJob(c) PROVE IInv'
<1> DEFINE j == target[c]
           asked == request_cancellation(image[c])
           row == Flush(job[j], image[c], asked)
<1>1. c \in Actors /\ j \in Jobs /\ image[c] \in Row /\ job[j] \in Row
  BY DEF Actors, IInv, TypeOK
<1>2. /\ job' = [job EXCEPT ![j] = row]
      /\ EndTransaction(c, "idle")
      /\ UNCHANGED <<backoff, disabled, runs, requeues, requests, crashes, reseeds>>
  BY DEF CancelJob, budgets
<1>3. asked \in Row /\ asked.attempt = image[c].attempt
      /\ (asked.status = image[c].status \/ asked.status = "cancelled")
  BY <1>1 DEF request_cancellation, Row, Statuses, TERMINAL_STATUSES
<1>4. row \in Row /\ row.attempt = job[j].attempt
      /\ (row.status = job[j].status \/ row.status = "cancelled")
  BY <1>1, <1>3, FlushKeepsType DEF Flush
<1> HIDE DEF asked, row
<1>5. WithinBudget(row, j) /\ row.attempt <= runs[j]
  BY <1>1, <1>4 DEF IInv, RowsWithinBudget, AttemptsCommitted, WithinBudget, RUNNABLE_STATUSES
<1>6. /\ row.attempt <= MaxAttempts + requeues'[j]
      /\ row.status \in RUNNABLE_STATUSES => row.attempt < MaxAttempts + requeues'[j]
      /\ row.attempt <= runs'[j]
  BY <1>2, <1>5 DEF WithinBudget
<1>7. /\ backoff' \in [Jobs -> Waits]
      /\ runs' \in [Jobs -> Nat] /\ requeues' \in [Jobs -> Nat]
      /\ \A k \in Jobs : runs[k] <= runs'[k] /\ requeues[k] <= requeues'[k]
  BY <1>2 DEF IInv, TypeOK
<1>8. \A v \in Workers \ {c} : ~(pc[v] = "running" /\ target[v] = j)
  BY DEF CancelJob, Locked, Actors, Holding
<1>9. QED BY <1>1, <1>2, <1>4, <1>6, <1>7, <1>8, CommitKeeps

LEMMA RetryJobKeeps ==
    ASSUME IInv, NEW c \in Clients, RetryJob(c) PROVE IInv'
<1> DEFINE j == target[c]
           asked == restart_import_job(image[c])
           row == Flush(job[j], image[c], asked)
<1>1. c \in Actors /\ j \in Jobs /\ image[c] \in Row /\ job[j] \in Row
  BY DEF Actors, IInv, TypeOK
<1>2. /\ job' = [job EXCEPT ![j] = row]
      /\ backoff' = [backoff EXCEPT ![j] = 0]
      /\ requeues' = [requeues EXCEPT ![j] = @ + 1]
      /\ EndTransaction(c, "idle")
      /\ UNCHANGED <<disabled, runs, requests, crashes, reseeds>>
  BY DEF RetryJob, budgets
<1>3. asked \in Row /\ asked.attempt = image[c].attempt
  BY <1>1 DEF restart_import_job, Row, Statuses
<1>4. row \in Row /\ row.attempt = job[j].attempt
  BY <1>1, <1>3, FlushKeepsType DEF Flush
<1> HIDE DEF asked, row
<1>5. job[j].attempt <= MaxAttempts + requeues[j] /\ job[j].attempt <= runs[j]
      /\ requeues[j] \in Nat /\ requeues'[j] = requeues[j] + 1
  BY <1>1, <1>2 DEF IInv, TypeOK, RowsWithinBudget, AttemptsCommitted, WithinBudget
<1>6. /\ row.attempt <= MaxAttempts + requeues'[j]
      /\ row.status \in RUNNABLE_STATUSES => row.attempt < MaxAttempts + requeues'[j]
      /\ row.attempt <= runs'[j]
  BY <1>1, <1>2, <1>4, <1>5, BoundsAssumption DEF Row
<1>7. /\ backoff' \in [Jobs -> Waits]
      /\ runs' \in [Jobs -> Nat] /\ requeues' \in [Jobs -> Nat]
      /\ \A k \in Jobs : runs[k] <= runs'[k] /\ requeues[k] <= requeues'[k]
  <2>1. requeues' \in [Jobs -> Nat] /\ \A k \in Jobs : requeues[k] <= requeues'[k]
    BY <1>1, <1>2, CountingGrows DEF IInv, TypeOK
  <2>2. runs' \in [Jobs -> Nat] /\ \A k \in Jobs : runs[k] <= runs'[k]
    BY <1>1, <1>2, CountingGrows DEF IInv, TypeOK
  <2>3. backoff' \in [Jobs -> Waits]
    <3>1. 0 \in Waits
      BY WaitsGrow, BoundsAssumption
    <3>2. QED BY <1>2, <3>1 DEF IInv, TypeOK
  <2>4. QED BY <2>1, <2>2, <2>3
<1>8. \A v \in Workers \ {c} : ~(pc[v] = "running" /\ target[v] = j)
  BY DEF RetryJob, Locked, Actors, Holding
<1>9. QED BY <1>1, <1>2, <1>4, <1>6, <1>7, <1>8, CommitKeeps

LEMMA FinishApiRunKeeps ==
    ASSUME IInv, NEW c \in Clients, FinishApiRun(c) PROVE IInv'
<1> DEFINE j == target[c]
           loaded == image[c]
           start == IF pc[c] = "restarting" THEN restart_import_job(loaded) ELSE loaded
<1>1. c \in Actors /\ j \in Jobs /\ loaded \in Row /\ job[j] \in Row
      /\ runs[j] \in Nat /\ requeues[j] \in Nat
  BY DEF Actors, IInv, TypeOK
<1>2. start \in Row /\ start.attempt = loaded.attempt
  BY <1>1 DEF restart_import_job, Row, Statuses
<1>3. PICK ended \in run_import_job(start) :
        /\ job' = [job EXCEPT ![j] = [ended EXCEPT !.cancel =
                     IF ended.cancel # loaded.cancel THEN ended.cancel ELSE job[j].cancel]]
        /\ backoff' \in BackoffAfter(j, ended)
  BY DEF FinishApiRun
<1> DEFINE row == [ended EXCEPT !.cancel =
                     IF ended.cancel # loaded.cancel THEN ended.cancel ELSE job[j].cancel]
<1>4. /\ job' = [job EXCEPT ![j] = row]
      /\ runs' = [runs EXCEPT ![j] = @ + 1]
      /\ requeues' = IF pc[c] = "restarting" THEN [requeues EXCEPT ![j] = @ + 1] ELSE requeues
      /\ UNCHANGED <<disabled, requests, crashes, reseeds>>
      /\ EndTransaction(c, "idle")
  BY <1>3 DEF FinishApiRun, budgets
<1>5. /\ ended \in Row /\ ended.attempt = loaded.attempt + 1
      /\ ended.status \in TERMINAL_STATUSES \union {"retrying"}
      /\ ended.status = "retrying" => ended.attempt < MaxAttempts
  BY <1>2, RunOutcome
<1>6. row \in Row /\ row.attempt = ended.attempt /\ row.status = ended.status
  BY <1>1, <1>5 DEF Row
<1> HIDE DEF row, start
<1>7. loaded.attempt <= MaxAttempts + requeues[j] /\ loaded.attempt <= runs[j]
      /\ (pc[c] # "restarting" => loaded.attempt < MaxAttempts + requeues[j])
  BY <1>1 DEF FinishApiRun, IInv, ImagesWithinBudget, WithinBudget, ImagesRunnable, AttemptsCommitted
<1>8. /\ runs' \in [Jobs -> Nat] /\ requeues' \in [Jobs -> Nat]
      /\ \A k \in Jobs : runs[k] <= runs'[k] /\ requeues[k] <= requeues'[k]
  <2>1. requeues' \in [Jobs -> Nat] /\ \A k \in Jobs : requeues[k] <= requeues'[k]
    BY <1>1, <1>4, CountingGrows DEF IInv, TypeOK
  <2>2. runs' \in [Jobs -> Nat] /\ \A k \in Jobs : runs[k] <= runs'[k]
    BY <1>1, <1>4, CountingGrows DEF IInv, TypeOK
  <2>3. QED BY <2>1, <2>2
<1>9. runs'[j] = runs[j] + 1 /\ requeues[j] <= requeues'[j] /\ requeues'[j] \in Nat
      /\ (pc[c] = "restarting" => requeues'[j] = requeues[j] + 1)
  BY <1>1, <1>4, <1>8 DEF IInv, TypeOK
<1>10. /\ row.attempt <= MaxAttempts + requeues'[j]
       /\ row.status \in RUNNABLE_STATUSES => row.attempt < MaxAttempts + requeues'[j]
       /\ row.attempt <= runs'[j]
  BY <1>1, <1>5, <1>6, <1>7, <1>9, BoundsAssumption DEF Row, RUNNABLE_STATUSES, TERMINAL_STATUSES
<1>11. backoff' \in [Jobs -> Waits]
  BY <1>1, <1>3, BackoffKeepsType DEF IInv
<1>12. \A v \in Workers \ {c} : ~(pc[v] = "running" /\ target[v] = j)
  BY <1>1 DEF FinishApiRun, IInv, RunningWorkerOwnsRow, Holding
<1>13. QED BY <1>1, <1>4, <1>6, <1>8, <1>10, <1>11, <1>12, CommitKeeps

-----------------------------------------------------------------------------
(* The environment's steps, and the whole of Next.                         *)

LEMMA EnvironmentKeeps ==
    ASSUME IInv,
           Tick \/ (\E j \in Jobs : ReseedProviders(j)) \/ UNCHANGED vars
    PROVE  IInv'
<1>1. /\ UNCHANGED <<job, pc, target, image, runs, requeues>>
      /\ requests' \in Nat /\ crashes' \in Nat /\ reseeds' \in Nat
  BY DEF Tick, ReseedProviders, vars, budgets, IInv, TypeOK
<1>2. disabled' \subseteq Jobs
  BY DEF Tick, ReseedProviders, vars, IInv, TypeOK
<1>3. backoff' \in [Jobs -> Waits]
  <2>1. CASE Tick
    <3>1. ASSUME NEW j \in Jobs PROVE backoff'[j] \in Waits
      <4>1. backoff[j] \in Waits
        BY DEF IInv, TypeOK
      <4>2. QED BY <2>1, <4>1, WaitsGrow DEF Tick, Waits
    <3>2. QED BY <2>1, <3>1 DEF Tick
  <2>2. CASE UNCHANGED backoff
    BY <2>2 DEF IInv, TypeOK
  <2>3. QED BY <2>1, <2>2 DEF ReseedProviders, vars
<1>4. TypeOK'
  BY <1>1, <1>2, <1>3 DEF IInv, TypeOK
<1>5. ActorRoles' /\ ImagesRunnable' /\ AttemptsCommitted'
  BY <1>1 DEF IInv, ActorRoles, ImagesRunnable, AttemptsCommitted
<1>6. RunningWorkerOwnsRow'
  BY <1>1, Zenon DEF IInv, RunningWorkerOwnsRow
<1>7. RowsWithinBudget' /\ ImagesWithinBudget'
  BY <1>1 DEF IInv, RowsWithinBudget, ImagesWithinBudget, WithinBudget
<1>8. QED BY <1>4, <1>5, <1>6, <1>7 DEF IInv

LEMMA NextKeeps == IInv /\ [Next]_vars => IInv'
<1> SUFFICES ASSUME IInv, [Next]_vars PROVE IInv'
  OBVIOUS
<1>1. ASSUME NEW j \in Jobs, CreateJob(j) \/ CreateAndRunJob(j) PROVE IInv'
  BY <1>1, CreateJobKeeps, CreateAndRunJobKeeps
<1>2. ASSUME NEW w \in Workers, WorkerStep(w) \/ Crash(w) PROVE IInv'
  BY <1>2, SelectCandidateKeeps, ClaimKeeps, FinishRunKeeps, RestartWorkerKeeps, RollbackKeeps
  DEF WorkerStep
<1>3. ASSUME NEW c \in Clients, ClientStep(c) PROVE IInv'
  BY <1>3, CancelJobKeeps, RetryJobKeeps, StartApiRunKeeps, FinishApiRunKeeps, RollbackKeeps
  DEF ClientStep
<1>4. ASSUME NEW c \in Clients, NEW op \in ClientOps, NEW j \in Jobs, ReadJob(c, op, j)
      PROVE  IInv'
  BY <1>4, ReadJobKeeps
<1>5. CASE Tick \/ (\E j \in Jobs : ReseedProviders(j)) \/ UNCHANGED vars
  BY <1>5, EnvironmentKeeps
<1>6. QED BY <1>1, <1>2, <1>3, <1>4, <1>5 DEF Next

LEMMA InvariantHolds == Spec => []IInv
BY InitIInv, NextKeeps, PTL DEF Spec

-----------------------------------------------------------------------------
(* The theorems.                                                           *)

(* Every variable keeps its type; in particular the wait before a retry    *)
(* never exceeds the cap of retry_delay_seconds, whatever the attempt,     *)
(* unless a provider asked for a longer one: that has no cap.              *)
THEOREM TypeSafety == Spec => []TypeOK
BY InvariantHolds, PTL DEF IInv

(* Single ownership: any number of workers may read the same candidate,    *)
(* yet the one whose conditional UPDATE (claim_next_job) takes the row     *)
(* executes it alone and on the version it holds.                          *)
THEOREM SingleOwnership == Spec => []RunningWorkerOwnsRow
BY InvariantHolds, PTL DEF IInv

(* Attempts are bounded by max_attempts plus the times the job was put     *)
(* back in the queue, whatever claims, API runs and requeues interleave,   *)
(* and rolled-back claims, crashes and rejected requests consume none.     *)
THEOREM BoundedAttempts == Spec => []AttemptBudget
<1>1. IInv => AttemptBudget
  BY DEF IInv, RowsWithinBudget, WithinBudget, AttemptsCommitted, AttemptBudget
<1>2. QED BY <1>1, InvariantHolds, PTL

(* While a worker executes a job only that worker changes its row.         *)
LEMMA OnlyOwnerCommits ==
    ASSUME IInv, Next, NEW w \in Workers, NEW j \in Jobs,
           pc[w] = "running", target[w] = j, job'[j] # job[j]
    PROVE  FinishRun(w)
<1>1. job[j].status \in RUNNABLE_STATUSES /\ Locked(j) /\ w \in Actors
  BY DEF IInv, ImagesRunnable, Locked, Actors, Holding
<1>2. ASSUME NEW a \in Actors, a # w, pc[a] \in Holding PROVE target[a] # j
  BY <1>2 DEF IInv, RunningWorkerOwnsRow
<1>3. ASSUME NEW a \in Actors, NEW row, job' = [job EXCEPT ![target[a]] = row] PROVE target[a] = j
  BY <1>3 DEF IInv, TypeOK
<1>4. ASSUME NEW k \in Jobs, CreateJob(k) \/ CreateAndRunJob(k) PROVE FALSE
  BY <1>1, <1>4 DEF CreateJob, CreateAndRunJob, IInv, TypeOK, RUNNABLE_STATUSES
<1>5. ASSUME NEW v \in Workers, FinishRun(v) PROVE v = w
  <2>1. v \in Actors /\ pc[v] \in Holding
    BY <1>5 DEF FinishRun, Actors, Holding
  <2>2. target[v] = j
    BY <1>3, <1>5, <2>1 DEF FinishRun
  <2>3. QED BY <1>2, <2>1, <2>2
<1>6. ASSUME NEW c \in Clients, CancelJob(c) \/ RetryJob(c) PROVE FALSE
  <2>1. target[c] = j
    BY <1>3, <1>6 DEF CancelJob, RetryJob, Actors
  <2>2. QED BY <1>1, <1>6, <2>1 DEF CancelJob, RetryJob
<1>7. ASSUME NEW c \in Clients, FinishApiRun(c) PROVE FALSE
  <2>1. c \in Actors /\ c # w /\ pc[c] \in Holding
    BY <1>7, ActorsAssumption DEF FinishApiRun, Actors, Holding
  <2>2. target[c] = j
    BY <1>3, <1>7, <2>1 DEF FinishApiRun
  <2>3. QED BY <1>2, <2>1, <2>2
<1>8. ASSUME NEW k \in Jobs, ReseedProviders(k) PROVE FALSE
  BY <1>8 DEF ReseedProviders
<1>9. ASSUME NEW v \in Workers,
             SelectCandidate(v) \/ Claim(v) \/ AbortRun(v) \/ RestartWorker(v) \/ Crash(v)
      PROVE  FALSE
  BY <1>9 DEF SelectCandidate, Claim, AbortRun, RestartWorker, Crash
<1>10. ASSUME NEW c \in Clients, StartApiRun(c) \/ RejectApiRun(c) PROVE FALSE
  BY <1>10 DEF StartApiRun, RejectApiRun
<1>11. ASSUME NEW c \in Clients, NEW op \in ClientOps, NEW k \in Jobs, ReadJob(c, op, k)
       PROVE  FALSE
  BY <1>11 DEF ReadJob
<1>12. ASSUME Tick PROVE FALSE
  BY <1>12 DEF Tick
<1>13. QED
  BY <1>4, <1>5, <1>6, <1>7, <1>8, <1>9, <1>10, <1>11, <1>12 DEF Next, WorkerStep, ClientStep

(* A cancellation that commits before a worker takes the row stops the     *)
(* import: the refresh after the UPDATE shows the worker the flag, and     *)
(* nobody changes the row until the worker has ended the job.              *)
THEOREM CommittedCancellationWins == Spec => CancelBeforeClaimWins
<1>1. ASSUME IInv, [Next]_vars,
             NEW w \in Workers, NEW j \in Jobs,
             pc[w] = "running", target[w] = j, job'[j] # job[j], job[j].cancel
      PROVE  job'[j].status \in {"cancelled", "failed"}
  <2>1. FinishRun(w)
    BY <1>1, OnlyOwnerCommits DEF vars
  <2>2. PICK row \in run_import_job(image[w]) : job' = [job EXCEPT ![j] = row]
    BY <1>1, <2>1 DEF FinishRun
  <2>3. image[w] \in Row /\ image[w].cancel
    BY <1>1 DEF IInv, TypeOK, RunningWorkerOwnsRow, Actors, Row
  <2>4. row.status \in {"cancelled", "failed"}
    BY <2>3, RunOutcome
  <2>5. QED BY <2>2, <2>4, <1>1 DEF IInv, TypeOK
<1>2. IInv /\ [Next]_vars =>
        [\A w \in Workers, j \in Jobs :
           (pc[w] = "running" /\ target[w] = j /\ job'[j] # job[j] /\ job[j].cancel)
              => job'[j].status \in {"cancelled", "failed"}]_vars
  BY <1>1
<1>3. QED BY <1>2, InvariantHolds, PTL DEF Spec, CancelBeforeClaimWins

-----------------------------------------------------------------------------
(* ImportQueue implements JobBoard.  Beside the invariant: a worker's own  *)
(* status is never committed, so what a request reads has none of it.      *)

NoRunCommitted == \A j \in Jobs : job[j].status # "running"
RInv == IInv /\ NoRunCommitted

(* A row with its status and one more of its fields changed, in full.      *)
LEMMA StatusAndFlag ==
    ASSUME NEW row \in Row, NEW status, NEW flag
    PROVE  [row EXCEPT !.status = status, !.cancel = flag]
             = [status |-> status, cancel |-> flag, attempt |-> row.attempt]
<1>1. /\ DOMAIN row = {"status", "cancel", "attempt"}
      /\ row = [x \in {"status", "cancel", "attempt"} |-> row[x]]
  BY DEF Row
<1>2. [row EXCEPT !.status = status, !.cancel = flag]
        = [x \in {"status", "cancel", "attempt"} |->
             IF x = "cancel" THEN flag ELSE IF x = "status" THEN status ELSE row[x]]
  BY <1>1
<1>3. QED BY <1>1, <1>2

LEMMA StatusAndAttempt ==
    ASSUME NEW row \in Row, NEW status, NEW n
    PROVE  [row EXCEPT !.status = status, !.attempt = n]
             = [status |-> status, cancel |-> row.cancel, attempt |-> n]
<1>1. /\ DOMAIN row = {"status", "cancel", "attempt"}
      /\ row = [x \in {"status", "cancel", "attempt"} |-> row[x]]
  BY DEF Row
<1>2. [row EXCEPT !.status = status, !.attempt = n]
        = [x \in {"status", "cancel", "attempt"} |->
             IF x = "attempt" THEN n ELSE IF x = "status" THEN status ELSE row[x]]
  BY <1>1
<1>3. QED BY <1>1, <1>2

(* The board knows the outcomes of a run, whatever status it was given.    *)
LEMMA OutcomesAreOnBoard ==
    ASSUME NEW row \in Row, NEW seen \in Row, row.cancel = seen.cancel,
           row.attempt = seen.attempt, NEW result \in run_import_job(row)
    PROVE  result \in Board!Outcomes(seen)
<1>1. PICK status \in {"failed"}
             \union (IF seen.cancel THEN {"cancelled"} ELSE {"succeeded"})
             \union (IF ~seen.cancel /\ seen.attempt + 1 < MaxAttempts THEN {"retrying"} ELSE {}) :
        result = EndRun(row, status)
  BY DEF run_import_job
<1>2. EndRun(row, status) = [seen EXCEPT !.status = status, !.attempt = @ + 1]
  <2>1. [seen EXCEPT !.status = status, !.attempt = @ + 1]
          = [status |-> status, cancel |-> seen.cancel, attempt |-> seen.attempt + 1]
    <3>1. [seen EXCEPT !.status = status, !.attempt = @ + 1]
            = [seen EXCEPT !.status = status, !.attempt = seen.attempt + 1]
      OBVIOUS
    <3>2. QED BY <3>1, StatusAndAttempt, Zenon
  <2>2. EndRun(row, status)
          = [status |-> status, cancel |-> seen.cancel, attempt |-> seen.attempt + 1]
    BY Zenon DEF EndRun
  <2>3. QED BY <2>1, <2>2
<1>3. QED BY <1>1, <1>2 DEF Board!Outcomes

(* A row that a run ends with, or that a request writes, is not running.   *)
LEMMA CommittedNotRunning ==
    ASSUME RInv, NEW j \in Jobs, NEW row, row.status # "running",
           job' = [job EXCEPT ![j] = row]
    PROVE  NoRunCommitted'
BY DEF RInv, IInv, TypeOK, NoRunCommitted

LEMMA OutcomeNotRunning ==
    ASSUME NEW row \in Row, NEW result \in run_import_job(row)
    PROVE  result.status # "running"
BY RunOutcome DEF TERMINAL_STATUSES

(* The desks: nothing but a client's own step changes what it has open.    *)
LEMMA DesksKeep ==
    ASSUME \A c \in Clients :
             pc'[c] = pc[c] /\ target'[c] = target[c] /\ image'[c] = image[c]
    PROVE  Desks' = Desks
BY DEF Desks

LEMMA WorkersHaveNoDesk ==
    ASSUME RInv, NEW w \in Workers, NEW state,
           \/ UNCHANGED <<pc, target, image>>
           \/ /\ pc' = [pc EXCEPT ![w] = state]
              /\ target' = target \/ \E j : target' = [target EXCEPT ![w] = j]
              /\ image' = image \/ \E row : image' = [image EXCEPT ![w] = row]
    PROVE  Desks' = Desks
<1>1. \A c \in Clients : c # w /\ c \in Actors
  BY ActorsAssumption DEF Actors
<1>2. \A c \in Clients : pc'[c] = pc[c] /\ target'[c] = target[c] /\ image'[c] = image[c]
  BY <1>1 DEF RInv, IInv, TypeOK
<1>3. QED BY <1>2, DesksKeep

LEMMA DeskCloses ==
    ASSUME RInv, NEW c \in Clients, EndTransaction(c, "idle")
    PROVE  Board!Close(c)
<1>1. /\ pc'[c] = "idle" /\ c \in Actors
      /\ \A d \in Clients \ {c} :
           pc'[d] = pc[d] /\ target'[d] = target[d] /\ image'[d] = image[d]
  BY DEF EndTransaction, MoveTo, RInv, IInv, TypeOK, Actors
<1>2. Desks'[c] = [kind |-> "none"]
  BY <1>1 DEF Desks
<1>3. \A d \in Clients \ {c} : Desks'[d] = Desks[d]
  BY <1>1 DEF Desks
<1>4. Desks' = [Desks EXCEPT ![c] = [kind |-> "none"]]
  BY <1>2, <1>3 DEF Desks
<1>5. QED BY <1>4 DEF Board!Close, Board!Nothing

LEMMA DeskShows ==
    ASSUME NEW c \in Clients, pc[c] # "idle"
    PROVE  /\ Desks[c].job = target[c] /\ Desks[c].seen = image[c]
           /\ Desks[c].kind = IF pc[c] = "restarting" THEN "restart"
                              ELSE IF pc[c] = "executing" THEN "execute" ELSE pc[c]
BY DEF Desks

-----------------------------------------------------------------------------
(* Each step is one of the board's, or does not show.                      *)

LEMMA BoardStarts == Init => NoRunCommitted /\ Board!Init
<1> SUFFICES ASSUME Init PROVE NoRunCommitted /\ Board!Init
  OBVIOUS
<1>1. NoRunCommitted
  BY DEF Init, NoRunCommitted, NoRow
<1>2. job = [j \in Jobs |-> Board!Absent] /\ runs = [j \in Jobs |-> 0]
      /\ requeues = [j \in Jobs |-> 0]
  BY DEF Init, NoRow, Board!Absent
<1>3. \A c \in Clients : pc[c] = "idle"
  BY DEF Init, Actors
<1>4. Desks = [c \in Clients |-> Board!Nothing]
  BY <1>3 DEF Desks, Board!Nothing
<1>5. QED BY <1>1, <1>2, <1>4 DEF Board!Init

LEMMA CreationsOnBoard ==
    ASSUME RInv, NEW j \in Jobs, CreateJob(j) \/ CreateAndRunJob(j)
    PROVE  NoRunCommitted' /\ (Board!Submit(j) \/ Board!SubmitAndRun(j))
<1>1. Desks' = Desks
  BY DesksKeep DEF CreateJob, CreateAndRunJob
<1>2. NewRow = Board!New /\ NewRow \in Row /\ NewRow.status # "running"
  BY NoRowIsARow DEF NewRow, NoRow, Board!New, Board!Absent
<1>3. CASE CreateJob(j)
  <2>1. NoRunCommitted'
    BY <1>2, <1>3, CommittedNotRunning DEF CreateJob
  <2>2. Board!Submit(j)
    BY <1>1, <1>2, <1>3 DEF CreateJob, Board!Submit
  <2>3. QED BY <2>1, <2>2
<1>4. CASE CreateAndRunJob(j)
  <2>1. PICK row \in run_import_job(NewRow) : job' = [job EXCEPT ![j] = row]
    BY <1>4 DEF CreateAndRunJob
  <2>2. NoRunCommitted'
    BY <1>2, <2>1, OutcomeNotRunning, CommittedNotRunning
  <2>3. row \in Board!Outcomes(Board!New)
    BY <1>2, <2>1, OutcomesAreOnBoard
  <2>4. Board!SubmitAndRun(j)
    BY <1>1, <1>4, <2>1, <2>3 DEF CreateAndRunJob, Board!SubmitAndRun, Board!Counted
  <2>5. QED BY <2>2, <2>4
<1>5. QED BY <1>3, <1>4

(* A run of a worker is work on the row as it is committed.                *)
LEMMA WorkOnBoard ==
    ASSUME RInv, NEW w \in Workers, FinishRun(w)
    PROVE  NoRunCommitted' /\ Board!Work(target[w])
<1> DEFINE j == target[w]
<1>1. w \in Actors /\ j \in Jobs /\ image[w] \in Row /\ job[j] \in Row
  BY DEF Actors, RInv, IInv, TypeOK
<1>2. /\ image[w].cancel = job[j].cancel /\ image[w].attempt = job[j].attempt
      /\ job[j].status \in RUNNABLE_STATUSES
  BY <1>1 DEF FinishRun, RInv, IInv, RunningWorkerOwnsRow, ImagesRunnable, Row
<1>3. PICK row \in run_import_job(image[w]) : job' = [job EXCEPT ![j] = row]
  BY DEF FinishRun
<1>4. row \in Board!Outcomes(job[j])
  BY <1>1, <1>2, <1>3, OutcomesAreOnBoard
<1>5. Desks' = Desks
  BY WorkersHaveNoDesk DEF FinishRun, EndTransaction, MoveTo
<1>6. NoRunCommitted'
  BY <1>1, <1>3, OutcomeNotRunning, CommittedNotRunning
<1>7. runs' = [runs EXCEPT ![j] = @ + 1] /\ requeues' = requeues
  BY DEF FinishRun
<1>8. Board!Work(j)
  BY <1>2, <1>3, <1>4, <1>5, <1>7
  DEF Board!Work, Board!Runnable, Board!Counted, RUNNABLE_STATUSES
<1>9. QED BY <1>6, <1>8

(* What else a worker does, and what the environment does, does not show.  *)
LEMMA OthersStutter ==
    ASSUME RInv,
           \/ \E w \in Workers : \/ SelectCandidate(w) \/ Claim(w) \/ AbortRun(w)
                                 \/ RestartWorker(w) \/ Crash(w)
           \/ Tick \/ (\E j \in Jobs : ReseedProviders(j)) \/ UNCHANGED vars
    PROVE  NoRunCommitted' /\ UNCHANGED Board!vars
<1>1. UNCHANGED <<job, runs, requeues>>
  BY DEF SelectCandidate, Claim, AbortRun, RestartWorker, Crash, Tick, ReseedProviders, vars
<1>2. Desks' = Desks
  <2>1. ASSUME NEW w \in Workers,
               SelectCandidate(w) \/ Claim(w) \/ AbortRun(w) \/ RestartWorker(w) \/ Crash(w)
        PROVE  Desks' = Desks
    <3>1. ASSUME SelectCandidate(w) PROVE Desks' = Desks
      BY <3>1, WorkersHaveNoDesk DEF SelectCandidate, MoveTo
    <3>2. ASSUME Claim(w) PROVE Desks' = Desks
      BY <3>2, WorkersHaveNoDesk DEF Claim, MoveTo, EndTransaction
    <3>3. ASSUME AbortRun(w) \/ Crash(w) PROVE Desks' = Desks
      BY <3>3, WorkersHaveNoDesk DEF AbortRun, Crash, MoveTo, EndTransaction
    <3>4. ASSUME RestartWorker(w) PROVE Desks' = Desks
      BY <3>4, WorkersHaveNoDesk DEF RestartWorker, MoveTo
    <3>5. QED BY <2>1, <3>1, <3>2, <3>3, <3>4
  <2>2. ASSUME Tick \/ (\E j \in Jobs : ReseedProviders(j)) \/ UNCHANGED vars
        PROVE  Desks' = Desks
    BY <2>2, DesksKeep DEF Tick, ReseedProviders, vars
  <2>3. QED BY <2>1, <2>2
<1>3. NoRunCommitted'
  BY <1>1 DEF RInv, NoRunCommitted
<1>4. QED BY <1>1, <1>2, <1>3 DEF Board!vars

(* A request that has read a job is one that the board admits.             *)
LEMMA ReadOnBoard ==
    ASSUME RInv, NEW c \in Clients, NEW op \in ClientOps, NEW j \in Jobs, ReadJob(c, op, j)
    PROVE  NoRunCommitted' /\ Board!Read(c, op, j)
<1>1. /\ op \in {"cancel", "retry", "restart", "execute"} /\ c \in Actors
      /\ job[j] \in Row /\ job[j].status # "running"
  BY OpsAssumption DEF AllClientOps, Actors, RInv, IInv, TypeOK, NoRunCommitted
<1>2. /\ pc[c] = "idle" /\ Accepts(op, j)
      /\ pc' = [pc EXCEPT ![c] = op]
      /\ target' = [target EXCEPT ![c] = j] /\ image' = [image EXCEPT ![c] = job[j]]
      /\ UNCHANGED <<job, runs, requeues>>
  BY DEF ReadJob, MoveTo
<1>3. Board!Admits(op, job[j])
  BY <1>1, <1>2
  DEF Accepts, Board!Admits, Board!Runnable, Row, Statuses, TERMINAL_STATUSES, RUNNABLE_STATUSES,
      RESTARTABLE_STATUSES
<1>4. /\ pc'[c] = op /\ target'[c] = j /\ image'[c] = job[j]
      /\ \A d \in Clients \ {c} :
           pc'[d] = pc[d] /\ target'[d] = target[d] /\ image'[d] = image[d]
  BY <1>1, <1>2 DEF RInv, IInv, TypeOK, Actors
<1>5. Desks[c] = [kind |-> "none"]
  BY <1>2 DEF Desks
<1>6. Desks'[c] = [kind |-> op, job |-> j, seen |-> job[j]]
  BY <1>1, <1>4 DEF Desks
<1>7. \A d \in Clients \ {c} : Desks'[d] = Desks[d]
  BY <1>4 DEF Desks
<1>8. Desks' = [Desks EXCEPT ![c] = [kind |-> op, job |-> j, seen |-> job[j]]]
  BY <1>6, <1>7 DEF Desks
<1>9. NoRunCommitted'
  BY <1>2 DEF RInv, NoRunCommitted
<1>10. QED BY <1>2, <1>3, <1>5, <1>8, <1>9 DEF Board!Read, Board!Nothing

LEMMA CancelOnBoard ==
    ASSUME RInv, NEW c \in Clients, CancelJob(c)
    PROVE  NoRunCommitted' /\ Board!Cancel(c)
<1> DEFINE j == target[c]
           row == Flush(job[j], image[c], request_cancellation(image[c]))
           asked == IF image[c].status = "queued" THEN "cancelled" ELSE image[c].status
<1>1. c \in Actors /\ j \in Jobs /\ image[c] \in Row /\ job[j] \in Row /\ job[j].status # "running"
  BY DEF Actors, RInv, IInv, TypeOK, NoRunCommitted
<1>2. /\ pc[c] = "cancel" /\ job' = [job EXCEPT ![j] = row]
      /\ EndTransaction(c, "idle") /\ UNCHANGED <<runs, requeues>>
  BY DEF CancelJob
<1>3. row = [job[j] EXCEPT
               !.status = IF image[c].status = "queued" THEN "cancelled" ELSE job[j].status,
               !.cancel = job[j].cancel \/ ~image[c].cancel]
  <2>1. (IF TRUE # image[c].cancel THEN TRUE ELSE job[j].cancel)
          = (job[j].cancel \/ ~image[c].cancel)
    BY <1>1 DEF Row
  <2>2. (IF asked # image[c].status THEN asked ELSE job[j].status)
          = IF image[c].status = "queued" THEN "cancelled" ELSE job[j].status
    OBVIOUS
  <2>3. row = [status |-> IF asked # image[c].status THEN asked ELSE job[j].status,
               cancel |-> IF TRUE # image[c].cancel THEN TRUE ELSE job[j].cancel,
               attempt |-> job[j].attempt]
    BY <1>1 DEF Flush, request_cancellation
  <2> HIDE DEF row
  <2>4. row = [status |-> IF image[c].status = "queued" THEN "cancelled" ELSE job[j].status,
               cancel |-> job[j].cancel \/ ~image[c].cancel,
               attempt |-> job[j].attempt]
    BY <2>1, <2>2, <2>3, Zenon
  <2>5. QED BY <1>1, <2>4, StatusAndFlag, Zenon
<1>4. row.status # "running"
  BY <1>1, <1>3 DEF Row
<1> HIDE DEF row
<1>5. NoRunCommitted'
  BY <1>1, <1>2, <1>4, CommittedNotRunning
<1>6. Desks[c].job = j /\ Desks[c].seen = image[c] /\ Desks[c].kind = "cancel"
  BY <1>2, DeskShows
<1>7. Board!Close(c)
  BY <1>2, DeskCloses
<1>8. job' = [job EXCEPT
                ![j].status = IF image[c].status = "queued" THEN "cancelled" ELSE @,
                ![j].cancel = @ \/ ~image[c].cancel]
  BY <1>1, <1>2, <1>3 DEF RInv, IInv, TypeOK, Row
<1>9. QED BY <1>2, <1>5, <1>6, <1>7, <1>8 DEF Board!Cancel

LEMMA RetryOnBoard ==
    ASSUME RInv, NEW c \in Clients, RetryJob(c)
    PROVE  NoRunCommitted' /\ Board!Retry(c)
<1> DEFINE j == target[c]
           row == Flush(job[j], image[c], restart_import_job(image[c]))
<1>1. c \in Actors /\ j \in Jobs /\ image[c] \in Row /\ job[j] \in Row
  BY DEF Actors, RInv, IInv, TypeOK
<1>2. /\ pc[c] = "retry" /\ job' = [job EXCEPT ![j] = row]
      /\ requeues' = [requeues EXCEPT ![j] = @ + 1]
      /\ EndTransaction(c, "idle") /\ UNCHANGED runs
  BY DEF RetryJob
<1>3. image[c].status # "queued"
  BY <1>1, <1>2 DEF RInv, IInv, ImagesRunnable, RESTARTABLE_STATUSES
<1>4. row = [job[j] EXCEPT !.status = "queued", !.cancel = job[j].cancel /\ ~image[c].cancel]
  <2>1. (IF FALSE # image[c].cancel THEN FALSE ELSE job[j].cancel)
          = (job[j].cancel /\ ~image[c].cancel)
    BY <1>1 DEF Row
  <2>2. row = [status |-> "queued",
               cancel |-> IF FALSE # image[c].cancel THEN FALSE ELSE job[j].cancel,
               attempt |-> job[j].attempt]
    BY <1>1, <1>3 DEF Flush, restart_import_job
  <2> HIDE DEF row
  <2>3. row = [status |-> "queued", cancel |-> job[j].cancel /\ ~image[c].cancel,
               attempt |-> job[j].attempt]
    BY <2>1, <2>2, Zenon
  <2>4. QED BY <1>1, <2>3, StatusAndFlag, Zenon
<1>5. row.status # "running"
  BY <1>1, <1>4 DEF Row
<1> HIDE DEF row
<1>6. NoRunCommitted'
  BY <1>1, <1>2, <1>5, CommittedNotRunning
<1>7. Desks[c].job = j /\ Desks[c].seen = image[c] /\ Desks[c].kind = "retry"
  BY <1>2, DeskShows
<1>8. Board!Close(c)
  BY <1>2, DeskCloses
<1>9. job' = [job EXCEPT ![j].status = "queued", ![j].cancel = @ /\ ~image[c].cancel]
  BY <1>1, <1>2, <1>4 DEF RInv, IInv, TypeOK, Row
<1>10. QED BY <1>2, <1>6, <1>7, <1>8, <1>9 DEF Board!Retry, Board!Counted

(* A run by a request is of what it has read, whatever the row is by then. *)
LEMMA ApiRunOnBoard ==
    ASSUME RInv, NEW c \in Clients, FinishApiRun(c)
    PROVE  NoRunCommitted' /\ (Board!Execute(c) \/ Board!Restart(c))
<1> DEFINE j == target[c]
           start == IF pc[c] = "restarting" THEN restart_import_job(image[c]) ELSE image[c]
<1>1. c \in Actors /\ j \in Jobs /\ image[c] \in Row /\ job[j] \in Row
  BY DEF Actors, RInv, IInv, TypeOK
<1>2. PICK ended \in run_import_job(start) :
        job' = [job EXCEPT ![j] = [ended EXCEPT !.cancel =
                  IF ended.cancel # image[c].cancel THEN ended.cancel ELSE job[j].cancel]]
  BY DEF FinishApiRun
<1>3. /\ runs' = [runs EXCEPT ![j] = @ + 1]
      /\ requeues' = IF pc[c] = "restarting" THEN [requeues EXCEPT ![j] = @ + 1] ELSE requeues
      /\ EndTransaction(c, "idle") /\ pc[c] \in {"restarting", "executing"}
  BY DEF FinishApiRun
<1>4. start \in Row /\ start.attempt = image[c].attempt
      /\ start.cancel = IF pc[c] = "restarting" THEN FALSE ELSE image[c].cancel
  BY <1>1 DEF restart_import_job, Row, Statuses
<1> HIDE DEF start
<1>5. ended \in Row /\ ended.cancel = start.cancel /\ ended.status # "running"
  BY <1>2, <1>4, RunOutcome, OutcomeNotRunning
<1> DEFINE row == [ended EXCEPT !.cancel =
                     IF ended.cancel # image[c].cancel THEN ended.cancel ELSE job[j].cancel]
<1>6. row.status # "running"
  BY <1>5 DEF Row
<1>7. job' = [job EXCEPT ![j] = row]
  BY <1>2
<1>8. NoRunCommitted'
  <2> HIDE DEF row
  <2>1. QED BY <1>1, <1>6, <1>7, CommittedNotRunning
<1>9. Board!Close(c)
  BY <1>3, DeskCloses
<1>10. CASE pc[c] = "executing"
  <2>1. Desks[c].job = j /\ Desks[c].seen = image[c] /\ Desks[c].kind = "execute"
    BY <1>10, DeskShows
  <2>2. ended \in Board!Outcomes(image[c])
    BY <1>1, <1>2, <1>4, <1>10, OutcomesAreOnBoard
  <2>3. row = [ended EXCEPT !.cancel = job[j].cancel]
    BY <1>4, <1>5, <1>10
  <2>4. Board!Execute(c)
    <3> HIDE DEF row
    <3>1. QED BY <1>3, <1>7, <1>9, <1>10, <2>1, <2>2, <2>3 DEF Board!Execute, Board!Counted
  <2>5. QED BY <1>8, <2>4
<1>11. CASE pc[c] = "restarting"
  <2>1. Desks[c].job = j /\ Desks[c].seen = image[c] /\ Desks[c].kind = "restart"
    BY <1>11, DeskShows
  <2>2. ended \in Board!Outcomes([image[c] EXCEPT !.cancel = FALSE])
    <3>1. /\ [image[c] EXCEPT !.cancel = FALSE] \in Row
          /\ [image[c] EXCEPT !.cancel = FALSE].cancel = FALSE
          /\ [image[c] EXCEPT !.cancel = FALSE].attempt = image[c].attempt
      BY <1>1 DEF Row
    <3>2. QED BY <1>2, <1>4, <1>11, <3>1, OutcomesAreOnBoard
  <2>3. row = [ended EXCEPT !.cancel = job[j].cancel /\ ~image[c].cancel]
    <3>1. (IF ended.cancel # image[c].cancel THEN ended.cancel ELSE job[j].cancel)
            = (job[j].cancel /\ ~image[c].cancel)
      BY <1>1, <1>4, <1>5, <1>11 DEF Row
    <3>2. QED BY <3>1
  <2>4. Board!Restart(c)
    <3> HIDE DEF row
    <3>1. QED BY <1>3, <1>7, <1>9, <1>11, <2>1, <2>2, <2>3 DEF Board!Restart, Board!Counted
  <2>5. QED BY <1>8, <2>4
<1>12. QED BY <1>3, <1>10, <1>11

LEMMA RequestsOnBoard ==
    ASSUME RInv, NEW c \in Clients, StartApiRun(c) \/ RejectApiRun(c)
    PROVE  NoRunCommitted' /\ (UNCHANGED Board!vars \/ Board!Withdraw(c))
<1>1. UNCHANGED <<job, runs, requeues>>
  BY DEF StartApiRun, RejectApiRun
<1>2. NoRunCommitted'
  BY <1>1 DEF RInv, NoRunCommitted
<1>3. CASE StartApiRun(c)
  <2>1. /\ pc[c] \in {"restart", "execute"} /\ c \in Actors /\ UNCHANGED <<target, image>>
        /\ pc' = [pc EXCEPT ![c] = IF pc[c] = "restart" THEN "restarting" ELSE "executing"]
    BY <1>3 DEF StartApiRun, MoveTo, Actors
  <2>2. /\ pc'[c] = IF pc[c] = "restart" THEN "restarting" ELSE "executing"
        /\ \A d \in Clients \ {c} : pc'[d] = pc[d]
    BY <2>1 DEF RInv, IInv, TypeOK, Actors
  <2>3. Desks'[c] = Desks[c]
    BY <2>1, <2>2 DEF Desks
  <2>4. \A d \in Clients \ {c} : Desks'[d] = Desks[d]
    BY <2>1, <2>2 DEF Desks
  <2>5. Desks' = Desks
    BY <2>3, <2>4 DEF Desks
  <2>6. QED BY <1>1, <1>2, <2>5 DEF Board!vars
<1>4. CASE RejectApiRun(c)
  <2>1. pc[c] \in {"restarting", "executing"} /\ EndTransaction(c, "idle")
    BY <1>4 DEF RejectApiRun
  <2>2. Desks[c].kind \in {"execute", "restart"}
    BY <2>1, DeskShows
  <2>3. Board!Close(c)
    BY <2>1, DeskCloses
  <2>4. QED BY <1>1, <1>2, <2>2, <2>3 DEF Board!Withdraw
<1>5. QED BY <1>3, <1>4

LEMMA StepOnBoard == RInv /\ [Next]_vars => NoRunCommitted' /\ [Board!Next]_(Board!vars)
<1> SUFFICES ASSUME RInv, [Next]_vars PROVE NoRunCommitted' /\ [Board!Next]_(Board!vars)
  OBVIOUS
<1>1. ASSUME NEW j \in Jobs, CreateJob(j) \/ CreateAndRunJob(j)
      PROVE  NoRunCommitted' /\ Board!Next
  BY <1>1, CreationsOnBoard DEF Board!Next
<1>2. ASSUME NEW w \in Workers, FinishRun(w) PROVE NoRunCommitted' /\ Board!Next
  <2>1. target[w] \in Jobs
    BY DEF RInv, IInv, TypeOK, Actors
  <2>2. QED BY <1>2, <2>1, WorkOnBoard DEF Board!Next
<1>3. ASSUME NEW c \in Clients, NEW op \in ClientOps, NEW j \in Jobs, ReadJob(c, op, j)
      PROVE  NoRunCommitted' /\ Board!Next
  <2>1. op \in {"cancel", "retry", "restart", "execute"}
    BY OpsAssumption DEF AllClientOps
  <2>2. QED BY <1>3, <2>1, ReadOnBoard DEF Board!Next
<1>4. ASSUME NEW c \in Clients, CancelJob(c) \/ RetryJob(c) \/ FinishApiRun(c)
      PROVE  NoRunCommitted' /\ Board!Next
  BY <1>4, CancelOnBoard, RetryOnBoard, ApiRunOnBoard DEF Board!Next
<1>5. ASSUME NEW c \in Clients, StartApiRun(c) \/ RejectApiRun(c)
      PROVE  NoRunCommitted' /\ [Board!Next]_(Board!vars)
  BY <1>5, RequestsOnBoard DEF Board!Next
<1>6. CASE \/ \E w \in Workers : \/ SelectCandidate(w) \/ Claim(w) \/ AbortRun(w)
                                 \/ RestartWorker(w) \/ Crash(w)
           \/ Tick \/ (\E j \in Jobs : ReseedProviders(j)) \/ UNCHANGED vars
  BY <1>6, OthersStutter
<1>7. QED BY <1>1, <1>2, <1>3, <1>4, <1>5, <1>6 DEF Next, WorkerStep, ClientStep

(* The import queue is a board of jobs (claim_next_job, execute_claimed_job, *)
(* request_cancellation, restart_import_job, run_import_job): whatever     *)
(* workers, claims, waits, crashes and requests overlap, each execution by *)
(* a worker takes effect in one step on the row as it is committed.        *)
THEOREM QueueImplementsBoard == Spec => ImplementsBoard
<1>1. Init => RInv /\ Board!Init
  BY InitIInv, BoardStarts DEF RInv
<1>2. RInv /\ [Next]_vars => RInv'
  BY NextKeeps, StepOnBoard DEF RInv
<1>3. RInv /\ [Next]_vars => [Board!Next]_(Board!vars)
  BY StepOnBoard
<1>4. QED BY <1>1, <1>2, <1>3, PTL DEF Spec, ImplementsBoard, Board!Spec
=============================================================================
