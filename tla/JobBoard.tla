------------------------------ MODULE JobBoard ------------------------------
(***************************************************************************)
(* What the import queue promises (packages/market_data), whatever         *)
(* workers, claims, row locks, delays, provider changes and crashes there  *)
(* are: a board of jobs.  Work on a job by a worker is one atomic step on  *)
(* the job as it stands.  A request is two: it reads the job, and later    *)
(* writes what it made of what it had read, over whatever the job is then. *)
(* ImportQueue implements this specification.                              *)
(***************************************************************************)
EXTENDS Integers

CONSTANTS
    Jobs,           \* import jobs
    Clients,        \* who may have a request open
    MaxAttempts     \* attempts granted with the creation of a job

VARIABLES
    board,          \* the job's status, flag and attempts
    desks,          \* the open request of each client
    done,           \* executions of each job that counted
    returned        \* times that a job was put back into the queue

vars == <<board, desks, done, returned>>

Runnable == {"queued", "retrying"}
Absent == [status |-> "absent", cancel |-> FALSE, attempt |-> 0]
New == [Absent EXCEPT !.status = "queued"]
Nothing == [kind |-> "none"]

Init ==
    /\ board = [j \in Jobs |-> Absent]
    /\ desks = [c \in Clients |-> Nothing]
    /\ done = [j \in Jobs |-> 0]
    /\ returned = [j \in Jobs |-> 0]

(* An execution makes one attempt.  A job asked to stop succeeds no more   *)
(* and is not retried; the last attempt is not retried either.             *)
Outcomes(row) ==
    {[row EXCEPT !.status = status, !.attempt = @ + 1] :
        status \in {"failed"}
          \union (IF row.cancel THEN {"cancelled"} ELSE {"succeeded"})
          \union (IF ~row.cancel /\ row.attempt + 1 < MaxAttempts THEN {"retrying"} ELSE {})}

Counted(count, j) == [count EXCEPT ![j] = @ + 1]

Submit(j) ==
    /\ board[j].status = "absent"
    /\ board' = [board EXCEPT ![j] = New]
    /\ UNCHANGED <<desks, done, returned>>

SubmitAndRun(j) ==
    /\ board[j].status = "absent"
    /\ \E row \in Outcomes(New) : board' = [board EXCEPT ![j] = row]
    /\ done' = Counted(done, j)
    /\ UNCHANGED <<desks, returned>>

Work(j) ==
    /\ board[j].status \in Runnable
    /\ \E row \in Outcomes(board[j]) : board' = [board EXCEPT ![j] = row]
    /\ done' = Counted(done, j)
    /\ UNCHANGED <<desks, returned>>

Admits(kind, row) ==
    CASE kind = "cancel"  -> row.status \in Runnable
      [] kind = "execute" -> row.status \in Runnable
      [] OTHER            -> row.status \in {"failed", "retrying", "cancelled"}

Read(c, kind, j) ==
    /\ desks[c] = Nothing /\ Admits(kind, board[j])
    /\ desks' = [desks EXCEPT ![c] = [kind |-> kind, job |-> j, seen |-> board[j]]]
    /\ UNCHANGED <<board, done, returned>>

Close(c) == desks' = [desks EXCEPT ![c] = Nothing]

(* Cancels what was seen in the queue, and flags the job.                  *)
Cancel(c) ==
    /\ desks[c].kind = "cancel"
    /\ LET seen == desks[c].seen
       IN  board' = [board EXCEPT
             ![desks[c].job].status = IF seen.status = "queued" THEN "cancelled" ELSE @,
             ![desks[c].job].cancel = @ \/ ~seen.cancel]
    /\ Close(c)
    /\ UNCHANGED <<done, returned>>

(* Queues the job again and takes back the flag that was seen, if any.     *)
Retry(c) ==
    /\ desks[c].kind = "retry"
    /\ board' = [board EXCEPT
         ![desks[c].job].status = "queued",
         ![desks[c].job].cancel = @ /\ ~desks[c].seen.cancel]
    /\ returned' = Counted(returned, desks[c].job)
    /\ Close(c)
    /\ UNCHANGED done

(* Runs the job that was seen.                                             *)
Execute(c) ==
    /\ desks[c].kind = "execute"
    /\ LET j == desks[c].job
       IN  /\ \E row \in Outcomes(desks[c].seen) :
                board' = [board EXCEPT ![j] = [row EXCEPT !.cancel = board[j].cancel]]
           /\ done' = Counted(done, j)
    /\ Close(c)
    /\ UNCHANGED returned

(* Both: runs the job that was seen without its flag.                      *)
Restart(c) ==
    /\ desks[c].kind = "restart"
    /\ LET j == desks[c].job
           seen == desks[c].seen
       IN  /\ \E row \in Outcomes([seen EXCEPT !.cancel = FALSE]) :
                board' = [board EXCEPT ![j] =
                            [row EXCEPT !.cancel = board[j].cancel /\ ~seen.cancel]]
           /\ done' = Counted(done, j) /\ returned' = Counted(returned, j)
    /\ Close(c)

(* Refused after all, with no effect.                                      *)
Withdraw(c) ==
    /\ desks[c].kind \in {"execute", "restart"}
    /\ Close(c)
    /\ UNCHANGED <<board, done, returned>>

Next ==
    \/ \E j \in Jobs : Submit(j) \/ SubmitAndRun(j) \/ Work(j)
    \/ \E c \in Clients :
         \/ \E kind \in {"cancel", "retry", "restart", "execute"}, j \in Jobs : Read(c, kind, j)
         \/ Cancel(c) \/ Retry(c) \/ Execute(c) \/ Restart(c) \/ Withdraw(c)

Spec == Init /\ [][Next]_vars
=============================================================================
