---------------------------- MODULE AuthAdmission ----------------------------
(***************************************************************************)
(* What stands before a password hash in native authentication             *)
(* (packages/auth/native: throttle and hash_slot): attempts are counted in *)
(* fixed windows, for everybody, per account bucket and per source bucket; *)
(* hashing takes a slot of the process and one of the database.            *)
(*                                                                         *)
(* throttle reads the clock, then waits for the row of the global bucket,  *)
(* which serializes admissions.  hash_slot takes the semaphore of its      *)
(* process without waiting, opens a connection, and tries the two advisory *)
(* locks, which the database frees with their connection.                  *)
(***************************************************************************)
EXTENDS Integers, FiniteSets, FiniteSetsExt

CONSTANTS
    Processes,          \* API processes
    Attempts,           \* sign-ins: requests of one password each
    Keys,               \* Keys[a]: the buckets of an attempt, "global" is one
    Home,               \* Home[a]: the process that serves it
    Limits,             \* Limits[k]: the budget of a bucket
    Concurrency,        \* HASH_CONCURRENCY
    Window,             \* the length of a window
    Patience,           \* bound on the wait for the global row
    LastMoment          \* bound on the clock

VARIABLES
    seconds,            \* utc_now()
    buckets,            \* auth_rate_buckets
    gate,               \* _HASH_GATE of each process
    locks,              \* advisory lock |-> the attempt whose connection holds it
    attempt,            \* where each attempt is
    admitted            \* history: admissions of each bucket at each moment

vars == <<seconds, buckets, gate, locks, attempt, admitted>>

Moments == 0..LastMoment
AllKeys == UNION {Keys[a] : a \in Attempts}
NoBucket == [attempts |-> 0, expires_at |-> -1]
AuthRateBucket == [attempts : Nat, expires_at : 0..(LastMoment + Window)]
Free == "free"
Arrived(t) == [step |-> "arrived", at |-> t]
At(step) == [step |-> step]
Steps == {"idle", "admitted", "gated", "hashing", "unlocked"}

TypeOK ==
    /\ seconds \in Moments
    /\ \A k \in AllKeys : buckets[k] \in AuthRateBucket \union {NoBucket}
    /\ gate \in [Processes -> 0..Concurrency]
    /\ \A l \in 1..Concurrency : locks[l] \in Attempts \union {Free}
    /\ \A a \in Attempts : attempt[a].step \in Steps \union {"arrived"}

Init ==
    /\ seconds = 0
    /\ buckets = [k \in AllKeys |-> NoBucket]
    /\ gate = [p \in Processes |-> Concurrency]
    /\ locks = [l \in 1..Concurrency |-> Free]
    /\ attempt = [a \in Attempts |-> At("idle")]
    /\ admitted = [k \in AllKeys |-> [t \in Moments |-> 0]]

Goto(a, step) == attempt' = [attempt EXCEPT ![a] = At(step)]
Slots == <<gate, locks>>

Tick ==
    /\ seconds < LastMoment
    /\ \A a \in Attempts : attempt[a].step = "arrived" => seconds - attempt[a].at < Patience
    /\ seconds' = seconds + 1
    /\ UNCHANGED <<buckets, Slots, attempt, admitted>>

Arrive(a) ==
    /\ attempt[a] = At("idle")
    /\ attempt' = [attempt EXCEPT ![a] = Arrived(seconds)]
    /\ UNCHANGED <<seconds, buckets, Slots, admitted>>

-----------------------------------------------------------------------------
(* The windows.                                                            *)

Fresh(now) == [attempts |-> 0, expires_at |-> now + Window]
(* A bucket as the transaction sees it: the global row is inserted before  *)
(* it is read, expired rows are deleted or started anew.                   *)
Current(k, now) ==
    IF buckets[k] = NoBucket \/ buckets[k].expires_at <= now THEN Fresh(now) ELSE buckets[k]
(* A defect: one more than the limit.                                      *)
LimitedLate(a, now) == \E k \in Keys[a] : Current(k, now).attempts > Limits[k]
Limited(a, now) == \E k \in Keys[a] : Current(k, now).attempts >= Limits[k]
Swept(k, now) ==
    IF k # "global" /\ buckets[k].expires_at <= now THEN NoBucket ELSE buckets[k]
Counted(a, now) ==
    [k \in AllKeys |->
        IF k \notin Keys[a] THEN Swept(k, now)
        ELSE IF Limited(a, now) THEN Current(k, now)
        ELSE [Current(k, now) EXCEPT !.attempts = @ + 1]]

Noted(a) == [k \in AllKeys |-> IF k \in Keys[a] THEN [admitted[k] EXCEPT ![seconds] = @ + 1]
                              ELSE admitted[k]]

throttle(a) ==
    LET now == attempt[a].at
    IN  /\ attempt[a].step = "arrived"
        /\ buckets' = Counted(a, now)
        /\ IF Limited(a, now)
           THEN Goto(a, "idle") /\ UNCHANGED admitted
           ELSE /\ Goto(a, "admitted")
                /\ admitted' = Noted(a)
        /\ UNCHANGED <<seconds, Slots>>

-----------------------------------------------------------------------------
(* The slots.                                                              *)

AcquireGate(a) ==
    /\ attempt[a] = At("admitted")
    /\ IF gate[Home[a]] = 0
       THEN Goto(a, "idle") /\ UNCHANGED gate
       ELSE /\ gate' = [gate EXCEPT ![Home[a]] = @ - 1]
            /\ Goto(a, "gated")
    /\ UNCHANGED <<seconds, buckets, locks, admitted>>

Opened(a) == gate' = [gate EXCEPT ![Home[a]] = @ + 1]
Unlocked(a) == [l \in 1..Concurrency |-> IF locks[l] = a THEN Free ELSE locks[l]]

(* A defect: an attempt that finds no lock keeps its place at the gate.    *)
TryLocks_leaking(a) ==
    /\ attempt[a] = At("gated")
    /\ IF \E l \in 1..Concurrency : locks[l] = Free
       THEN /\ locks' = [locks EXCEPT ![CHOOSE l \in 1..Concurrency : /\ locks[l] = Free
                            /\ \A m \in 1..(l - 1) : locks[m] # Free] = a]
            /\ Goto(a, "hashing") /\ UNCHANGED gate
       ELSE Goto(a, "idle") /\ UNCHANGED <<gate, locks>>
    /\ UNCHANGED <<seconds, buckets, admitted>>

TryLocks(a) ==
    /\ attempt[a] = At("gated")
    /\ IF \E l \in 1..Concurrency : locks[l] = Free
       THEN /\ locks' = [locks EXCEPT ![CHOOSE l \in 1..Concurrency : /\ locks[l] = Free
                            /\ \A m \in 1..(l - 1) : locks[m] # Free] = a]
            /\ Goto(a, "hashing") /\ UNCHANGED gate
       ELSE Goto(a, "idle") /\ Opened(a) /\ UNCHANGED locks
    /\ UNCHANGED <<seconds, buckets, admitted>>

(* The hash is done, or raises, or no connection is to be had.             *)
Release(a) ==
    /\ attempt[a].step \in {"gated", "hashing", "unlocked"}
    /\ Opened(a)
    /\ locks' = Unlocked(a)
    /\ Goto(a, "idle")
    /\ UNCHANGED <<seconds, buckets, admitted>>

(* The database drops the connection of a hash that is running.            *)
LoseConnection(a) ==
    /\ attempt[a] = At("hashing")
    /\ locks' = Unlocked(a)
    /\ Goto(a, "unlocked")
    /\ UNCHANGED <<seconds, buckets, gate, admitted>>

(* A process dies: with its semaphore, its connections, its attempts.      *)
Crash(p) ==
    /\ \E a \in Attempts : Home[a] = p /\ attempt[a] # At("idle")
    /\ gate' = [gate EXCEPT ![p] = Concurrency]
    /\ locks' = [l \in 1..Concurrency |->
                    IF locks[l] # Free /\ Home[locks[l]] = p THEN Free ELSE locks[l]]
    /\ attempt' = [a \in Attempts |-> IF Home[a] = p THEN At("idle") ELSE attempt[a]]
    /\ UNCHANGED <<seconds, buckets, admitted>>

Next ==
    \/ Tick
    \/ \E a \in Attempts :
         \/ Arrive(a) \/ throttle(a) \/ AcquireGate(a) \/ TryLocks(a)
         \/ Release(a) \/ LoseConnection(a)
    \/ \E p \in Processes : Crash(p)

Spec == Init /\ [][Next]_vars

-----------------------------------------------------------------------------
(* Properties.                                                             *)

(* Windows are fixed and an admission may be counted after a wait, so a    *)
(* limit is no bound on every stretch of a window's length; but a stretch  *)
(* shorter by the longest wait meets at most one new window, and no bucket *)
(* admits more than twice its limit in it.                                 *)
AdmissionsAreBounded ==
    \A k \in AllKeys, t \in Moments :
        MapThenSumSet(LAMBDA u : admitted[k][u],
                      {u \in Moments : t <= u /\ u < t + Window - Patience}) <= 2 * Limits[k]

(* Every way out of a hash gives back what it took, whatever was lost      *)
(* meanwhile: a process's gate misses just the attempts inside it, a lock  *)
(* is held by an attempt that hashes, and hashes with a live connection    *)
(* never exceed the limit of the whole deployment.                         *)
SlotsAreKept ==
    /\ \A p \in Processes :
         gate[p] + Cardinality({a \in Attempts : /\ Home[a] = p
                       /\ attempt[a].step \in {"gated", "hashing", "unlocked"}}) = Concurrency
    /\ {locks[l] : l \in 1..Concurrency} \ {Free} = {a \in Attempts : attempt[a] = At("hashing")}
    /\ Cardinality({a \in Attempts : attempt[a] = At("hashing")}) <= Concurrency
=============================================================================
