-------------------------- MODULE OccurrenceLedger --------------------------
(***************************************************************************)
(* What the operational tasks promise (packages/operations), whatever      *)
(* schedulers, workers and requests do meanwhile: each definition has one  *)
(* ledger, whose k-th entry is its k-th due time; entries are opened in    *)
(* order and never early, worked on by one worker at a time, and closed    *)
(* with a success, a dismissal or a quarantine before the attempts that    *)
(* the policy or a person granted are spent.  There are no transactions,   *)
(* locks, delays or crashes here: TaskScheduler has them, and implements   *)
(* this specification.                                                     *)
(***************************************************************************)
EXTENDS Integers, Sequences

CONSTANTS
    Definitions,    \* scheduled tasks
    Workers,        \* who may work on an entry
    MaxAttempts     \* attempts that the policy grants

VARIABLES
    time,           \* the due times that have come: 1..time
    ledger,         \* of each definition, the sequence of its entries
    holders         \* who works on each entry: <<definition, number>>

vars == <<time, ledger, holders>>

Closed == {"SUCCEEDED", "CANCELLED", "QUARANTINED"}
Entry == [status : Closed \union {"OPEN"}, left : Nat]
NewEntry == [status |-> "OPEN", left |-> MaxAttempts]

Init ==
    /\ time = 0
    /\ ledger = [d \in Definitions |-> <<>>]
    /\ holders = {}

At(o) == ledger[o[1]][o[2]]
Numbered == {o \in Definitions \X (1..time) : o[2] <= Len(ledger[o[1]])}
Held(o) == \E w \in Workers : <<w, o>> \in holders

Advance == time' = time + 1 /\ UNCHANGED <<ledger, holders>>

(* One pass opens the next entry of some definitions.                      *)
Open(ds) ==
    /\ \A d \in ds : Len(ledger[d]) < time
    /\ ledger' = [d \in Definitions |-> IF d \in ds THEN Append(ledger[d], NewEntry) ELSE ledger[d]]
    /\ UNCHANGED <<time, holders>>

Take(w, o) ==
    /\ At(o).status = "OPEN" /\ ~Held(o)
    /\ \A p \in Numbered : <<w, p>> \notin holders
    /\ holders' = holders \union {<<w, o>>}
    /\ UNCHANGED <<time, ledger>>

(* The attempt counts and the entry is free again, or nothing happened.    *)
Finish(w, o, status) ==
    /\ <<w, o>> \in holders /\ At(o).status = "OPEN"
    /\ status = "OPEN" => At(o).left > 1
    /\ At(o).left > 0
    /\ ledger' = [ledger EXCEPT ![o[1]][o[2]] = [status |-> status, left |-> @.left - 1]]
    /\ holders' = holders \ {<<w, o>>}
    /\ UNCHANGED time

Drop(w, o) ==
    /\ <<w, o>> \in holders
    /\ holders' = holders \ {<<w, o>>}
    /\ UNCHANGED <<time, ledger>>

(* A person grants one more attempt, or dismisses.                         *)
Regrant(o) ==
    /\ At(o).status = "QUARANTINED"
    /\ ledger' = [ledger EXCEPT ![o[1]][o[2]] = [status |-> "OPEN", left |-> @.left + 1]]
    /\ UNCHANGED <<time, holders>>

Dismiss(o) ==
    /\ At(o).status = "QUARANTINED"
    /\ ledger' = [ledger EXCEPT ![o[1]][o[2]].status = "CANCELLED"]
    /\ UNCHANGED <<time, holders>>

Next ==
    \/ Advance
    \/ \E ds \in SUBSET Definitions : Open(ds)
    \/ \E o \in Numbered :
         \/ \E w \in Workers :
              \/ Take(w, o) \/ Drop(w, o)
              \/ \E status \in {"OPEN", "SUCCEEDED", "QUARANTINED"} : Finish(w, o, status)
         \/ Regrant(o) \/ Dismiss(o)

Spec == Init /\ [][Next]_vars
=============================================================================
