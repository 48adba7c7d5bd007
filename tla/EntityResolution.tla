-------------------------- MODULE EntityResolution --------------------------
(***************************************************************************)
(* Which entity an external identifier means (packages/economic_graph/     *)
(* service: attach_identifier, create_resolution_candidate and             *)
(* decide_resolution, with the confirm and reject requests of              *)
(* apps/api/routers/economic_graph).                                       *)
(*                                                                         *)
(* Ingestion and reviewers run in transactions of their own: each reads    *)
(* the candidate, then the identifier's present owner, and commits later   *)
(* what these two reads told it.  No row is locked; unique constraints     *)
(* (one owner of a value, one candidate per value and entity, one decision *)
(* per candidate) are what a commit can fail on.                           *)
(***************************************************************************)
EXTENDS FiniteSets, Naturals

CONSTANTS
    Values,         \* normalized identifiers, with their namespace
    Entities,       \* economic_entities of one workspace
    Reviews         \* transactions: reviewers' requests and ingestion

VARIABLES
    identifiers,    \* entity_identifiers
    candidates,     \* entity_resolution_candidates
    decisions,      \* entity_resolution_decisions
    review          \* what each open transaction has read

vars == <<identifiers, candidates, decisions, review>>

Verdicts == {"confirmed", "rejected"}
EntityIdentifier == [value : Values, entity : Entities]
EntityResolutionCandidate ==
    [value : Values, entity : Entities, status : Verdicts \union {"candidate", "ambiguous"}]
EntityResolutionDecision == [value : Values, entity : Entities, decision : Verdicts]
NoReview == [step |-> "none"]

TypeOK ==
    /\ identifiers \subseteq EntityIdentifier
    /\ candidates \subseteq EntityResolutionCandidate
    /\ decisions \subseteq EntityResolutionDecision
    /\ \A r \in Reviews : review[r].step \in {"none", "loaded", "checked"}

Init ==
    /\ identifiers = {} /\ candidates = {} /\ decisions = {}
    /\ review = [r \in Reviews |-> NoReview]

Rows(table, v, e) == {row \in table : row.value = v /\ row.entity = e}
Owners(v) == {i.entity : i \in {j \in identifiers : j.value = v}}
WithCandidate(v, e, status) ==
    IF Rows(candidates, v, e) # {} THEN candidates
    ELSE candidates \union {[value |-> v, entity |-> e, status |-> status]}

create_resolution_candidate(v, e) ==
    /\ Rows(candidates, v, e) = {}
    /\ candidates' = WithCandidate(v, e, "candidate")
    /\ UNCHANGED <<identifiers, decisions, review>>

-----------------------------------------------------------------------------
(* A transaction: the candidate, the owner of its value, the commit.       *)

(* A final candidate is not decided again: the standing decision, or an    *)
(* error, is the answer.                                                   *)
LoadCandidate(r, v, e, verdict) ==
    /\ review[r] = NoReview
    /\ \E c \in Rows(candidates, v, e) : c.status \notin Verdicts
    /\ review' = [review EXCEPT ![r] =
         [step |-> "loaded", value |-> v, entity |-> e, does |-> verdict]]
    /\ UNCHANGED <<identifiers, candidates, decisions>>

StartAttach(r, v, e) ==
    /\ review[r] = NoReview
    /\ review' = [review EXCEPT ![r] =
         [step |-> "loaded", value |-> v, entity |-> e, does |-> "attach"]]
    /\ UNCHANGED <<identifiers, candidates, decisions>>

(* A confirmation of a value that another entity owns is refused.          *)
CheckOwner(r) ==
    /\ review[r].step = "loaded"
    /\ LET q == review[r]
           owners == Owners(q.value)
       IN  review' = [review EXCEPT ![r] =
             IF q.does = "confirmed" /\ owners \ {q.entity} # {} THEN NoReview
             ELSE [step |-> "checked", value |-> q.value, entity |-> q.entity,
                   does |-> q.does, owners |-> owners]]
    /\ UNCHANGED <<identifiers, candidates, decisions>>

Inserted(q) ==
    IF q.does # "rejected" /\ q.owners = {}
    THEN {[value |-> q.value, entity |-> q.entity]} ELSE {}

CommitDecision(q) ==
    /\ identifiers' = identifiers \union Inserted(q)
    /\ candidates' = {c \in candidates : ~(c.value = q.value /\ c.entity = q.entity)}
                     \union {[value |-> q.value, entity |-> q.entity, status |-> q.does]}
    /\ decisions' = decisions
                    \union {[value |-> q.value, entity |-> q.entity, decision |-> q.does]}

(* An identifier that means another entity becomes an ambiguous candidate. *)
CommitAttach(q) ==
    /\ identifiers' = identifiers \union Inserted(q)
    /\ candidates' = IF q.owners \ {q.entity} = {} THEN candidates
                     ELSE WithCandidate(q.value, q.entity, "ambiguous")
    /\ UNCHANGED decisions

(* A defect: no constraint on decisions.                                   *)
ViolatedByOwnerOnly(q) == Inserted(q) # {} /\ Owners(q.value) # {}

(* What a unique constraint refuses at the commit.                         *)
Violated(q) ==
    \/ Inserted(q) # {} /\ Owners(q.value) # {}
    \/ q.does # "attach" /\ Rows(decisions, q.value, q.entity) # {}

Commit(r) ==
    /\ review[r].step = "checked"
    /\ ~Violated(review[r])
    /\ IF review[r].does = "attach" THEN CommitAttach(review[r])
       ELSE CommitDecision(review[r])
    /\ review' = [review EXCEPT ![r] = NoReview]

(* A constraint is violated, or the connection is lost.                    *)
Rollback(r) ==
    /\ review[r] # NoReview
    /\ review' = [review EXCEPT ![r] = NoReview]
    /\ UNCHANGED <<identifiers, candidates, decisions>>

Next ==
    \/ \E v \in Values, e \in Entities : create_resolution_candidate(v, e)
    \/ \E r \in Reviews :
         \/ CheckOwner(r) \/ Commit(r) \/ Rollback(r)
         \/ \E v \in Values, e \in Entities :
              \/ StartAttach(r, v, e)
              \/ \E verdict \in Verdicts : LoadCandidate(r, v, e, verdict)

Spec == Init /\ [][Next]_vars

-----------------------------------------------------------------------------
(* Properties.                                                             *)

(* Reviewers who contradict each other, or confirm one value for two       *)
(* entities while ingestion attaches it to a third, leave one story: a     *)
(* final candidate has one decision and it says the same, a confirmed one  *)
(* owns its value, and a value has one owner.                              *)
ResolutionsAgree ==
    /\ \A v \in Values : Cardinality(Owners(v)) <= 1
    /\ \A v \in Values, e \in Entities :
         /\ {d.decision : d \in Rows(decisions, v, e)}
              = {c.status : c \in Rows(candidates, v, e)} \intersect Verdicts
         /\ (\E c \in Rows(candidates, v, e) : c.status = "confirmed") => e \in Owners(v)
=============================================================================
