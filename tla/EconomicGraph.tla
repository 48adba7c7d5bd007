---------------------------- MODULE EconomicGraph ----------------------------
(***************************************************************************)
(* The economic driver graph of one workspace (packages/economic_graph:    *)
(* service, traversal, profiles): entities, relationships with their       *)
(* supporting evidence, the walks of what was visible at a time, and the   *)
(* driver profiles that a recompute job writes from it.                    *)
(*                                                                         *)
(* Everything carries the time from which a simulation may see it.  Facts  *)
(* arrive in any order, and what is already stored under the same name is  *)
(* returned as it is.  Each operation is one transaction, and the present  *)
(* is Now.  The walks' node limit, timeout and LIMIT, which only refuse or *)
(* cut an answer, predicates and confidences are left out.                 *)
(***************************************************************************)
EXTENDS Integers, Sequences, FiniteSets, FiniteSetsExt

CONSTANTS
    Companies,          \* entities of type Company
    Others,             \* the other entities
    EntityFacts,        \* what may be said of an entity
    RelationshipFacts,  \* what may be said of two of them
    RecomputeKeys,      \* idempotency keys of recompute jobs
    Depth,              \* max_depth of the walks
    Now,                \* times are 0..Now
    MaxRelationships,   \* bound on the relationships
    MaxProfiles         \* bound on the profiles of a company

VARIABLES
    entities,           \* economic_entities, by name
    relationships,      \* economic_relationships, with their evidence
    profiles,           \* company_driver_profiles, with their entries
    recomputes          \* graph_recompute_jobs

vars == <<entities, relationships, profiles, recomputes>>

Names == Companies \union Others
Times == 0..Now
Never == Now + 1                        \* valid_to is NULL
VALID_ENTITY_STATUSES == {"candidate", "verified", "disputed", "expired", "rejected"}
EconomicEntity ==
    [valid_from : Times, valid_to : Times \union {Never}, eligible : Times,
     status : VALID_ENTITY_STATUSES \union {"absent"}]
EconomicRelationship ==
    [subject : Names, object : Names, valid_from : Times, valid_to : Times \union {Never},
     eligible : Times, status : VALID_ENTITY_STATUSES, evidence : SUBSET Times]
CompanyDriverProfile ==
    [company : Companies, version : Nat, generated : Times, eligible : Times,
     linked : SUBSET Names]
GraphRecomputeJob ==
    [company : Companies, key : RecomputeKeys, status : {"queued", "failed", "succeeded"}]
Absent == [valid_from |-> 0, valid_to |-> Never, eligible |-> 0, status |-> "absent"]

TypeOK ==
    /\ entities \in [Names -> EconomicEntity]
    /\ relationships \subseteq EconomicRelationship
    /\ profiles \subseteq CompanyDriverProfile
    /\ recomputes \subseteq GraphRecomputeJob

Init ==
    /\ entities = [n \in Names |-> Absent]
    /\ relationships = {} /\ profiles = {} /\ recomputes = {}

-----------------------------------------------------------------------------
(* The walks.                                                              *)

(* A defect: what was in effect is shown before it could be known.         *)
VisibleOnceKnown(fact, asOf) ==
    /\ fact.valid_from <= asOf /\ asOf < fact.valid_to
    /\ fact.status \in {"verified", "disputed"}

(* The same four conditions for entities and for relationships.            *)
Visible(fact, asOf) ==
    /\ fact.eligible <= asOf
    /\ fact.valid_from <= asOf /\ asOf < fact.valid_to
    /\ fact.status \in {"verified", "disputed"}

VisibleEntities(asOf) == {n \in Names : Visible(entities[n], asOf)}
VisibleRelationships(asOf) == {r \in relationships : Visible(r, asOf)}

Joins(r, a, b) == {r.subject, r.object} = {a, b} /\ a # b
OnPath(path, n) == \E i \in 1..Len(path) : path[i] = n

(* The paths from an entity over these others, at most Depth relationships *)
(* long: in either direction, and never to an entity of the path.          *)
PathsOver(start, others, edges) ==
    LET Paths[d \in 0..Depth] ==
          IF d = 0 THEN {<<start>>}
          ELSE UNION {{Append(p, n) : n \in {m \in others :
                          ~OnPath(p, m) /\ \E r \in edges : Joins(r, p[d], m)}} : p \in Paths[d - 1]}
    IN  UNION {Paths[d] : d \in 0..Depth}

(* The breadth-first walk that the requests use, on visible entities only. *)
bounded_graph_as_of(start, asOf) ==
    IF start \in VisibleEntities(asOf)
    THEN PathsOver(start, VisibleEntities(asOf), VisibleRelationships(asOf))
    ELSE {}

(* The recursive query of PostgreSQL looks no entity up: it starts at and  *)
(* goes on over entities that are not visible.                             *)
postgres_recursive_neighborhood(start, asOf) ==
    PathsOver(start, Names, VisibleRelationships(asOf))

(* What an explanation shows of a relationship's support.                  *)
explain_relationship_path(r, asOf) == {t \in r.evidence : t <= asOf}

-----------------------------------------------------------------------------
(* Facts.                                                                  *)

(* valid_to IS NULL OR valid_to > valid_from is a constraint of the table. *)
create_entity(n, fact) ==
    /\ entities[n] = Absent
    /\ fact.valid_from < fact.valid_to
    /\ entities' = [entities EXCEPT ![n] = fact]
    /\ UNCHANGED <<relationships, profiles, recomputes>>

(* One that is stored for the same subject, object and start stays as it   *)
(* is, its evidence too.                                                   *)
Stored(r) == \E s \in relationships :
                 s.subject = r.subject /\ s.object = r.object /\ s.valid_from = r.valid_from

(* Support is needed of a verified relationship only, and none of it may   *)
(* be younger than the relationship.                                       *)
Supported(r) ==
    /\ r.status = "verified" => r.evidence # {}
    /\ \A t \in r.evidence : t <= r.eligible

create_relationship(r) ==
    /\ entities[r.subject] # Absent /\ entities[r.object] # Absent /\ r.subject # r.object
    /\ Supported(r)
    /\ ~Stored(r)
    /\ r.valid_from < r.valid_to
    /\ relationships' = relationships \union {r}
    /\ UNCHANGED <<entities, profiles, recomputes>>

(* In place: the row keeps nothing of what it said before.                 *)
expire_relationship(r, t) ==
    /\ r.valid_from < t
    /\ relationships' = (relationships \ {r})
                        \union {[r EXCEPT !.valid_to = t, !.status = "expired"]}
    /\ UNCHANGED <<entities, profiles, recomputes>>

-----------------------------------------------------------------------------
(* Profiles.                                                               *)

Other(r, company) == IF r.subject = company THEN r.object ELSE r.subject
Active(company, now) ==
    {r \in VisibleRelationships(now) : company \in {r.subject, r.object}}

(* Of the other entities only the eligible time is looked at, and it does  *)
(* not count for the profile's own.                                        *)
generate_driver_profile(company, now) ==
    LET active == Active(company, now)
        versions == {p.version : p \in {q \in profiles : q.company = company}}
    IN  [company |-> company, version |-> Max({0} \union versions) + 1, generated |-> now,
         eligible |-> Max({entities[company].eligible} \union {r.eligible : r \in active}),
         linked |-> {n \in {Other(r, company) : r \in active} : entities[n].eligible <= now}]

queue_recompute(company, key) ==
    /\ entities[company] # Absent
    /\ \A job \in recomputes : job.key # key
    /\ recomputes' = recomputes \union {[company |-> company, key |-> key, status |-> "queued"]}
    /\ UNCHANGED <<entities, relationships, profiles>>

Runnable(job) ==
    /\ job.status \in {"queued", "failed"}
    /\ \A p \in profiles : p.company = job.company => p.version < MaxProfiles

EndAs(job, status) == recomputes' = (recomputes \ {job}) \union {[job EXCEPT !.status = status]}

process_recompute_job(job) ==
    /\ Runnable(job)
    /\ profiles' = profiles \union {generate_driver_profile(job.company, Now)}
    /\ EndAs(job, "succeeded")
    /\ UNCHANGED <<entities, relationships>>

(* An error is raised again once the job is marked: a caller who commits   *)
(* all the same keeps the mark, and the profile if it was flushed by then. *)
FailRecomputeJob(job) ==
    /\ Runnable(job)
    /\ profiles' \in {profiles, profiles \union {generate_driver_profile(job.company, Now)}}
    /\ EndAs(job, "failed")
    /\ UNCHANGED <<entities, relationships>>

Next ==
    \/ \E n \in Names, fact \in EntityFacts : create_entity(n, fact)
    \/ /\ Cardinality(relationships) < MaxRelationships
       /\ \E r \in RelationshipFacts : create_relationship(r)
    \/ \E r \in relationships, t \in Times : expire_relationship(r, t)
    \/ \E c \in Companies, key \in RecomputeKeys : queue_recompute(c, key)
    \/ \E job \in recomputes : process_recompute_job(job)
    \/ \E job \in recomputes : FailRecomputeJob(job)

Spec == Init /\ [][Next]_vars

-----------------------------------------------------------------------------
(* Properties.                                                             *)

(* What the two walks as of a time show, and the support of relationships  *)
(* that they follow.                                                       *)
Shown(n, t) ==
    [walk      |-> bounded_graph_as_of(n, t),
     recursive |-> postgres_recursive_neighborhood(n, t),
     support   |-> {<<r.subject, r.object, r.valid_from, explain_relationship_path(r, t)>> :
                       r \in VisibleRelationships(t)}]

(* A step stores late what was eligible by a time, or a relationship that  *)
(* was eligible by then expires.                                           *)
ChangesThePast(t) ==
    \/ \E n \in Names : entities[n] = Absent /\ entities'[n] # Absent /\ entities'[n].eligible <= t
    \/ \E r \in relationships' \ relationships : r.eligible <= t

(* No walk as of a time is changed by what becomes eligible later: another *)
(* answer needs a fact stored late or an expiry.  And each verified        *)
(* relationship it follows has support that was eligible by then.  Docs:   *)
(* "a historical request cannot expose a later discovery".                 *)
WalksHoldAtTheirTime ==
    [][\A t \in Times :
         /\ (\E n \in Names : Shown(n, t)' # Shown(n, t)) => ChangesThePast(t)
         /\ \A r \in VisibleRelationships(t)' :
              r.status = "verified" => explain_relationship_path(r, t) # {}]_vars
=============================================================================
