---------------------------- MODULE FeatureStore ----------------------------
(***************************************************************************)
(* The point-in-time feature store and the screening of companies          *)
(* (packages/research/service): values are immutable rows under an         *)
(* identity, an as-of query takes the latest row that was eligible, a      *)
(* matrix of such values over the members of a universe is frozen in a     *)
(* snapshot, and a screening run ranks its companies into levels.          *)
(*                                                                         *)
(* All times are the caller's: a value may be stored long after it became  *)
(* eligible, and a screening may be of any time.  Only the universe, its   *)
(* versions and memberships are taken as given.                            *)
(*                                                                         *)
(* Each action is one call in its own transaction; repeated inserts meet   *)
(* unique constraints that the lookups below stand for.  Checksums are     *)
(* taken as injective, so that two manifests are the same if they have the *)
(* same checksum.                                                          *)
(***************************************************************************)
EXTENDS Integers, FiniteSets, Sequences, FiniteSetsExt

CONSTANTS
    Features,       \* feature definitions, all of them in the feature set
    Entities,       \* companies, in the order of their ids: 1..n
    Universe,       \* research_universe_versions with their memberships
    Inputs,         \* input manifests
    Numbers,        \* values computed
    Capacity,       \* population of each level from the deepest: <<3, 8, 20, 50>>
    MaxTime,        \* times are 0..MaxTime
    MaxDefinitions, \* bound on the versions of a definition
    MaxRows,        \* bound on the feature values
    MaxScreenings   \* bound on the screening runs

Moments == 0..MaxTime
Forever == MaxTime + 1                                  \* valid_to IS NULL
Levels == 0..Len(Capacity)

VARIABLES
    definitions,    \* feature_definition_versions: the newest of each
    values,         \* feature_values
    runs,           \* research_screening_runs with their snapshots, and what
                    \* was stored when they were made (history)
    candidates      \* research_candidate_states

vars == <<definitions, values, runs, candidates>>

Quality == {"complete", "temporally_unsafe"}
FeatureValue ==
    [feature : Features, version : 1..MaxDefinitions, entity : Entities,
     observation : Moments, eligible : Moments, quality : Quality, input : Inputs,
     number : Numbers, created : 1..MaxRows]
NoState == [level |-> -1]

TypeOK ==
    /\ definitions \in [Features -> 1..MaxDefinitions]
    /\ values \subseteq FeatureValue
    /\ \A r \in runs : /\ r.screening.as_of \in Moments
                      /\ r.screening.levels \in [r.screening.entities -> Levels]
                      /\ r.stored \in 0..MaxRows
    /\ \A e \in Entities : candidates[e].level \in Levels \union {-1}

Init ==
    /\ definitions = [f \in Features |-> 1]
    /\ values = {}
    /\ runs = {}
    /\ candidates = [e \in Entities |-> NoState]

-----------------------------------------------------------------------------
(* As-of reads.                                                            *)

During(t, from, to) == from <= t /\ t < to

(* The highest version that was eligible and in effect.                    *)
universe_version_as_of(t) ==
    LET visible == {v \in DOMAIN Universe : /\ Universe[v].eligible <= t
                                            /\ During(t, Universe[v].from, Universe[v].to)}
    IN  IF visible = {} THEN 0 ELSE Max(visible)

memberships_as_of(v, t) ==
    {e \in DOMAIN Universe[v].members :
        /\ Universe[v].members[e].eligible <= t
        /\ During(t, Universe[v].members[e].from, Universe[v].members[e].to)}

(* ORDER BY observation_time, simulation_eligible_time, created_at DESC.   *)
Newer(a, b) ==
    \/ a.observation > b.observation
    \/ a.observation = b.observation /\ a.eligible > b.eligible
    \/ a.observation = b.observation /\ a.eligible = b.eligible /\ a.created >= b.created

(* A defect: the time at which a value became known is ignored.            *)
VisibleWhenKnown(x, t) ==
    x.version = definitions[x.feature] /\ x.observation <= t /\ x.quality # "temporally_unsafe"

(* Values of the newest version of the definition only, whichever one the  *)
(* feature set was made with.                                              *)
Visible(x, t) ==
    /\ x.version = definitions[x.feature]
    /\ x.eligible <= t /\ x.observation <= t
    /\ x.quality # "temporally_unsafe"

get_feature_as_of(f, e, t) ==
    LET visible == {x \in values : x.feature = f /\ x.entity = e /\ Visible(x, t)}
    IN  {x \in visible : \A y \in visible : Newer(x, y)}

(* The rows of an entity, one for each feature that is not missing.        *)
MatrixRow(e, t) == UNION {get_feature_as_of(f, e, t) : f \in Features}

(* More features count before larger numbers; ties go by id.               *)
Score(row) == 100 * Cardinality(row) + MapThenSumSet(LAMBDA x : x.number, row)
RankedBefore(rowOf, d, e) ==
    \/ Score(rowOf[d]) > Score(rowOf[e])
    \/ Score(rowOf[d]) = Score(rowOf[e]) /\ d < e

(* A defect: the deepest level is one too deep.                            *)
LevelOfRankTooDeep(rank) ==
    LET fits == {i \in DOMAIN Capacity : rank < Capacity[i]}
    IN  IF fits = {} THEN 0 ELSE Len(Capacity) + 2 - Min(fits)

(* The deepest level whose population the rank still fits.                 *)
LevelOfRank(rank) ==
    LET fits == {i \in DOMAIN Capacity : rank < Capacity[i]}
    IN  IF fits = {} THEN 0 ELSE Len(Capacity) + 1 - Min(fits)

Screening(t) ==
    LET v == universe_version_as_of(t)
        members == memberships_as_of(v, t)
        rowOf == [e \in members |-> MatrixRow(e, t)]
        rank == [e \in members |-> Cardinality({d \in members : RankedBefore(rowOf, d, e)})]
    IN  [as_of |-> t, universe |-> v, entities |-> members, rows |-> rowOf,
         levels |-> [e \in members |-> LevelOfRank(rank[e])]]

-----------------------------------------------------------------------------
(* Writes.                                                                 *)

(* A definition gets a new version, which has no values yet.               *)
publish_version(f) ==
    /\ definitions[f] < MaxDefinitions
    /\ definitions' = [definitions EXCEPT ![f] = @ + 1]
    /\ UNCHANGED <<values, runs, candidates>>

(* A value under an identity that exists is returned, or refused if it was *)
(* computed otherwise; one that claims to be known before its time is      *)
(* marked.                                                                 *)
create_feature_value(f, v, e, observation, effective, eligible, input, number) ==
    /\ Cardinality(values) < MaxRows
    /\ \A x \in values : <<x.feature, x.version, x.entity, x.observation, x.input>>
                           # <<f, v, e, observation, input>>
    /\ values' = values \union
         {[feature |-> f, version |-> v, entity |-> e,
           observation |-> observation, eligible |-> eligible,
           quality |-> IF eligible < observation \/ eligible < effective
                       THEN "temporally_unsafe" ELSE "complete",
           input |-> input, number |-> number, created |-> Cardinality(values) + 1]}
    /\ UNCHANGED <<definitions, runs, candidates>>

(* create_snapshot and run_screening return what the same manifest gave    *)
(* before; otherwise the levels of the candidates follow the new ranking.  *)
(* A company that is no longer ranked keeps the level it had.              *)
run_screening(t) ==
    /\ Cardinality(runs) < MaxScreenings
    /\ universe_version_as_of(t) # 0
    /\ LET s == Screening(t)
       IN  /\ \A r \in runs : r.screening # s
           /\ runs' = runs \union
                {[screening |-> s, stored |-> Cardinality(values), definitions |-> definitions]}
           /\ candidates' = [e \in Entities |->
                IF e \in s.entities THEN [level |-> s.levels[e], as_of |-> t]
                ELSE candidates[e]]
    /\ UNCHANGED <<definitions, values>>

Next ==
    \/ \E f \in Features : publish_version(f)
    \/ \E f \in Features, e \in Entities, o, x, t \in Moments, i \in Inputs, n \in Numbers :
         \E v \in 1..definitions[f] : create_feature_value(f, v, e, o, x, t, i, n)
    \/ \E t \in Moments : run_screening(t)

Spec == Init /\ [][Next]_vars

-----------------------------------------------------------------------------
(* Properties.                                                             *)

(* What may change a row that a screening as of t showed of a company: a   *)
(* value stored since with an eligibility of the past, or a new version of *)
(* a definition, by which the values of the older one disappear.           *)
Rewritten(r, e, t) ==
    \/ \E f \in Features : definitions[f] # r.definitions[f]
    \/ \E x \in values : x.entity = e /\ x.created > r.stored /\ x.eligible <= t

(* A screening repeated as of its time finds the same universe, and the    *)
(* same row and level of every company, but for these two reasons: what    *)
(* becomes eligible later, revisions and restatements included, changes    *)
(* nothing of the past, and a late value of one company no row of another. *)
(* Docs: "Identical eligible inputs, policy, seed, and software produce    *)
(* identical decisions".                                                   *)
ScreeningsReplay ==
    \A r \in runs :
        LET s == r.screening
            again == Screening(s.as_of)
            rewritten == {e \in s.entities : Rewritten(r, e, s.as_of)}
        IN  /\ again.universe = s.universe /\ again.entities = s.entities
            /\ \A e \in s.entities \ rewritten : again.rows[e] = s.rows[e]
            /\ rewritten = {} => again.levels = s.levels
=============================================================================
