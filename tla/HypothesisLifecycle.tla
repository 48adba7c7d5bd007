------------------------- MODULE HypothesisLifecycle -------------------------
(***************************************************************************)
(* Hypothesis research of one workspace (packages/hypothesis: lifecycle,   *)
(* service, guards, and the pipeline of fixtures that runs them, started   *)
(* by a request): for each archetype a hypothesis, its experiment with     *)
(* folds, corrections and controls, the promotion trail, the verdict and a *)
(* manifest.                                                               *)
(*                                                                         *)
(* A request does all of it in one transaction, and its first step reads   *)
(* whether the workspace has hypotheses.  Requests overlap; what a second  *)
(* one inserts breaks a unique constraint.  Statistics are reduced to what *)
(* the gates ask of them: whether a correction rejects the null.           *)
(***************************************************************************)
EXTENDS Integers, Sequences, FiniteSets

CONSTANTS
    Archetypes,     \* the companies researched, in their order
    Unpromising,    \* archetypes whose result is never accepted
    Folds,          \* walk-forward folds
    Seedings        \* requests

VARIABLES
    research,       \* the committed rows of each archetype
    seeding         \* the open transaction of each request

vars == <<research, seeding>>

PROMOTION_ORDER ==
    <<"DRAFT", "EVIDENCE_CHECKED", "IMPLEMENTED", "LEAKAGE_CHECKED", "BACKTESTED",
      "WALK_FORWARD_PASSED", "ROBUSTNESS_PASSED", "OOS_PASSED", "PAPER_ELIGIBLE">>
PromotionStage == {PROMOTION_ORDER[i] : i \in 1..9} \union {"REJECTED"}

HYPOTHESIS_TRANSITIONS ==
    [DRAFT                    |-> {"EVIDENCE_REQUIRED", "READY_FOR_IMPLEMENTATION"},
     EVIDENCE_REQUIRED        |-> {"READY_FOR_IMPLEMENTATION", "REJECTED"},
     READY_FOR_IMPLEMENTATION |-> {"IMPLEMENTED", "REJECTED"},
     IMPLEMENTED              |-> {"TESTING", "REJECTED"},
     TESTING                  |-> {"REJECTED", "PROMISING"},
     PROMISING                |-> {"VALIDATED", "REJECTED", "RETIRED"},
     VALIDATED                |-> {"RETIRED"},
     REJECTED                 |-> {"RETIRED"},
     RETIRED                  |-> {}]
HypothesisStatus == DOMAIN HYPOTHESIS_TRANSITIONS

Researched == {Archetypes[i] : i \in 1..Len(Archetypes)}
Nothing == [hypothesis |-> "absent"]
FactorExperiment == [status : {"SCHEDULED", "RUNNING", "COMPLETED", "REJECTED"},
                     folds : 0..Folds, significant : BOOLEAN, controls_valid : BOOLEAN]
IsResearch(x) ==
    /\ x.hypothesis \in HypothesisStatus
    /\ x.experiment \in FactorExperiment
    /\ \A i \in 1..Len(x.promotions) : x.promotions[i] \in PromotionStage
    /\ x.manifest \in BOOLEAN
NotSeeding == [step |-> "none"]
Steps == {"none", "existing", "hypothesize", "evaluate", "promote", "conclude", "failed"}

TypeOK ==
    /\ \A a \in Researched : research[a] = Nothing \/ IsResearch(research[a])
    /\ \A s \in Seedings : seeding[s].step \in Steps

Init ==
    /\ research = [a \in Researched |-> Nothing]
    /\ seeding = [s \in Seedings |-> NotSeeding]

-----------------------------------------------------------------------------
(* The operations of the service, on the rows of one archetype.            *)

(* One status after another; an invalid one raises and ends the request.   *)
Follows(statuses) ==
    \A i \in 1..(Len(statuses) - 1) : statuses[i + 1] \in HYPOTHESIS_TRANSITIONS[statuses[i]]

create_hypothesis ==
    [hypothesis |-> "DRAFT",
     experiment |-> [status |-> "SCHEDULED", folds |-> 0, significant |-> FALSE,
                     controls_valid |-> FALSE],
     promotions |-> <<>>, manifest |-> FALSE]

schedule_experiment(x) ==
    IF Follows(<<x.hypothesis, "EVIDENCE_REQUIRED", "READY_FOR_IMPLEMENTATION", "IMPLEMENTED",
                 "TESTING">>)
    THEN {[x EXCEPT !.hypothesis = "TESTING", !.experiment.status = "RUNNING"]} ELSE {}

validate_promotion_transition(current, target) ==
    \/ target = "REJECTED"
    \/ current = <<>> /\ target = "DRAFT"
    \/ \E i \in 1..8 : current = <<PROMOTION_ORDER[i]>> /\ target = PROMOTION_ORDER[i + 1]

(* The events of the stages in their order, each validated.                *)
record_promotions(x, stages) ==
    LET trail == x.promotions \o stages
        Before(i) == IF i = 1 THEN <<>> ELSE <<trail[i - 1]>>
    IN  IF \A i \in 1..Len(trail) : validate_promotion_transition(Before(i), trail[i])
        THEN {[x EXCEPT !.promotions = trail]} ELSE {}

Passed(x) == x.experiment.significant /\ x.experiment.controls_valid

(* A defect: the gates ask for the controls alone.                         *)
StagesWithoutCorrections(x) ==
    IF x.experiment.controls_valid THEN PROMOTION_ORDER
    ELSE Append(SubSeq(PROMOTION_ORDER, 1, 5), "REJECTED")

Stages(x) ==
    IF Passed(x) THEN PROMOTION_ORDER ELSE Append(SubSeq(PROMOTION_ORDER, 1, 5), "REJECTED")

complete_experiment(x, accepted) ==
    LET verdict == IF accepted THEN "PROMISING" ELSE "REJECTED"
    IN  IF Follows(<<x.hypothesis, verdict>>)
        THEN {[x EXCEPT !.hypothesis = verdict,
                        !.experiment.status = IF accepted THEN "COMPLETED" ELSE "REJECTED"]}
        ELSE {}

(* An accepted hypothesis is validated, and every experiment is described. *)
Validated(x) ==
    [x EXCEPT !.hypothesis = IF x.hypothesis = "PROMISING" THEN "VALIDATED" ELSE @,
              !.manifest = TRUE]

-----------------------------------------------------------------------------
(* The pipeline.                                                           *)

Current(s) == Archetypes[seeding[s].next]
Work(s) == seeding[s].rows[Current(s)]

(* The rows of the current archetype change, or a call raises and the      *)
(* transaction ends.                                                       *)
Proceed(s, from, to, next, results) ==
    /\ seeding[s].step = from
    /\ IF results = {} THEN seeding' = [seeding EXCEPT ![s] = [step |-> "failed"]]
       ELSE \E x \in results : seeding' = [seeding EXCEPT ![s] =
                [step |-> to, next |-> next,
                 rows |-> [seeding[s].rows EXCEPT ![Current(s)] = x]]]
    /\ UNCHANGED research

Begin(s) ==
    /\ seeding[s] = NotSeeding
    /\ seeding' = [seeding EXCEPT ![s] =
         IF \E a \in Researched : research[a] # Nothing THEN [step |-> "existing"]
         ELSE [step |-> "hypothesize", next |-> 1, rows |-> [a \in Researched |-> Nothing]]]
    /\ UNCHANGED research

Hypothesize(s) ==
    /\ seeding[s].step = "hypothesize" /\ seeding[s].next <= Len(Archetypes)
    /\ Proceed(s, "hypothesize", "evaluate", seeding[s].next,
               schedule_experiment(create_hypothesis))

(* The folds, and what the corrections found; the negative controls of the *)
(* pipeline find nothing.                                                  *)
Evaluate(s) ==
    /\ seeding[s].step = "evaluate"
    /\ \E significant \in IF Current(s) \in Unpromising THEN {FALSE} ELSE BOOLEAN :
         Proceed(s, "evaluate", "promote", seeding[s].next,
             {[Work(s) EXCEPT !.experiment.folds = Folds, !.experiment.significant = significant,
                              !.experiment.controls_valid = TRUE]})

Promote(s) ==
    /\ seeding[s].step = "promote"
    /\ Proceed(s, "promote", "conclude", seeding[s].next,
               record_promotions(Work(s), Stages(Work(s))))

Conclude(s) ==
    /\ seeding[s].step = "conclude"
    /\ Proceed(s, "conclude", "hypothesize", seeding[s].next + 1,
               {Validated(x) : x \in complete_experiment(Work(s), Work(s).experiment.significant)})

(* All rows at once, unless another request's stand there.                 *)
Commit(s) ==
    /\ seeding[s].step = "hypothesize" /\ seeding[s].next > Len(Archetypes)
    /\ IF \E a \in Researched : research[a] # Nothing
       THEN /\ seeding' = [seeding EXCEPT ![s] = [step |-> "failed"]]
            /\ UNCHANGED research
       ELSE /\ research' = seeding[s].rows
            /\ seeding' = [seeding EXCEPT ![s] = NotSeeding]

(* Answered, or failed, or the process died: nothing of it remains.        *)
End(s) ==
    /\ seeding[s] # NotSeeding
    /\ seeding' = [seeding EXCEPT ![s] = NotSeeding]
    /\ UNCHANGED research

Next == \E s \in Seedings : \/ Begin(s) \/ Hypothesize(s) \/ Evaluate(s) \/ Promote(s)
                             \/ Conclude(s) \/ Commit(s) \/ End(s)

Spec == Init /\ [][Next]_vars

-----------------------------------------------------------------------------
(* Properties.                                                             *)

(* Three records tell the verdict on an archetype, written by different    *)
(* calls: the status of the hypothesis, of its experiment, and the trail   *)
(* of promotions.  Whatever is visible of a workspace is complete and the  *)
(* three agree: validated, completed and promoted through every stage, or  *)
(* rejected three times.                                                   *)
VerdictsAgree ==
    \/ \A a \in Researched : research[a] = Nothing
    \/ \A a \in Researched :
         LET x == research[a]
             last == x.promotions[Len(x.promotions)]
         IN  /\ x # Nothing
             /\ x.manifest /\ x.experiment.folds = Folds
             /\ x.hypothesis \in {"VALIDATED", "REJECTED"}
             /\ (x.hypothesis = "VALIDATED") <=> (x.experiment.status = "COMPLETED")
             /\ (x.hypothesis = "VALIDATED") <=> (last = "PAPER_ELIGIBLE")
             /\ (x.hypothesis = "REJECTED") <=> (last = "REJECTED")
=============================================================================
