----------------------------- MODULE Verification -----------------------------
(***************************************************************************)
(* What a verification run has to execute and what its record proves: the  *)
(* scope computed from a diff (verification_scope), the steps verify.py    *)
(* runs and the JSON it leaves, and the validation and the eligibility of  *)
(* receipts and post-merge artifacts.                                      *)
(*                                                                         *)
(* The five static steps and the two database steps always come together   *)
(* and are one name each.  A step's output is what a reader of the record  *)
(* asks of it: is its evidence complete?                                   *)
(***************************************************************************)
EXTENDS Naturals, Sequences, FiniteSets, SequencesExt

CONSTANT None

Families == {"location", "salary", "experience"}

FamilyKinds == {"parser", "adapter", "contract-record"}

\* Categories that are never verified by anything but --gate final.
Broad == {"shared-harness-core", "workflow-script", "workflow-hook", "root-configuration",
          "workflow-governing-doc", "unmapped"}

Categories == FamilyKinds \cup Broad \cup
              {"test-fixture", "handoff-transition", "docs-only", "generic-changed-test"}

\* A path of a diff: its rule's category and family, whether it is still there
\* in the candidate, and whether it is under migrations/ or app/db/, which no
\* rule of the table maps.
ValidPath(p) ==
    /\ p.category \in Categories
    /\ p.family \in IF p.category \in FamilyKinds THEN Families ELSE {None}
    /\ p.exists \in BOOLEAN
    /\ p.migration => p.category = "unmapped"

forces_final_gate(paths) == \E p \in paths : p.category \in Broad

required_contract_families(paths) ==
    IF \E p \in paths : p.category = "shared-harness-core" THEN Families
    ELSE {p.family : p \in {q \in paths : q.category \in FamilyKinds}}

\* The changed tests themselves, the contract tests of the families, which are
\* always there, and the harness's own.
required_focus_targets(paths) ==
    LET families == required_contract_families(paths)
    IN  {p \in paths : p.category = "generic-changed-test"}
          \cup {[category |-> "contract-test", family |-> f, exists |-> TRUE] : f \in families}
          \cup (IF families = {} THEN {}
                ELSE {[category |-> "harness-test", family |-> None, exists |-> TRUE]})

migration_required(paths) == \E p \in paths : p.migration

-----------------------------------------------------------------------------
Kinds == {"receipt", "post_merge"}

ValidRequest(r) ==
    /\ r.kind \in Kinds
    /\ r.gate \in {"fast", "final", "docs"}
    /\ r.docs_only \in BOOLEAN
    /\ \A p \in r.paths : ValidPath(p)
    /\ \A target \in r.focus_targets : target.exists \in BOOLEAN
    /\ r.kind = "post_merge" => r.gate = "final" /\ ~r.docs_only

\* A caller only adds to what the diff requires.
Focus(r) == IF r.kind = "post_merge" THEN {}
            ELSE required_focus_targets(r.paths) \cup r.focus_targets

\* Otherwise verify.py exits with a usage error before any step.
AcceptedArguments(r) ==
    /\ ~(r.docs_only /\ Focus(r) # {})
    /\ r.docs_only <=> r.gate = "docs"
    /\ \A target \in Focus(r) : target.exists

build_steps(r) ==
    LET If(condition, name) == IF condition THEN <<name>> ELSE <<>>
    IN  <<"static checks">>
          \o If(~r.docs_only, "database checks")
          \o If(~r.docs_only /\ Focus(r) # {}, "focused pytest")
          \o If(~r.docs_only /\ r.gate # "fast", "full pytest suite")
          \o If(r.gate # "docs", "contract mutation witnesses")
          \o If(migration_required(r.paths) /\ ~r.docs_only, "migration matrix")
          \o <<"handoff metadata validation">>

\* Steps whose record says more than PASS: a count, the guards that ran, states.
Evidenced == {"focused pytest", "full pytest suite", "contract mutation witnesses",
              "migration matrix"}

\* The JSON of a run in which the step at failing failed (none, if it is past the
\* last), the later ones were blocked, and cleanup ended with its own status.
StepData(r, failing, cleanup, complete) ==
    LET steps == build_steps(r)
        index(name) == CHOOSE i \in DOMAIN steps : steps[i] = name
        status(i) == IF i < failing THEN "PASS" ELSE IF i = failing THEN "FAIL" ELSE "NOT RUN"
    IN  [steps |-> [name \in ToSet(steps) \cup {"temporary-directory cleanup"} |->
                      IF name \in ToSet(steps) THEN status(index(name)) ELSE cleanup],
         ran |-> {steps[i] : i \in {j \in DOMAIN steps : j <= failing}},
         complete |-> complete]

\* Every JSON a run of the request may leave.
Outputs(r) ==
    LET steps == build_steps(r)
        done(failing) == {steps[i] : i \in 1..failing - 1}
    IN  UNION {{StepData(r, failing, cleanup, complete) :
                  cleanup \in {"PASS", "FAIL"}, complete \in SUBSET (Evidenced \cap done(failing))} :
               failing \in 1..Len(steps) + 1}

Passed(data, names) ==
    \A name \in names : name \in DOMAIN data.steps /\ data.steps[name] = "PASS"

all_passed(data) == Passed(data, DOMAIN data.steps)

-----------------------------------------------------------------------------
\* The statuses a receipt may hold, as verification_receipts spells them.
StepStatuses == {"PASS", "FAIL", "NOT_RUN"}

\* A suite is listed as ran whether or not it was; witnesses and matrix only if.
ClaimedToHaveRun(data) ==
    {name \in {"focused pytest", "full pytest suite"} : name \in DOMAIN data.steps}
      \cup ({"contract mutation witnesses", "migration matrix"} \cap data.ran)

\* A suite's count is a number only if its output had one.
validate_receipt_schema(data) ==
    /\ \A name \in DOMAIN data.steps : data.steps[name] \in StepStatuses
    /\ Passed(data, ClaimedToHaveRun(data))
    /\ {"focused pytest", "full pytest suite"} \cap DOMAIN data.steps \subseteq data.complete

\* The names an eligible record must show, given what else the record claims.
applicable_step_names(gate, data) ==
    {"static checks", "handoff metadata validation", "temporary-directory cleanup"}
      \cup (IF gate = "docs" THEN {}
            ELSE {"database checks", "full pytest suite", "contract mutation witnesses"}
                   \cup ({"focused pytest", "migration matrix"} \cap ClaimedToHaveRun(data)))

migration_matrix_genuinely_passed(data) ==
    "migration matrix" \in data.ran => /\ Passed(data, {"migration matrix"})
                                       /\ "migration matrix" \in data.complete

compute_approval_eligible(gate, data, initial, final) ==
    /\ gate # "fast"
    /\ Passed(data, applicable_step_names(gate, data))
    /\ all_passed(data)
    /\ initial = final
    /\ migration_matrix_genuinely_passed(data)
    /\ gate = "final" => /\ "full pytest suite" \in data.complete
                         /\ "contract mutation witnesses" \in data.ran \cap data.complete

\* The post-merge artifact's own validation; it has no focused tests.
validate_post_merge_artifact(data) ==
    /\ \A name \in DOMAIN data.steps : data.steps[name] \in StepStatuses
    /\ Passed(data, ClaimedToHaveRun(data))
    /\ Passed(data, applicable_step_names("final", data))
    /\ "full pytest suite" \in data.complete
    /\ "contract mutation witnesses" \in data.ran \cap data.complete
    /\ migration_matrix_genuinely_passed(data)
=============================================================================
