------------------------------ MODULE ReviewChain ------------------------------
(***************************************************************************)
(* scripts/check_review.py and check_handoff.py: what the chain of commits *)
(* C -> A -> R -> M -> Q has to look like, read off git alone.             *)
(*                                                                         *)
(* A commit is its parents and its tree; a tree is a set of files and the  *)
(* handoff, a sequence of sections.  A file is an edit of the code, a      *)
(* receipt or a post-merge artifact; an edit is the path it changes.  What *)
(* is refused by exception is FALSE here.  Fields that only describe (the  *)
(* reviewer, dates, counts, file hashes) are left out.                     *)
(***************************************************************************)
EXTENDS Verification

VARIABLE commits    \* what git's object store holds, by commit

Tree(c) == commits[c].tree
Parents(c) == commits[c].parents
Handoff(c) == Tree(c).handoff

OfKind(kind, files) == {f \in files : f.kind = kind}
Code(c) == OfKind("edit", Tree(c).files)

Added(x, y) == Tree(y).files \ Tree(x).files
Removed(x, y) == Tree(x).files \ Tree(y).files

\* merge-base --is-ancestor.
Ancestor(x, y) ==
    LET reached[n \in 0..Cardinality(DOMAIN commits)] ==
            IF n = 0 THEN {y}
            ELSE LET nearer == reached[n - 1]
                 IN nearer \cup UNION {ToSet(Parents(c)) : c \in nearer}
    IN x \in reached[Cardinality(DOMAIN commits)]

\* The paths of base..candidate; the handoff and the records among them, which
\* require nothing, are left out.
DiffPaths(base, candidate) ==
    {f.path : f \in OfKind("edit", Added(base, candidate) \cup Removed(base, candidate))}

-----------------------------------------------------------------------------
(***************************************************************************)
(* Receipts and artifacts.                                                 *)
(***************************************************************************)
Scope(paths) ==
    [categories |-> {p.category : p \in paths},
     required_contract_families |-> required_contract_families(paths),
     required_focus_targets |-> required_focus_targets(paths),
     migration |-> migration_required(paths)]

\* The JSON of a verification in which everything passed.
PassingData(kind, gate, paths) ==
    LET r == [kind |-> kind, gate |-> gate, docs_only |-> gate = "docs", paths |-> paths,
              focus_targets |-> {}]
        steps == build_steps(r)
    IN StepData(r, Len(steps) + 1, "PASS", Evidenced \cap ToSet(steps))

receipt_eligible(receipt) ==
    compute_approval_eligible(receipt.gate, receipt.data, "clean", "clean")

cross_check_affected_surface(base, candidate, receipt) ==
    receipt.scope = Scope(DiffPaths(base, candidate))

\* A step of the matrix is recorded exactly if the diff required it.
MatrixTriggered(data) == "migration matrix" \in data.ran

-----------------------------------------------------------------------------
(***************************************************************************)
(* The handoff.                                                            *)
(***************************************************************************)
WorkDone(handoff) == {i \in DOMAIN handoff : handoff[i].kind = "work_done"}

\* The newest Work done section is the last.
LatestWorkDone(handoff) == CHOOSE i \in WorkDone(handoff) : \A j \in WorkDone(handoff) : j <= i

\* check_handoff.validate_structure of a published block: its receipt_path names
\* the candidate's directory and the receipt.
validate_structure_published(block) ==
    /\ block.candidate # None
    /\ block.receipt # None
    /\ block.executed_gate = block.declared_gate

Suffix(before, after) == SubSeq(after, Len(before) + 1, Len(after))

-----------------------------------------------------------------------------
(***************************************************************************)
(* C -> A -> R.                                                            *)
(***************************************************************************)
require_single_parent_chain(c, a, r) == Parents(a) = <<c>> /\ Parents(r) = <<a>>

\* Mutant: other paths may change with the receipt and the block.
CtoAOtherPaths(c, a) ==
    /\ Cardinality(OfKind("receipt", Added(c, a))) = 1
    /\ Handoff(a) # Handoff(c)
    /\ WorkDone(Handoff(c)) # {}
    /\ Len(Handoff(a)) = Len(Handoff(c))
    /\ \A i \in DOMAIN Handoff(a) :
           Handoff(a)[i] # Handoff(c)[i] => i = LatestWorkDone(Handoff(c))

\* One receipt is added, and the newest block is all that changes in the handoff.
validate_c_to_a_transition(c, a) ==
    /\ Cardinality(OfKind("receipt", Added(c, a))) = 1
    /\ Added(c, a) = OfKind("receipt", Added(c, a))
    /\ Removed(c, a) = {}
    /\ Handoff(a) # Handoff(c)
    /\ WorkDone(Handoff(c)) # {}
    /\ Len(Handoff(a)) = Len(Handoff(c))
    /\ \A i \in DOMAIN Handoff(a) :
           Handoff(a)[i] # Handoff(c)[i] => i = LatestWorkDone(Handoff(c))

\* Only the handoff changes, by one appended Work review section.
validate_a_to_r_transition(a, r) ==
    /\ Added(a, r) = {} /\ Removed(a, r) = {}
    /\ IsPrefix(Handoff(a), Handoff(r))
    /\ LET suffix == Suffix(Handoff(a), Handoff(r))
       IN Len(suffix) = 1 /\ suffix[1].kind = "review"

Published(a) == Handoff(a)[LatestWorkDone(Handoff(a))]

\* The section R appended; the one review that counts is in it.
Reviewed(r) == Handoff(r)[Len(Handoff(r))]

validate_verdict(review) == review.verdict \in {"approved", "changes_requested"}

cross_check_published_and_review(published, review) ==
    /\ published.slice = review.slice
    /\ published.candidate = review.candidate
    /\ published.executed_gate = review.gate
    /\ published.receipt = review.receipt

\* The files at <candidate>/<receipt id>: none, or one.
ReceiptsAt(commit, candidate, id) ==
    {f \in OfKind("receipt", Tree(commit).files) : f.under = candidate /\ f.id = id}

\* A well-formed record, whatever its verdict.
validate_c_a_r_chain(c, a, r) ==
    /\ require_single_parent_chain(c, a, r)
    /\ validate_c_to_a_transition(c, a)
    /\ validate_a_to_r_transition(a, r)
    /\ validate_structure_published(Published(a))
    /\ Published(a).candidate = c
    /\ Ancestor(Published(a).base, c)
    /\ validate_verdict(Reviewed(r))
    /\ Reviewed(r).candidate = c
    /\ Reviewed(r).publication = a
    /\ cross_check_published_and_review(Published(a), Reviewed(r))
    /\ \E receipt \in ReceiptsAt(a, c, Reviewed(r).receipt) :
           /\ validate_receipt_schema(receipt.data)
           /\ receipt.gate = Reviewed(r).gate
           /\ receipt.candidate = c
           /\ receipt.slice = Published(a).slice
           /\ receipt.base = Published(a).base
           /\ cross_check_affected_surface(Published(a).base, c, receipt)
           /\ Reviewed(r).verdict = "approved" => receipt_eligible(receipt)

check_merge_eligibility(c, a, r) ==
    /\ validate_c_a_r_chain(c, a, r)
    /\ Reviewed(r).verdict = "approved"
    /\ Reviewed(r).gate = "docs" => Published(a).slice_kind = "docs"

-----------------------------------------------------------------------------
(***************************************************************************)
(* M and Q.                                                                *)
(***************************************************************************)
validate_merge(r, m, expected_first_parent) ==
    /\ Parents(m) = <<expected_first_parent, r>>
    /\ Tree(m) = Tree(r)

\* The handoff is left alone or appended to.
validate_m_to_q_transition(m, q) == IsPrefix(Handoff(m), Handoff(q))

\* The artifact Q adds, and it adds nothing else.
validate_q(m, q) ==
    /\ Parents(q) = <<m>>
    /\ Removed(m, q) = {}
    /\ \E artifact \in OfKind("artifact", Added(m, q)) :
           /\ Added(m, q) = {artifact}
           /\ validate_post_merge_artifact(artifact.data)
           /\ artifact.merged_commit = m
    /\ validate_m_to_q_transition(m, q)

ArtifactOf(m, q) == CHOOSE f \in Added(m, q) : TRUE

validate_published(c, a, r, m, q, expected_first_parent) ==
    /\ validate_c_a_r_chain(c, a, r)
    /\ validate_merge(r, m, expected_first_parent)
    /\ validate_q(m, q)
    /\ LET artifact == ArtifactOf(m, q)
           review == Reviewed(r)
           published == Published(a)
       IN /\ artifact.candidate = c
          /\ artifact.publication = a
          /\ artifact.review = r
          /\ artifact.base = published.base
          /\ artifact.slice = review.slice
          /\ artifact.receipt = review.receipt
          /\ \E receipt \in ReceiptsAt(m, c, artifact.receipt) :
                 receipt.candidate = c /\ receipt.base = artifact.base
          /\ MatrixTriggered(artifact.data) = migration_required(DiffPaths(published.base, c))
          /\ review.verdict = "approved"
=============================================================================
