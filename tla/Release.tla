-------------------------------- MODULE Release --------------------------------
(***************************************************************************)
(* Slices of work on their way to origin/main, each on a branch of its     *)
(* own: candidate, verification, publication, review, merge, post-merge    *)
(* verification, push, in any number of attempts while main moves.         *)
(*                                                                         *)
(* The commits are made by people as docs/LLM_WORKFLOW.md has it; git and  *)
(* the remote are external.  The code's part is what it refuses.  People   *)
(* make mistakes: a commit carries a stray edit or rewrites history in the *)
(* handoff, an old receipt, artifact or review is used again, a conflict   *)
(* is resolved by dropping the other side.                                 *)
(***************************************************************************)
EXTENDS ReviewChain

CONSTANTS
    Slices,
    Root,          \* the first commit of main
    Edits,         \* [Slices -> the edits its candidates may make]
    Stray,         \* the edit a mistake carries
    SliceKind,     \* [Slices -> the kind its author declares]
    Gates,         \* [Slices -> the gates its author may declare]
    MaxCandidates, \* [Slices -> bound on its candidates]
    MaxMistakes    \* bound on the mistakes of all

\* An edit is no record, and the commits of the slices are new.
ASSUME ReleaseAssumption ==
    /\ \A s \in Slices : \A edit \in Edits[s] \cup {Stray} : edit.kind = "edit"
    /\ {Root, None} \cap (Slices \X Nat) = {}

VARIABLES
    main,       \* origin/main
    work,       \* [Slices -> where the slice is, and the commits of its attempt]
    mistakes,
    verified,   \* candidates a coordinator has issued an eligible receipt for
    approved    \* candidates a reviewer has approved

releaseVars == <<commits, main, work, mistakes, verified, approved>>

NewWork ==
    [stage |-> "new", made |-> 0, candidates |-> 0, head |-> None, fork |-> None,
     c |-> None, a |-> None, r |-> None, m |-> None, q |-> None, first_parent |-> None,
     receipt |-> None, artifact |-> None]

ReleaseInit ==
    /\ commits = [c \in {Root} |->
                    [parents |-> <<>>,
                     tree |-> [files |-> {}, handoff |-> <<[kind |-> "history"]>>]]]
    /\ main = Root
    /\ work = [s \in Slices |-> NewWork]
    /\ mistakes = 0
    /\ verified = {}
    /\ approved = {}

-----------------------------------------------------------------------------
(***************************************************************************)
(* Commits and the mistakes made in them.                                  *)
(***************************************************************************)
NextCommit(s) == <<s, work[s].made + 1>>

\* Slice s commits tree, which becomes the commit named role of its attempt.
Store(s, role, parents, tree, changes) ==
    LET new == NextCommit(s)
        w == work[s]
        changed == [f \in DOMAIN w |-> IF f \in DOMAIN changes THEN changes[f] ELSE w[f]]
    IN /\ commits' = [c \in DOMAIN commits \cup {new} |->
                        IF c = new THEN [parents |-> parents, tree |-> tree] ELSE commits[c]]
       /\ work' = [work EXCEPT ![s] = [changed EXCEPT !.made = w.made + 1, ![role] = new]]

Slips(tree) ==
    {[tree EXCEPT !.files = @ \cup {Stray}],
     [tree EXCEPT !.handoff[1] = [kind |-> "rewritten"]]}

\* The tree that is meant, or one of wrong.
CommitOf(s, role, parents, meant, wrong, changes) ==
    \/ Store(s, role, parents, meant, changes) /\ UNCHANGED mistakes
    \/ /\ mistakes < MaxMistakes
       /\ mistakes' = mistakes + 1
       /\ \E tree \in wrong : Store(s, role, parents, tree, changes)

-----------------------------------------------------------------------------
(***************************************************************************)
(* C: on a fresh branch or on the slice's last commit, anew after a review *)
(* or when main has moved.  It drops edits that are there or adds edits of *)
(* its slice; the records filed with the code it leaves alone.             *)
(***************************************************************************)
WriteCandidate(s) ==
    /\ work[s].candidates < MaxCandidates[s]
    /\ \/ work[s].stage \in {"new", "candidate", "verified", "reviewed"}
       \/ work[s].stage # "pushed" /\ work[s].fork # main
    /\ \E parent \in {main, work[s].head} \ {None}, gate \in Gates[s] :
       \E base \in {main, parent}, dropped \in SUBSET Code(parent),
          added \in SUBSET (Edits[s] \ Tree(parent).files) :
          LET block == [kind |-> "work_done", slice |-> s, slice_kind |-> SliceKind[s],
                        base |-> base, declared_gate |-> gate, executed_gate |-> None,
                        candidate |-> None, receipt |-> None]
          IN /\ dropped \cup added # {}
             /\ Store(s, "c", <<parent>>,
                      [files |-> (Tree(parent).files \ dropped) \cup added,
                       handoff |-> Append(Handoff(parent), block)],
                      [stage |-> "candidate", head |-> NextCommit(s),
                       candidates |-> work[s].candidates + 1,
                       fork |-> IF parent = work[s].head THEN work[s].fork ELSE main])
    /\ UNCHANGED <<main, mistakes, verified, approved>>

\* Mutant: a base may be any ancestor of the candidate.
BaseAncestorOnly(base, candidate) == Ancestor(base, candidate)

enforce_base_authoritative(base, candidate) == main = base /\ Ancestor(base, candidate)

\* run_receipt_eligible_verification, for a candidate on which all steps pass.
VerifyCandidate(s) ==
    LET c == work[s].c
        block == Published(c)
        paths == DiffPaths(block.base, c)
        request == [kind |-> "receipt", gate |-> block.declared_gate,
                    docs_only |-> block.declared_gate = "docs", paths |-> paths,
                    focus_targets |-> {}]
        receipt == [kind |-> "receipt", under |-> c, id |-> c, candidate |-> c,
                    base |-> block.base, slice |-> s, gate |-> request.gate,
                    scope |-> Scope(paths),
                    data |-> PassingData("receipt", request.gate, paths)]
    IN /\ work[s].stage = "candidate"
       /\ enforce_base_authoritative(block.base, c)
       /\ forces_final_gate(paths) => request.gate = "final"
       /\ AcceptedArguments(request)
       /\ work' = [work EXCEPT ![s].stage = "verified", ![s].receipt = receipt]
       /\ verified' = IF receipt_eligible(receipt) THEN verified \cup {c} ELSE verified
       /\ UNCHANGED <<commits, main, mistakes, approved>>

-----------------------------------------------------------------------------
(***************************************************************************)
(* A and R.                                                                *)
(***************************************************************************)
\* The candidate's tree with a receipt filed as its own, and the block that says so.
PublishedTree(c, receipt) ==
    LET published == [Published(c) EXCEPT !.executed_gate = receipt.gate, !.candidate = c,
                                          !.receipt = receipt.id]
    IN  [files |-> Tree(c).files \cup {[receipt EXCEPT !.under = c]},
         handoff |-> [Handoff(c) EXCEPT ![LatestWorkDone(Handoff(c))] = published]]

\* By mistake, the receipt is one of an earlier attempt.
PublishReceipt(s) ==
    LET c == work[s].c
        receipt == work[s].receipt
        next == [stage |-> "published", head |-> NextCommit(s)]
    IN /\ \/ /\ work[s].stage = "verified"
             /\ CommitOf(s, "a", <<c>>, PublishedTree(c, receipt),
                         Slips(PublishedTree(c, receipt)), next)
          \/ /\ work[s].stage = "candidate" /\ receipt # None /\ mistakes < MaxMistakes
             /\ Store(s, "a", <<c>>, PublishedTree(c, receipt), next)
             /\ mistakes' = mistakes + 1
       /\ UNCHANGED <<main, verified, approved>>

ReviewSection(s, verdict) ==
    [kind |-> "review", slice |-> s, candidate |-> work[s].c, publication |-> work[s].a,
     receipt |-> Published(work[s].a).receipt, gate |-> Published(work[s].a).executed_gate,
     verdict |-> verdict]

\* By mistake, an earlier review is repeated, or a section of another kind stands
\* where the review belongs.
PublishReview(s) ==
    LET a == work[s].a
        With(section) == [files |-> Tree(a).files, handoff |-> Append(Handoff(a), section)]
        earlier == {section \in ToSet(Handoff(a)) : section.kind \in {"review", "work_done"}}
    IN /\ work[s].stage = "published"
       /\ \E verdict \in {"approved", "changes_requested"} :
             /\ CommitOf(s, "r", <<a>>, With(ReviewSection(s, verdict)),
                         Slips(With(ReviewSection(s, verdict)))
                           \cup {With(section) : section \in earlier},
                         [stage |-> "reviewed", head |-> NextCommit(s)])
             /\ approved' = IF verdict = "approved" THEN approved \cup {work[s].c} ELSE approved
       /\ UNCHANGED <<main, verified>>

-----------------------------------------------------------------------------
(***************************************************************************)
(* M, Q and the push.                                                      *)
(***************************************************************************)
\* git merge of y into x; a conflict in the handoff is resolved by keeping both.
ThreeWay(base, x, y) ==
    [files |-> (x.files \cup y.files) \ ((base.files \ x.files) \cup (base.files \ y.files)),
     handoff |-> IF x.handoff = base.handoff THEN y.handoff
                 ELSE x.handoff \o Suffix(base.handoff, y.handoff)]

\* check_merge_eligibility authorises the merge; main may have moved since the
\* verification.  By mistake, what main has gained is dropped.
MergeReview(s) ==
    LET r == work[s].r
        merged == ThreeWay(Tree(work[s].fork), Tree(main), Tree(r))
    IN /\ work[s].stage = "reviewed" \/ (work[s].m # None /\ work[s].first_parent # main
                                          /\ work[s].stage \in {"merged", "post_merge", "q"})
       /\ check_merge_eligibility(work[s].c, work[s].a, r)
       /\ CommitOf(s, "m", <<main, r>>, merged, Slips(merged) \cup {Tree(r)},
                   [stage |-> "merged", first_parent |-> main])
       /\ UNCHANGED <<main, verified, approved>>

\* run_post_merge_verification, where all steps pass.
VerifyMerge(s) ==
    LET w == work[s]
        block == Published(w.a)
        artifact == [kind |-> "artifact", merged_commit |-> w.m, candidate |-> w.c,
                     publication |-> w.a, review |-> w.r, base |-> block.base,
                     slice |-> Reviewed(w.r).slice, receipt |-> Reviewed(w.r).receipt,
                     data |-> PassingData("post_merge", "final", DiffPaths(block.base, w.c))]
    IN /\ w.stage = "merged"
       /\ validate_c_a_r_chain(w.c, w.a, w.r)
       /\ validate_merge(w.r, w.m, w.first_parent)
       /\ work' = [work EXCEPT ![s].stage = "post_merge", ![s].artifact = artifact]
       /\ UNCHANGED <<commits, main, mistakes, verified, approved>>

\* By mistake, the artifact is that of an earlier merge.
PublishArtifact(s) ==
    LET w == work[s]
        tree == [files |-> Tree(w.m).files \cup {w.artifact},
                 handoff |-> Append(Handoff(w.m), [kind |-> "merge_record", slice |-> s])]
    IN /\ \/ /\ w.stage = "post_merge"
             /\ CommitOf(s, "q", <<w.m>>, tree, Slips(tree), [stage |-> "q"])
          \/ /\ w.stage = "merged" /\ w.artifact # None /\ mistakes < MaxMistakes
             /\ Store(s, "q", <<w.m>>, tree, [stage |-> "q"])
             /\ mistakes' = mistakes + 1
       /\ UNCHANGED <<main, verified, approved>>

confirm_main_unchanged(expected) == main = expected

\* One ref update; the remote takes no push that does not descend from its tip.
Push(s) ==
    LET w == work[s]
    IN /\ w.stage = "q"
       /\ validate_published(w.c, w.a, w.r, w.m, w.q, w.first_parent)
       /\ confirm_main_unchanged(w.first_parent)
       /\ main' = w.q
       /\ work' = [work EXCEPT ![s].stage = "pushed"]
       /\ UNCHANGED <<commits, mistakes, verified, approved>>

SliceStep(s) ==
    \/ WriteCandidate(s) \/ VerifyCandidate(s)
    \/ PublishReceipt(s) \/ PublishReview(s)
    \/ MergeReview(s) \/ VerifyMerge(s) \/ PublishArtifact(s) \/ Push(s)

ReleaseNext == \E s \in Slices : SliceStep(s)

ReleaseSpec == ReleaseInit /\ [][ReleaseNext]_releaseVars

-----------------------------------------------------------------------------
\* What main holds, it holds as some candidate had it that was verified in full
\* and approved: its code, and the history in the handoff.  No edit slips in
\* beside a receipt, a review, a merge or an artifact, and no receipt or review
\* counts for another candidate (check_review.py:1-28).
PublishedAsVerifiedAndApproved ==
    main # Root =>
        \E c \in verified \cap approved :
            /\ Code(main) = Code(c)
            /\ IsPrefix(SubSeq(Handoff(c), 1, LatestWorkDone(Handoff(c)) - 1), Handoff(main))

\* Every schema change in main went through the migration matrix in a merged
\* tree that has it, whichever base its candidate named and whatever main did
\* in the meantime (check_review.py:1084-1099, verification_coordinator.py:194-202).
EveryMigrationWasTested ==
    \A edit \in Code(main) : edit.path.migration =>
        \E artifact \in OfKind("artifact", Tree(main).files) :
            /\ edit \in Code(artifact.merged_commit)
            /\ MatrixTriggered(artifact.data)
            /\ migration_matrix_genuinely_passed(artifact.data)
=============================================================================
