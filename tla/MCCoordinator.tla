----------------------------- MODULE MCCoordinator -----------------------------
(***************************************************************************)
(* Instance of Coordinator for TLC: two calls, each for any of a few       *)
(* requests.                                                               *)
(***************************************************************************)
EXTENDS Coordinator

CONSTANTS c1, c2

MCCalls == {c1, c2}
MCSymmetry == Permutations(MCCalls)

Path(category, family) ==
    [category |-> category, family |-> family, exists |-> TRUE, migration |-> FALSE]
Migration == [Path("unmapped", None) EXCEPT !.migration = TRUE]

Request(kind, gate, paths) ==
    [kind |-> kind, gate |-> gate, docs_only |-> gate = "docs", paths |-> paths,
     focus_targets |-> {}]

DocsReceipt  == Request("receipt", "docs", {Path("docs-only", None)})
HiddenSchema == Request("receipt", "docs", {Path("docs-only", None), Migration})
FastReceipt  == Request("receipt", "fast", {Path("parser", "salary")})
FinalReceipt == Request("receipt", "final", {Migration})
PostMerge    == Request("post_merge", "final", {Migration})

MCRequests == {DocsReceipt, HiddenSchema, FastReceipt, FinalReceipt, PostMerge}

\* A final receipt beside any other, two artifacts, or one of each: the two
\* coordinators sweep directories of their own kind only.
MCAsked ==
    {asked \in [MCCalls -> MCRequests] :
       \/ FinalReceipt \in Range(asked) /\ PostMerge \notin Range(asked)
       \/ Range(asked) \in {{PostMerge}, {HiddenSchema, PostMerge}}}

\* All is well, the last step but one or the cleanup fails, or the evidence of one
\* step is incomplete: never two of these at once.
MCRuns ==
    [r \in MCRequests |->
       {data \in Outputs(r) :
          LET failed  == {n \in DOMAIN data.steps : data.steps[n] = "FAIL"}
              missing == {n \in Evidenced \cap DOMAIN data.steps :
                            data.steps[n] = "PASS" /\ n \notin data.complete}
              steps   == build_steps(r)
          IN  /\ Cardinality(failed) + Cardinality(missing) <= 1
              /\ failed \subseteq {steps[Len(steps) - 1], "temporary-directory cleanup"}}]
=============================================================================
