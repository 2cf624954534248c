------------------------------- MODULE MCRelease -------------------------------
(***************************************************************************)
(* Instance of Release for TLC: a slice of two edits, one of them a schema *)
(* change, beside one of a single edit.                                    *)
(***************************************************************************)
EXTENDS Release

Edit(name, category, family, migration) ==
    [kind |-> "edit", name |-> name,
     path |-> [category |-> category, family |-> family, exists |-> TRUE,
               migration |-> migration]]

MCSlices == {"schema", "docs"}
MCEdits == [schema |-> {Edit("parser", "parser", "salary", FALSE),
                        Edit("migration", "unmapped", None, TRUE)},
            docs |-> {Edit("page", "docs-only", None, FALSE)}]
MCStray == Edit("stray", "parser", "location", FALSE)
MCSliceKind == [schema |-> "tooling", docs |-> "docs"]
MCGates == [schema |-> {"final"}, docs |-> {"docs"}]
MCMaxCandidates == [schema |-> 2, docs |-> 1]
MCRoot == <<"main", 0>>
=============================================================================
