----------------------------- MODULE MCIdentity -----------------------------
(***************************************************************************)
(* Instances of IdentityResolution for TLC.                                *)
(***************************************************************************)
EXTENDS IdentityInvariant, TLC

MCProviders == {"greenhouse"}
MCSources == {"boards", "mirror"}
\* " a" is "a" with covered whitespace around it, "  " is blank.
MCTexts == {"acme", "a", " a", "b", "  "}
MCTrim == [t \in MCTexts |-> CASE t = " a" -> "a" [] t = "  " -> None [] OTHER -> t]
\* "u1?utm" is "u1" with a tracking parameter, "ftp" is not usable.
MCUrls == {"u1", "u1?utm", "u2", "u3", "ftp"}
MCNormalizeUrl == [u \in MCUrls |-> CASE u = "u1?utm" -> "u1" [] u = "ftp" -> None
                                      [] OTHER -> u]

Posted(source, tenant, id, requisition, url, canonical) ==
    [provider |-> "greenhouse", source |-> source, source_tenant_id |-> tenant,
     source_job_id |-> id, requisition_id_raw |-> requisition, source_url |-> url,
     canonical_url |-> canonical]

\* The same posting seen with another canonical URL (quarantine), two more
\* natural keys of the first URL (Tier 2), and no identity at all.
MCSameUrl ==
    {Posted("boards", "acme", "a", "b", "u1", "u1"),
     Posted("boards", "acme", " a", "b", "u1", "u2"),
     Posted("mirror", None, "a", None, "u1", "u1?utm"),
     Posted("boards", None, "  ", None, "ftp", "u1")}

\* One requisition of one tenant under natural keys with a URL each (Job of
\* their own), and under two without a usable one (Tier 3); a posting whose job
\* id and requisition are another's crosswise.
MCSameRequisition ==
    {Posted("boards", "acme", "a", "b", "u1", "u1"),
     Posted("boards", "acme", "acme", "b", "u2", "u2"),
     Posted("boards", "acme", "  ", "b", "u3", None),
     Posted("boards", "acme", "b", "a", "u2", "ftp"),
     Posted("boards", "acme", "a", "b", "u2", None)}

\* Three natural keys with a URL each and one without, all of one requisition.
MCAmbiguous ==
    {Posted("boards", "acme", "a", "b", "u1", "u1"),
     Posted("boards", "acme", "b", "b", "u2", "u2"),
     Posted("boards", "acme", "acme", "b", "u3", "u3"),
     Posted("boards", "acme", None, "b", "u1", None)}

\* Two postings whose natural keys and requisitions cross, and two of one URL.
MCContended ==
    {Posted("boards", "acme", "b", "a", "u2", None),
     Posted("boards", "acme", "a", "b", "u2", None),
     Posted("boards", "acme", "a", "b", "u1", "u1"),
     Posted("mirror", None, "a", None, "u1", "u1?utm")}

MCPostings == MCSameUrl \cup MCSameRequisition

MCTimes == {1, 2}
MCOneTime == {1}

\* Either two calls at a time, observed in any order, on the postings of one URL, or
\* three, all observed at one time, on those of one requisition.
OneFeed ==
    LET fetched == {raw[r].posting : r \in {q \in Raws : raw[q] # None}}
        active == {p \in Procs : ctx[p] # Idle}
    IN  \/ fetched \subseteq MCSameUrl /\ Cardinality(active) <= 2
        \/ fetched \subseteq MCSameRequisition /\ \A p \in Procs : ctx[p].observed_at <= 1

Symmetry == Permutations(Raws) \cup Permutations(Procs)
=============================================================================
