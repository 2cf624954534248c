----------------------------- MODULE MCServices -----------------------------
(***************************************************************************)
(* Instance of Services for TLC.                                           *)
(***************************************************************************)
EXTENDS Services, TLC

MCTimes == {1, 2}
MCSlugs == {"alpha", "beta", "gamma", "delta", "epsilon", "s1", "s2"}

Tracked(status, applied_at) ==
    [status |-> status, applied_at |-> applied_at, status_changed_at |-> 1]

\* A search with one criterion, which no query can hold, and one with all.  Of
\* the sources of four providers it selects some, none, one twice, and no list.
Sparse == [salary_floor |-> None, preferred_salary |-> None, remote_rules |-> "any",
           enabled_sources |-> None, radius_miles |-> Infinite, recency_limit_hours |-> None,
           excluded_titles |-> None, employment_types |-> <<>>, seniority |-> None,
           preferred_companies |-> None, excluded_companies |-> None]
Full == [salary_floor |-> 2, preferred_salary |-> 3, remote_rules |-> "remote_only",
         enabled_sources |-> [alpha |-> <<"s1">>, beta |-> <<>>, gamma |-> <<"s1", "s1">>,
                              delta |-> NotAList],
         radius_miles |-> 0, recency_limit_hours |-> 24,
         excluded_titles |-> <<"t">>, employment_types |-> <<"full_time">>,
         seniority |-> <<"senior">>, preferred_companies |-> <<"c">>,
         excluded_companies |-> <<"d">>]

Expecting(min, max) == [salary_expectation_min |-> min, salary_expectation_max |-> max]

MCCreations ==
    [user_jobs |-> {Tracked("interested", None), Tracked("applied", 1)},
     saved_searches |-> {Sparse, Full, [Full EXCEPT !.preferred_salary = 1]},
     candidate_profiles |-> {Expecting(1, None), Expecting(1, 2), Expecting(2, 1)}]

MCRequests ==
    [user_jobs |-> {},
     saved_searches |-> {[salary_floor |-> 3], [preferred_salary |-> 2], [is_active |-> FALSE]},
     candidate_profiles |->
        {[salary_expectation_min |-> 2], [salary_expectation_max |-> 1],
         [salary_expectation_min |-> None]}]

\* A source whose list names a field its flag denies, and one with the flags.
Source(name, flags, fields) ==
    [source |-> name, supported_query_fields |-> fields,
     supports_salary_filter |-> flags, supports_location_filter |-> flags,
     supports_remote_filter |-> flags, supports_posted_within_filter |-> flags]
Provider(name, sources) ==
    [name |-> name, capabilities |-> [provider |-> name, sources |-> sources]]
Mixed == [s1 |-> Source("s1", FALSE, {"salary_floor", "seniority"}),
          s2 |-> Source("s2", TRUE, {"company_filter"})]

\* The registry of a working root; the others are refused, or cannot be planned.
MCProviderLists ==
    {<<Provider("alpha", Mixed), Provider("beta", Mixed), Provider("gamma", Mixed),
       Provider("delta", Mixed), Provider("epsilon", Mixed)>>,
     <<Provider("alpha", Mixed), Provider("alpha", <<>>)>>,
     <<[Provider("alpha", Mixed) EXCEPT !.name = "beta"]>>,
     <<Provider("alpha", [s2 |-> Source("s2", TRUE, {})])>>,
     <<Provider("epsilon", [s1 |-> Source("s2", TRUE, {})])>>}

MCTitles == {<<"title">>}
MCLocations == {<<>>}

Symmetry == Permutations(Sessions) \cup Permutations(Users) \cup Permutations(Ids)
=============================================================================
