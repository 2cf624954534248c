---------------------------- MODULE MCOrchestrator ----------------------------
(***************************************************************************)
(* Instance of Orchestrator for TLC: two registered providers and one name *)
(* nobody registered.                                                      *)
(***************************************************************************)
EXTENDS Orchestrator

MCProviders == {"alpha", "beta"}
MCNames == {"alpha", "beta", "gone"}
MCSources == {"s1", "s2"}
MCSelections == {{"s1"}, {"s1", "s2"}}
MCRegistry == <<"alpha", "beta">>

\* Everything registered; an explicit order with an unregistered name; an empty
\* list, a malformed entry, a duplicate, and a paused search.
MCSearches ==
    {[is_active |-> active, enabled_providers |-> enabled] :
       active \in {TRUE}, enabled \in {None, <<"beta", "gone", "alpha">>, <<>>,
                                       <<"Bad Name">>, <<"beta", "beta">>}}
      \cup {[is_active |-> FALSE, enabled_providers |-> None]}

Stat(completed, incomplete, found) ==
    [completed |-> completed, incomplete_results |-> incomplete, jobs_found |-> found]
Job(p, s) == [provider |-> p, source |-> s]
Error(s, t) == [source |-> s, occurred_at |-> t]

\* A failed source beside a healthy one; an error on a source that completed; an
\* incomplete source; nothing found; and results that break the contract.
MCResults ==
    {[provider |-> "alpha", jobs |-> <<Job("alpha", "s1"), Job("alpha", "s1")>>,
      errors |-> <<Error("s2", 2), Error("s2", 1)>>,
      source_stats |-> [s1 |-> Stat(TRUE, FALSE, 2), s2 |-> Stat(FALSE, FALSE, 0)]],
     [provider |-> "alpha", jobs |-> <<Job("alpha", "s1")>>, errors |-> <<Error("s1", 1)>>,
      source_stats |-> [s1 |-> Stat(TRUE, FALSE, 1), s2 |-> None]],
     [provider |-> "alpha", jobs |-> <<>>, errors |-> <<>>,
      source_stats |-> [s1 |-> Stat(TRUE, FALSE, 0), s2 |-> None]],
     [provider |-> "beta", jobs |-> <<Job("beta", "s1"), Job("beta", "s2")>>,
      errors |-> <<>>,
      source_stats |-> [s1 |-> Stat(TRUE, FALSE, 1), s2 |-> Stat(TRUE, TRUE, 1)]],
     [provider |-> "beta", jobs |-> <<Job("beta", "s1")>>, errors |-> <<>>,
      source_stats |-> [s1 |-> Stat(TRUE, FALSE, 1), s2 |-> None]],
     [provider |-> "beta", jobs |-> <<Job("beta", "s1")>>, errors |-> <<>>,
      source_stats |-> [s1 |-> Stat(TRUE, FALSE, 2), s2 |-> None]]}
=============================================================================
