------------------------------ MODULE MCPipeline ------------------------------
(***************************************************************************)
(* Instance of Pipeline for TLC: one provider, one or two sources, up to   *)
(* three postings.                                                         *)
(***************************************************************************)
EXTENDS Pipeline

MCProviders == {"alpha"}
MCSources == {"s1", "s2"}
MCSelections == {{"s1"}, {"s1", "s2"}}

Stat(completed, incomplete, found) ==
    [completed |-> completed, incomplete_results |-> incomplete, jobs_found |-> found]
Job(s) == [provider |-> "alpha", source |-> s]
Error(s, t) == [source |-> s, occurred_at |-> t]

\* A failed source beside a healthy one; an error on a source that completed;
\* an incomplete source; nothing found; and a result that breaks the contract.
MCResults ==
    {[provider |-> "alpha", jobs |-> <<Job("s1"), Job("s1")>>,
      errors |-> <<Error("s2", 2), Error("s2", 1)>>,
      source_stats |-> [s1 |-> Stat(TRUE, FALSE, 2), s2 |-> Stat(FALSE, FALSE, 0)]],
     [provider |-> "alpha", jobs |-> <<Job("s1"), Job("s2"), Job("s1")>>, errors |-> <<>>,
      source_stats |-> [s1 |-> Stat(TRUE, FALSE, 2), s2 |-> Stat(TRUE, FALSE, 1)]],
     [provider |-> "alpha", jobs |-> <<Job("s2")>>, errors |-> <<>>,
      source_stats |-> [s1 |-> Stat(TRUE, FALSE, 0), s2 |-> Stat(TRUE, TRUE, 1)]],
     [provider |-> "alpha", jobs |-> <<Job("s1")>>, errors |-> <<Error("s1", 1)>>,
      source_stats |-> [s1 |-> Stat(TRUE, FALSE, 1), s2 |-> None]],
     [provider |-> "alpha", jobs |-> <<>>, errors |-> <<>>,
      source_stats |-> [s1 |-> Stat(TRUE, FALSE, 0), s2 |-> None]],
     [provider |-> "alpha", jobs |-> <<Job("s1")>>, errors |-> <<>>,
      source_stats |-> [s1 |-> Stat(TRUE, FALSE, 2), s2 |-> None]]}
=============================================================================
