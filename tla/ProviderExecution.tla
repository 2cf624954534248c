-------------------------- MODULE ProviderExecution --------------------------
(***************************************************************************)
(* execute_provider_query: one provider's discover() call, the validation  *)
(* of what it answers, one committed raw row per posting, then one         *)
(* transaction per posting, while telemetry is recorded on a state object  *)
(* the caller owns and reads even when the execution is cut short.         *)
(*                                                                         *)
(* What persist_posting does inside its transaction is the module          *)
(* IdentityResolution; here only its outcome matters.                      *)
(*                                                                         *)
(* An awaited transaction can end in three ways for the task that awaits   *)
(* it: it returns; it commits, but a cancellation or a lost connection is  *)
(* raised instead of the return; or it is rolled back and raises.          *)
(***************************************************************************)
EXTENDS Naturals, Sequences, FiniteSets, Functions

CONSTANTS
    None,
    Providers,   \* registered provider names
    Sources,     \* source slugs
    Results      \* the DiscoveryResults a provider may return

SourceRunStats == [completed : BOOLEAN, incomplete_results : BOOLEAN, jobs_found : Nat]
ProviderError  == [source : Sources, occurred_at : Nat]
DiscoveredJob  == [provider : Providers, source : Sources]

\* A result has no stats of a source it was not asked for.
requested_sources(r) == {s \in Sources : r.source_stats[s] # None}

\* What DiscoveryResult's own validator lets through.
ValidResult(r) ==
    /\ r.provider \in Providers
    /\ r.source_stats \in [Sources -> SourceRunStats \cup {None}]
    /\ r.jobs \in Seq(DiscoveredJob)
    /\ r.errors \in Seq(ProviderError)
    /\ \A i \in DOMAIN r.jobs : r.jobs[i].source \in requested_sources(r)
    /\ \A i \in DOMAIN r.errors : r.errors[i].source \in requested_sources(r)
    /\ \A s \in requested_sources(r) :
         r.source_stats[s].completed \/ r.source_stats[s].jobs_found = 0

ASSUME ResultAssumption ==
    /\ IsFiniteSet(Providers) /\ IsFiniteSet(Sources)
    /\ None \notin Providers \cup Sources
    /\ \A r \in Results : ValidResult(r)

VARIABLES
    raws,    \* the raw_job_ingestions rows of this run, in insertion order
    state,   \* the ProviderExecutionState of the provider in flight
    exec     \* control state of execute_provider_query

executionVars == <<raws, state, exec>>

RawRow == [provider : Providers, source : Sources,
           status : {"fetched", "parse_error", "normalized", "identity_conflict"}]

Counters == [Sources -> Nat]

ProviderExecutionState ==
    [discovered : Counters, inserted : Counters, updated : Counters,
     failures : Seq(ProviderError),
     had_parse_error : BOOLEAN, had_conflict : BOOLEAN, possibly_incomplete : BOOLEAN,
     source_stats : [Sources -> SourceRunStats \cup {None}]]

Execution ==
    [pc : {"idle", "discover", "write", "persist", "done", "raised"},
     provider : Providers \cup {None}, sources : SUBSET Sources,
     jobs : Seq(DiscoveredJob), raw_ids : Seq(Nat), next : Nat]

ExecutionTypeOK == /\ raws \in Seq(RawRow)
                   /\ state \in ProviderExecutionState
                   /\ exec \in Execution

Zero == [s \in Sources |-> 0]

NewState == [discovered |-> Zero, inserted |-> Zero, updated |-> Zero,
             failures |-> <<>>, had_parse_error |-> FALSE, had_conflict |-> FALSE,
             possibly_incomplete |-> FALSE, source_stats |-> [s \in Sources |-> None]]

NotExecuting == [pc |-> "idle", provider |-> None, sources |-> {}, jobs |-> <<>>,
                 raw_ids |-> <<>>, next |-> 1]

ExecutionInit == raws = <<>> /\ state = NewState /\ exec = NotExecuting

Outcomes == {"returned", "interrupted", "failed"}
Commits(o) == o # "failed"
Returns(o) == o = "returned"

-----------------------------------------------------------------------------
JobsOf(jobs, s) == Cardinality({i \in DOMAIN jobs : jobs[i].source = s})

\* The checks made before anything the provider said is recorded.
Supported(result) ==
    /\ result.provider = exec.provider
    /\ requested_sources(result) = exec.sources
    /\ \A i \in DOMAIN result.jobs : result.jobs[i].provider = result.provider
    /\ \A s \in exec.sources :
         LET stat  == result.source_stats[s]
             found == JobsOf(result.jobs, s)
         IN  /\ stat.completed \/ found = 0
             /\ stat.completed \/ ~stat.incomplete_results
             /\ stat.jobs_found = found

possibly_incomplete(result) ==
    \/ result.errors # <<>>
    \/ \E s \in requested_sources(result) :
         ~result.source_stats[s].completed \/ result.source_stats[s].incomplete_results

\* Mutant: a status the table does not have.
AttemptStatusIncomplete(stat) ==
    IF ~stat.completed THEN "failed"
    ELSE IF stat.incomplete_results THEN "incomplete" ELSE "completed"

resolve_attempt_status(stat) ==
    IF ~stat.completed THEN "failed"
    ELSE IF stat.incomplete_results THEN "partial" ELSE "completed"

\* The latest of a source's errors, ties going to the one listed last.
selected_error(failures, s) ==
    LET mine == {i \in DOMAIN failures : failures[i].source = s}
        later(i, j) == \/ failures[i].occurred_at > failures[j].occurred_at
                       \/ failures[i].occurred_at = failures[j].occurred_at /\ i >= j
    IN  IF mine = {} THEN None
        ELSE failures[CHOOSE i \in mine : \A j \in mine : later(i, j)]

-----------------------------------------------------------------------------
Step(pc) == exec' = [exec EXCEPT !.pc = pc]

\* The caller starts an execution with an empty state.
Execute(provider, sources) ==
    /\ exec' = [NotExecuting EXCEPT !.pc = "discover", !.provider = provider,
                                    !.sources = sources]
    /\ state' = NewState

\* discover() returns: a result that breaks the contract raises, and any other
\* is recorded before the first posting is written.
Discover(result) ==
    /\ exec.pc = "discover"
    /\ IF Supported(result)
       THEN /\ state' = [state EXCEPT
                           !.source_stats = result.source_stats,
                           !.possibly_incomplete = possibly_incomplete(result),
                           !.failures = result.errors,
                           !.discovered = [s \in Sources |-> JobsOf(result.jobs, s)]]
            /\ exec' = [exec EXCEPT !.pc = IF result.jobs = <<>> THEN "done" ELSE "write",
                                    !.jobs = result.jobs]
       ELSE /\ Step("raised")
            /\ UNCHANGED state
    /\ UNCHANGED raws

\* discover() raises, or the task is cancelled in it.
DiscoverRaises ==
    /\ exec.pc = "discover"
    /\ Step("raised")
    /\ UNCHANGED <<raws, state>>

\* Transaction A_i, for every posting before any is resolved.
WriteFetchedRow(o) ==
    LET job == exec.jobs[Len(exec.raw_ids) + 1]
        ids == Append(exec.raw_ids, Len(raws) + 1)
    IN  /\ exec.pc = "write"
        /\ raws' = IF Commits(o)
                   THEN Append(raws, [provider |-> job.provider, source |-> job.source,
                                      status |-> "fetched"])
                   ELSE raws
        /\ exec' = IF Returns(o)
                   THEN [exec EXCEPT !.raw_ids = ids,
                           !.pc = IF Len(ids) = Len(exec.jobs) THEN "persist" ELSE "write"]
                   ELSE [exec EXCEPT !.pc = "raised"]
        /\ UNCHANGED state

\* The end of the transaction that settles the next posting with a status.
SettlePosting(status, o) ==
    /\ exec.pc = "persist"
    /\ raws' = IF Commits(o) THEN [raws EXCEPT ![exec.raw_ids[exec.next]].status = status]
                             ELSE raws
    /\ exec' = IF ~Returns(o) THEN [exec EXCEPT !.pc = "raised"]
               ELSE IF exec.next = Len(exec.jobs) THEN [exec EXCEPT !.pc = "done"]
               ELSE [exec EXCEPT !.next = @ + 1]

\* Transaction C_i: the posting has no natural key.
MarkParseError(o) ==
    /\ SettlePosting("parse_error", o)
    /\ state' = IF Returns(o) THEN [state EXCEPT !.had_parse_error = TRUE] ELSE state

UpsertKind == {"INSERTED", "UPDATED", "QUARANTINED", "ATTACHED", "AMBIGUOUS"}
Conflicting == {"QUARANTINED", "AMBIGUOUS"}

\* Mutant: an attached posting is not counted.
CountedWithoutAttached(kind) ==
    LET s == exec.jobs[exec.next].source
    IN  [state EXCEPT
           !.inserted[s] = @ + (IF kind \in {"INSERTED", "AMBIGUOUS"} THEN 1 ELSE 0),
           !.updated[s]  = @ + (IF kind \in {"UPDATED", "QUARANTINED"} THEN 1 ELSE 0),
           !.had_conflict = @ \/ kind \in Conflicting]

\* How an outcome of persist_posting is counted.
Counted(kind) ==
    LET s == exec.jobs[exec.next].source
    IN  [state EXCEPT
           !.inserted[s] = @ + (IF kind \in {"INSERTED", "AMBIGUOUS"} THEN 1 ELSE 0),
           !.updated[s]  = @ + (IF kind \in {"INSERTED", "AMBIGUOUS"} THEN 0 ELSE 1),
           !.had_conflict = @ \/ kind \in Conflicting]

\* Transaction B_i: persist_posting, then its outcome is counted.
PersistPosting(kind, o) ==
    /\ SettlePosting(IF kind \in Conflicting THEN "identity_conflict" ELSE "normalized", o)
    /\ state' = IF Returns(o) THEN Counted(kind) ELSE state

ExecutionStep ==
    \/ \E result \in Results : Discover(result)
    \/ DiscoverRaises
    \/ \E o \in Outcomes :
         \/ WriteFetchedRow(o)
         \/ MarkParseError(o)
         \/ \E kind \in UpsertKind : PersistPosting(kind, o)
-----------------------------------------------------------------------------
(***************************************************************************)
(* What both callers keep of an execution: its attempt rows.               *)
(***************************************************************************)
Terminal == {"completed", "completed_with_errors", "failed"}

\* The fixed category and message of an attempt the handler settled.
AbortError == [source |-> None, occurred_at |-> 0]

Attempt == [status : {"running", "completed", "partial", "failed"}, discovered : Nat,
            inserted : Nat, updated : Nat, incomplete_results : BOOLEAN,
            error : ProviderError \cup {None, AbortError}]

NewAttempt == [status |-> "running", discovered |-> 0, inserted |-> 0, updated |-> 0,
               incomplete_results |-> FALSE, error |-> None]

\* A row as the end of its execution leaves it.
Finalized(s) ==
    LET stat == state.source_stats[s]
    IN  [status |-> resolve_attempt_status(stat), discovered |-> state.discovered[s],
         inserted |-> state.inserted[s], updated |-> state.updated[s],
         incomplete_results |-> stat.incomplete_results,
         error |-> selected_error(state.failures, s)]

Sum(f) == SumFunctionOnSet(f, Sources)

\* Raw rows of a provider and a source that have one of some statuses.
RawsOf(p, s, statuses) ==
    Cardinality({i \in DOMAIN raws : /\ raws[i].provider = p
                                     /\ raws[i].source = s
                                     /\ raws[i].status \in statuses})

\* What a reader of a run looks at: the counters of its row or of an attempt's.
CountsOf(row) == [discovered |-> row.discovered, inserted |-> row.inserted,
                  updated |-> row.updated]
StatusAndCounts(row) == [status |-> row.status, counts |-> CountsOf(row)]

\* The null of a column is not a value of it, nor a row of anything.
ASSUME NullAssumption ==
    /\ None \notin Attempt /\ None # AbortError /\ None \notin ProviderError
    /\ None \notin [status : {"running", "completed", "partial", "failed"},
                    counts : [discovered : Nat, inserted : Nat, updated : Nat]]
=============================================================================
