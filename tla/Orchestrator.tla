----------------------------- MODULE Orchestrator -----------------------------
(***************************************************************************)
(* run_saved_search: one CollectionRun over the providers of a saved       *)
(* search, one after another, and the handler that aborts it.              *)
(*                                                                         *)
(* Every step is one awaited transaction (see ProviderExecution for how it *)
(* may end).  Whatever is raised inside the run leads to the abort         *)
(* handler, whose own failures are suppressed; the process may also stop   *)
(* anywhere.                                                               *)
(***************************************************************************)
EXTENDS ProviderExecution

CONSTANTS
    Names,     \* what enabled_providers may hold; registered or not
    Searches,  \* saved searches: is_active, enabled_providers (or None)
    Registry,  \* registered names in alphabetical order
    Selections \* the source sets a planner may select

ASSUME SearchAssumption ==
    /\ Providers \subseteq Names
    /\ Registry \in Seq(Providers)
    /\ Selections \subseteq (SUBSET Sources) \ {{}}
    /\ \A i, j \in DOMAIN Registry : Registry[i] = Registry[j] => i = j
    /\ \A s \in Searches :
         /\ s.is_active \in BOOLEAN
         /\ LET enabled == s.enabled_providers
            IN  enabled # None => enabled \in Seq(Range(enabled))

VARIABLES
    run,       \* the collection_runs row, or None
    attempts,  \* collection_run_provider_attempts, by provider and source
    pc,        \* where the coroutine is
    search,    \* the saved search it was called for, or None
    names,     \* provider names still to visit
    erred,     \* run_had_... or any_planning_failure
    current,   \* current_attempt_ids: the attempts in flight, as far as it knows
    running    \* what _fetch_running_attempts returned

runVars == <<run, attempts, pc, search, names, erred, current, running>>
vars == <<executionVars, runVars>>

AttemptIds == Providers \X Sources

Run == [status : {"running"} \cup Terminal, discovered : Nat, inserted : Nat,
        updated : Nat, failures : Seq([provider : Names, source : Sources \cup {None},
                                       occurred_at : Nat]),
        providers_attempted : Seq(Providers)]

ASSUME RunAssumption == None \notin Run  \* a null is no row

Ended == {"refused", "returned", "raised", "suppressed", "stopped"}

TypeOK ==
    /\ ExecutionTypeOK
    /\ run \in Run \cup {None}
    /\ attempts \in [AttemptIds -> Attempt \cup {None}]
    /\ pc \in {"init", "loop", "execute", "abort_fetch", "abort_finalize",
               "abort_rollup"} \cup Ended
    /\ search \in Searches \cup {None}
    /\ names \in Seq(Names)
    /\ erred \in BOOLEAN
    /\ current \in SUBSET AttemptIds
    /\ running \in SUBSET AttemptIds

Init ==
    /\ ExecutionInit
    /\ run = None
    /\ attempts = [a \in AttemptIds |-> None]
    /\ pc = "init"
    /\ search \in Searches \cup {None}
    /\ names = <<>>
    /\ erred = FALSE
    /\ current = {}
    /\ running = {}

-----------------------------------------------------------------------------
Created == {a \in AttemptIds : attempts[a] # None}
RunningAttempts == {a \in Created : attempts[a].status = "running"}

Goto(label) == pc' = label

\* Where the coroutine goes when a transaction ends with outcome o.
Continue(o, label) == Goto(IF Returns(o) THEN label ELSE "abort_fetch")

\* A failure of provider p's own, as an entry of collection_runs.failures.
Entries(p) == [i \in DOMAIN state.failures |->
                 [provider |-> p, source |-> state.failures[i].source,
                  occurred_at |-> state.failures[i].occurred_at]]

-----------------------------------------------------------------------------
\* The providers a search selects, or None when the run is refused.
Selected ==
    IF search = None \/ ~search.is_active THEN None
    ELSE IF search.enabled_providers = None THEN Registry
    ELSE LET enabled == search.enabled_providers
         IN  IF /\ \A i \in DOMAIN enabled : enabled[i] \in Names
                /\ \A i, j \in DOMAIN enabled : enabled[i] = enabled[j] => i = j
             THEN enabled ELSE None

\* The initialisation transaction: refuse before any write, or create the run.
\* An interruption here is not handled: the row, if committed, stays running.
StartRun(o) ==
    /\ pc = "init"
    /\ IF Selected = None
       THEN Goto("refused") /\ UNCHANGED <<run, names>>
       ELSE /\ run' = IF Commits(o)
                      THEN [status |-> "running", discovered |-> 0, inserted |-> 0,
                            updated |-> 0, failures |-> <<>>, providers_attempted |-> <<>>]
                      ELSE None
            /\ names' = Selected
            /\ Goto(IF Returns(o) THEN "loop" ELSE "suppressed")
    /\ UNCHANGED <<executionVars, attempts, search, erred, current, running>>

\* An unregistered name or a planning defect: recorded at once, run goes on.
AppendPlanningFailure(o) ==
    /\ pc = "loop" /\ names # <<>>
    /\ run' = IF Commits(o)
              THEN [run EXCEPT !.failures = Append(@, [provider |-> Head(names),
                                                       source |-> None, occurred_at |-> 0])]
              ELSE run
    /\ erred' = (erred \/ Returns(o))
    /\ names' = Tail(names)
    /\ Continue(o, "loop")
    /\ UNCHANGED <<executionVars, attempts, search, current, running>>

\* The planner selects no source of a registered provider.
SkipProvider ==
    /\ pc = "loop" /\ names # <<>>
    /\ Head(names) \in Providers
    /\ names' = Tail(names)
    /\ UNCHANGED <<executionVars, run, attempts, pc, search, erred, current, running>>

\* A provider's name no longer matches its registration.
NameDrift ==
    /\ pc = "loop" /\ names # <<>>
    /\ Head(names) \in Providers
    /\ Goto("abort_fetch")
    /\ UNCHANGED <<executionVars, run, attempts, search, names, erred, current, running>>

\* The attempt rows and providers_attempted, just before discover().
BeginProviderAttempt(S, o) ==
    LET p   == Head(names)
        ids == {p} \X S
    IN  /\ pc = "loop" /\ names # <<>>
        /\ p \in Providers
        /\ IF Commits(o)
           THEN /\ run' = [run EXCEPT !.providers_attempted = Append(@, p)]
                /\ attempts' = [a \in AttemptIds |-> IF a \in ids THEN NewAttempt
                                                     ELSE attempts[a]]
           ELSE UNCHANGED <<run, attempts>>
        /\ IF Returns(o)
           THEN current' = ids /\ Execute(p, S)
           ELSE UNCHANGED <<current, state, exec>>
        /\ Continue(o, "execute")
        /\ UNCHANGED <<raws, search, names, erred, running>>

\* Steps of the provider in flight, until it is done or raises.
ExecuteProviderQuery ==
    /\ pc = "execute"
    /\ ExecutionStep
    /\ UNCHANGED runVars

ExecutionRaised ==
    /\ pc = "execute" /\ exec.pc = "raised"
    /\ Goto("abort_fetch")
    /\ UNCHANGED <<executionVars, run, attempts, search, names, erred, current, running>>

\* Mutant: only a source that failed or was incomplete counts as an issue.
SourceIssueByStatus ==
    \E s \in exec.sources : resolve_attempt_status(state.source_stats[s]) # "completed"

\* run_had_source_issue mirrors the result's own possibly_incomplete.
SourceIssue == state.possibly_incomplete

\* A provider's rows, its deltas and its failures, in one transaction.
FinalizeProviderSuccess(o) ==
    LET p == exec.provider
    IN  /\ pc = "execute" /\ exec.pc = "done"
        /\ IF Commits(o)
           THEN /\ run' = [run EXCEPT !.discovered = @ + Sum(state.discovered),
                                      !.inserted = @ + Sum(state.inserted),
                                      !.updated = @ + Sum(state.updated),
                                      !.failures = @ \o Entries(p)]
                /\ attempts' = [a \in AttemptIds |-> IF a \in current THEN Finalized(a[2])
                                                     ELSE attempts[a]]
           ELSE UNCHANGED <<run, attempts>>
        /\ IF Returns(o)
           THEN /\ erred' = (erred \/ SourceIssue \/ state.had_parse_error
                               \/ state.had_conflict)
                /\ current' = {}
                /\ exec' = NotExecuting
                /\ state' = NewState
                /\ names' = Tail(names)
           ELSE UNCHANGED <<erred, current, exec, state, names>>
        /\ Continue(o, "loop")
        /\ UNCHANGED <<raws, search, running>>

\* Every name was visited: the run's own status.
FinishRun(o) ==
    /\ pc = "loop" /\ names = <<>>
    /\ run' = IF Commits(o)
              THEN [run EXCEPT !.status = IF erred THEN "completed_with_errors"
                                          ELSE "completed"]
              ELSE run
    /\ Continue(o, "returned")
    /\ UNCHANGED <<executionVars, attempts, search, names, erred, current, running>>

-----------------------------------------------------------------------------
(***************************************************************************)
(* The abort handler.  Whatever it raises is suppressed.                   *)
(***************************************************************************)
\* Mutant: the coroutine's own variable is believed, not the table.
FetchRunningAttemptsTrusting(o) ==
    /\ pc = "abort_fetch"
    /\ running' = current
    /\ Goto(IF ~Returns(o) THEN "suppressed"
            ELSE IF current = {} THEN "abort_rollup" ELSE "abort_finalize")
    /\ UNCHANGED <<executionVars, run, attempts, search, names, erred, current>>

FetchRunningAttempts(o) ==
    /\ pc = "abort_fetch"
    /\ running' = IF Returns(o) THEN RunningAttempts ELSE {}
    /\ Goto(IF ~Returns(o) THEN "suppressed"
            ELSE IF RunningAttempts = {} THEN "abort_rollup" ELSE "abort_finalize")
    /\ UNCHANGED <<executionVars, run, attempts, search, names, erred, current>>

\* Mutant: the state is never believed to belong to the running rows.
NeverMatching == FALSE

\* Does the state in memory belong to exactly the rows found running?
MatchingState == current # {} /\ current = running

Aborted(s) ==
    IF MatchingState
    THEN [status |-> "failed", discovered |-> state.discovered[s],
          inserted |-> state.inserted[s], updated |-> state.updated[s],
          incomplete_results |-> /\ state.source_stats[s] # None
                                 /\ state.source_stats[s].incomplete_results,
          error |-> AbortError]
    ELSE [NewAttempt EXCEPT !.status = "failed", !.error = AbortError]

\* Mutant: every attempt of the run is settled, not only the running ones.
FinalizeEveryAttemptAborted(o) ==
    /\ pc = "abort_finalize"
    /\ IF Commits(o)
       THEN /\ run' = IF MatchingState
                      THEN [run EXCEPT !.failures = @ \o Entries(exec.provider)] ELSE run
            /\ attempts' = [a \in AttemptIds |-> IF a \in Created THEN Aborted(a[2])
                                                 ELSE None]
       ELSE UNCHANGED <<run, attempts>>
    /\ Goto(IF Returns(o) THEN "abort_rollup" ELSE "suppressed")
    /\ UNCHANGED <<executionVars, search, names, erred, current, running>>

\* One transaction: the failures of a state that matches, and every row found
\* running that still is.
FinalizeRunningAttemptsAborted(o) ==
    /\ pc = "abort_finalize"
    /\ IF Commits(o)
       THEN /\ run' = IF MatchingState
                      THEN [run EXCEPT !.failures = @ \o Entries(exec.provider)] ELSE run
            /\ attempts' = [a \in AttemptIds |->
                              IF a \in running /\ attempts[a].status = "running"
                              THEN Aborted(a[2]) ELSE attempts[a]]
       ELSE UNCHANGED <<run, attempts>>
    /\ Goto(IF Returns(o) THEN "abort_rollup" ELSE "suppressed")
    /\ UNCHANGED <<executionVars, search, names, erred, current, running>>

Totals == [discovered |-> SumFunction([a \in Created |-> attempts[a].discovered]),
           inserted   |-> SumFunction([a \in Created |-> attempts[a].inserted]),
           updated    |-> SumFunction([a \in Created |-> attempts[a].updated])]

\* Mutant: the rollup is left as the finalised providers made it.
RecomputeRollupNot(o) ==
    /\ pc = "abort_rollup"
    /\ run' = IF Commits(o) THEN [run EXCEPT !.status = "failed"] ELSE run
    /\ Goto(IF Returns(o) THEN "raised" ELSE "suppressed")
    /\ UNCHANGED <<executionVars, attempts, search, names, erred, current, running>>

\* The rollup is recomputed from every attempt row and written as it is.
RecomputeRollup(o) ==
    /\ pc = "abort_rollup"
    /\ run' = IF Commits(o)
              THEN [run EXCEPT !.status = "failed", !.discovered = Totals.discovered,
                               !.inserted = Totals.inserted, !.updated = Totals.updated]
              ELSE run
    /\ Goto(IF Returns(o) THEN "raised" ELSE "suppressed")
    /\ UNCHANGED <<executionVars, attempts, search, names, erred, current, running>>

\* KeyboardInterrupt, SystemExit or a crash: no handler runs.
ProcessStops ==
    /\ pc \notin Ended
    /\ Goto("stopped")
    /\ UNCHANGED <<executionVars, run, attempts, search, names, erred, current, running>>

Next ==
    \/ \E o \in Outcomes :
         \/ StartRun(o) \/ AppendPlanningFailure(o) \/ FinalizeProviderSuccess(o)
         \/ FinishRun(o) \/ FetchRunningAttempts(o)
         \/ FinalizeRunningAttemptsAborted(o) \/ RecomputeRollup(o)
         \/ \E S \in Selections : BeginProviderAttempt(S, o)
    \/ SkipProvider \/ NameDrift \/ ExecuteProviderQuery \/ ExecutionRaised
    \/ ProcessStops

Spec == Init /\ [][Next]_vars

-----------------------------------------------------------------------------
RollupIsSum == Totals = [discovered |-> run.discovered, inserted |-> run.inserted,
                         updated |-> run.updated]

Finished == run # None /\ run.status \in Terminal

\* A run that reached a terminal status reports exactly the sums of its own
\* attempt rows, wherever its providers or its handler were cut short.
TerminalRollupIsSum == Finished => RollupIsSum

\* A terminal run left no attempt behind, a run that returned did not fail, and
\* one whose handler got to its end is marked as failed.
OutcomeIsRecorded ==
    /\ Finished => RunningAttempts = {}
    /\ pc = "refused" => run = None
    /\ pc = "returned" => run.status \in {"completed", "completed_with_errors"}
    /\ pc = "raised" => run.status = "failed"

\* The counters of a settled attempt account for the postings in the tables: all
\* of them after a normal end; after an abort, all but the one whose commit the
\* provider in flight never learnt of.
CountersAccountForPostings ==
    \A p \in Providers :
      LET mine == {s \in Sources : <<p, s>> \in Created \ RunningAttempts}
          counted(s) == attempts[<<p, s>>].inserted + attempts[<<p, s>>].updated
          stored(s)  == RawsOf(p, s, {"normalized", "identity_conflict"})
          aborted == \E s \in mine : attempts[<<p, s>>].error = AbortError
      IN  IF aborted
          THEN /\ \A s \in mine : /\ counted(s) <= stored(s)
                                  /\ attempts[<<p, s>>].discovered >=
                                       RawsOf(p, s, {"fetched", "parse_error", "normalized",
                                                     "identity_conflict"})
               /\ \A s, t \in mine : counted(s) < stored(s) =>
                    /\ counted(s) = stored(s) - 1
                    /\ counted(t) < stored(t) => t = s
          ELSE \A s \in mine : /\ counted(s) = stored(s)
                               /\ RawsOf(p, s, {"fetched"}) = 0
                               /\ attempts[<<p, s>>].discovered =
                                    counted(s) + RawsOf(p, s, {"parse_error"})

\* Every error a provider reported is recorded once, in the order it reported
\* them, however its transactions and its abort are interleaved: a name has one
\* planning failure, or the errors of some result of its own, side by side, or
\* nothing.
FailuresRecordedOnce ==
    run # None => \A p \in Names :
      LET mine == {i \in DOMAIN run.failures : run.failures[i].provider = p}
      IN  \/ mine = {}
          \/ \E i \in mine : mine = {i} /\ run.failures[i].source = None
          \/ \E r \in Results, k \in 0..Len(run.failures) :
               /\ r.provider = p
               /\ mine = {k + i : i \in DOMAIN r.errors}
               /\ \A i \in DOMAIN r.errors :
                    /\ run.failures[k + i].source = r.errors[i].source
                    /\ run.failures[k + i].occurred_at = r.errors[i].occurred_at

\* "completed" is only said of a run nothing went wrong in.
CompletedMeansClean ==
    Finished /\ run.status = "completed" =>
      /\ run.failures = <<>>
      /\ \A a \in Created : attempts[a].status = "completed" /\ attempts[a].error = None
      /\ \A i \in DOMAIN raws : raws[i].status = "normalized"

\* An attempt row that is settled is never touched again, by the next provider
\* or by the handler, and a run's status only changes from running to a terminal
\* one, or from a completed one to failed when the run ends by raising.
SettledStaysSettled ==
    [][/\ \A a \in Created : attempts[a].status # "running" => attempts'[a] = attempts[a]
       /\ Finished /\ run'.status # run.status =>
            /\ run'.status = "failed"
            /\ pc = "abort_rollup"]_vars

\* The run as the contract of a collection run sees it.
Contract == INSTANCE CollectionRun WITH
    AttemptIds <- AttemptIds,
    status <- IF run = None THEN None ELSE run.status,
    rollup <- CountsOf(IF run = None THEN NewAttempt ELSE run),
    attempts <- [a \in AttemptIds |-> IF attempts[a] = None THEN None
                                       ELSE StatusAndCounts(attempts[a])]

\* The orchestrator keeps the contract its readers and the single-provider
\* pipeline share, whatever is interrupted: settled with its rollup in one step.
ImplementsContract == Contract!Spec
=============================================================================
