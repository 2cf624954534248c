------------------------------- MODULE Pipeline -------------------------------
(***************************************************************************)
(* pipeline.run: one CollectionRun over one provider.  Its attempt rows    *)
(* are created with the run, before anything can fail, and settled with it *)
(* in one transaction; the handler settles them again without looking at   *)
(* what the tables say.                                                    *)
(***************************************************************************)
EXTENDS ProviderExecution

CONSTANT Selections  \* the source sets a query may ask for

ASSUME SelectionAssumption == Selections \subseteq (SUBSET Sources) \ {{}}

Run == [status : {"running"} \cup Terminal, discovered : Nat, inserted : Nat,
        updated : Nat, failures : Seq(ProviderError)]

ASSUME RunAssumption == None \notin Run  \* a null is no row

VARIABLES
    run,       \* the collection_runs row, or None
    attempts,  \* [Sources -> Attempt or None]: one row per source
    pc         \* where the coroutine is

runVars == <<run, attempts, pc>>
vars == <<executionVars, runVars>>

Ended == {"returned", "raised", "suppressed", "stopped"}

TypeOK ==
    /\ ExecutionTypeOK
    /\ run \in Run \cup {None}
    /\ attempts \in [Sources -> Attempt \cup {None}]
    /\ pc \in Ended \cup {"init", "execute", "abort"}

Init ==
    /\ ExecutionInit
    /\ run = None
    /\ attempts = [s \in Sources |-> None]
    /\ pc = "init"

Created == {s \in Sources : attempts[s] # None}

Goto(label) == pc' = label

\* The run and an attempt row for every source.  It is outside the try: an
\* interruption leaves the rows, if committed, as they are.
StartRun(p, S, o) ==
    /\ pc = "init"
    /\ IF Commits(o)
       THEN /\ run' = [status |-> "running", discovered |-> 0, inserted |-> 0,
                       updated |-> 0, failures |-> <<>>]
            /\ attempts' = [s \in Sources |-> IF s \in S THEN NewAttempt ELSE None]
       ELSE UNCHANGED <<run, attempts>>
    /\ IF Returns(o)
       THEN Execute(p, S) /\ Goto("execute")
       ELSE Goto("suppressed") /\ UNCHANGED <<state, exec>>
    /\ UNCHANGED raws

ExecuteProviderQuery ==
    /\ pc = "execute"
    /\ ExecutionStep
    /\ UNCHANGED runVars

ExecutionRaised ==
    /\ pc = "execute" /\ exec.pc = "raised"
    /\ Goto("abort")
    /\ UNCHANGED <<executionVars, run, attempts>>

Counts(r) == [r EXCEPT !.discovered = Sum(state.discovered),
                       !.inserted = Sum(state.inserted),
                       !.updated = Sum(state.updated)]

RunStatus == IF state.had_parse_error \/ state.had_conflict \/ state.possibly_incomplete
             THEN "completed_with_errors" ELSE "completed"

\* Run and attempts in one transaction.
FinalizeSuccess(o) ==
    /\ pc = "execute" /\ exec.pc = "done"
    /\ IF Commits(o)
       THEN /\ run' = [Counts(run) EXCEPT !.status = RunStatus, !.failures = state.failures]
            /\ attempts' = [s \in Sources |-> IF s \in Created THEN Finalized(s) ELSE None]
       ELSE UNCHANGED <<run, attempts>>
    /\ Goto(IF Returns(o) THEN "returned" ELSE "abort")
    /\ UNCHANGED executionVars

\* Mutant: the handler writes an attempt's status and no counter.
FailedStatusOnly(s) == [attempts[s] EXCEPT !.status = "failed"]

\* What the handler writes of a source; every other column stays.
Failed(s) == [attempts[s] EXCEPT !.status = "failed", !.discovered = state.discovered[s],
                                 !.inserted = state.inserted[s],
                                 !.updated = state.updated[s]]

\* Mutant: the handler writes the run's row alone.
FinalizeFailureRunOnly(o) ==
    /\ pc = "abort"
    /\ run' = IF Commits(o) THEN [Counts(run) EXCEPT !.status = "failed"] ELSE run
    /\ Goto(IF Returns(o) THEN "raised" ELSE "suppressed")
    /\ UNCHANGED <<executionVars, attempts>>

\* The handler, in one transaction, whose own failure is suppressed.
FinalizeFailure(o) ==
    /\ pc = "abort"
    /\ IF Commits(o)
       THEN /\ run' = [Counts(run) EXCEPT !.status = "failed"]
            /\ attempts' = [s \in Sources |-> IF s \in Created THEN Failed(s) ELSE None]
       ELSE UNCHANGED <<run, attempts>>
    /\ Goto(IF Returns(o) THEN "raised" ELSE "suppressed")
    /\ UNCHANGED executionVars

\* KeyboardInterrupt, SystemExit or a crash: no handler runs.
ProcessStops ==
    /\ pc \notin Ended
    /\ Goto("stopped")
    /\ UNCHANGED <<executionVars, run, attempts>>

Next ==
    \/ \E o \in Outcomes :
         \/ \E p \in Providers, S \in Selections : StartRun(p, S, o)
         \/ FinalizeSuccess(o) \/ FinalizeFailure(o)
    \/ ExecuteProviderQuery \/ ExecutionRaised \/ ProcessStops

Spec == Init /\ [][Next]_vars

-----------------------------------------------------------------------------
RunningAttempts == {s \in Created : attempts[s].status = "running"}
Finished == run # None /\ run.status \in Terminal

\* The run and its attempts are one unit: all are running or none is, and a
\* failed run has failed attempts only, whichever write was cut short.
SettledTogether ==
    run # None => /\ RunningAttempts = IF Finished THEN {} ELSE Created
                  /\ run.status = "failed" => \A s \in Created : attempts[s].status = "failed"

\* The postings in the tables and the ones a source's attempt row counts.
stored(s) == RawsOf(exec.provider, s, {"normalized", "identity_conflict"})
counted(s) == attempts[s].inserted + attempts[s].updated

\* A terminal run's counters account for the postings in the tables: all of them
\* if it completed, all but at most one, whose commit was not heard of, if it
\* failed.
CountersAccountForPostings ==
    Finished =>
      LET lagging == {s \in Created : counted(s) # stored(s)}
      IN  IF run.status = "failed"
          THEN /\ Cardinality(lagging) <= 1
               /\ \A s \in lagging : counted(s) = stored(s) - 1
          ELSE /\ lagging = {}
               /\ \A s \in Created :
                    attempts[s].discovered =
                      counted(s) + RawsOf(exec.provider, s, {"parse_error"})

\* "completed" is only said of a run in which no source, posting or record
\* reported anything.
CompletedMeansClean ==
    Finished /\ run.status = "completed" =>
      /\ run.failures = <<>>
      /\ \A s \in Created : attempts[s].status = "completed" /\ attempts[s].error = None
      /\ \A i \in DOMAIN raws : raws[i].status = "normalized"

\* What pipeline.run tells of a run, in its rows and in its counters, is what
\* happened, although its handler writes both from memory and looks at neither
\* (pipeline.py:194-236).
SettledRight == SettledTogether /\ CountersAccountForPostings /\ CompletedMeansClean

\* The run as the contract of a collection run sees it.
Contract == INSTANCE CollectionRun WITH
    AttemptIds <- Sources,
    status <- IF run = None THEN None ELSE run.status,
    rollup <- CountsOf(IF run = None THEN NewAttempt ELSE run),
    attempts <- [a \in Sources |-> IF attempts[a] = None THEN None
                                       ELSE StatusAndCounts(attempts[a])]

\* The pipeline keeps the contract it shares with the orchestrator: a run is
\* settled with its attempts and their sum, and at most overturned afterwards.
ImplementsContract == Contract!Spec
=============================================================================
