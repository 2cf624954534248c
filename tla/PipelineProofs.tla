---------------------------- MODULE PipelineProofs ----------------------------
(***************************************************************************)
(* What pipeline.run promises, for any sources and results: the inductive  *)
(* invariant IInv, and from it SettledRight and the refinement of          *)
(* CollectionRun.                                                          *)
(***************************************************************************)
EXTENDS Pipeline, ProviderExecutionProofs

\* Where the coroutine is, by what it has done.
StageInv ==
    /\ pc = "init" => run = None /\ raws = <<>> /\ exec.pc = "idle"
    /\ pc = "execute" => run # None /\ run.status = "running" /\ exec.pc # "idle"
    /\ pc = "abort" => /\ run # None /\ run.status # "failed"
                       /\ exec.pc \in {"raised", "done"}

\* The row of a source has the counters the execution left in memory.
Told(s) == /\ attempts[s].discovered = state.discovered[s]
           /\ attempts[s].inserted = state.inserted[s]
           /\ attempts[s].updated = state.updated[s]

\* A run that is not settled has told nothing of its execution; a settled one has
\* told what the state still holds; and one said to be completed came to its end.
RowsInv ==
    /\ run = None => Created = {}
    /\ run # None /\ run.status = "running" => \A s \in Created : attempts[s] = NewAttempt
    /\ run # None /\ exec.pc # "idle" => Created = exec.sources
    /\ Finished =>
         /\ exec.pc \in {"raised", "done"} /\ pc \notin {"init", "execute"}
         /\ run.discovered = Sum(state.discovered) /\ run.inserted = Sum(state.inserted)
         /\ run.updated = Sum(state.updated)
         /\ \A s \in Created : Told(s)
         /\ run.status = "failed" => \A s \in Created : attempts[s].status = "failed"
         /\ run.status # "failed" =>
              /\ exec.pc = "done" /\ run.status = RunStatus
              /\ run.failures = state.failures
              /\ \A s \in Created : attempts[s] = Finalized(s)

IInv == TypeOK /\ ExecutionInv /\ ExecutionClean /\ StageInv /\ RowsInv

NewRun == [status |-> "running", discovered |-> 0, inserted |-> 0, updated |-> 0,
           failures |-> <<>>]

-----------------------------------------------------------------------------
(***************************************************************************)
(* Every step keeps the invariant.                                         *)
(***************************************************************************)
\* The first row of a run is a row.
LEMMA NewRunType == NewRun \in Run /\ NewRun # None
<1>1. <<>> \in Seq(ProviderError)
  OBVIOUS
<1>2. NewRun \in Run
  BY <1>1 DEF NewRun, Run
<1> QED
  BY <1>2, RunAssumption

\* So is that of an attempt.
LEMMA NewAttemptType == NewAttempt \in Attempt /\ NewAttempt # None
<1>1. NewAttempt \in Attempt
  BY DEF NewAttempt, Attempt
<1> QED
  BY <1>1, NullAssumption

LEMMA InitIInv == Init => IInv
<1> SUFFICES ASSUME Init PROVE IInv
  OBVIOUS
<1>1. ExecutionInv /\ ExecutionClean /\ ExecutionTypeOK /\ raws = <<>> /\ exec.pc = "idle"
  BY ExecutionInitInv DEF Init, ExecutionInit, NotExecuting, ExecutionInv
<1>2. run = None /\ Created = {} /\ pc = "init"
  BY DEF Init, Created
<1>3. TypeOK
  BY <1>1 DEF Init, TypeOK
<1>4. StageInv /\ RowsInv
  BY <1>1, <1>2 DEF StageInv, RowsInv, Finished
<1> QED
  BY <1>1, <1>3, <1>4 DEF IInv

\* The execution's own part, while the caller alone moves.
LEMMA CallerMoves ==
  ASSUME IInv, UNCHANGED executionVars
  PROVE  /\ ExecutionInv' /\ ExecutionTypeOK' /\ ExecutionClean'
         /\ raws' = raws /\ state' = state /\ exec' = exec
<1>1. ExecutionInv /\ ExecutionClean /\ raws' = raws /\ state' = state /\ exec' = exec
  BY DEF IInv, executionVars
<1>2. ExecutionInv' /\ ExecutionTypeOK'
  BY <1>1, ExecutionUnchanged DEF ExecutionInv
<1>3. ExecutionClean'
  BY <1>1 DEF ExecutionClean
<1> QED
  BY <1>1, <1>2, <1>3

\* A step that writes no row.
LEMMA NoRowWritten ==
  ASSUME IInv, UNCHANGED executionVars, run' = run, attempts' = attempts,
         \/ pc' \in Ended
         \/ /\ pc' = "abort" /\ pc \in {"execute", "abort"}
            /\ exec.pc \in {"raised", "done"}
  PROVE  IInv'
<1>1. /\ TypeOK /\ StageInv /\ RowsInv
      /\ ExecutionInv' /\ ExecutionTypeOK' /\ ExecutionClean'
      /\ raws' = raws /\ state' = state /\ exec' = exec
  BY CallerMoves DEF IInv
<1>2. TypeOK'
  BY <1>1 DEF TypeOK
<1>3. StageInv'
  <2>1. pc' # "init" /\ pc' # "execute"
    BY DEF Ended
  <2>2. pc' = "abort" => pc \in {"execute", "abort"} /\ exec.pc \in {"raised", "done"}
    BY DEF Ended
  <2> QED
    BY <1>1, <2>1, <2>2 DEF StageInv
<1>4. RowsInv'
  <2>1. /\ Created' = Created /\ Finished' = Finished /\ RunStatus' = RunStatus
        /\ \A s \in Created : Told(s)' = Told(s) /\ Finalized(s)' = Finalized(s)
    BY <1>1 DEF Created, Finished, RunStatus, Told, Finalized
  <2>2. pc' \notin {"init", "execute"}
    BY DEF Ended
  <2> QED
    BY <1>1, <2>1, <2>2 DEF RowsInv
<1> QED
  BY <1>1, <1>2, <1>3, <1>4 DEF IInv

\* The run's row and an attempt row for every source of the query.
LEMMA StartRunInv ==
  ASSUME IInv, NEW p \in Providers, NEW S \in Selections, NEW o \in Outcomes,
         StartRun(p, S, o)
  PROVE  IInv'
<1>1. /\ pc = "init" /\ run = None /\ raws = <<>> /\ raws' = raws /\ exec.pc = "idle"
      /\ TypeOK /\ ExecutionInv /\ ExecutionClean /\ Created = {}
      /\ S \in SUBSET Sources
  BY SelectionAssumption DEF StartRun, IInv, StageInv, RowsInv
<1>2. /\ Commits(o) => /\ run' = NewRun
                       /\ attempts' = [s \in Sources |-> IF s \in S THEN NewAttempt ELSE None]
      /\ ~Commits(o) => run' = run /\ attempts' = attempts
      /\ Returns(o) => Commits(o) /\ Execute(p, S) /\ pc' = "execute"
      /\ ~Returns(o) => pc' = "suppressed" /\ state' = state /\ exec' = exec
  BY DEF StartRun, NewRun, Goto, Commits, Returns
<1>3. /\ Commits(o) => Created' = S
      /\ ~Commits(o) => Created' = {}
  BY <1>1, <1>2, NewAttemptType DEF Created
<1>4. CASE ~Commits(o)
  BY <1>1, <1>2, <1>4, NoRowWritten DEF executionVars, Ended
<1>5. CASE Commits(o)
  <2>1. run' \in Run /\ run' # None /\ run'.status = "running" /\ ~Finished'
    BY <1>2, <1>5, NewRunType DEF NewRun, Finished, Terminal
  <2>2. attempts' \in [Sources -> Attempt \cup {None}]
    BY <1>2, <1>5, NewAttemptType
  <2>3. \A s \in Created' : attempts'[s] = NewAttempt
    BY <1>1, <1>2, <1>3, <1>5
  <2>4. CASE Returns(o)
    <3>1. NoRows(p)
      BY <1>1 DEF NoRows
    <3>2. ExecutionInv' /\ exec'.pc = "discover" /\ exec'.sources = S
      BY <1>1, <1>2, <2>4, <3>1, ExecuteInv
    <3>3. ExecutionClean'
      BY <1>1 DEF ExecutionClean
    <3>4. TypeOK'
      BY <1>2, <2>1, <2>2, <2>4, <3>2 DEF TypeOK, ExecutionInv
    <3>5. StageInv'
      BY <1>2, <2>1, <2>4, <3>2 DEF StageInv
    <3>6. RowsInv'
      BY <1>3, <1>5, <2>1, <2>3, <3>2 DEF RowsInv
    <3> QED
      BY <3>2, <3>3, <3>4, <3>5, <3>6 DEF IInv
  <2>5. CASE ~Returns(o)
    <3>1. /\ ExecutionInv' /\ ExecutionTypeOK' /\ ExecutionClean' /\ exec' = exec
      BY <1>1, <1>2, <2>5, CallerMoves DEF executionVars
    <3>2. TypeOK'
      BY <1>2, <2>1, <2>2, <2>5, <3>1 DEF TypeOK, Ended
    <3>3. StageInv'
      BY <1>2, <2>5 DEF StageInv
    <3>4. RowsInv'
      BY <1>1, <2>1, <2>3, <3>1 DEF RowsInv
    <3> QED
      BY <3>1, <3>2, <3>3, <3>4 DEF IInv
  <2> QED
    BY <2>4, <2>5
<1> QED
  BY <1>4, <1>5

\* The provider in flight goes on.
LEMMA ExecuteProviderQueryInv ==
  ASSUME IInv, ExecuteProviderQuery
  PROVE  IInv'
<1>1. /\ pc = "execute" /\ ExecutionStep /\ run' = run /\ attempts' = attempts /\ pc' = pc
      /\ TypeOK /\ ExecutionInv /\ ExecutionClean /\ run # None /\ run.status = "running"
      /\ exec.pc # "idle" /\ RowsInv
  BY DEF ExecuteProviderQuery, runVars, IInv, StageInv
<1>2. ExecutionInv' /\ exec'.sources = exec.sources /\ exec'.pc # "idle" /\ ExecutionClean'
  BY <1>1, ExecutionStepInv, ExecutionStepShape, ExecutionCleanStep
<1>3. TypeOK'
  BY <1>1, <1>2 DEF TypeOK, ExecutionInv
<1>4. StageInv'
  BY <1>1, <1>2 DEF StageInv
<1>5. RowsInv'
  <2>1. Created' = Created /\ ~Finished'
    BY <1>1 DEF Created, Finished, Terminal
  <2> QED
    BY <1>1, <1>2, <2>1 DEF RowsInv
<1> QED
  BY <1>2, <1>3, <1>4, <1>5 DEF IInv

LEMMA ExecutionRaisedInv ==
  ASSUME IInv, ExecutionRaised
  PROVE  IInv'
BY NoRowWritten DEF ExecutionRaised, Goto

LEMMA ProcessStopsInv ==
  ASSUME IInv, ProcessStops
  PROVE  IInv'
BY NoRowWritten DEF ProcessStops, Goto, Ended

\* The sums a run's row is given are numbers.
LEMMA SumsType ==
  ASSUME ExecutionTypeOK
  PROVE  Sum(state.discovered) \in Nat /\ Sum(state.inserted) \in Nat /\ Sum(state.updated) \in Nat
<1>1. \A s \in Sources : /\ state.discovered[s] \in Nat /\ state.inserted[s] \in Nat
                         /\ state.updated[s] \in Nat
  BY CountsType
<1> QED
  BY <1>1, SumType, ResultAssumption DEF Sum

\* The end of the execution told, in run and attempts together.
LEMMA FinalizeSuccessInv ==
  ASSUME IInv, NEW o \in Outcomes, FinalizeSuccess(o)
  PROVE  IInv' /\ (Commits(o) => Finished' /\ Created' = Created)
<1>1. /\ pc = "execute" /\ exec.pc = "done" /\ run # None /\ run.status = "running"
      /\ TypeOK /\ ExecutionTypeOK /\ ExecutionInv /\ Created = exec.sources /\ run \in Run
      /\ UNCHANGED executionVars
      /\ pc' \in {"returned", "abort"}
      /\ ~Commits(o) => run' = run /\ attempts' = attempts
      /\ Commits(o) =>
           /\ run' = [Counts(run) EXCEPT !.status = RunStatus, !.failures = state.failures]
           /\ attempts' = [s \in Sources |-> IF s \in Created THEN Finalized(s) ELSE None]
  BY DEF FinalizeSuccess, Goto, IInv, StageInv, RowsInv, TypeOK
<1>2. /\ ExecutionInv' /\ ExecutionTypeOK' /\ ExecutionClean'
      /\ raws' = raws /\ state' = state /\ exec' = exec
  BY <1>1, CallerMoves
<1>3. CASE ~Commits(o)
  BY <1>1, <1>3, NoRowWritten DEF Ended
<1>4. CASE Commits(o)
  <2>1. /\ run' \in Run /\ run' # None /\ run'.status = RunStatus
        /\ RunStatus \in {"completed", "completed_with_errors"}
        /\ run'.failures = state.failures /\ run'.discovered = Sum(state.discovered)
        /\ run'.inserted = Sum(state.inserted) /\ run'.updated = Sum(state.updated)
    <3>1. state.failures \in Seq(ProviderError)
      BY <1>1 DEF ExecutionTypeOK, ProviderExecutionState
    <3>2. RunStatus \in {"completed", "completed_with_errors"}
      BY DEF RunStatus
    <3>3. run' = [run EXCEPT !.discovered = Sum(state.discovered),
                             !.inserted = Sum(state.inserted),
                             !.updated = Sum(state.updated), !.status = RunStatus,
                             !.failures = state.failures]
      BY <1>1, <1>4 DEF Counts
    <3>4. /\ run'.status = RunStatus /\ run'.failures = state.failures
          /\ run'.discovered = Sum(state.discovered)
          /\ run'.inserted = Sum(state.inserted) /\ run'.updated = Sum(state.updated)
      BY <1>1, <3>3 DEF Run
    <3>5. run' \in Run
      BY <1>1, <3>1, <3>2, <3>3, SumsType DEF Run, Terminal
    <3> QED
      BY <3>2, <3>4, <3>5, RunAssumption
  <2>2. \A s \in Created : /\ Finalized(s) \in Attempt /\ Finalized(s) # None
                           /\ Finalized(s).discovered = state.discovered[s]
                           /\ Finalized(s).inserted = state.inserted[s]
                           /\ Finalized(s).updated = state.updated[s]
    BY <1>1, FinalizedFacts
  <2>3. /\ attempts' \in [Sources -> Attempt \cup {None}] /\ Created' = Created
        /\ \A s \in Created : attempts'[s] = Finalized(s)
    BY <1>1, <1>4, <2>2 DEF Created
  <2>4. \A s \in Created : Told(s)'
    BY <1>2, <2>2, <2>3 DEF Told
  <2>5. /\ RunStatus' = RunStatus
        /\ \A s \in Created : Finalized(s)' = Finalized(s)
    BY <1>2 DEF RunStatus, Finalized
  <2>6. TypeOK'
    BY <1>1, <1>2, <2>1, <2>3 DEF TypeOK, Ended
  <2>7. StageInv'
    BY <1>1, <1>2, <2>1 DEF StageInv
  <2>8. RowsInv'
    BY <1>1, <1>2, <2>1, <2>3, <2>4, <2>5 DEF RowsInv
  <2>9. Finished'
    BY <2>1 DEF Finished, Terminal
  <2> QED
    BY <1>2, <2>3, <2>6, <2>7, <2>8, <2>9 DEF IInv
<1> QED
  BY <1>3, <1>4

\* What the handler writes of a source's row.
LEMMA FailedFacts ==
  ASSUME ExecutionTypeOK, NEW s \in Sources, attempts[s] \in Attempt
  PROVE  /\ Failed(s) \in Attempt /\ Failed(s) # None /\ Failed(s).status = "failed"
         /\ Failed(s).discovered = state.discovered[s]
         /\ Failed(s).inserted = state.inserted[s] /\ Failed(s).updated = state.updated[s]
<1>1. /\ state.discovered[s] \in Nat /\ state.inserted[s] \in Nat /\ state.updated[s] \in Nat
  BY CountsType
<1>2. Failed(s) \in Attempt
  BY <1>1 DEF Failed, Attempt
<1>3. /\ Failed(s).status = "failed" /\ Failed(s).discovered = state.discovered[s]
      /\ Failed(s).inserted = state.inserted[s] /\ Failed(s).updated = state.updated[s]
  BY DEF Failed, Attempt
<1> QED
  BY <1>2, <1>3, NullAssumption

\* The handler: whatever the tables said, they now say that the run failed.
LEMMA FinalizeFailureInv ==
  ASSUME IInv, NEW o \in Outcomes, FinalizeFailure(o)
  PROVE  IInv' /\ (Commits(o) => Finished' /\ run'.status = "failed" /\ Created' = Created)
<1>1. /\ pc = "abort" /\ exec.pc \in {"raised", "done"} /\ run # None
      /\ TypeOK /\ ExecutionTypeOK /\ Created = exec.sources /\ run \in Run
      /\ UNCHANGED executionVars
      /\ pc' \in {"raised", "suppressed"}
      /\ ~Commits(o) => run' = run /\ attempts' = attempts
      /\ Commits(o) =>
           /\ run' = [Counts(run) EXCEPT !.status = "failed"]
           /\ attempts' = [s \in Sources |-> IF s \in Created THEN Failed(s) ELSE None]
  BY DEF FinalizeFailure, Goto, IInv, StageInv, RowsInv, TypeOK
<1>2. /\ ExecutionInv' /\ ExecutionTypeOK' /\ ExecutionClean'
      /\ raws' = raws /\ state' = state /\ exec' = exec
  BY <1>1, CallerMoves
<1>3. CASE ~Commits(o)
  BY <1>1, <1>3, NoRowWritten DEF Ended
<1>4. CASE Commits(o)
  <2>1. /\ run' \in Run /\ run' # None /\ run'.status = "failed"
        /\ run'.discovered = Sum(state.discovered)
        /\ run'.inserted = Sum(state.inserted) /\ run'.updated = Sum(state.updated)
    <3>1. run' = [run EXCEPT !.discovered = Sum(state.discovered),
                             !.inserted = Sum(state.inserted),
                             !.updated = Sum(state.updated), !.status = "failed"]
      BY <1>1, <1>4 DEF Counts
    <3>2. /\ run'.status = "failed" /\ run'.discovered = Sum(state.discovered)
          /\ run'.inserted = Sum(state.inserted) /\ run'.updated = Sum(state.updated)
      BY <1>1, <3>1 DEF Run
    <3>3. run' \in Run
      BY <1>1, <3>1, SumsType DEF Run, Terminal
    <3> QED
      BY <3>2, <3>3, RunAssumption
  <2>2. \A s \in Created : /\ Failed(s) \in Attempt /\ Failed(s) # None
                           /\ Failed(s).status = "failed"
                           /\ Failed(s).discovered = state.discovered[s]
                           /\ Failed(s).inserted = state.inserted[s]
                           /\ Failed(s).updated = state.updated[s]
    <3>1. \A s \in Created : s \in Sources /\ attempts[s] \in Attempt
      BY <1>1 DEF Created, TypeOK
    <3> QED
      BY <1>1, <3>1, FailedFacts
  <2>3. /\ attempts' \in [Sources -> Attempt \cup {None}] /\ Created' = Created
        /\ \A s \in Created : attempts'[s] = Failed(s)
    BY <1>1, <1>4, <2>2 DEF Created
  <2>4. \A s \in Created : Told(s)' /\ attempts'[s].status = "failed"
    BY <1>2, <2>2, <2>3 DEF Told
  <2>5. TypeOK'
    BY <1>1, <1>2, <2>1, <2>3 DEF TypeOK, Ended
  <2>6. StageInv'
    BY <1>1 DEF StageInv
  <2>7. RowsInv'
    BY <1>1, <1>2, <2>1, <2>3, <2>4 DEF RowsInv
  <2>8. Finished'
    BY <2>1 DEF Finished, Terminal
  <2> QED
    BY <1>2, <2>1, <2>3, <2>5, <2>6, <2>7, <2>8 DEF IInv
<1> QED
  BY <1>3, <1>4

LEMMA NextIInv == IInv /\ [Next]_vars => IInv'
<1> SUFFICES ASSUME IInv, [Next]_vars PROVE IInv'
  OBVIOUS
<1>1. ASSUME NEW p \in Providers, NEW S \in Selections, NEW o \in Outcomes, StartRun(p, S, o)
      PROVE  IInv'
  BY <1>1, StartRunInv
<1>2. ASSUME NEW o \in Outcomes, FinalizeSuccess(o) PROVE IInv'
  BY <1>2, FinalizeSuccessInv
<1>3. ASSUME NEW o \in Outcomes, FinalizeFailure(o) PROVE IInv'
  BY <1>3, FinalizeFailureInv
<1>4. CASE ExecuteProviderQuery
  BY <1>4, ExecuteProviderQueryInv
<1>5. CASE ExecutionRaised
  BY <1>5, ExecutionRaisedInv
<1>6. CASE ProcessStops
  BY <1>6, ProcessStopsInv
<1>7. CASE UNCHANGED vars
  <2>1. /\ TypeOK /\ StageInv /\ RowsInv /\ UNCHANGED executionVars
        /\ raws' = raws /\ state' = state /\ exec' = exec /\ run' = run
        /\ attempts' = attempts /\ pc' = pc
    BY <1>7 DEF vars, runVars, executionVars, IInv
  <2>2. ExecutionInv' /\ ExecutionTypeOK' /\ ExecutionClean'
    BY <2>1, CallerMoves
  <2>3. TypeOK' /\ StageInv'
    BY <2>1, <2>2 DEF TypeOK, StageInv
  <2>4. /\ Created' = Created /\ Finished' = Finished /\ RunStatus' = RunStatus
        /\ \A s \in Created : Told(s)' = Told(s) /\ Finalized(s)' = Finalized(s)
    BY <2>1 DEF Created, Finished, RunStatus, Told, Finalized
  <2>5. RowsInv'
    BY <2>1, <2>4 DEF RowsInv
  <2> QED
    BY <2>2, <2>3, <2>5 DEF IInv
<1> QED
  BY <1>1, <1>2, <1>3, <1>4, <1>5, <1>6, <1>7 DEF Next

\* IInv holds in every state of every run of one provider.
THEOREM PipelineInvariant == Spec => []IInv
<1>1. Init => IInv
  BY InitIInv
<1>2. IInv /\ [Next]_vars => IInv'
  BY NextIInv
<1> QED
  BY <1>1, <1>2, PTL DEF Spec

-----------------------------------------------------------------------------
(***************************************************************************)
(* What a settled run tells.                                               *)
(***************************************************************************)
LEMMA RunIsSettledOrRunning ==
  ASSUME IInv, run # None, ~Finished
  PROVE  run.status = "running"
BY DEF IInv, TypeOK, Run, Finished

LEMMA TogetherInv ==
  ASSUME IInv
  PROVE  SettledTogether
<1> SUFFICES ASSUME run # None PROVE SettledTogether
  BY DEF SettledTogether
<1>1. RowsInv /\ ExecutionInv
  BY DEF IInv
<1>2. CASE ~Finished
  <2>1. run.status = "running" /\ \A s \in Created : attempts[s] = NewAttempt
    BY <1>1, <1>2, RunIsSettledOrRunning DEF RowsInv
  <2>2. RunningAttempts = Created
    BY <2>1 DEF RunningAttempts, NewAttempt
  <2> QED
    BY <1>2, <2>1, <2>2 DEF SettledTogether
<1>3. CASE Finished
  <2>1. exec.pc \in {"raised", "done"} /\ Created = exec.sources
    BY <1>1, <1>3 DEF RowsInv
  <2>2. \A s \in Created : attempts[s].status # "running"
    <3>1. CASE run.status = "failed"
      BY <1>1, <1>3, <3>1 DEF RowsInv
    <3>2. CASE run.status # "failed"
      BY <1>1, <1>3, <2>1, <3>2, FinalizedFacts DEF RowsInv
    <3> QED
      BY <3>1, <3>2
  <2> QED
    BY <1>1, <1>3, <2>2 DEF SettledTogether, RunningAttempts, RowsInv
<1> QED
  BY <1>2, <1>3

LEMMA TogetherPrimed == IInv' => SettledTogether'
<1>1. IInv => SettledTogether
  BY TogetherInv
<1> QED
  BY <1>1, PTL

LEMMA AccountInv ==
  ASSUME IInv
  PROVE  CountersAccountForPostings
<1> SUFFICES ASSUME Finished PROVE CountersAccountForPostings
  BY DEF CountersAccountForPostings
<1> DEFINE lagging == {s \in Created : counted(s) # stored(s)}
<1>1. /\ ExecutionInv /\ ExecutionTypeOK /\ exec.pc \in {"raised", "done"}
      /\ Created \subseteq Sources /\ \A s \in Created : Told(s)
      /\ run.status # "failed" => exec.pc = "done"
  BY DEF IInv, RowsInv, ExecutionInv, Created
<1>2. ASSUME NEW s \in Created
      PROVE  /\ counted(s) = Counting(s) /\ stored(s) = Stored(s)
             /\ Counting(s) \in Nat /\ Stored(s) \in Nat /\ Unparsed(s) \in Nat
             /\ attempts[s].discovered = state.discovered[s]
  BY <1>1, <1>2, CountsType DEF counted, stored, Counting, Stored, Told
<1>3. CASE run.status = "failed"
  <2>1. \A s \in Created : /\ Counting(s) <= Stored(s)
                           /\ Counting(s) < Stored(s) => Counting(s) = Stored(s) - 1
    BY <1>1, CutShort
  <2>2. \A s, t \in Created : Counting(s) < Stored(s) /\ Counting(t) < Stored(t) => s = t
    BY <1>1, CutShort
  <2>3. \A s \in lagging : Counting(s) < Stored(s) /\ counted(s) = stored(s) - 1
    BY <1>2, <2>1
  <2>4. \A s, t \in lagging : s = t
    BY <2>2, <2>3
  <2>5. Cardinality(lagging) <= 1
    <3>1. CASE lagging = {}
      BY <3>1, FS_EmptySet
    <3>2. CASE lagging # {}
      <4>1. PICK s \in lagging : TRUE
        BY <3>2
      <4>2. lagging = {s}
        BY <2>4, <4>1
      <4>3. Cardinality({s}) = 1
        BY FS_Singleton
      <4> QED
        BY <4>2, <4>3
    <3> QED
      BY <3>1, <3>2
  <2> QED
    BY <1>3, <2>3, <2>5 DEF CountersAccountForPostings
<1>4. CASE run.status # "failed"
  <2>1. \A s \in Created : /\ Stored(s) = Counting(s)
                           /\ state.discovered[s] = Unparsed(s) + Stored(s)
    BY <1>1, <1>4 DEF ExecutionInv, CountedInv, SourceCounted
  <2>2. \A s \in Created : /\ counted(s) = stored(s)
                           /\ attempts[s].discovered = Unparsed(s) + counted(s)
                           /\ counted(s) \in Nat /\ Unparsed(s) \in Nat
    BY <1>2, <2>1
  <2>3. \A s \in Created : attempts[s].discovered = counted(s) + Unparsed(s)
    BY <2>2
  <2>4. lagging = {}
    BY <2>2
  <2> QED
    BY <1>4, <2>3, <2>4 DEF CountersAccountForPostings, Unparsed
<1> QED
  BY <1>3, <1>4

LEMMA CleanInv ==
  ASSUME IInv
  PROVE  CompletedMeansClean
<1> SUFFICES ASSUME Finished, run.status = "completed" PROVE CompletedMeansClean
  BY DEF CompletedMeansClean
<1>1. /\ ExecutionInv /\ ExecutionTypeOK /\ ExecutionClean /\ exec.pc = "done"
      /\ Created = exec.sources /\ run.failures = state.failures
      /\ \A s \in Created : attempts[s] = Finalized(s)
      /\ RunStatus = "completed"
  BY DEF IInv, RowsInv, ExecutionInv, Finished
<1>2. ~state.had_parse_error /\ ~state.had_conflict /\ ~state.possibly_incomplete
  BY <1>1 DEF RunStatus
<1>3. Answered
  BY <1>1 DEF ExecutionInv, PhaseInv
<1>4. state.failures = <<>>
  BY <1>1, <1>2, <1>3, AnsweredFacts
<1>5. \A s \in Created : attempts[s].status = "completed" /\ attempts[s].error = None
  BY <1>1, <1>2, FinalizedFacts
<1>6. \A i \in DOMAIN raws : raws[i].status = "normalized"
  BY <1>1, <1>2 DEF ExecutionClean
<1> QED
  BY <1>1, <1>4, <1>5, <1>6 DEF CompletedMeansClean

\* A run and its attempts are settled together, their counters account for the
\* postings in the tables, and "completed" is only said of a clean run: for any
\* sources and results, and wherever the run is cut short.
THEOREM SettledRunsAreRight == Spec => []SettledRight
<1>1. IInv => SettledRight
  BY TogetherInv, AccountInv, CleanInv DEF SettledRight
<1> QED
  BY <1>1, PipelineInvariant, PTL

-----------------------------------------------------------------------------
(***************************************************************************)
(* The contract of a collection run.                                       *)
(***************************************************************************)
Total == ColumnTotals(attempts, Created)

LEMMA ContractSum == \A f : Contract!SumFunction(f) = SumFunction(f)
BY DEF Contract!SumFunction, Contract!SumFunctionOnSet, Contract!FoldFunctionOnSet,
       Contract!MapThenFoldSet, SumFunction, SumFunctionOnSet, FoldFunctionOnSet,
       MapThenFoldSet

\* What the contract reads of the rows.
LEMMA ContractState ==
  ASSUME TypeOK
  PROVE  /\ Contract!Created = Created /\ Contract!Running = RunningAttempts
         /\ Contract!Total = Total
<1>1. attempts \in [Sources -> Attempt \cup {None}]
  BY DEF TypeOK
<1>2. Contract!Created = Created
  BY <1>1, ViewFacts DEF Contract!Created, Created, Views
<1>3. Contract!Running = RunningAttempts
  <2>1. Contract!Running = {a \in Created : Views(Sources, attempts)[a].status = "running"}
    BY <1>2 DEF Contract!Running, Views
  <2>2. \A a \in Created : Views(Sources, attempts)[a].status = attempts[a].status
    BY <1>1, ViewFacts DEF Created
  <2> QED
    BY <2>1, <2>2 DEF RunningAttempts
<1>4. Contract!Total = Total
  <2> DEFINE F(S, f) == [a \in S |-> Views(Sources, attempts)[a].counts[f]]
             G(f) == [a \in Contract!Created |-> Views(Sources, attempts)[a].counts[f]]
             D == {"discovered", "inserted", "updated"}
  <2>1. DOMAIN Contract!Zero = D
    BY DEF Contract!Zero
  <2>2. Contract!Total = [f \in DOMAIN Contract!Zero |-> Contract!SumFunction(G(f))]
    BY DEF Contract!Total, Views
  <2>3. Contract!Total = [f \in DOMAIN Contract!Zero |-> SumFunction(G(f))]
    <3> HIDE DEF G
    <3> QED
      BY <2>2, ContractSum
  <2>4. Contract!Total = [f \in DOMAIN Contract!Zero |-> SumFunction(F(Contract!Created, f))]
    BY <2>3
  <2>5. Contract!Total = [f \in D |-> SumFunction(F(Created, f))]
    <3> HIDE DEF F
    <3> QED
      BY <1>2, <2>1, <2>4
  <2>6. Created = {a \in Sources : attempts[a] # None}
    BY DEF Created
  <2>7. ViewTotals(Sources, attempts, Created) = Total
    BY <1>1, <2>6, TotalsAgree DEF Total
  <2> QED
    BY <2>5, <2>7 DEF ViewTotals
<1> QED
  BY <1>2, <1>3, <1>4

\* The same, after a step.
LEMMA ContractStatePrimed ==
  TypeOK' => /\ Contract!Created' = Created' /\ Contract!Running' = RunningAttempts'
             /\ Contract!Total' = Total'
<1> DEFINE Same == /\ Contract!Created = Created /\ Contract!Running = RunningAttempts
                   /\ Contract!Total = Total
<1>1. TypeOK => Same
  BY ContractState
<1>2. TypeOK' => Same'
  <2> HIDE DEF Same
  <2> QED
    BY <1>1, PTL
<1> QED
  BY <1>2

\* The run's own counters.
RunCounts == CountsOf(IF run = None THEN NewAttempt ELSE run)

\* A column g of the rows of the sources S, which is c and has left out nothing.
Column(S, g, c) ==
    /\ S \in SUBSET Sources /\ c \in [Sources -> Nat]
    /\ \A s \in Sources \ S : c[s] = 0
    /\ DOMAIN g = S /\ \A s \in S : g[s] = c[s]

\* It sums up to the same.
LEMMA ColumnSum ==
  ASSUME NEW S, NEW g, NEW c, Column(S, g, c)
  PROVE  SumFunction(g) = Sum(c)
<1> USE DEF Column
<1>1. IsFiniteSet(S)
  BY FS_Subset, ResultAssumption
<1>2. SumFunctionOnSet(g, S) = SumFunctionOnSet(c, S)
  BY <1>1, SumSame
<1> QED
  BY <1>2, SumOwn DEF SumFunction

\* A settled run's counters are the sums of its attempts'.
LEMMA SettledTotal ==
  ASSUME IInv, Finished
  PROVE  RunCounts = Total
<1>1. /\ ExecutionInv /\ ExecutionTypeOK /\ exec.pc \in {"raised", "done"} /\ run # None
      /\ Created = exec.sources /\ Created \in SUBSET Sources
      /\ \A s \in Created : Told(s)
      /\ run.discovered = Sum(state.discovered) /\ run.inserted = Sum(state.inserted)
      /\ run.updated = Sum(state.updated)
  BY DEF IInv, RowsInv, ExecutionInv, Finished, Created
<1>2. /\ state.discovered \in [Sources -> Nat] /\ state.inserted \in [Sources -> Nat]
      /\ state.updated \in [Sources -> Nat]
  BY <1>1 DEF ExecutionTypeOK, ProviderExecutionState, Counters
<1>3. \A s \in Sources \ Created : /\ state.discovered[s] = 0 /\ state.inserted[s] = 0
                                   /\ state.updated[s] = 0
  BY <1>1, OnlyOwnSources
<1>4. SumFunction([a \in Created |-> attempts[a].discovered]) = Sum(state.discovered)
  <2>1. Column(Created, [a \in Created |-> attempts[a].discovered], state.discovered)
    BY <1>1, <1>2, <1>3 DEF Told, Column
  <2> QED
    BY <2>1, ColumnSum
<1>5. SumFunction([a \in Created |-> attempts[a].inserted]) = Sum(state.inserted)
  <2>1. Column(Created, [a \in Created |-> attempts[a].inserted], state.inserted)
    BY <1>1, <1>2, <1>3 DEF Told, Column
  <2> QED
    BY <2>1, ColumnSum
<1>6. SumFunction([a \in Created |-> attempts[a].updated]) = Sum(state.updated)
  <2>1. Column(Created, [a \in Created |-> attempts[a].updated], state.updated)
    BY <1>1, <1>2, <1>3 DEF Told, Column
  <2> QED
    BY <2>1, ColumnSum
<1> QED
  BY <1>1, <1>4, <1>5, <1>6 DEF RunCounts, CountsOf, Total, ColumnTotals

LEMMA SettledTotalPrimed == IInv' /\ Finished' => RunCounts' = Total'
<1> DEFINE Same == RunCounts = Total
<1>1. IInv /\ Finished => Same
  BY SettledTotal
<1>2. IInv' /\ Finished' => Same'
  <2> HIDE DEF Same
  <2> QED
    BY <1>1, PTL
<1> QED
  BY <1>2

\* What a step does to the tables.
Quiet == run' = run /\ attempts' = attempts
Starts == /\ run = None /\ run' = NewRun /\ Created = {}
          /\ \A s \in Sources : attempts'[s] \in {NewAttempt, None}
Ends == run # None /\ Finished' /\ Created' = Created /\ state' = state
Settles == Ends /\ run.status = "running"
Overturns == Ends /\ Finished /\ run.status # "failed" /\ run'.status = "failed"

\* Every step is one of these.
LEMMA StepShape ==
  ASSUME IInv, [Next]_vars
  PROVE  Quiet \/ Starts \/ Settles \/ Overturns
<1>1. ASSUME NEW p \in Providers, NEW S \in Selections, NEW o \in Outcomes, StartRun(p, S, o)
      PROVE  Quiet \/ Starts
  <2>1. CASE Commits(o)
    <3>1. run = None /\ Created = {}
      BY <1>1 DEF StartRun, IInv, StageInv, RowsInv
    <3>2. \A s \in Sources : attempts'[s] \in {NewAttempt, None}
      BY <1>1, <2>1 DEF StartRun
    <3> QED
      BY <1>1, <2>1, <3>1, <3>2 DEF StartRun, NewRun, Starts
  <2>2. CASE ~Commits(o)
    BY <1>1, <2>2 DEF StartRun, Quiet
  <2> QED
    BY <2>1, <2>2
<1>2. ASSUME NEW o \in Outcomes, FinalizeSuccess(o) PROVE Quiet \/ Settles
  <2>1. CASE Commits(o)
    BY <1>2, <2>1, FinalizeSuccessInv
    DEF FinalizeSuccess, executionVars, Settles, Ends, IInv, StageInv
  <2>2. CASE ~Commits(o)
    BY <1>2, <2>2 DEF FinalizeSuccess, Quiet
  <2> QED
    BY <2>1, <2>2
<1>3. ASSUME NEW o \in Outcomes, FinalizeFailure(o) PROVE Quiet \/ Settles \/ Overturns
  <2>1. CASE Commits(o)
    <3>1. run # None /\ run.status # "failed" /\ state' = state
      BY <1>3 DEF FinalizeFailure, executionVars, IInv, StageInv
    <3>2. Ends /\ run'.status = "failed"
      BY <1>3, <2>1, <3>1, FinalizeFailureInv DEF Ends
    <3> QED
      BY <3>1, <3>2, RunIsSettledOrRunning DEF Settles, Overturns
  <2>2. CASE ~Commits(o)
    BY <1>3, <2>2 DEF FinalizeFailure, Quiet
  <2> QED
    BY <2>1, <2>2
<1>4. CASE ExecuteProviderQuery \/ ExecutionRaised \/ ProcessStops \/ UNCHANGED vars
  BY <1>4 DEF ExecuteProviderQuery, ExecutionRaised, ProcessStops, vars, runVars, Quiet
<1> QED
  BY <1>1, <1>2, <1>3, <1>4 DEF Next

\* Attempts that were not there start with nothing counted, and none is settled
\* before the run is.
LEMMA RowsProgress ==
  ASSUME IInv, IInv', Starts \/ Settles
  PROVE  Contract!AttemptsProgress
<1> DEFINE before == Views(Sources, attempts)
           after == Views(Sources, attempts')
<1>1. /\ attempts \in [Sources -> Attempt \cup {None}]
      /\ attempts' \in [Sources -> Attempt \cup {None}]
      /\ Contract!Created = Created /\ Contract!Running = RunningAttempts
  BY ContractState DEF IInv, TypeOK
<1>2. Created \ RunningAttempts = {}
  <2>1. CASE Starts
    BY <2>1 DEF Starts
  <2>2. CASE Settles
    <3>1. ~Finished
      BY <2>2 DEF Settles, Finished, Terminal
    <3> QED
      BY <2>2, <3>1, TogetherInv DEF Settles, Ends, SettledTogether
  <2> QED
    BY <2>1, <2>2
<1>3. StatusAndCounts(NewAttempt) = [status |-> "running", counts |-> Contract!Zero]
  BY DEF StatusAndCounts, CountsOf, NewAttempt, Contract!Zero
<1>4. ASSUME NEW a \in Sources
      PROVE  /\ before[a] = None /\ after[a] # None =>
                  after[a] = [status |-> "running", counts |-> Contract!Zero]
             /\ before[a] # None => after[a] # None
  <2>1. /\ before[a] = None <=> attempts[a] = None
        /\ after[a] = None <=> attempts'[a] = None
        /\ attempts'[a] # None => after[a] = StatusAndCounts(attempts'[a])
    BY <1>1, <1>4, ViewFacts
  <2>2. CASE Starts
    <3>1. attempts'[a] \in {NewAttempt, None} /\ attempts[a] = None
      BY <1>4, <2>2 DEF Starts, Created
    <3> QED
      BY <1>3, <2>1, <3>1
  <2>3. CASE Settles
    <3>1. attempts[a] = None <=> attempts'[a] = None
      BY <1>4, <2>3 DEF Settles, Ends, Created
    <3> QED
      BY <2>1, <3>1
  <2> QED
    BY <2>2, <2>3
<1> QED
  BY <1>1, <1>2, <1>4 DEF Contract!AttemptsProgress, Views

\* A completed run that the handler fails keeps every count.
LEMMA RowsOverturned ==
  ASSUME IInv, IInv', Overturns
  PROVE  \A a \in Contract!Created :
           /\ Views(Sources, attempts')[a].counts = Views(Sources, attempts)[a].counts
           /\ Views(Sources, attempts')[a].status \in {Views(Sources, attempts)[a].status, "failed"}
<1>1. /\ attempts \in [Sources -> Attempt \cup {None}]
      /\ attempts' \in [Sources -> Attempt \cup {None}]
      /\ Contract!Created = Created /\ Created' = Created /\ state' = state
  BY ContractState DEF IInv, TypeOK, Overturns, Ends
<1>2. \A a \in Created : Told(a) /\ Told(a)' /\ attempts'[a].status = "failed"
  BY <1>1 DEF IInv, RowsInv, Overturns, Ends
<1>3. ASSUME NEW a \in Created
      PROVE  /\ Views(Sources, attempts')[a].counts = CountsOf(attempts'[a])
             /\ Views(Sources, attempts)[a].counts = CountsOf(attempts[a])
             /\ Views(Sources, attempts')[a].status = "failed"
  BY <1>1, <1>2, <1>3, ViewFacts DEF Created
<1>4. \A a \in Created : CountsOf(attempts'[a]) = CountsOf(attempts[a])
  BY <1>1, <1>2 DEF Told, CountsOf
<1> QED
  BY <1>1, <1>3, <1>4

LEMMA ContractStep ==
  ASSUME IInv, [Next]_vars
  PROVE  [Contract!Next]_(Contract!vars)
<1>1. IInv' /\ TypeOK /\ TypeOK'
  BY NextIInv DEF IInv
<1>2. /\ Contract!Created = Created /\ Contract!Created' = Created'
      /\ Contract!Running' = RunningAttempts' /\ Contract!Total' = Total'
  BY <1>1, ContractState, ContractStatePrimed
<1>3. Finished' => RunCounts' = Total' /\ RunningAttempts' = {}
  <2>1. Finished' => RunningAttempts' = {}
    BY <1>1, TogetherPrimed DEF SettledTogether, Finished
  <2> QED
    BY <1>1, <2>1, SettledTotalPrimed
<1>4. CASE Quiet
  BY <1>4 DEF Quiet, Contract!vars
<1>5. CASE Starts
  <2>1. Contract!AttemptsProgress
    BY <1>1, <1>5, RowsProgress
  <2>2. run' # None /\ run'.status = "running" /\ RunCounts' = Contract!Zero
    BY <1>5, NewRunType DEF Starts, NewRun, RunCounts, CountsOf, Contract!Zero
  <2> QED
    BY <1>5, <2>1, <2>2 DEF Starts, RunCounts, Contract!Next, Contract!Start
<1>6. CASE Settles
  <2>1. Contract!AttemptsProgress
    BY <1>1, <1>6, RowsProgress
  <2>2. run' # None /\ run'.status \in {"completed", "completed_with_errors", "failed"}
    BY <1>6 DEF Settles, Ends, Finished, Terminal
  <2>3. run # None /\ run.status = "running" /\ Finished'
    BY <1>6 DEF Settles, Ends
  <2> QED
    BY <1>2, <1>3, <2>1, <2>2, <2>3
    DEF RunCounts, Contract!Next, Contract!Settle, Contract!Completed
<1>7. CASE Overturns
  <2>1. /\ run # None /\ run.status \in {"completed", "completed_with_errors"}
        /\ run' # None /\ run'.status = "failed" /\ Finished' /\ Created' = Created
    BY <1>7 DEF Overturns, Ends, Finished, Terminal
  <2>2. \A a \in Contract!Created :
          /\ Views(Sources, attempts')[a].counts = Views(Sources, attempts)[a].counts
          /\ Views(Sources, attempts')[a].status \in {Views(Sources, attempts)[a].status, "failed"}
    BY <1>1, <1>7, RowsOverturned
  <2>3. Contract!Overturn
    BY <1>2, <1>3, <2>1, <2>2 DEF RunCounts, Views, Contract!Overturn, Contract!Completed
  <2> QED
    BY <2>3 DEF Contract!Next
<1> QED
  BY <1>4, <1>5, <1>6, <1>7, StepShape

\* The pipeline implements the contract of a collection run: its run is settled
\* once, with its attempts and their sum, and at most overturned to failed with
\* every count as it was.
THEOREM PipelineImplementsContract == Spec => ImplementsContract
<1>1. Init => Contract!Init
  BY DEF Init, Contract!Init, CountsOf, NewAttempt, Contract!Zero
<1>2. IInv /\ [Next]_vars => [Contract!Next]_(Contract!vars)
  BY ContractStep
<1> QED
  BY <1>1, <1>2, PipelineInvariant, PTL DEF Spec, ImplementsContract, Contract!Spec
===============================================================================
