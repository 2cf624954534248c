-------------------------- MODULE OrchestratorProofs --------------------------
(***************************************************************************)
(* What run_saved_search promises, for any registry, searches, planner and *)
(* results: the inductive invariant IInv, and from it the safety           *)
(* properties of Orchestrator and its refinement of CollectionRun.         *)
(***************************************************************************)
EXTENDS Orchestrator, ProviderExecutionProofs

\* Nothing is known of a name yet.
Fresh(n) ==
    /\ \A a \in Created : a[1] # n
    /\ NoRows(n)
    /\ \A i \in DOMAIN run.failures : run.failures[i].provider # n

\* Every name is visited once.
NamesInv ==
    /\ \A i, j \in DOMAIN names : names[i] = names[j] => i = j
    /\ pc = "loop" => \A i \in DOMAIN names : Fresh(names[i])
    /\ pc = "execute" => \A i \in DOMAIN names : i > 1 => Fresh(names[i])

Aborting == {"abort_fetch", "abort_finalize", "abort_rollup"}

\* The run's row and what runs, wherever the coroutine is.
StageInv ==
    /\ pc = "init" => /\ run = None /\ names = <<>> /\ ~erred
                      /\ exec.pc = "idle" /\ current = {} /\ raws = <<>>
    /\ pc = "refused" => run = None
    /\ run = None => Created = {}
    /\ pc \in {"loop", "execute"} => run # None /\ run.status = "running"
    /\ pc \in Aborting => run # None /\ run.status # "failed"
    /\ pc = "loop" => RunningAttempts = {} /\ current = {} /\ exec.pc = "idle"
    /\ pc = "execute" => /\ names # <<>> /\ exec.pc # "idle"
                         /\ exec.provider = Head(names)
                         /\ current # {} /\ RunningAttempts = current
    /\ pc = "abort_finalize" => running # {} /\ running = RunningAttempts
    /\ pc = "abort_rollup" => RunningAttempts = {}
    /\ pc = "returned" => run # None /\ run.status \in {"completed", "completed_with_errors"}
    /\ pc = "raised" => run # None /\ run.status = "failed"
    /\ Finished => RunningAttempts = {} /\ pc \notin {"loop", "execute", "abort_finalize"}

\* The rows that run are one provider's, as they were created, and the state in
\* memory is theirs unless they have no posting.
AttemptsInv ==
    /\ current # {} => /\ exec.pc # "idle" /\ current = {exec.provider} \X exec.sources
                       /\ RunningAttempts \in {{}, current}
                       /\ pc \in Aborting => exec.pc \in {"raised", "done"}
    /\ \A a \in RunningAttempts :
         /\ attempts[a] = NewAttempt
         /\ a \notin current => NoRows(a[1])
         /\ \A b \in Created : b[1] = a[1] => b \in RunningAttempts
         /\ \A i \in DOMAIN run.failures : run.failures[i].provider # a[1]

RollupInv == (pc \in {"loop", "execute"} \/ Finished) => RollupIsSum

\* A run that noticed nothing has nothing to notice.
CleanInv ==
    /\ pc \in {"loop", "execute"} /\ ~erred =>
         /\ run.failures = <<>>
         /\ \A a \in Created \ RunningAttempts :
              attempts[a].status = "completed" /\ attempts[a].error = None
         /\ ExecutionClean
    /\ CompletedMeansClean

IInv == /\ TypeOK /\ ExecutionInv /\ NamesInv /\ StageInv /\ AttemptsInv /\ RollupInv
        /\ CleanInv /\ CountersAccountForPostings /\ FailuresRecordedOnce

-----------------------------------------------------------------------------
(***************************************************************************)
(* The parts of the invariant that follow the tables.                      *)
(***************************************************************************)
Failure == [provider : Names, source : Sources \cup {None}, occurred_at : Nat]

LEMMA AttemptsSame ==
  ASSUME attempts' = attempts
  PROVE  Created' = Created /\ RunningAttempts' = RunningAttempts /\ Totals' = Totals
<1>1. Created' = Created
  BY DEF Created
<1>2. RunningAttempts' = RunningAttempts
  BY <1>1 DEF RunningAttempts
<1>3. Totals' = Totals
  BY <1>1 DEF Totals
<1> QED
  BY <1>1, <1>2, <1>3

\* One provider's part of CountersAccountForPostings.
Mine(p) == {s \in Sources : <<p, s>> \in Created \ RunningAttempts}
Inserted(p, s) == attempts[<<p, s>>].inserted + attempts[<<p, s>>].updated

AccountOf(p) ==
    LET stored(s) == RawsOf(p, s, {"normalized", "identity_conflict"})
    IN  IF \E s \in Mine(p) : attempts[<<p, s>>].error = AbortError
        THEN /\ \A s \in Mine(p) :
                  /\ Inserted(p, s) <= stored(s)
                  /\ attempts[<<p, s>>].discovered >=
                       RawsOf(p, s, {"fetched", "parse_error", "normalized",
                                     "identity_conflict"})
             /\ \A s, t \in Mine(p) : Inserted(p, s) < stored(s) =>
                  /\ Inserted(p, s) = stored(s) - 1
                  /\ Inserted(p, t) < stored(t) => t = s
        ELSE \A s \in Mine(p) : /\ Inserted(p, s) = stored(s)
                                /\ RawsOf(p, s, {"fetched"}) = 0
                                /\ attempts[<<p, s>>].discovered =
                                     Inserted(p, s) + RawsOf(p, s, {"parse_error"})

LEMMA AccountsOf == CountersAccountForPostings <=> \A p \in Providers : AccountOf(p)
BY DEF CountersAccountForPostings, AccountOf, Mine, Inserted

LEMMA AccountsOfPrimed ==
  CountersAccountForPostings' <=> \A p \in Providers : AccountOf(p)'
BY DEF CountersAccountForPostings, AccountOf, Mine, Inserted

\* A provider whose rows stay keeps its account.
LEMMA AccountKept ==
  ASSUME NEW q \in Providers, AccountOf(q),
         \A s \in Sources : attempts'[<<q, s>>] = attempts[<<q, s>>],
         \A s, T : RowsOf(raws', q, s, T) = RowsOf(raws, q, s, T)
  PROVE  AccountOf(q)'
<1>1. \A s, T : RawsOf(q, s, T)' = RawsOf(q, s, T)
  BY RawsOfRows
<1>2. \A s \in Sources : <<q, s>> \in AttemptIds
  BY DEF AttemptIds
<1>3. Mine(q)' = Mine(q)
  BY <1>2 DEF Mine, Created, RunningAttempts
<1>4. \A s \in Sources : Inserted(q, s)' = Inserted(q, s)
  BY DEF Inserted
<1>5. Mine(q) \subseteq Sources
  BY DEF Mine
<1>6. \A s \in Mine(q) : /\ attempts'[<<q, s>>] = attempts[<<q, s>>]
                          /\ Inserted(q, s)' = Inserted(q, s)
  BY <1>4, <1>5
<1>7. CASE \E s \in Mine(q) : attempts[<<q, s>>].error = AbortError
  <2>1. \E s \in Mine(q)' : attempts'[<<q, s>>].error = AbortError
    BY <1>3, <1>6, <1>7
  <2>2. /\ \A s \in Mine(q) :
             /\ Inserted(q, s) <= RawsOf(q, s, {"normalized", "identity_conflict"})
             /\ attempts[<<q, s>>].discovered >=
                  RawsOf(q, s, {"fetched", "parse_error", "normalized", "identity_conflict"})
        /\ \A s, t \in Mine(q) :
             Inserted(q, s) < RawsOf(q, s, {"normalized", "identity_conflict"}) =>
               /\ Inserted(q, s) = RawsOf(q, s, {"normalized", "identity_conflict"}) - 1
               /\ Inserted(q, t) < RawsOf(q, t, {"normalized", "identity_conflict"}) => t = s
    BY <1>7 DEF AccountOf
  <2>3. /\ \A s \in Mine(q)' :
             /\ Inserted(q, s)' <= RawsOf(q, s, {"normalized", "identity_conflict"})'
             /\ attempts'[<<q, s>>].discovered >=
                  RawsOf(q, s, {"fetched", "parse_error", "normalized", "identity_conflict"})'
    BY <2>2, <1>1, <1>3, <1>6
  <2>4. /\ \A s, t \in Mine(q)' :
             Inserted(q, s)' < RawsOf(q, s, {"normalized", "identity_conflict"})' =>
               /\ Inserted(q, s)' = RawsOf(q, s, {"normalized", "identity_conflict"})' - 1
               /\ Inserted(q, t)' < RawsOf(q, t, {"normalized", "identity_conflict"})' => t = s
    BY <2>2, <1>1, <1>3, <1>6
  <2> QED
    BY <2>1, <2>3, <2>4 DEF AccountOf
<1>8. CASE ~\E s \in Mine(q) : attempts[<<q, s>>].error = AbortError
  <2>1. ~\E s \in Mine(q)' : attempts'[<<q, s>>].error = AbortError
    BY <1>3, <1>6, <1>8
  <2>2. \A s \in Mine(q) : /\ Inserted(q, s) = RawsOf(q, s, {"normalized", "identity_conflict"})
                           /\ RawsOf(q, s, {"fetched"}) = 0
                           /\ attempts[<<q, s>>].discovered =
                                Inserted(q, s) + RawsOf(q, s, {"parse_error"})
    BY <1>8 DEF AccountOf
  <2> QED
    BY <2>1, <2>2, <1>1, <1>3, <1>6 DEF AccountOf
<1> QED
  BY <1>7, <1>8

\* A provider nothing of which is settled has nothing to account for.
LEMMA AccountEmpty ==
  ASSUME NEW q, Mine(q) = {}
  PROVE  AccountOf(q)
BY DEF AccountOf

LEMMA AccountsSame ==
  ASSUME CountersAccountForPostings, attempts' = attempts, raws' = raws
  PROVE  CountersAccountForPostings'
<1>1. \A q \in Providers : AccountOf(q)'
  BY AccountsOf, AccountKept
<1> QED
  BY <1>1, AccountsOfPrimed

\* FailuresRecordedOnce, of a list of failures.
Once(failures) ==
    \A p \in Names :
      LET mine == {i \in DOMAIN failures : failures[i].provider = p}
      IN  \/ mine = {}
          \/ \E i \in mine : mine = {i} /\ failures[i].source = None
          \/ \E r \in Results, k \in 0..Len(failures) :
               /\ r.provider = p
               /\ mine = {k + i : i \in DOMAIN r.errors}
               /\ \A i \in DOMAIN r.errors :
                    /\ failures[k + i].source = r.errors[i].source
                    /\ failures[k + i].occurred_at = r.errors[i].occurred_at

LEMMA OnceFailures ==
  /\ FailuresRecordedOnce <=> (run # None => Once(run.failures))
  /\ FailuresRecordedOnce' <=> (run' # None => Once(run'.failures))
BY DEF FailuresRecordedOnce, Once

LEMMA OnceEmpty == Once(<<>>)
<1>1. \A p : {i \in DOMAIN <<>> : <<>>[i].provider = p} = {}
  OBVIOUS
<1> QED
  BY <1>1 DEF Once

\* A failure of a name that had none.
LEMMA OnceAppend ==
  ASSUME NEW fs \in Seq(Failure), Once(fs), NEW f \in Failure, f.source = None,
         \A i \in DOMAIN fs : fs[i].provider # f.provider
  PROVE  Once(Append(fs, f))
<1> DEFINE gs == Append(fs, f)
           n == Len(fs) + 1
           Of(q, p) == {i \in DOMAIN q : q[i].provider = p}
<1>1. /\ DOMAIN gs = DOMAIN fs \cup {n} /\ n \notin DOMAIN fs /\ gs[n] = f
      /\ \A i \in DOMAIN fs : gs[i] = fs[i]
      /\ Len(gs) = n /\ Len(fs) \in Nat
  OBVIOUS
<1> HIDE DEF gs, n
<1>2. SUFFICES ASSUME NEW p \in Names
               PROVE  \/ Of(gs, p) = {}
                      \/ \E i \in Of(gs, p) : Of(gs, p) = {i} /\ gs[i].source = None
                      \/ \E r \in Results, k \in 0..Len(gs) :
                           /\ r.provider = p
                           /\ Of(gs, p) = {k + i : i \in DOMAIN r.errors}
                           /\ \A i \in DOMAIN r.errors :
                                /\ gs[k + i].source = r.errors[i].source
                                /\ gs[k + i].occurred_at = r.errors[i].occurred_at
  BY DEF Once, gs
<1>3. CASE p = f.provider
  <2>1. Of(gs, p) = {n}
    BY <1>1, <1>3
  <2> QED
    BY <2>1, <1>1
<1>4. CASE p # f.provider
  <2>1. Of(gs, p) = Of(fs, p)
    BY <1>1, <1>4
  <2>2. \A i \in Of(fs, p) : gs[i] = fs[i]
    BY <1>1
  <2>3. \/ Of(fs, p) = {}
        \/ \E i \in Of(fs, p) : Of(fs, p) = {i} /\ fs[i].source = None
        \/ \E r \in Results, k \in 0..Len(fs) :
             /\ r.provider = p
             /\ Of(fs, p) = {k + i : i \in DOMAIN r.errors}
             /\ \A i \in DOMAIN r.errors :
                  /\ fs[k + i].source = r.errors[i].source
                  /\ fs[k + i].occurred_at = r.errors[i].occurred_at
    BY DEF Once
  <2> HIDE DEF Of
  <2>4. ASSUME NEW r \in Results, NEW k \in 0..Len(fs), r.provider = p,
               Of(fs, p) = {k + i : i \in DOMAIN r.errors},
               \A i \in DOMAIN r.errors :
                  /\ fs[k + i].source = r.errors[i].source
                  /\ fs[k + i].occurred_at = r.errors[i].occurred_at
        PROVE  /\ k \in 0..Len(gs) /\ Of(gs, p) = {k + i : i \in DOMAIN r.errors}
               /\ \A i \in DOMAIN r.errors :
                    /\ gs[k + i].source = r.errors[i].source
                    /\ gs[k + i].occurred_at = r.errors[i].occurred_at
    <3>1. k \in 0..Len(gs)
      BY <1>1 DEF n
    <3>2. \A i \in DOMAIN r.errors : gs[k + i] = fs[k + i]
      BY <2>2, <2>4
    <3> QED
      BY <2>1, <2>4, <3>1, <3>2
  <2> QED
    BY <2>1, <2>2, <2>3, <2>4
<1> QED
  BY <1>3, <1>4

\* The errors of a result of a name that had none.
LEMMA OnceConcat ==
  ASSUME NEW fs \in Seq(Failure), Once(fs), NEW p \in Names, NEW es \in Seq(Failure),
         \A i \in DOMAIN fs : fs[i].provider # p,
         NEW r \in Results, r.provider = p, DOMAIN es = DOMAIN r.errors,
         \A i \in DOMAIN es : /\ es[i].provider = p
                              /\ es[i].source = r.errors[i].source
                              /\ es[i].occurred_at = r.errors[i].occurred_at
  PROVE  Once(fs \o es)
<1> DEFINE gs == fs \o es
           n == Len(fs)
           Of(q, m) == {i \in DOMAIN q : q[i].provider = m}
           Block == {n + i : i \in DOMAIN es}
<1>1. /\ DOMAIN gs = DOMAIN fs \cup Block /\ n \in Nat /\ Len(gs) = n + Len(es)
      /\ Len(es) \in Nat
      /\ \A i \in DOMAIN fs : gs[i] = fs[i] /\ i \notin Block
      /\ \A i \in DOMAIN es : gs[n + i] = es[i]
  <2>1. /\ Len(gs) = n + Len(es) /\ n \in Nat /\ Len(es) \in Nat /\ gs \in Seq(Failure)
        /\ \A i \in 1..n : gs[i] = fs[i]
        /\ \A i \in 1..Len(es) : gs[n + i] = es[i]
    BY ConcatProperties
  <2>2. DOMAIN gs = 1..(n + Len(es)) /\ DOMAIN es = 1..Len(es) /\ DOMAIN fs = 1..n
    BY <2>1
  <2> HIDE DEF gs, n
  <2>3. Block = (n + 1)..(n + Len(es))
    <3>1. \A j \in (n + 1)..(n + Len(es)) : j - n \in 1..Len(es) /\ j = n + (j - n)
      BY <2>1
    <3>2. \A j \in Block : j \in (n + 1)..(n + Len(es))
      BY <2>1, <2>2
    <3> QED
      BY <3>1, <3>2, <2>2
  <2> HIDE DEF Block
  <2> QED
    BY <2>1, <2>2, <2>3
<1> HIDE DEF gs, n
<1>2. SUFFICES ASSUME NEW m \in Names
               PROVE  \/ Of(gs, m) = {}
                      \/ \E i \in Of(gs, m) : Of(gs, m) = {i} /\ gs[i].source = None
                      \/ \E x \in Results, k \in 0..Len(gs) :
                           /\ x.provider = m
                           /\ Of(gs, m) = {k + i : i \in DOMAIN x.errors}
                           /\ \A i \in DOMAIN x.errors :
                                /\ gs[k + i].source = x.errors[i].source
                                /\ gs[k + i].occurred_at = x.errors[i].occurred_at
  BY DEF Once, gs
<1>3. CASE m = p
  <2>1. Of(gs, m) = Block
    <3>1. \A i \in Block : gs[i].provider = p
      BY <1>1
    <3>2. \A i \in DOMAIN fs : gs[i].provider # p
      BY <1>1
    <3> HIDE DEF Block
    <3> QED
      BY <3>1, <3>2, <1>1, <1>3
  <2>2. n \in 0..Len(gs)
    BY <1>1
  <2>3. Block = {n + i : i \in DOMAIN r.errors}
    OBVIOUS
  <2>4. \A i \in DOMAIN r.errors : /\ gs[n + i].source = r.errors[i].source
                                   /\ gs[n + i].occurred_at = r.errors[i].occurred_at
    BY <1>1
  <2> HIDE DEF Block, Of
  <2> QED
    BY <2>1, <2>2, <2>3, <2>4, <1>3
<1>4. CASE m # p
  <2>1. Of(gs, m) = Of(fs, m)
    BY <1>1, <1>4
  <2>2. \A i \in Of(fs, m) : gs[i] = fs[i]
    BY <1>1
  <2>3. \/ Of(fs, m) = {}
        \/ \E i \in Of(fs, m) : Of(fs, m) = {i} /\ fs[i].source = None
        \/ \E x \in Results, k \in 0..Len(fs) :
             /\ x.provider = m
             /\ Of(fs, m) = {k + i : i \in DOMAIN x.errors}
             /\ \A i \in DOMAIN x.errors :
                  /\ fs[k + i].source = x.errors[i].source
                  /\ fs[k + i].occurred_at = x.errors[i].occurred_at
    BY DEF Once
  <2> HIDE DEF Of
  <2>4. ASSUME NEW x \in Results, NEW k \in 0..Len(fs), x.provider = m,
               Of(fs, m) = {k + i : i \in DOMAIN x.errors},
               \A i \in DOMAIN x.errors :
                  /\ fs[k + i].source = x.errors[i].source
                  /\ fs[k + i].occurred_at = x.errors[i].occurred_at
        PROVE  /\ k \in 0..Len(gs) /\ Of(gs, m) = {k + i : i \in DOMAIN x.errors}
               /\ \A i \in DOMAIN x.errors :
                    /\ gs[k + i].source = x.errors[i].source
                    /\ gs[k + i].occurred_at = x.errors[i].occurred_at
    <3>1. k \in 0..Len(gs)
      BY <1>1 DEF n
    <3>2. \A i \in DOMAIN x.errors : gs[k + i] = fs[k + i]
      BY <2>2, <2>4
    <3> QED
      BY <2>1, <2>4, <3>1, <3>2
  <2> QED
    BY <2>1, <2>2, <2>3, <2>4
<1> QED
  BY <1>3, <1>4

-----------------------------------------------------------------------------
(***************************************************************************)
(* Steps that write no attempt and no raw row.                             *)
(***************************************************************************)
LEMMA SumOfNone ==
  ASSUME Created = {}
  PROVE  Totals = [discovered |-> 0, inserted |-> 0, updated |-> 0]
<1>1. \A f : DOMAIN f = {} => SumFunction(f) = 0
  BY SumEmpty DEF SumFunction
<1>2. /\ DOMAIN [a \in Created |-> attempts[a].discovered] = {}
      /\ DOMAIN [a \in Created |-> attempts[a].inserted] = {}
      /\ DOMAIN [a \in Created |-> attempts[a].updated] = {}
  OBVIOUS
<1> QED
  BY <1>1, <1>2 DEF Totals

LEMMA InitIInv == Init => IInv
<1> SUFFICES ASSUME Init PROVE IInv
  OBVIOUS
<1>1. ExecutionInv /\ ExecutionTypeOK /\ raws = <<>> /\ exec.pc = "idle"
  BY ExecutionInitInv DEF Init, ExecutionInit, NotExecuting, ExecutionInv
<1>2. Created = {} /\ RunningAttempts = {}
  BY DEF Init, Created, RunningAttempts
<1>3. TypeOK
  <2>1. <<>> \in Seq(Names)
    OBVIOUS
  <2> QED
    BY <1>1, <2>1 DEF Init, TypeOK
<1>4. NamesInv /\ StageInv /\ AttemptsInv
  BY <1>1, <1>2 DEF Init, NamesInv, StageInv, AttemptsInv, Finished, Aborting
<1>5. RollupInv /\ CleanInv /\ FailuresRecordedOnce
  BY DEF Init, RollupInv, CleanInv, CompletedMeansClean, FailuresRecordedOnce, Finished
<1>6. CountersAccountForPostings
  <2>1. \A p : Mine(p) = {}
    BY <1>2 DEF Mine
  <2> QED
    BY <2>1, AccountEmpty, AccountsOf
<1> QED
  BY <1>1, <1>3, <1>4, <1>5, <1>6 DEF IInv

\* What steps of the caller alone leave as it is.
LEMMA TablesSame ==
  ASSUME IInv, attempts' = attempts, UNCHANGED executionVars
  PROVE  /\ Created' = Created /\ RunningAttempts' = RunningAttempts /\ Totals' = Totals
         /\ raws' = raws /\ state' = state /\ exec' = exec
         /\ ExecutionInv' /\ ExecutionTypeOK' /\ (ExecutionClean => ExecutionClean')
         /\ CountersAccountForPostings'
         /\ \A n : NoRows(n) => NoRows(n)'
<1>1. raws' = raws /\ state' = state /\ exec' = exec
  BY DEF executionVars
<1>2. ExecutionInv' /\ ExecutionTypeOK'
  BY ExecutionUnchanged DEF IInv, ExecutionInv
<1>3. ExecutionClean => ExecutionClean'
  BY <1>1 DEF ExecutionClean
<1>4. \A n : NoRows(n) => NoRows(n)'
  BY <1>1 DEF NoRows
<1>5. CountersAccountForPostings'
  BY <1>1, AccountsSame DEF IInv
<1> QED
  BY <1>1, <1>2, <1>3, <1>4, <1>5, AttemptsSame

NewRun == [status |-> "running", discovered |-> 0, inserted |-> 0, updated |-> 0,
           failures |-> <<>>, providers_attempted |-> <<>>]

\* A row is not null.
LEMMA NullRun == None \notin Run
BY RunAssumption

LEMMA NewRunType == NewRun \in Run
<1>1. <<>> \in Seq([provider : Names, source : Sources \cup {None}, occurred_at : Nat])
      /\ <<>> \in Seq(Providers)
  OBVIOUS
<1> QED
  BY <1>1 DEF NewRun, Run

LEMMA SelectedType ==
  ASSUME search \in Searches \cup {None}, Selected # None
  PROVE  /\ Selected \in Seq(Names)
         /\ \A i, j \in DOMAIN Selected : Selected[i] = Selected[j] => i = j
<1>1. search # None /\ search \in Searches
  BY DEF Selected
<1>2. CASE search.enabled_providers = None
  <2>1. Selected = Registry
    BY <1>2 DEF Selected
  <2>2. Registry \in Seq(Names)
    BY SearchAssumption
  <2> QED
    BY <2>1, <2>2, SearchAssumption
<1>3. CASE search.enabled_providers # None
  <2> DEFINE e == search.enabled_providers
  <2>1. /\ Selected = e /\ \A i \in DOMAIN e : e[i] \in Names
        /\ \A i, j \in DOMAIN e : e[i] = e[j] => i = j
    BY <1>3 DEF Selected
  <2>2. e \in Seq(Range(e))
    BY <1>1, <1>3, SearchAssumption
  <2> HIDE DEF e
  <2>3. /\ Len(e) \in Nat /\ DOMAIN e = 1..Len(e) /\ e = [i \in 1..Len(e) |-> e[i]]
    BY <2>2
  <2>4. e \in Seq(Names)
    BY <2>1, <2>3, IsASeq
  <2> QED
    BY <2>1, <2>4
<1> QED
  BY <1>2, <1>3

LEMMA StartRunInv ==
  ASSUME IInv, NEW o \in Outcomes, StartRun(o)
  PROVE  IInv'
<1>1. /\ pc = "init" /\ UNCHANGED executionVars /\ attempts' = attempts
      /\ search' = search /\ erred' = erred /\ current' = current /\ running' = running
  BY DEF StartRun
<1>2. /\ run = None /\ names = <<>> /\ ~erred /\ exec.pc = "idle" /\ current = {}
      /\ raws = <<>> /\ Created = {} /\ RunningAttempts = {} /\ TypeOK
  BY <1>1 DEF IInv, StageInv, RunningAttempts
<1>3. /\ Created' = {} /\ RunningAttempts' = {} /\ raws' = raws /\ exec' = exec
      /\ ExecutionInv' /\ ExecutionTypeOK' /\ CountersAccountForPostings'
      /\ Totals' = [discovered |-> 0, inserted |-> 0, updated |-> 0]
  BY <1>1, <1>2, TablesSame, SumOfNone
<1>4. /\ CASE Selected = None -> pc' = "refused" /\ run' = run /\ names' = names
           [] OTHER -> /\ run' = (IF Commits(o) THEN NewRun ELSE None)
                       /\ names' = Selected
                       /\ pc' = (IF Returns(o) THEN "loop" ELSE "suppressed")
      /\ Returns(o) => Commits(o)
  BY DEF StartRun, NewRun, Goto, Returns, Commits
<1>5. /\ names' \in Seq(Names)
      /\ \A i, j \in DOMAIN names' : names'[i] = names'[j] => i = j
  <2>1. CASE Selected = None
    BY <1>2, <1>4, <2>1 DEF TypeOK
  <2>2. CASE Selected # None
    BY <1>2, <1>4, <2>2, SelectedType DEF TypeOK
  <2> QED
    BY <2>1, <2>2
<1>6. /\ run' \in {None, NewRun} /\ (pc' = "loop" => run' = NewRun)
      /\ pc' \in {"refused", "loop", "suppressed"} /\ (pc' = "refused" => run' = None)
  BY <1>2, <1>4
<1>7. TypeOK'
  BY <1>1, <1>2, <1>3, <1>5, <1>6, NewRunType DEF TypeOK, Ended
<1>8. ~Finished' /\ (run' # None => run' = NewRun)
  BY <1>6 DEF Finished, NewRun, Terminal
<1>9. NamesInv'
  <2>1. \A n : run' = NewRun => Fresh(n)'
    BY <1>2, <1>3 DEF Fresh, NoRows, NewRun
  <2> QED
    BY <1>5, <1>6, <2>1 DEF NamesInv
<1>10. StageInv'
  <2>1. run' = NewRun => run'.status = "running"
    BY DEF NewRun
  <2>2. pc' = "loop" => run' # None
    BY <1>6, NullRun, NewRunType
  <2> QED
    BY <1>1, <1>2, <1>3, <1>6, <1>8, <2>1, <2>2 DEF StageInv, Aborting
<1>11. AttemptsInv'
  BY <1>1, <1>2, <1>3 DEF AttemptsInv
<1>12. RollupInv'
  BY <1>3, <1>6, <1>8 DEF RollupInv, RollupIsSum, NewRun
<1>13. CleanInv'
  BY <1>1, <1>2, <1>3, <1>6, <1>8 DEF CleanInv, CompletedMeansClean, ExecutionClean, NewRun
<1>14. FailuresRecordedOnce'
  BY <1>8, OnceFailures, OnceEmpty DEF NewRun
<1> QED
  BY <1>3, <1>7, <1>9, <1>10, <1>11, <1>12, <1>13, <1>14 DEF IInv

\* The names after the first.
LEMMA NamesTail ==
  ASSUME TypeOK, NamesInv, names # <<>>
  PROVE  /\ Head(names) \in Names /\ 1 \in DOMAIN names /\ Head(names) = names[1]
         /\ Tail(names) \in Seq(Names)
         /\ \A i \in DOMAIN Tail(names) : /\ i + 1 \in DOMAIN names /\ i + 1 > 1
                                          /\ Tail(names)[i] = names[i + 1]
                                          /\ names[i + 1] # Head(names)
         /\ \A i, j \in DOMAIN Tail(names) : Tail(names)[i] = Tail(names)[j] => i = j
<1>1. names \in Seq(Names)
  BY DEF TypeOK
<1>2. /\ Head(names) \in Names /\ 1 \in DOMAIN names /\ Head(names) = names[1]
      /\ Tail(names) \in Seq(Names)
      /\ \A i \in DOMAIN Tail(names) : /\ i \in Nat /\ i + 1 \in DOMAIN names /\ i + 1 > 1
                                       /\ Tail(names)[i] = names[i + 1]
  BY <1>1
<1>3. \A i, j \in DOMAIN names : names[i] = names[j] => i = j
  BY DEF NamesInv
<1>4. \A i \in DOMAIN Tail(names) : names[i + 1] # Head(names)
  BY <1>2, <1>3
<1>5. \A i, j \in DOMAIN Tail(names) : Tail(names)[i] = Tail(names)[j] => i = j
  <2> TAKE i, j \in DOMAIN Tail(names)
  <2>1. Tail(names)[i] = Tail(names)[j] => i + 1 = j + 1
    BY <1>2, <1>3
  <2>2. i \in Nat /\ j \in Nat
    BY <1>2
  <2> QED
    BY <2>1, <2>2
<1> QED
  BY <1>2, <1>4, <1>5

\* A step that visits the first name and learns nothing of another.
LEMMA NamesAfter ==
  ASSUME TypeOK, NamesInv, names # <<>>, names' = Tail(names), pc' # "execute",
         pc' = "loop" => pc \in {"loop", "execute"},
         \A n : n # Head(names) /\ Fresh(n) => Fresh(n)'
  PROVE  names' \in Seq(Names) /\ NamesInv'
<1>1. /\ names' \in Seq(Names)
      /\ \A i \in DOMAIN names' : /\ i + 1 \in DOMAIN names /\ i + 1 > 1
                                  /\ names'[i] = names[i + 1]
                                  /\ names[i + 1] # Head(names)
      /\ \A i, j \in DOMAIN names' : names'[i] = names'[j] => i = j
  BY NamesTail
<1>2. ASSUME pc' = "loop", NEW i \in DOMAIN names' PROVE Fresh(names[i])'
  <2>1. PICK n : n = names[i + 1]
    OBVIOUS
  <2>2. n # Head(names) /\ Fresh(n) /\ names'[i] = n
    BY <1>1, <1>2, <2>1 DEF NamesInv
  <2>3. Fresh(n)'
    BY <2>2
  <2> QED
    BY <2>2, <2>3 DEF Fresh, NoRows
<1> QED
  BY <1>1, <1>2 DEF NamesInv

\* A step that visits no name.
LEMMA NamesSame ==
  ASSUME TypeOK, NamesInv, names' = names, pc' # "loop",
         pc' = "execute" => /\ pc \in {"loop", "execute"} /\ names # <<>>
                            /\ \A n : n # Head(names) /\ Fresh(n) => Fresh(n)'
  PROVE  NamesInv'
<1>1. ASSUME pc' = "execute", NEW i \in DOMAIN names', i > 1 PROVE Fresh(names[i])'
  <2>1. PICK n : n = names[i]
    OBVIOUS
  <2>2. Head(names) = names[1] /\ 1 \in DOMAIN names /\ i \in DOMAIN names
    BY <1>1, NamesTail
  <2>3. n # Head(names)
    BY <1>1, <2>1, <2>2 DEF NamesInv
  <2>4. Fresh(n)
    BY <1>1, <2>1, <2>2 DEF NamesInv
  <2>5. Fresh(n)' /\ names'[i] = n
    BY <1>1, <2>1, <2>3, <2>4
  <2> QED
    BY <2>5 DEF Fresh, NoRows
<1> QED
  BY <1>1 DEF NamesInv

LEMMA AppendPlanningFailureInv ==
  ASSUME IInv, NEW o \in Outcomes, AppendPlanningFailure(o)
  PROVE  IInv'
<1> DEFINE f == [provider |-> Head(names), source |-> None, occurred_at |-> 0]
<1>1. /\ pc = "loop" /\ names # <<>> /\ UNCHANGED executionVars /\ attempts' = attempts
      /\ search' = search /\ current' = current /\ running' = running
      /\ names' = Tail(names) /\ erred' = (erred \/ Returns(o))
      /\ run' = IF Commits(o) THEN [run EXCEPT !.failures = Append(@, f)] ELSE run
      /\ pc' = IF Returns(o) THEN "loop" ELSE "abort_fetch"
      /\ Returns(o) => Commits(o)
  BY DEF AppendPlanningFailure, Continue, Goto, Returns, Commits
<1>2. /\ run # None /\ run.status = "running" /\ current = {} /\ RunningAttempts = {}
      /\ exec.pc = "idle" /\ TypeOK /\ RollupIsSum /\ Once(run.failures) /\ run \in Run
  BY <1>1, OnceFailures DEF IInv, StageInv, RollupInv, TypeOK
<1>3. /\ Created' = Created /\ RunningAttempts' = {} /\ raws' = raws /\ exec' = exec
      /\ ExecutionInv' /\ ExecutionTypeOK' /\ CountersAccountForPostings'
      /\ Totals' = Totals /\ \A n : NoRows(n) => NoRows(n)'
  BY <1>1, <1>2, TablesSame
<1>4. /\ Head(names) \in Names /\ 1 \in DOMAIN names /\ Head(names) = names[1]
      /\ Tail(names) \in Seq(Names)
      /\ \A i \in DOMAIN Tail(names) : /\ i + 1 \in DOMAIN names
                                       /\ Tail(names)[i] = names[i + 1]
                                       /\ names[i + 1] # Head(names)
      /\ \A i, j \in DOMAIN Tail(names) : Tail(names)[i] = Tail(names)[j] => i = j
  BY <1>1, NamesTail DEF IInv
<1>5. f \in Failure /\ run.failures \in Seq(Failure) /\ Append(run.failures, f) \in Seq(Failure)
  BY <1>2, <1>4 DEF Failure, Run
<1>6. /\ run' \in Run /\ run' # None /\ run'.status = "running"
      /\ run'.discovered = run.discovered /\ run'.inserted = run.inserted
      /\ run'.updated = run.updated
      /\ run'.failures = IF Commits(o) THEN Append(run.failures, f) ELSE run.failures
  <2>1. CASE Commits(o)
    <3>1. run' = [run EXCEPT !.failures = Append(run.failures, f)]
      BY <1>1, <2>1
    <3> HIDE DEF f
    <3>2. run' \in Run /\ run'.status = "running"
          /\ run'.discovered = run.discovered /\ run'.inserted = run.inserted
          /\ run'.updated = run.updated /\ run'.failures = Append(run.failures, f)
      BY <1>2, <1>5, <3>1 DEF Run, Failure
    <3> QED
      BY <2>1, <3>2, NullRun
  <2>2. CASE ~Commits(o)
    BY <1>1, <1>2, <2>2
  <2> QED
    BY <2>1, <2>2
<1> HIDE DEF f
<1>7. TypeOK'
  BY <1>1, <1>2, <1>3, <1>4, <1>6 DEF TypeOK, Ended
<1>8. ~Finished'
  BY <1>6 DEF Finished, Terminal
<1>9. NamesInv'
  <2>1. ASSUME NEW n, n # Head(names), Fresh(n) PROVE Fresh(n)'
    <3>1. f.provider = Head(names)
      BY DEF f
    <3>2. /\ DOMAIN Append(run.failures, f) = DOMAIN run.failures \cup {Len(run.failures) + 1}
          /\ \A j \in DOMAIN run.failures : Append(run.failures, f)[j] = run.failures[j]
          /\ Append(run.failures, f)[Len(run.failures) + 1] = f
      BY <1>5
    <3>3. \A j \in DOMAIN run'.failures : run'.failures[j].provider # n
      BY <1>6, <2>1, <3>1, <3>2 DEF Fresh
    <3> QED
      BY <1>3, <2>1, <3>3 DEF Fresh
  <2> QED
    BY <1>1, <1>2, <2>1, NamesAfter DEF IInv
<1>10. StageInv'
  BY <1>1, <1>2, <1>3, <1>6, <1>8 DEF StageInv, Aborting
<1>11. AttemptsInv'
  BY <1>1, <1>2, <1>3 DEF AttemptsInv
<1>12. RollupInv'
  BY <1>2, <1>3, <1>6 DEF RollupInv, RollupIsSum
<1>13. CleanInv'
  BY <1>1, <1>8 DEF CleanInv, CompletedMeansClean
<1>14. FailuresRecordedOnce'
  <2>1. \A i \in DOMAIN run.failures : run.failures[i].provider # f.provider
    BY <1>1, <1>4 DEF IInv, NamesInv, Fresh, f
  <2>2. f.source = None
    BY DEF f
  <2>3. Once(Append(run.failures, f))
    BY <1>2, <1>5, <2>1, <2>2, OnceAppend
  <2> QED
    BY <1>2, <1>6, <2>3, OnceFailures
<1> QED
  BY <1>3, <1>7, <1>9, <1>10, <1>11, <1>12, <1>13, <1>14 DEF IInv

\* What a step that writes no table keeps besides.
LEMMA OnlyControl ==
  ASSUME IInv, attempts' = attempts, run' = run, UNCHANGED executionVars
  PROVE  /\ Finished' = Finished /\ RollupIsSum' = RollupIsSum
         /\ CompletedMeansClean' /\ FailuresRecordedOnce'
         /\ \A n : Fresh(n) => Fresh(n)'
<1>1. Created' = Created /\ Totals' = Totals /\ raws' = raws
      /\ \A n : NoRows(n) => NoRows(n)'
  BY TablesSame
<1>2. Finished' = Finished /\ RollupIsSum' = RollupIsSum
  BY <1>1 DEF Finished, RollupIsSum
<1>3. CompletedMeansClean'
  BY <1>1, <1>2 DEF IInv, CleanInv, CompletedMeansClean
<1>4. FailuresRecordedOnce'
  BY OnceFailures DEF IInv
<1>5. \A n : Fresh(n) => Fresh(n)'
  BY <1>1 DEF Fresh
<1> QED
  BY <1>2, <1>3, <1>4, <1>5

LEMMA SkipProviderInv ==
  ASSUME IInv, SkipProvider
  PROVE  IInv'
<1>1. /\ pc = "loop" /\ names # <<>> /\ names' = Tail(names) /\ UNCHANGED executionVars
      /\ attempts' = attempts /\ run' = run /\ pc' = pc /\ search' = search
      /\ erred' = erred /\ current' = current /\ running' = running
  BY DEF SkipProvider
<1>2. /\ Created' = Created /\ RunningAttempts' = RunningAttempts
      /\ raws' = raws /\ exec' = exec /\ ExecutionInv' /\ ExecutionTypeOK'
      /\ (ExecutionClean => ExecutionClean') /\ CountersAccountForPostings'
      /\ \A n : NoRows(n) => NoRows(n)'
  BY <1>1, TablesSame
<1>3. /\ Finished' = Finished /\ RollupIsSum' = RollupIsSum
      /\ CompletedMeansClean' /\ FailuresRecordedOnce' /\ \A n : Fresh(n) => Fresh(n)'
  BY <1>1, OnlyControl
<1>4. names' \in Seq(Names) /\ NamesInv'
  BY <1>1, <1>3, NamesAfter DEF IInv
<1>5. TypeOK'
  BY <1>1, <1>2, <1>4 DEF IInv, TypeOK
<1>6. StageInv'
  BY <1>1, <1>2, <1>3 DEF IInv, StageInv, Aborting
<1>7. AttemptsInv'
  BY <1>1, <1>2 DEF IInv, StageInv, AttemptsInv
<1>8. RollupInv' /\ CleanInv'
  BY <1>1, <1>2, <1>3 DEF IInv, RollupInv, CleanInv
<1> QED
  BY <1>2, <1>3, <1>4, <1>5, <1>6, <1>7, <1>8 DEF IInv

\* A step that only moves the coroutine to the handler, or out of any code.
LEMMA LeavesInv ==
  ASSUME IInv, run' = run, attempts' = attempts, UNCHANGED executionVars,
         search' = search, names' = names, erred' = erred, current' = current,
         running' = running,
         \/ pc' \in {"stopped", "suppressed"}
         \/ /\ pc' = "abort_fetch" /\ pc \in {"loop", "execute"}
            /\ current # {} => exec.pc \in {"raised", "done"}
  PROVE  IInv'
<1>1. /\ Created' = Created /\ RunningAttempts' = RunningAttempts
      /\ raws' = raws /\ exec' = exec /\ ExecutionInv' /\ ExecutionTypeOK'
      /\ CountersAccountForPostings'
      /\ \A n : NoRows(n) => NoRows(n)'
  BY TablesSame
<1>2. /\ Finished' = Finished /\ RollupIsSum' = RollupIsSum
      /\ CompletedMeansClean' /\ FailuresRecordedOnce'
  BY OnlyControl
<1>3. NamesInv'
  BY NamesSame DEF IInv
<1>4. TypeOK'
  BY <1>1 DEF IInv, TypeOK, Ended
<1>5. StageInv'
  BY <1>1, <1>2 DEF IInv, StageInv, Aborting
<1>6. AttemptsInv'
  <2>1. current' # {} => /\ exec'.pc # "idle" /\ current' = {exec'.provider} \X exec'.sources
                         /\ RunningAttempts' \in {{}, current'}
                         /\ pc' \in Aborting => exec'.pc \in {"raised", "done"}
    BY <1>1 DEF IInv, AttemptsInv, Aborting
  <2>2. \A a \in RunningAttempts' :
          /\ attempts'[a] = NewAttempt
          /\ a \notin current' => NoRows(a[1])'
          /\ \A b \in Created' : b[1] = a[1] => b \in RunningAttempts'
          /\ \A i \in DOMAIN run'.failures : run'.failures[i].provider # a[1]
    BY <1>1 DEF IInv, AttemptsInv
  <2> QED
    BY <2>1, <2>2 DEF AttemptsInv, NoRows
<1>7. RollupInv' /\ CleanInv'
  BY <1>2 DEF IInv, RollupInv, CleanInv
<1> QED
  BY <1>1, <1>2, <1>3, <1>4, <1>5, <1>6, <1>7 DEF IInv

LEMMA NameDriftInv ==
  ASSUME IInv, NameDrift
  PROVE  IInv'
BY LeavesInv DEF NameDrift, Goto, IInv, StageInv

LEMMA ExecutionRaisedInv ==
  ASSUME IInv, ExecutionRaised
  PROVE  IInv'
BY LeavesInv DEF ExecutionRaised, Goto

LEMMA ProcessStopsInv ==
  ASSUME IInv, ProcessStops
  PROVE  IInv'
BY LeavesInv DEF ProcessStops, Goto

LEMMA FetchRunningAttemptsInv ==
  ASSUME IInv, NEW o \in Outcomes, FetchRunningAttempts(o)
  PROVE  IInv'
<1>1. /\ pc = "abort_fetch" /\ UNCHANGED executionVars /\ names' = names
      /\ attempts' = attempts /\ run' = run /\ search' = search
      /\ erred' = erred /\ current' = current
      /\ running' = IF Returns(o) THEN RunningAttempts ELSE {}
      /\ pc' = IF ~Returns(o) THEN "suppressed"
               ELSE IF RunningAttempts = {} THEN "abort_rollup" ELSE "abort_finalize"
  BY DEF FetchRunningAttempts, Goto
<1>2. /\ Created' = Created /\ RunningAttempts' = RunningAttempts
      /\ raws' = raws /\ exec' = exec /\ ExecutionInv' /\ ExecutionTypeOK'
      /\ CountersAccountForPostings'
      /\ \A n : NoRows(n) => NoRows(n)'
  BY <1>1, TablesSame
<1>3. /\ Finished' = Finished /\ RollupIsSum' = RollupIsSum
      /\ CompletedMeansClean' /\ FailuresRecordedOnce'
  BY <1>1, OnlyControl
<1>4. NamesInv'
  BY <1>1, NamesSame DEF IInv
<1>5. TypeOK'
  <2>1. RunningAttempts \in SUBSET AttemptIds
    BY DEF RunningAttempts, Created
  <2> QED
    BY <1>1, <1>2, <2>1 DEF IInv, TypeOK, Ended
<1>6. StageInv'
  <2>1. run # None /\ run.status # "failed"
    BY <1>1 DEF IInv, StageInv, Aborting
  <2>2. Finished => RunningAttempts = {}
    BY DEF IInv, StageInv
  <2>3. run = None => Created = {}
    BY DEF IInv, StageInv
  <2> QED
    BY <1>1, <1>2, <1>3, <2>1, <2>2, <2>3 DEF StageInv, Aborting
<1>7. AttemptsInv'
  <2>1. current' # {} => /\ exec'.pc # "idle" /\ current' = {exec'.provider} \X exec'.sources
                         /\ RunningAttempts' \in {{}, current'}
                         /\ pc' \in Aborting => exec'.pc \in {"raised", "done"}
    BY <1>1, <1>2 DEF IInv, AttemptsInv, Aborting
  <2>2. \A a \in RunningAttempts' :
          /\ attempts'[a] = NewAttempt
          /\ a \notin current' => NoRows(a[1])'
          /\ \A b \in Created' : b[1] = a[1] => b \in RunningAttempts'
          /\ \A i \in DOMAIN run'.failures : run'.failures[i].provider # a[1]
    BY <1>1, <1>2 DEF IInv, AttemptsInv
  <2> QED
    BY <2>1, <2>2 DEF AttemptsInv, NoRows
<1>8. RollupInv' /\ CleanInv'
  BY <1>1, <1>3 DEF IInv, RollupInv, CleanInv
<1> QED
  BY <1>2, <1>3, <1>4, <1>5, <1>6, <1>7, <1>8 DEF IInv

LEMMA FinishRunInv ==
  ASSUME IInv, NEW o \in Outcomes, FinishRun(o)
  PROVE  IInv'
<1> DEFINE final == IF erred THEN "completed_with_errors" ELSE "completed"
<1>1. /\ pc = "loop" /\ names = <<>> /\ UNCHANGED executionVars /\ names' = names
      /\ attempts' = attempts /\ search' = search
      /\ erred' = erred /\ current' = current /\ running' = running
      /\ run' = IF Commits(o) THEN [run EXCEPT !.status = final] ELSE run
      /\ pc' = IF Returns(o) THEN "returned" ELSE "abort_fetch"
      /\ Returns(o) => Commits(o)
  BY DEF FinishRun, Continue, Goto, Returns, Commits
<1>2. /\ Created' = Created /\ RunningAttempts' = RunningAttempts
      /\ raws' = raws /\ exec' = exec /\ state' = state /\ ExecutionInv' /\ ExecutionTypeOK'
      /\ CountersAccountForPostings' /\ Totals' = Totals
  BY <1>1, TablesSame
<1>3. /\ run # None /\ run.status = "running" /\ current = {} /\ RunningAttempts = {}
      /\ exec.pc = "idle" /\ TypeOK /\ RollupIsSum /\ run \in Run
  BY <1>1 DEF IInv, StageInv, RollupInv, TypeOK
<1>4. /\ run' \in Run /\ run' # None
      /\ run'.discovered = run.discovered /\ run'.inserted = run.inserted
      /\ run'.updated = run.updated /\ run'.failures = run.failures
      /\ run'.status = IF Commits(o) THEN final ELSE "running"
  BY <1>1, <1>3, NullRun DEF Run, Terminal
<1>5. TypeOK'
  BY <1>1, <1>2, <1>3, <1>4 DEF TypeOK, Ended
<1>6. NamesInv'
  BY <1>1, NamesSame DEF IInv
<1>7. StageInv'
  BY <1>1, <1>2, <1>3, <1>4 DEF StageInv, Aborting, Finished
<1>8. AttemptsInv'
  BY <1>1, <1>2, <1>3 DEF AttemptsInv
<1>9. RollupIsSum'
  BY <1>2, <1>3, <1>4 DEF RollupIsSum
<1>10. CompletedMeansClean'
  <2>1. ASSUME ~erred
        PROVE  /\ run.failures = <<>>
               /\ \A a \in Created : attempts[a].status = "completed" /\ attempts[a].error = None
               /\ \A i \in DOMAIN raws : raws[i].status = "normalized"
    <3>1. /\ run.failures = <<>> /\ ExecutionClean
          /\ \A a \in Created : attempts[a].status = "completed" /\ attempts[a].error = None
      BY <1>1, <1>3, <2>1 DEF IInv, CleanInv
    <3>2. ~state.had_parse_error /\ ~state.had_conflict
      BY <1>3 DEF IInv, ExecutionInv, PhaseInv, NewState
    <3> QED
      BY <1>3, <3>1, <3>2 DEF ExecutionClean
  <2>2. ~erred \/ run'.status # "completed"
    BY <1>4
  <2> QED
    BY <1>1, <1>2, <1>4, <2>1, <2>2 DEF CompletedMeansClean
<1>11. RollupInv' /\ CleanInv'
  BY <1>1, <1>9, <1>10 DEF RollupInv, CleanInv
<1>12. FailuresRecordedOnce'
  BY <1>3, <1>4, OnceFailures DEF IInv
<1> QED
  BY <1>2, <1>5, <1>6, <1>7, <1>8, <1>11, <1>12 DEF IInv

\* The rollup is made of numbers.
LEMMA TotalsType ==
  ASSUME TypeOK
  PROVE  Totals.discovered \in Nat /\ Totals.inserted \in Nat /\ Totals.updated \in Nat
<1>1. IsFiniteSet(AttemptIds)
  BY FS_Product, ResultAssumption DEF AttemptIds
<1>2. IsFiniteSet(Created) /\ Created \subseteq AttemptIds
  BY <1>1, FS_Subset DEF Created
<1>3. \A a \in Created : attempts[a] \in Attempt
  BY <1>2 DEF Created, TypeOK
<1>4. \A a \in Created : /\ attempts[a].discovered \in Nat /\ attempts[a].inserted \in Nat
                         /\ attempts[a].updated \in Nat
  BY <1>3 DEF Attempt
<1>5. SumFunction([a \in Created |-> attempts[a].discovered]) \in Nat
  BY <1>2, <1>4, SumType DEF SumFunction
<1>6. SumFunction([a \in Created |-> attempts[a].inserted]) \in Nat
  BY <1>2, <1>4, SumType DEF SumFunction
<1>7. SumFunction([a \in Created |-> attempts[a].updated]) \in Nat
  BY <1>2, <1>4, SumType DEF SumFunction
<1> QED
  BY <1>5, <1>6, <1>7 DEF Totals

LEMMA TotalsTypePrimed ==
  TypeOK' => Totals.discovered' \in Nat /\ Totals.inserted' \in Nat /\ Totals.updated' \in Nat
<1> DEFINE Typed == Totals.discovered \in Nat /\ Totals.inserted \in Nat /\ Totals.updated \in Nat
<1>1. TypeOK => Totals.discovered \in Nat /\ Totals.inserted \in Nat /\ Totals.updated \in Nat
  BY TotalsType
<1>2. TypeOK' => Typed'
  <2>1. TypeOK => Typed
    BY <1>1
  <2> HIDE DEF Typed
  <2> QED
    BY <2>1, PTL
<1> QED
  BY <1>2

LEMMA RecomputeRollupInv ==
  ASSUME IInv, NEW o \in Outcomes, RecomputeRollup(o)
  PROVE  IInv' /\ run' # None
<1>1. /\ pc = "abort_rollup" /\ UNCHANGED executionVars /\ names' = names
      /\ attempts' = attempts /\ search' = search
      /\ erred' = erred /\ current' = current /\ running' = running
      /\ run' = IF Commits(o)
                THEN [run EXCEPT !.status = "failed", !.discovered = Totals.discovered,
                                 !.inserted = Totals.inserted, !.updated = Totals.updated]
                ELSE run
      /\ pc' = IF Returns(o) THEN "raised" ELSE "suppressed"
      /\ Returns(o) => Commits(o)
  BY DEF RecomputeRollup, Goto, Returns, Commits
<1>2. /\ Created' = Created /\ RunningAttempts' = RunningAttempts
      /\ raws' = raws /\ exec' = exec /\ state' = state /\ ExecutionInv' /\ ExecutionTypeOK'
      /\ CountersAccountForPostings' /\ Totals' = Totals
      /\ \A n : NoRows(n) => NoRows(n)'
  BY <1>1, TablesSame
<1>3. run # None /\ RunningAttempts = {} /\ TypeOK /\ run \in Run
  BY <1>1 DEF IInv, StageInv, TypeOK, Aborting
<1>4. CASE ~Commits(o)
  <2>1. run' = run /\ pc' = "suppressed"
    BY <1>1, <1>4
  <2>2. /\ Finished' = Finished /\ RollupIsSum' = RollupIsSum
        /\ CompletedMeansClean' /\ FailuresRecordedOnce'
    BY <1>1, <2>1, OnlyControl
  <2>3. NamesInv'
    BY <1>1, <2>1, NamesSame DEF IInv
  <2>4. TypeOK'
    BY <1>1, <1>2, <1>3, <2>1 DEF TypeOK, Ended
  <2>5. StageInv' /\ RollupInv' /\ CleanInv'
    BY <1>2, <1>3, <2>1, <2>2 DEF IInv, StageInv, RollupInv, CleanInv, Aborting
  <2>6. AttemptsInv'
    BY <1>1, <1>2, <1>3, <2>1 DEF IInv, AttemptsInv, Aborting
  <2> QED
    BY <1>2, <1>3, <2>1, <2>2, <2>3, <2>4, <2>5, <2>6 DEF IInv
<1>5. CASE Commits(o)
  <2>1. /\ run' \in Run /\ run' # None /\ run'.status = "failed"
        /\ run'.discovered = Totals.discovered /\ run'.inserted = Totals.inserted
        /\ run'.updated = Totals.updated /\ run'.failures = run.failures
    <3>1. Totals.discovered \in Nat /\ Totals.inserted \in Nat /\ Totals.updated \in Nat
      BY <1>3, TotalsType
    <3> QED
      BY <1>1, <1>3, <1>5, <3>1, NullRun DEF Run, Terminal
  <2>2. pc' \in {"raised", "suppressed"}
    BY <1>1
  <2>3. NamesInv'
    BY <1>1, <2>2, NamesSame DEF IInv
  <2>4. TypeOK'
    BY <1>1, <1>2, <1>3, <2>1, <2>2 DEF TypeOK, Ended
  <2>5. StageInv'
    BY <1>2, <1>3, <2>1, <2>2 DEF StageInv, Aborting, Finished
  <2>6. AttemptsInv'
    BY <1>1, <1>2, <1>3, <2>2 DEF IInv, AttemptsInv, Aborting
  <2>7. RollupInv' /\ CleanInv'
    BY <1>2, <2>1, <2>2 DEF RollupInv, RollupIsSum, CleanInv, CompletedMeansClean, Totals
  <2>8. FailuresRecordedOnce'
    BY <1>3, <2>1, OnceFailures DEF IInv
  <2> QED
    BY <1>2, <2>1, <2>3, <2>4, <2>5, <2>6, <2>7, <2>8 DEF IInv
<1> QED
  BY <1>4, <1>5

-----------------------------------------------------------------------------
(***************************************************************************)
(* Steps that begin, run and finalise the attempts of one provider.        *)
(***************************************************************************)
\* Attempt ids are pairs of a provider and a source, and finitely many.
LEMMA CreatedFacts ==
  ASSUME TypeOK
  PROVE  /\ IsFiniteSet(Created) /\ Created \subseteq AttemptIds
         /\ \A a \in AttemptIds : /\ a = <<a[1], a[2]>> /\ a[1] \in Providers
                                  /\ a[2] \in Sources
         /\ \A a \in Created : /\ attempts[a] \in Attempt
                               /\ attempts[a].discovered \in Nat
                               /\ attempts[a].inserted \in Nat
                               /\ attempts[a].updated \in Nat
<1>1. IsFiniteSet(AttemptIds)
  BY FS_Product, ResultAssumption DEF AttemptIds
<1>2. IsFiniteSet(Created) /\ Created \subseteq AttemptIds
  BY <1>1, FS_Subset DEF Created
<1>3. \A a \in Created : attempts[a] \in Attempt
  BY <1>2 DEF Created, TypeOK
<1>4. \A a \in AttemptIds : a = <<a[1], a[2]>> /\ a[1] \in Providers /\ a[2] \in Sources
  BY DEF AttemptIds
<1>5. \A x \in Attempt : x.discovered \in Nat /\ x.inserted \in Nat /\ x.updated \in Nat
  BY DEF Attempt
<1> QED
  BY <1>2, <1>3, <1>4, <1>5

\* The attempts a provider in flight has are all running: none is accounted for.
LEMMA MineRunning ==
  ASSUME IInv, NEW a \in RunningAttempts
  PROVE  Mine(a[1]) = {}
<1>1. \A s \in Sources : <<a[1], s>> \in Created => <<a[1], s>> \in RunningAttempts
  <2>1. \A s : <<a[1], s>>[1] = a[1]
    OBVIOUS
  <2> QED
    BY <2>1 DEF IInv, AttemptsInv
<1> QED
  BY <1>1 DEF Mine

LEMMA ExecuteProviderQueryInv ==
  ASSUME IInv, ExecuteProviderQuery
  PROVE  IInv'
<1>1. /\ pc = "execute" /\ ExecutionStep /\ names' = names
      /\ attempts' = attempts /\ run' = run /\ pc' = pc /\ search' = search
      /\ erred' = erred /\ current' = current /\ running' = running
  BY DEF ExecuteProviderQuery, runVars
<1>2. /\ Created' = Created /\ RunningAttempts' = RunningAttempts /\ Totals' = Totals
  BY <1>1, AttemptsSame
<1>3. /\ TypeOK /\ ExecutionInv /\ run # None /\ run.status = "running" /\ names # <<>>
      /\ exec.provider = Head(names) /\ current # {} /\ RunningAttempts = current
      /\ current = {exec.provider} \X exec.sources /\ RollupIsSum
  BY <1>1 DEF IInv, StageInv, AttemptsInv, RollupInv
<1>4. /\ ExecutionInv' /\ exec'.provider = exec.provider /\ exec'.sources = exec.sources
      /\ exec'.pc # "idle"
  BY <1>1, <1>3, ExecutionStepInv, ExecutionStepShape
<1>5. ASSUME NEW q, q # exec.provider
      PROVE  /\ NoRows(q) => NoRows(q)'
             /\ \A s, T : RowsOf(raws', q, s, T) = RowsOf(raws, q, s, T)
  BY <1>1, <1>3, <1>5, OthersKept
<1>6. TypeOK'
  BY <1>1, <1>3, <1>4 DEF TypeOK, ExecutionInv
<1>7. ~Finished /\ ~Finished'
  BY <1>1, <1>3 DEF Finished, Terminal
<1>8. NamesInv'
  <2>1. \A n : n # Head(names) /\ Fresh(n) => Fresh(n)'
    BY <1>1, <1>2, <1>3, <1>5 DEF Fresh
  <2> QED
    BY <1>1, <1>3, <2>1, NamesSame DEF IInv
<1>9. StageInv'
  BY <1>1, <1>2, <1>3, <1>4, <1>7 DEF StageInv, Aborting
<1>10. AttemptsInv'
  <2>1. \A a \in RunningAttempts' :
          /\ attempts'[a] = NewAttempt /\ a \in current'
          /\ \A b \in Created' : b[1] = a[1] => b \in RunningAttempts'
          /\ \A i \in DOMAIN run'.failures : run'.failures[i].provider # a[1]
    BY <1>1, <1>2, <1>3 DEF IInv, AttemptsInv
  <2> QED
    BY <1>1, <1>2, <1>3, <1>4, <2>1 DEF AttemptsInv, Aborting
<1>11. RollupInv'
  BY <1>1, <1>2, <1>3 DEF RollupInv, RollupIsSum
<1>12. CleanInv'
  <2>1. ExecutionClean => ExecutionClean'
    BY <1>1, <1>3, ExecutionCleanStep
  <2>2. \A a \in Created' \ RunningAttempts' : a \in Created \ RunningAttempts
    BY <1>2
  <2> QED
    BY <1>1, <1>2, <1>7, <2>1, <2>2 DEF IInv, CleanInv, CompletedMeansClean
<1>13. CountersAccountForPostings'
  <2>1. ASSUME NEW q \in Providers PROVE AccountOf(q)'
    <3>1. CASE q = exec.provider
      <4>1. PICK a \in RunningAttempts : a[1] = exec.provider
        BY <1>3
      <4>2. Mine(q) = {}
        BY <3>1, <4>1, MineRunning
      <4>3. Mine(q)' = {}
        BY <1>2, <4>2 DEF Mine
      <4> QED
        BY <4>3 DEF AccountOf
    <3>2. CASE q # exec.provider
      <4>1. AccountOf(q)
        BY AccountsOf DEF IInv
      <4> QED
        BY <1>1, <1>5, <3>2, <4>1, AccountKept
    <3> QED
      BY <3>1, <3>2
  <2> QED
    BY <2>1, AccountsOfPrimed
<1>14. FailuresRecordedOnce'
  BY <1>1, OnceFailures DEF IInv
<1> QED
  BY <1>4, <1>6, <1>8, <1>9, <1>10, <1>11, <1>12, <1>13, <1>14 DEF IInv

\* What is added to a sum by more numbers.
LEMMA SumAdded ==
  ASSUME NEW f, NEW g, NEW C, NEW D, IsFiniteSet(C), IsFiniteSet(D), C \cap D = {},
         DOMAIN f = C, DOMAIN g = C \cup D,
         \A a \in C : g[a] = f[a] /\ f[a] \in Nat, \A a \in D : g[a] \in Nat
  PROVE  SumFunction(g) = SumFunction(f) + SumFunctionOnSet(g, D)
<1>1. SumFunction(g) = SumFunctionOnSet(g, C) + SumFunctionOnSet(g, D)
  BY SumUnion DEF SumFunction
<1>2. SumFunctionOnSet(g, C) = SumFunction(f)
  BY SumSame DEF SumFunction
<1> QED
  BY <1>1, <1>2

\* New attempts have nothing counted.
LEMMA TotalsOfNew ==
  ASSUME TypeOK, NEW ids, IsFiniteSet(ids), ids \cap Created = {},
         Created' = Created \cup ids,
         \A a \in Created : attempts'[a] = attempts[a],
         \A a \in ids : attempts'[a] = NewAttempt
  PROVE  Totals' = Totals
<1>1. IsFiniteSet(Created)
      /\ \A a \in Created : /\ attempts[a].discovered \in Nat /\ attempts[a].inserted \in Nat
                            /\ attempts[a].updated \in Nat
  BY CreatedFacts
<1>2. /\ NewAttempt.discovered = 0 /\ NewAttempt.inserted = 0 /\ NewAttempt.updated = 0
  BY DEF NewAttempt
<1>3. ASSUME NEW f, NEW g, DOMAIN f = Created, DOMAIN g = Created \cup ids,
             \A a \in Created : g[a] = f[a] /\ f[a] \in Nat, \A a \in ids : g[a] = 0
      PROVE  SumFunction(g) = SumFunction(f)
  <2>1. SumFunction(g) = SumFunction(f) + SumFunctionOnSet(g, ids)
    BY <1>1, <1>3, SumAdded
  <2>2. SumFunctionOnSet(g, ids) = 0
    BY <1>3, SumZero
  <2>3. SumFunction(f) \in Nat
    BY <1>1, <1>3, SumType DEF SumFunction
  <2> QED
    BY <2>1, <2>2, <2>3
<1>4. SumFunction([a \in Created' |-> attempts'[a].discovered]) =
        SumFunction([a \in Created |-> attempts[a].discovered])
  BY <1>1, <1>2, <1>3
<1>5. SumFunction([a \in Created' |-> attempts'[a].inserted]) =
        SumFunction([a \in Created |-> attempts[a].inserted])
  BY <1>1, <1>2, <1>3
<1>6. SumFunction([a \in Created' |-> attempts'[a].updated]) =
        SumFunction([a \in Created |-> attempts[a].updated])
  BY <1>1, <1>2, <1>3
<1> QED
  BY <1>4, <1>5, <1>6 DEF Totals

LEMMA BeginProviderAttemptInv ==
  ASSUME IInv, NEW S \in Selections, NEW o \in Outcomes, BeginProviderAttempt(S, o)
  PROVE  IInv'
<1> DEFINE p == Head(names)
           ids == {p} \X S
<1>1. /\ pc = "loop" /\ names # <<>> /\ p \in Providers
      /\ IF Commits(o)
         THEN /\ run' = [run EXCEPT !.providers_attempted = Append(@, p)]
              /\ attempts' = [a \in AttemptIds |-> IF a \in ids THEN NewAttempt
                                                   ELSE attempts[a]]
         ELSE run' = run /\ attempts' = attempts
      /\ IF Returns(o) THEN current' = ids /\ Execute(p, S)
         ELSE current' = current /\ state' = state /\ exec' = exec
      /\ pc' = IF Returns(o) THEN "execute" ELSE "abort_fetch"
      /\ raws' = raws /\ search' = search /\ names' = names /\ erred' = erred
      /\ running' = running
      /\ Returns(o) => Commits(o)
  BY DEF BeginProviderAttempt, Continue, Goto, Returns, Commits
<1>2. /\ TypeOK /\ ExecutionInv /\ run # None /\ run \in Run /\ run.status = "running"
      /\ current = {} /\ RunningAttempts = {} /\ exec.pc = "idle" /\ RollupIsSum
      /\ NamesInv
  BY <1>1 DEF IInv, StageInv, RollupInv, TypeOK
<1>3. S \in SUBSET Sources /\ S # {}
  BY SearchAssumption
<1>4. 1 \in DOMAIN names /\ p = names[1] /\ Fresh(p)
  BY <1>1, <1>2, NamesTail DEF NamesInv
<1>5. /\ ids \subseteq AttemptIds /\ ids # {} /\ ids \cap Created = {}
      /\ IsFiniteSet(ids) /\ \A a \in ids : a[1] = p
  <2>1. ids \subseteq AttemptIds /\ ids # {} /\ \A a \in ids : a[1] = p
    <3>1. PICK s \in S : TRUE
      BY <1>3
    <3>2. <<p, s>> \in ids
      OBVIOUS
    <3>3. ids \subseteq AttemptIds
      BY <1>1, <1>3 DEF AttemptIds
    <3> QED
      BY <3>2, <3>3
  <2>2. IsFiniteSet(AttemptIds)
    BY FS_Product, ResultAssumption DEF AttemptIds
  <2> HIDE DEF ids
  <2>3. IsFiniteSet(ids)
    BY <2>1, <2>2, FS_Subset
  <2>4. ids \cap Created = {}
    BY <1>4, <2>1 DEF Fresh
  <2> QED
    BY <2>1, <2>3, <2>4
<1>6. CASE ~Commits(o)
  BY <1>1, <1>2, <1>6, LeavesInv DEF executionVars
<1>7. CASE Commits(o)
  <2>1. /\ run' \in Run /\ run' # None /\ run'.status = "running"
        /\ run'.discovered = run.discovered /\ run'.inserted = run.inserted
        /\ run'.updated = run.updated /\ run'.failures = run.failures
    <3>1. Append(run.providers_attempted, p) \in Seq(Providers)
      BY <1>1, <1>2 DEF Run
    <3> HIDE DEF p
    <3>2. run' = [run EXCEPT !.providers_attempted = Append(run.providers_attempted, p)]
      BY <1>1, <1>7
    <3>3. run' \in Run
      BY <1>2, <3>1, <3>2 DEF Run
    <3> QED
      BY <1>2, <3>2, <3>3, NullRun DEF Run
  <2> HIDE DEF ids
  <2>2. /\ NewAttempt \in Attempt /\ NewAttempt # None /\ NewAttempt.status = "running"
    <3>1. NewAttempt \in Attempt /\ NewAttempt.status = "running"
      BY DEF NewAttempt, Attempt
    <3> QED
      BY <3>1, NullAssumption
  <2>3. /\ attempts' \in [AttemptIds -> Attempt \cup {None}]
        /\ \A a \in ids : attempts'[a] = NewAttempt
        /\ \A a \in AttemptIds \ ids : attempts'[a] = attempts[a]
    BY <1>1, <1>2, <1>5, <1>7, <2>2 DEF TypeOK
  <2>4. Created' = Created \cup ids
    BY <1>5, <2>2, <2>3 DEF Created
  <2>5. /\ RunningAttempts' = ids
        /\ \A a \in Created : attempts'[a] = attempts[a]
        /\ Created' \ RunningAttempts' = Created
    <3>1. \A a \in Created : a \in AttemptIds \ ids /\ attempts[a].status # "running"
      BY <1>2, <1>5 DEF RunningAttempts, Created
    <3> QED
      BY <1>5, <2>2, <2>3, <2>4, <3>1 DEF RunningAttempts
  <2>6. Totals' = Totals
    BY <1>2, <1>5, <2>3, <2>4, <2>5, TotalsOfNew
  <2>7. ExecutionInv' /\ ExecutionTypeOK'
    <3>1. CASE Returns(o)
      BY <1>1, <1>2, <1>3, <1>4, <3>1, ExecuteInv DEF Fresh, ExecutionInv
    <3>2. CASE ~Returns(o)
      BY <1>1, <1>2, <3>2, ExecutionUnchanged DEF executionVars, ExecutionInv
    <3> QED
      BY <3>1, <3>2
  <2>8. Returns(o) => exec'.pc = "discover" /\ exec'.provider = p /\ exec'.sources = S
    BY <1>1, <1>2, <1>3, <1>4, ExecuteInv DEF Fresh
  <2>9. current' = IF Returns(o) THEN ids ELSE {}
    BY <1>1, <1>2
  <2>10. TypeOK'
    BY <1>1, <1>2, <1>5, <2>1, <2>3, <2>7, <2>9 DEF TypeOK, Ended
  <2>11. NamesInv'
    <3>1. \A n : n # Head(names) /\ Fresh(n) => Fresh(n)'
      BY <1>1, <1>5, <2>1, <2>4 DEF Fresh, NoRows
    <3> QED
      BY <1>1, <1>2, <3>1, NamesSame
  <2>12. ~Finished /\ ~Finished'
    BY <1>2, <2>1 DEF Finished, Terminal
  <2>13. StageInv'
    BY <1>1, <1>5, <2>1, <2>5, <2>8, <2>9, <2>12 DEF StageInv, Aborting
  <2>14. AttemptsInv'
    <3>1. current' # {} => /\ exec'.pc # "idle" /\ pc' = "execute"
                           /\ current' = {exec'.provider} \X exec'.sources
                           /\ RunningAttempts' = current'
      BY <1>1, <2>5, <2>8, <2>9 DEF ids
    <3>2. /\ \A k \in DOMAIN raws' : raws'[k].provider # p
          /\ \A i \in DOMAIN run'.failures : run'.failures[i].provider # p
      BY <1>1, <1>4, <2>1 DEF Fresh, NoRows
    <3>3. \A b \in Created' : b[1] = p => b \in ids
      BY <1>4, <2>4 DEF Fresh
    <3> HIDE DEF p
    <3>4. \A a \in RunningAttempts' :
            /\ attempts'[a] = NewAttempt /\ a[1] = p
            /\ \A b \in Created' : b[1] = a[1] => b \in RunningAttempts'
            /\ \A i \in DOMAIN run'.failures : run'.failures[i].provider # a[1]
      BY <1>5, <2>3, <2>5, <3>2, <3>3
    <3>5. \A a \in RunningAttempts' : NoRows(a[1])'
      BY <3>2, <3>4 DEF NoRows
    <3> QED
      BY <3>1, <3>4, <3>5 DEF AttemptsInv, Aborting, NoRows
  <2>15. RollupInv'
    BY <1>2, <2>1, <2>6 DEF RollupInv, RollupIsSum
  <2>16. CleanInv'
    <3>1. ASSUME pc' \in {"loop", "execute"}, ~erred'
          PROVE  /\ run'.failures = <<>> /\ ExecutionClean'
                 /\ \A a \in Created' \ RunningAttempts' :
                      attempts'[a].status = "completed" /\ attempts'[a].error = None
      <4>1. /\ run.failures = <<>> /\ ExecutionClean
            /\ \A a \in Created : attempts[a].status = "completed" /\ attempts[a].error = None
        BY <1>1, <1>2, <3>1 DEF IInv, CleanInv
      <4>2. ~state.had_parse_error /\ ~state.had_conflict
        BY <1>2 DEF ExecutionInv, PhaseInv, NewState
      <4>3. \A k \in DOMAIN raws : raws[k].status = "normalized"
        BY <1>2, <4>1, <4>2 DEF ExecutionClean
      <4>4. ExecutionClean'
        BY <1>1, <4>3 DEF ExecutionClean
      <4> QED
        BY <2>1, <2>5, <4>1, <4>4
    <3> QED
      BY <2>12, <3>1 DEF CleanInv, CompletedMeansClean
  <2>17. CountersAccountForPostings'
    <3>1. ASSUME NEW q \in Providers PROVE AccountOf(q)'
      <4>1. CASE q = p
        <5>1. \A s \in Sources : <<q, s>> \in Created' => <<q, s>> \in RunningAttempts'
          <6>1. \A s : <<q, s>>[1] = q
            OBVIOUS
          <6> QED
            BY <1>4, <2>4, <2>5, <4>1, <6>1 DEF Fresh
        <5>2. Mine(q)' = {}
          BY <5>1 DEF Mine
        <5> QED
          BY <5>2 DEF AccountOf
      <4>2. CASE q # p
        <5>1. \A s \in Sources : <<q, s>> \in AttemptIds \ ids
          BY <1>5, <4>2 DEF AttemptIds
        <5>2. \A s \in Sources : attempts'[<<q, s>>] = attempts[<<q, s>>]
          BY <2>3, <5>1
        <5>3. AccountOf(q)
          BY AccountsOf DEF IInv
        <5> QED
          BY <1>1, <5>2, <5>3, AccountKept
      <4> QED
        BY <4>1, <4>2
    <3> QED
      BY <3>1, AccountsOfPrimed
  <2>18. FailuresRecordedOnce'
    BY <1>2, <2>1, OnceFailures DEF IInv
  <2> QED
    BY <2>7, <2>10, <2>11, <2>13, <2>14, <2>15, <2>16, <2>17, <2>18 DEF IInv
<1> QED
  BY <1>6, <1>7

\* The failures of the provider in flight, after those of the providers before.
LEMMA FailuresAdded ==
  ASSUME IInv, run # None, exec.pc # "idle", Answered \/ state = NewState,
         \A i \in DOMAIN run.failures : run.failures[i].provider # exec.provider
  PROVE  LET fs == run.failures \o Entries(exec.provider)
         IN  /\ fs \in Seq(Failure) /\ Once(fs)
             /\ \A n : /\ n # exec.provider
                       /\ \A i \in DOMAIN run.failures : run.failures[i].provider # n
                       => \A i \in DOMAIN fs : fs[i].provider # n
             /\ run.failures = <<>> /\ state.failures = <<>> => fs = <<>>
<1> DEFINE es == Entries(exec.provider)
           old == run.failures
           fs == old \o es
<1>1. /\ TypeOK /\ ExecutionTypeOK /\ exec.provider \in Names /\ Once(old)
      /\ old \in Seq(Failure)
  <2>1. run \in Run /\ TypeOK /\ ExecutionTypeOK /\ exec.provider \in Providers
    BY DEF IInv, TypeOK, ExecutionInv, PhaseInv
  <2>2. old \in Seq(Failure)
    BY <2>1 DEF Run, Failure
  <2> QED
    BY <2>1, <2>2, OnceFailures, SearchAssumption DEF IInv
<1>2. /\ state.failures \in Seq(ProviderError)
      /\ \A i \in DOMAIN state.failures : /\ state.failures[i].source \in Sources
                                          /\ state.failures[i].occurred_at \in Nat
  <2>1. state.failures \in Seq(ProviderError)
    BY <1>1 DEF ExecutionTypeOK, ProviderExecutionState
  <2>2. \A i \in DOMAIN state.failures : state.failures[i] \in ProviderError
    BY <2>1
  <2>3. \A e \in ProviderError : e.source \in Sources /\ e.occurred_at \in Nat
    BY DEF ProviderError
  <2> QED
    BY <2>1, <2>2, <2>3
<1>3. /\ DOMAIN es = DOMAIN state.failures /\ es \in Seq(Failure)
      /\ \A i \in DOMAIN es : /\ es[i].provider = exec.provider
                              /\ es[i].source = state.failures[i].source
                              /\ es[i].occurred_at = state.failures[i].occurred_at
  <2>1. /\ DOMAIN es = DOMAIN state.failures
        /\ \A i \in DOMAIN es :
             es[i] = [provider |-> exec.provider, source |-> state.failures[i].source,
                      occurred_at |-> state.failures[i].occurred_at]
    BY DEF Entries
  <2> HIDE DEF es
  <2>2. \A i \in DOMAIN es : /\ es[i] \in Failure /\ es[i].provider = exec.provider
                             /\ es[i].source = state.failures[i].source
                             /\ es[i].occurred_at = state.failures[i].occurred_at
    <3> TAKE i \in DOMAIN es
    <3>1. /\ state.failures[i].source \in Sources
          /\ state.failures[i].occurred_at \in Nat
      BY <1>2, <2>1
    <3>2. PICK n \in Names, s \in Sources, t \in Nat :
            /\ n = exec.provider /\ s = state.failures[i].source
            /\ t = state.failures[i].occurred_at
      BY <1>1, <3>1
    <3>3. es[i] = [provider |-> n, source |-> s, occurred_at |-> t]
      BY <2>1, <3>2
    <3>4. es[i] \in Failure
      BY <3>3 DEF Failure
    <3> QED
      BY <3>2, <3>3, <3>4
  <2>3. /\ DOMAIN state.failures = 1..Len(state.failures) /\ Len(state.failures) \in Nat
    BY <1>2
  <2>4. es = [i \in 1..Len(state.failures) |-> es[i]]
    BY <2>3 DEF Entries, es
  <2>5. es \in Seq(Failure)
    BY <2>1, <2>2, <2>3, <2>4, IsASeq
  <2> QED
    BY <2>1, <2>2, <2>5
<1> HIDE DEF es, old
<1>4. /\ fs \in Seq(Failure) /\ Len(fs) = Len(old) + Len(es)
      /\ \A i \in 1..Len(old) : fs[i] = old[i]
      /\ \A i \in 1..Len(es) : fs[Len(old) + i] = es[i]
  BY <1>1, <1>3, ConcatProperties
<1>5. Once(fs)
  <2>1. CASE Answered
    <3>1. PICK r \in Results : r.provider = exec.provider /\ state.failures = r.errors
      BY <1>1, <2>1, AnsweredFacts
    <3> QED
      BY <1>1, <1>3, <3>1, OnceConcat DEF old
  <2>2. CASE state = NewState
    <3>1. state.failures = <<>>
      BY <2>2 DEF NewState
    <3>2. Len(es) = 0
      BY <1>3, <3>1
    <3>3. fs = old
      <4>1. es = <<>>
        BY <1>3, <3>2
      <4> QED
        BY <1>1, <4>1
    <3> QED
      BY <1>1, <3>3
  <2> QED
    BY <2>1, <2>2
<1>6. ASSUME NEW n, n # exec.provider, \A i \in DOMAIN old : old[i].provider # n
      PROVE  \A i \in DOMAIN fs : fs[i].provider # n
  <2> TAKE i \in DOMAIN fs
  <2>1. i \in 1..(Len(old) + Len(es)) /\ Len(old) \in Nat /\ Len(es) \in Nat
    BY <1>1, <1>3, <1>4
  <2>2. CASE i \in 1..Len(old)
    <3>1. i \in DOMAIN old
      BY <1>1, <2>2
    <3> QED
      BY <1>4, <1>6, <2>2, <3>1
  <2>3. CASE i \notin 1..Len(old)
    <3>1. i - Len(old) \in 1..Len(es) /\ i = Len(old) + (i - Len(old))
      BY <2>1, <2>3
    <3>2. PICK j \in 1..Len(es) : i = Len(old) + j
      BY <3>1
    <3>3. fs[i] = es[j] /\ j \in DOMAIN es
      BY <1>3, <1>4, <3>2
    <3> QED
      BY <1>3, <1>6, <3>3
  <2> QED
    BY <2>2, <2>3
<1>7. old = <<>> /\ state.failures = <<>> => fs = <<>>
  <2>1. state.failures = <<>> => es = <<>>
    BY <1>3
  <2> QED
    BY <2>1
<1> QED
  BY <1>4, <1>5, <1>6, <1>7 DEF es, old

\* One counter, of the rows f before and g after those of D are settled, which h
\* names by their sources.
Settles(S, D, h, f, g, c) ==
    /\ S \in SUBSET Sources /\ IsFiniteSet(DOMAIN f) /\ D \in SUBSET DOMAIN f
    /\ h \in [S -> D] /\ \A d \in D : \E s \in S : d = h[s]
    /\ \A s, t \in S : h[s] = h[t] => s = t
    /\ DOMAIN g = DOMAIN f /\ \A a \in DOMAIN f : f[a] \in Nat
    /\ c \in [Sources -> Nat] /\ \A s \in Sources \ S : c[s] = 0
    /\ \A s \in S : f[h[s]] = 0 /\ g[h[s]] = c[s]
    /\ \A a \in DOMAIN f \ D : g[a] = f[a]

LEMMA SumSettled ==
  ASSUME NEW S, NEW D, NEW h, NEW f, NEW g, NEW c, Settles(S, D, h, f, g, c)
  PROVE  SumFunction(g) = SumFunction(f) + Sum(c)
<1> DEFINE C == DOMAIN f
<1> USE DEF Settles
<1>1. IsFiniteSet(Sources) /\ S \subseteq Sources
  BY ResultAssumption
<1>2. IsFiniteSet(S) /\ IsFiniteSet(Sources \ S)
  BY <1>1, FS_Subset
<1>3. IsFiniteSet(D) /\ IsFiniteSet(C \ D) /\ C = (C \ D) \cup D
  BY FS_Subset
<1>4. \A s \in S : g[h[s]] = c[s] /\ c[s] \in Nat
  BY <1>1
<1>5. Sum(c) = SumFunctionOnSet(c, S)
  BY <1>1, SumOwn
<1>6. SumFunctionOnSet(g, D) = SumFunctionOnSet(c, S)
  BY <1>2, <1>3, <1>4, SumRenamed
<1>7. \A a \in D : f[a] = 0 /\ g[a] \in Nat
  BY <1>4
<1>8. \A a \in C : g[a] \in Nat
  BY <1>7
<1>9. SumFunction(g) = SumFunctionOnSet(g, C \ D) + SumFunctionOnSet(g, D)
  BY <1>3, <1>8, SumUnion DEF SumFunction
<1>10. SumFunction(f) = SumFunctionOnSet(f, C \ D) + SumFunctionOnSet(f, D)
  BY <1>3, SumUnion DEF SumFunction
<1>11. SumFunctionOnSet(f, D) = 0
  BY <1>3, <1>7, SumZero
<1>12. SumFunctionOnSet(g, C \ D) = SumFunctionOnSet(f, C \ D)
  BY <1>3, SumSame
<1>13. SumFunctionOnSet(f, C \ D) \in Nat
  BY <1>3, SumType
<1> QED
  BY <1>5, <1>6, <1>9, <1>10, <1>11, <1>12, <1>13

LEMMA FinalizeProviderSuccessInv ==
  ASSUME IInv, NEW o \in Outcomes, FinalizeProviderSuccess(o)
  PROVE  IInv' /\ (Commits(o) => RollupIsSum')
<1> DEFINE p == exec.provider
           fs == run.failures \o Entries(p)
<1>1. /\ pc = "execute" /\ exec.pc = "done"
      /\ IF Commits(o)
         THEN /\ run' = [run EXCEPT !.discovered = @ + Sum(state.discovered),
                                    !.inserted = @ + Sum(state.inserted),
                                    !.updated = @ + Sum(state.updated),
                                    !.failures = @ \o Entries(p)]
              /\ attempts' = [a \in AttemptIds |-> IF a \in current THEN Finalized(a[2])
                                                   ELSE attempts[a]]
         ELSE run' = run /\ attempts' = attempts
      /\ IF Returns(o)
         THEN /\ erred' = (erred \/ state.possibly_incomplete \/ state.had_parse_error
                             \/ state.had_conflict)
              /\ current' = {} /\ exec' = NotExecuting /\ state' = NewState
              /\ names' = Tail(names)
         ELSE UNCHANGED <<erred, current, exec, state, names>>
      /\ pc' = IF Returns(o) THEN "loop" ELSE "abort_fetch"
      /\ raws' = raws /\ search' = search /\ running' = running
      /\ Returns(o) => Commits(o)
  BY DEF FinalizeProviderSuccess, SourceIssue, Continue, Goto, Returns, Commits
<1>2. /\ TypeOK /\ ExecutionInv /\ run # None /\ run \in Run /\ run.status = "running"
      /\ names # <<>> /\ p = Head(names) /\ current # {} /\ RunningAttempts = current
      /\ current = {p} \X exec.sources /\ RollupIsSum /\ NamesInv
  BY <1>1 DEF IInv, StageInv, AttemptsInv, RollupInv, TypeOK
<1>3. CASE ~Commits(o)
  BY <1>1, <1>3, LeavesInv DEF executionVars
<1>4. CASE Commits(o)
  <2>1. /\ Answered /\ ExecutionTypeOK /\ p \in Providers /\ exec.sources \subseteq Sources
    BY <1>1, <1>2 DEF ExecutionInv, PhaseInv, ExecutionTypeOK, Execution
  <2>2. /\ current \subseteq Created /\ current \subseteq AttemptIds
        /\ \A a \in current : a[1] = p /\ a[2] \in exec.sources /\ a = <<p, a[2]>>
        /\ \A a \in current : attempts[a] = NewAttempt
        /\ \A a \in Created : a[1] = p => a \in current
        /\ \A i \in DOMAIN run.failures : run.failures[i].provider # p
    <3>1. current \subseteq Created /\ current \subseteq AttemptIds
      BY <1>2 DEF RunningAttempts, Created
    <3>2. \A a \in current : a[1] = p /\ a[2] \in exec.sources /\ a = <<p, a[2]>>
      BY <1>2
    <3>3. PICK a \in current : TRUE
      BY <1>2
    <3> QED
      BY <1>2, <3>1, <3>2, <3>3 DEF IInv, AttemptsInv
  <2>3. /\ fs \in Seq(Failure) /\ Once(fs)
        /\ \A n : n # p /\ (\A i \in DOMAIN run.failures : run.failures[i].provider # n)
                  => \A i \in DOMAIN fs : fs[i].provider # n
        /\ run.failures = <<>> /\ state.failures = <<>> => fs = <<>>
    BY <1>1, <1>2, <2>1, <2>2, FailuresAdded
  <2>4. \A c \in Counters : Sum(c) \in Nat
    BY ResultAssumption, SumType DEF Sum, Counters
  <2>5. /\ state.discovered \in Counters /\ state.inserted \in Counters
        /\ state.updated \in Counters
    BY <2>1 DEF ExecutionTypeOK, ProviderExecutionState
  <2> HIDE DEF fs
  <2>6. /\ run' \in Run /\ run' # None /\ run'.status = "running"
        /\ run'.discovered = run.discovered + Sum(state.discovered)
        /\ run'.inserted = run.inserted + Sum(state.inserted)
        /\ run'.updated = run.updated + Sum(state.updated)
        /\ run'.failures = fs
    <3>1. PICK d \in Nat, i \in Nat, u \in Nat :
            /\ d = run.discovered + Sum(state.discovered)
            /\ i = run.inserted + Sum(state.inserted)
            /\ u = run.updated + Sum(state.updated)
      <4>1. run.discovered \in Nat /\ run.inserted \in Nat /\ run.updated \in Nat
        BY <1>2 DEF Run
      <4>2. /\ Sum(state.discovered) \in Nat /\ Sum(state.inserted) \in Nat
            /\ Sum(state.updated) \in Nat
        BY <2>4, <2>5
      <4> QED
        BY <4>1, <4>2
    <3>2. run' = [run EXCEPT !.discovered = d, !.inserted = i, !.updated = u,
                             !.failures = fs]
      BY <1>1, <1>4, <3>1 DEF fs
    <3>3. run' \in Run
      BY <1>2, <2>3, <3>2 DEF Run, Failure
    <3> QED
      BY <1>2, <3>1, <3>2, <3>3, NullRun DEF Run
  <2>7. /\ attempts' \in [AttemptIds -> Attempt \cup {None}]
        /\ \A a \in current : attempts'[a] = Finalized(a[2])
        /\ \A a \in AttemptIds \ current : attempts'[a] = attempts[a]
    <3>1. \A a \in current : Finalized(a[2]) \in Attempt
      BY <1>1, <1>2, <2>2, FinalizedFacts
    <3> QED
      BY <1>1, <1>2, <1>4, <2>2, <3>1 DEF TypeOK
  <2>8. \A a \in current : /\ attempts'[a] # None /\ attempts'[a].status # "running"
                           /\ attempts'[a].error # AbortError
                           /\ attempts'[a].discovered = state.discovered[a[2]]
                           /\ attempts'[a].inserted = state.inserted[a[2]]
                           /\ attempts'[a].updated = state.updated[a[2]]
                           /\ ~state.possibly_incomplete =>
                                attempts'[a].status = "completed" /\ attempts'[a].error = None
    BY <1>1, <1>2, <2>2, <2>7, FinalizedFacts
  <2>9. Created' = Created
    BY <2>2, <2>7, <2>8 DEF Created
  <2>10. RunningAttempts' = {}
    <3>1. \A a \in Created \ current : attempts'[a].status # "running"
      BY <1>2, <2>7 DEF Created, RunningAttempts
    <3> QED
      BY <2>8, <2>9, <3>1 DEF RunningAttempts
  <2>11. RollupIsSum'
    <3>1. IsFiniteSet(Created)
          /\ \A a \in Created : /\ attempts[a].discovered \in Nat
                                /\ attempts[a].inserted \in Nat /\ attempts[a].updated \in Nat
      BY <1>2, CreatedFacts
    <3>2. \A a \in Created \ current : attempts'[a] = attempts[a]
      BY <2>7 DEF Created
    <3>3. \A s \in exec.sources :
            /\ <<p, s>> \in current
            /\ attempts[<<p, s>>].discovered = 0 /\ attempts[<<p, s>>].inserted = 0
            /\ attempts[<<p, s>>].updated = 0
            /\ attempts'[<<p, s>>].discovered = state.discovered[s]
            /\ attempts'[<<p, s>>].inserted = state.inserted[s]
            /\ attempts'[<<p, s>>].updated = state.updated[s]
      <4> TAKE s \in exec.sources
      <4>1. <<p, s>> \in current /\ <<p, s>>[2] = s
        BY <1>2
      <4>2. attempts[<<p, s>>] = NewAttempt
        BY <2>2, <4>1
      <4> HIDE DEF p
      <4> QED
        BY <2>8, <4>1, <4>2 DEF NewAttempt
    <3>4. \A s \in Sources \ exec.sources : /\ state.discovered[s] = 0
                                            /\ state.inserted[s] = 0 /\ state.updated[s] = 0
      BY <1>1, <1>2, OnlyOwnSources
    <3>5. PICK h \in [exec.sources -> current] :
            /\ \A s \in exec.sources : h[s] = <<p, s>>
            /\ \A d \in current : \E s \in exec.sources : d = h[s]
            /\ \A s, t \in exec.sources : h[s] = h[t] => s = t
      <4> DEFINE h == [s \in exec.sources |-> <<p, s>>]
      <4>1. /\ h \in [exec.sources -> current]
            /\ \A s \in exec.sources : h[s] = <<p, s>>
            /\ \A d \in current : \E s \in exec.sources : d = h[s]
            /\ \A s, t \in exec.sources : h[s] = h[t] => s = t
        BY <2>2, <3>3
      <4> HIDE DEF h
      <4> QED
        BY <4>1
    <3>6. ASSUME NEW f, NEW g, NEW c \in Counters, DOMAIN f = Created, DOMAIN g = Created,
                 \A a \in Created : f[a] \in Nat,
                 \A a \in Created \ current : g[a] = f[a],
                 \A s \in exec.sources : f[<<p, s>>] = 0 /\ g[<<p, s>>] = c[s],
                 \A s \in Sources \ exec.sources : c[s] = 0
          PROVE  SumFunction(g) = SumFunction(f) + Sum(c)
      <4>1. c \in [Sources -> Nat]
        BY DEF Counters
      <4>2. \A s \in exec.sources : f[h[s]] = 0 /\ g[h[s]] = c[s]
        BY <3>5, <3>6
      <4>3. Settles(exec.sources, current, h, f, g, c)
        BY <2>1, <2>2, <3>1, <3>5, <3>6, <4>1, <4>2 DEF Settles
      <4> QED
        BY <4>3, SumSettled
    <3>7. SumFunction([a \in Created |-> attempts'[a].discovered]) =
            SumFunction([a \in Created |-> attempts[a].discovered]) + Sum(state.discovered)
      <4> DEFINE f == [a \in Created |-> attempts[a].discovered]
                 g == [a \in Created |-> attempts'[a].discovered]
      <4>1. /\ DOMAIN f = Created /\ DOMAIN g = Created
            /\ \A a \in Created : f[a] = attempts[a].discovered /\ g[a] = attempts'[a].discovered
        OBVIOUS
      <4> HIDE DEF f, g
      <4>2. SumFunction(g) = SumFunction(f) + Sum(state.discovered)
        BY <2>2, <2>5, <3>1, <3>2, <3>3, <3>4, <3>5, <3>6, <4>1
      <4> QED
        BY <4>2 DEF f, g
    <3>8. SumFunction([a \in Created |-> attempts'[a].inserted]) =
            SumFunction([a \in Created |-> attempts[a].inserted]) + Sum(state.inserted)
      <4> DEFINE f == [a \in Created |-> attempts[a].inserted]
                 g == [a \in Created |-> attempts'[a].inserted]
      <4>1. /\ DOMAIN f = Created /\ DOMAIN g = Created
            /\ \A a \in Created : f[a] = attempts[a].inserted /\ g[a] = attempts'[a].inserted
        OBVIOUS
      <4> HIDE DEF f, g
      <4>2. SumFunction(g) = SumFunction(f) + Sum(state.inserted)
        BY <2>2, <2>5, <3>1, <3>2, <3>3, <3>4, <3>5, <3>6, <4>1
      <4> QED
        BY <4>2 DEF f, g
    <3>9. SumFunction([a \in Created |-> attempts'[a].updated]) =
            SumFunction([a \in Created |-> attempts[a].updated]) + Sum(state.updated)
      <4> DEFINE f == [a \in Created |-> attempts[a].updated]
                 g == [a \in Created |-> attempts'[a].updated]
      <4>1. /\ DOMAIN f = Created /\ DOMAIN g = Created
            /\ \A a \in Created : f[a] = attempts[a].updated /\ g[a] = attempts'[a].updated
        OBVIOUS
      <4> HIDE DEF f, g
      <4>2. SumFunction(g) = SumFunction(f) + Sum(state.updated)
        BY <2>2, <2>5, <3>1, <3>2, <3>3, <3>4, <3>5, <3>6, <4>1
      <4> QED
        BY <4>2 DEF f, g
    <3>10. /\ Totals'.discovered = Totals.discovered + Sum(state.discovered)
           /\ Totals'.inserted = Totals.inserted + Sum(state.inserted)
           /\ Totals'.updated = Totals.updated + Sum(state.updated)
      BY <2>9, <3>7, <3>8, <3>9 DEF Totals
    <3>11. /\ Totals.discovered = run.discovered /\ Totals.inserted = run.inserted
           /\ Totals.updated = run.updated
      BY <1>2 DEF RollupIsSum
    <3>12. Totals' = [discovered |-> Totals'.discovered, inserted |-> Totals'.inserted,
                      updated |-> Totals'.updated]
      BY DEF Totals
    <3> QED
      BY <2>6, <3>10, <3>11, <3>12 DEF RollupIsSum
  <2>12. ExecutionInv' /\ ExecutionTypeOK'
    <3>1. CASE Returns(o)
      BY <1>1, <1>2, <3>1, ForgottenInv DEF ExecutionInv
    <3>2. CASE ~Returns(o)
      BY <1>1, <1>2, <3>2, ExecutionUnchanged DEF executionVars, ExecutionInv
    <3> QED
      BY <3>1, <3>2
  <2>13. names' \in Seq(Names) /\ NamesInv'
    <3>1. CASE Returns(o)
      <4>1. \A n : n # Head(names) /\ Fresh(n) => Fresh(n)'
        BY <1>1, <1>2, <2>3, <2>6, <2>9 DEF Fresh, NoRows
      <4> QED
        BY <1>1, <1>2, <3>1, <4>1, NamesAfter
    <3>2. CASE ~Returns(o)
      BY <1>1, <1>2, <3>2, NamesSame DEF TypeOK
    <3> QED
      BY <3>1, <3>2
  <2>14. TypeOK'
    BY <1>1, <1>2, <2>6, <2>7, <2>12, <2>13 DEF TypeOK, Ended
  <2>15. ~Finished /\ ~Finished'
    BY <1>2, <2>6 DEF Finished, Terminal
  <2>16. StageInv'
    <3>1. pc' = "loop" => current' = {} /\ exec'.pc = "idle"
      BY <1>1 DEF NotExecuting
    <3> QED
      BY <1>1, <2>6, <2>10, <2>15, <3>1 DEF StageInv, Aborting
  <2>17. AttemptsInv'
    <3>1. current' # {} => /\ current' = {exec'.provider} \X exec'.sources
                           /\ exec'.pc = "done"
      BY <1>1, <1>2
    <3> QED
      BY <2>10, <3>1 DEF AttemptsInv
  <2>18. RollupInv'
    BY <2>11 DEF RollupInv
  <2>19. CleanInv'
    <3>1. ASSUME pc' \in {"loop", "execute"}, ~erred'
          PROVE  /\ run'.failures = <<>> /\ ExecutionClean'
                 /\ \A a \in Created' \ RunningAttempts' :
                      attempts'[a].status = "completed" /\ attempts'[a].error = None
      <4>1. /\ ~erred /\ ~state.possibly_incomplete /\ ~state.had_parse_error
            /\ ~state.had_conflict
        BY <1>1, <3>1
      <4>2. /\ run.failures = <<>> /\ ExecutionClean
            /\ \A a \in Created \ current :
                 attempts[a].status = "completed" /\ attempts[a].error = None
        BY <1>1, <1>2, <4>1 DEF IInv, CleanInv
      <4>3. state.failures = <<>>
        BY <2>1, <4>1, AnsweredFacts
      <4>4. \A k \in DOMAIN raws : raws[k].status = "normalized"
        BY <1>1, <4>1, <4>2 DEF ExecutionClean
      <4>5. ExecutionClean'
        BY <1>1, <4>4 DEF ExecutionClean
      <4>6. \A a \in Created : attempts'[a].status = "completed" /\ attempts'[a].error = None
        BY <2>7, <2>8, <4>1, <4>2 DEF Created
      <4> QED
        BY <2>3, <2>6, <2>9, <4>2, <4>3, <4>5, <4>6
    <3> QED
      BY <2>15, <3>1 DEF CleanInv, CompletedMeansClean
  <2>20. CountersAccountForPostings'
    <3>1. ASSUME NEW q \in Providers, q # p PROVE AccountOf(q)'
      <4>1. \A s \in Sources : <<q, s>> \in AttemptIds \ current
        BY <2>2, <3>1 DEF AttemptIds
      <4>2. \A s \in Sources : attempts'[<<q, s>>] = attempts[<<q, s>>]
        BY <2>7, <4>1
      <4>3. AccountOf(q)
        BY AccountsOf DEF IInv
      <4> QED
        BY <1>1, <4>2, <4>3, AccountKept
    <3>2. ASSUME NEW q \in Providers, q = p PROVE AccountOf(q)'
      <4>1. \A s \in Mine(q)' : s \in Sources /\ <<q, s>> \in current
        <5>1. \A s \in Mine(q)' : s \in Sources /\ <<q, s>> \in Created
          BY <2>9 DEF Mine
        <5>2. \A s : <<q, s>>[1] = q
          OBVIOUS
        <5> QED
          BY <2>2, <3>2, <5>1, <5>2
      <4>2. \A s \in Mine(q)' : /\ attempts'[<<q, s>>].error # AbortError
                                /\ Inserted(q, s)' = Counting(s)
                                /\ attempts'[<<q, s>>].discovered = state.discovered[s]
        <5>1. \A s : <<q, s>>[2] = s
          OBVIOUS
        <5> QED
          BY <2>8, <4>1, <5>1 DEF Inserted, Counting
      <4>3. \A s \in Mine(q)' : /\ Fetched(s) = 0 /\ Stored(s) = Counting(s)
                                /\ state.discovered[s] = Unparsed(s) + Stored(s)
                                /\ Unparsed(s) \in Nat /\ Stored(s) \in Nat
        BY <1>1, <1>2, <2>1, <4>1, CountsType DEF ExecutionInv, CountedInv, SourceCounted
      <4>4. \A s, T : RawsOf(q, s, T)' = RawsOf(q, s, T)
        BY <1>1, RawsOfRows
      <4>5. \A s \in Mine(q)' :
              /\ Inserted(q, s)' = RawsOf(q, s, {"normalized", "identity_conflict"})'
              /\ RawsOf(q, s, {"fetched"})' = 0
              /\ attempts'[<<q, s>>].discovered =
                   Inserted(q, s)' + RawsOf(q, s, {"parse_error"})'
        BY <3>2, <4>2, <4>3, <4>4 DEF Fetched, Unparsed, Stored
      <4> QED
        BY <4>2, <4>5 DEF AccountOf
    <3> QED
      BY <3>1, <3>2, AccountsOfPrimed
  <2>21. FailuresRecordedOnce'
    BY <2>3, <2>6, OnceFailures
  <2> QED
    BY <2>11, <2>12, <2>13, <2>14, <2>16, <2>17, <2>18, <2>19, <2>20,
       <2>21 DEF IInv
<1> QED
  BY <1>3, <1>4

\* What the handler writes of a state that matches.
LEMMA AbortedFacts ==
  ASSUME ExecutionTypeOK, NEW s \in Sources
  PROVE  /\ Aborted(s) \in Attempt /\ Aborted(s) # None /\ Aborted(s).status = "failed"
         /\ Aborted(s).error = AbortError
         /\ MatchingState => /\ Aborted(s).discovered = state.discovered[s]
                             /\ Aborted(s).inserted = state.inserted[s]
                             /\ Aborted(s).updated = state.updated[s]
         /\ ~MatchingState => /\ Aborted(s).discovered = 0 /\ Aborted(s).inserted = 0
                              /\ Aborted(s).updated = 0
<1>1. CASE MatchingState
  <2>1. PICK d \in Nat, i \in Nat, u \in Nat, b \in BOOLEAN :
          /\ d = state.discovered[s] /\ i = state.inserted[s] /\ u = state.updated[s]
          /\ b = (/\ state.source_stats[s] # None
                  /\ state.source_stats[s].incomplete_results)
    <3>1. /\ state.inserted[s] \in Nat /\ state.updated[s] \in Nat
          /\ state.discovered[s] \in Nat
      BY CountsType
    <3>2. (state.source_stats[s] # None /\ state.source_stats[s].incomplete_results) \in BOOLEAN
      OBVIOUS
    <3> QED
      BY <3>1, <3>2
  <2>2. Aborted(s) = [status |-> "failed", discovered |-> d, inserted |-> i, updated |-> u,
                      incomplete_results |-> b, error |-> AbortError]
    BY <1>1, <2>1 DEF Aborted
  <2>3. Aborted(s) \in Attempt
    BY <2>2 DEF Attempt
  <2>4. Aborted(s) # None
    BY <2>3, NullAssumption
  <2>5. /\ Aborted(s).status = "failed" /\ Aborted(s).error = AbortError
        /\ Aborted(s).discovered = d /\ Aborted(s).inserted = i /\ Aborted(s).updated = u
    BY <2>2
  <2> QED
    BY <1>1, <2>1, <2>3, <2>4, <2>5
<1>2. CASE ~MatchingState
  <2>1. Aborted(s) = [status |-> "failed", discovered |-> 0, inserted |-> 0, updated |-> 0,
                      incomplete_results |-> FALSE, error |-> AbortError]
    BY <1>2 DEF Aborted, NewAttempt
  <2>2. Aborted(s) \in Attempt
    BY <2>1 DEF Attempt
  <2>3. Aborted(s) # None
    BY <2>2, NullAssumption
  <2>4. /\ Aborted(s).status = "failed" /\ Aborted(s).error = AbortError
        /\ Aborted(s).discovered = 0 /\ Aborted(s).inserted = 0 /\ Aborted(s).updated = 0
    BY <2>1
  <2> QED
    BY <1>2, <2>2, <2>3, <2>4
<1> QED
  BY <1>1, <1>2

LEMMA FinalizeRunningAttemptsAbortedInv ==
  ASSUME IInv, NEW o \in Outcomes, FinalizeRunningAttemptsAborted(o)
  PROVE  IInv' /\ run' # None
<1> DEFINE fs == run.failures \o Entries(exec.provider)
<1>1. /\ pc = "abort_finalize"
      /\ IF Commits(o)
         THEN /\ run' = (IF MatchingState THEN [run EXCEPT !.failures = fs] ELSE run)
              /\ attempts' = [a \in AttemptIds |->
                                IF a \in running /\ attempts[a].status = "running"
                                THEN Aborted(a[2]) ELSE attempts[a]]
         ELSE run' = run /\ attempts' = attempts
      /\ pc' = IF Returns(o) THEN "abort_rollup" ELSE "suppressed"
      /\ UNCHANGED executionVars /\ search' = search /\ names' = names /\ erred' = erred
      /\ current' = current /\ running' = running
      /\ Returns(o) => Commits(o)
  BY DEF FinalizeRunningAttemptsAborted, Goto, Returns, Commits
<1>2. /\ TypeOK /\ ExecutionInv /\ ExecutionTypeOK /\ run # None /\ run \in Run
      /\ run.status # "failed" /\ running # {} /\ running = RunningAttempts
      /\ ~Finished /\ NamesInv
  BY <1>1 DEF IInv, StageInv, TypeOK, Aborting, ExecutionInv
<1>3. CASE ~Commits(o)
  BY <1>1, <1>2, <1>3, LeavesInv
<1>4. CASE Commits(o)
  <2>1. /\ RunningAttempts \subseteq Created /\ Created \subseteq AttemptIds
        /\ \A a \in AttemptIds : /\ a = <<a[1], a[2]>> /\ a[1] \in Providers
                                 /\ a[2] \in Sources
    BY <1>2, CreatedFacts DEF RunningAttempts
  <2>2. /\ attempts' \in [AttemptIds -> Attempt \cup {None}]
        /\ \A a \in RunningAttempts : attempts'[a] = Aborted(a[2])
        /\ \A a \in AttemptIds \ RunningAttempts : attempts'[a] = attempts[a]
    <3>1. \A a \in AttemptIds : a \in running /\ attempts[a].status = "running"
                                  <=> a \in RunningAttempts
      BY <1>2, <2>1 DEF RunningAttempts
    <3>2. \A a \in AttemptIds : Aborted(a[2]) \in Attempt
      BY <1>2, <2>1, AbortedFacts
    <3> QED
      BY <1>1, <1>2, <1>4, <2>1, <3>1, <3>2 DEF TypeOK
  <2>3. \A a \in RunningAttempts :
          /\ attempts'[a] # None /\ attempts'[a].status = "failed"
          /\ attempts'[a].error = AbortError
    BY <1>2, <2>1, <2>2, AbortedFacts
  <2>4. Created' = Created
    BY <2>1, <2>2, <2>3 DEF Created
  <2>5. RunningAttempts' = {}
    <3>1. \A a \in Created \ RunningAttempts : attempts'[a].status # "running"
      BY <2>1, <2>2 DEF RunningAttempts
    <3> QED
      BY <2>3, <2>4, <3>1 DEF RunningAttempts
  <2>6. MatchingState => /\ RunningAttempts = current /\ exec.pc \in {"raised", "done"}
                         /\ current = {exec.provider} \X exec.sources /\ current # {}
                         /\ exec.sources \subseteq Sources
    BY <1>1, <1>2 DEF MatchingState, IInv, AttemptsInv, Aborting, ExecutionTypeOK, Execution
  <2>7. MatchingState => fs \in Seq(Failure) /\ Once(fs)
    <3> SUFFICES ASSUME MatchingState PROVE fs \in Seq(Failure) /\ Once(fs)
      OBVIOUS
    <3>1. PICK a \in RunningAttempts : a[1] = exec.provider
      BY <2>6
    <3>2. \A i \in DOMAIN run.failures : run.failures[i].provider # exec.provider
      BY <3>1 DEF IInv, AttemptsInv
    <3>3. Answered \/ state = NewState
      BY <1>2, <2>6 DEF ExecutionInv, PhaseInv
    <3> QED
      BY <1>2, <2>6, <3>2, <3>3, FailuresAdded
  <2>8. ~MatchingState => \A a \in RunningAttempts : NoRows(a[1])
    BY <1>2 DEF MatchingState, IInv, AttemptsInv
  <2> HIDE DEF fs
  <2>9. /\ run' \in Run /\ run' # None /\ run'.status = run.status /\ Once(run'.failures)
    <3>1. CASE MatchingState
      <4>1. run' = [run EXCEPT !.failures = fs]
        BY <1>1, <1>4, <3>1
      <4>2. run' \in Run
        BY <1>2, <2>7, <3>1, <4>1 DEF Run, Failure
      <4> QED
        BY <1>2, <2>7, <3>1, <4>1, <4>2, NullRun DEF Run
    <3>2. CASE ~MatchingState
      BY <1>1, <1>2, <1>4, <3>2, OnceFailures DEF IInv
    <3> QED
      BY <3>1, <3>2
  <2>10. ExecutionInv' /\ ExecutionTypeOK' /\ raws' = raws /\ exec' = exec
    BY <1>1, <1>2, ExecutionUnchanged DEF executionVars, ExecutionInv
  <2>11. pc' \in {"abort_rollup", "suppressed"}
    BY <1>1
  <2>12. TypeOK'
    BY <1>1, <1>2, <2>2, <2>9, <2>10, <2>11 DEF TypeOK, Ended
  <2>13. NamesInv'
    BY <1>1, <1>2, <2>11, NamesSame
  <2>14. ~Finished'
    BY <1>2, <2>9 DEF Finished
  <2>15. StageInv'
    BY <1>2, <2>5, <2>9, <2>11, <2>14 DEF StageInv, Aborting
  <2>16. AttemptsInv'
    <3>1. current' # {} => /\ exec'.pc # "idle" /\ current' = {exec'.provider} \X exec'.sources
                           /\ exec'.pc \in {"raised", "done"}
      BY <1>1, <2>10 DEF IInv, AttemptsInv, Aborting
    <3> QED
      BY <2>5, <3>1 DEF AttemptsInv
  <2>17. RollupInv' /\ CleanInv'
    BY <2>11, <2>14 DEF RollupInv, CleanInv, CompletedMeansClean
  <2>18. CountersAccountForPostings'
    <3>1. ASSUME NEW q \in Providers, \A a \in RunningAttempts : a[1] # q
          PROVE  AccountOf(q)'
      <4>1. \A s \in Sources : <<q, s>> \in AttemptIds /\ <<q, s>>[1] = q
        BY DEF AttemptIds
      <4>2. \A s \in Sources : attempts'[<<q, s>>] = attempts[<<q, s>>]
        BY <2>2, <3>1, <4>1
      <4>3. AccountOf(q)
        BY AccountsOf DEF IInv
      <4> QED
        BY <2>10, <4>2, <4>3, AccountKept
    <3>2. ASSUME NEW q \in Providers, NEW b \in RunningAttempts, b[1] = q
          PROVE  AccountOf(q)'
      <4>1. \A s \in Mine(q)' : s \in Sources /\ <<q, s>> \in RunningAttempts
        <5>1. \A s \in Mine(q)' : s \in Sources /\ <<q, s>> \in Created
          BY <2>4 DEF Mine
        <5>2. \A s : <<q, s>>[1] = q
          OBVIOUS
        <5> QED
          BY <3>2, <5>1, <5>2 DEF IInv, AttemptsInv
      <4>2. \A s \in Mine(q)' : attempts'[<<q, s>>].error = AbortError
        BY <2>3, <4>1
      <4>3. \A s, T : RawsOf(q, s, T)' = RawsOf(q, s, T)
        BY <2>10, RawsOfRows
      <4>4. CASE MatchingState
        <5>1. q = exec.provider
          BY <2>6, <3>2, <4>4
        <5>2. \A s \in Mine(q)' : /\ Inserted(q, s)' = Counting(s)
                                  /\ attempts'[<<q, s>>].discovered = state.discovered[s]
          <6>1. \A s : <<q, s>>[2] = s
            OBVIOUS
          <6> QED
            BY <1>2, <2>2, <4>1, <4>4, <6>1, AbortedFacts DEF Inserted, Counting
        <5>3. \A s : RawsOf(q, s, {"normalized", "identity_conflict"})' = Stored(s)
          BY <4>3, <5>1 DEF Stored
        <5>4. exec.pc \in {"raised", "done"}
          BY <2>6, <4>4
        <5>5. \A s \in Mine(q)' :
                /\ Inserted(q, s)' <= RawsOf(q, s, {"normalized", "identity_conflict"})'
                /\ attempts'[<<q, s>>].discovered >=
                     RawsOf(q, s, {"fetched", "parse_error", "normalized",
                                   "identity_conflict"})'
          BY <1>2, <4>1, <4>3, <5>1, <5>2, <5>3, <5>4, CutShort
        <5>6. \A s, t \in Mine(q)' :
                Inserted(q, s)' < RawsOf(q, s, {"normalized", "identity_conflict"})' =>
                  /\ Inserted(q, s)' = RawsOf(q, s, {"normalized", "identity_conflict"})' - 1
                  /\ Inserted(q, t)' < RawsOf(q, t, {"normalized", "identity_conflict"})'
                       => t = s
          BY <1>2, <4>1, <5>2, <5>3, <5>4, CutShort
        <5> QED
          BY <4>2, <5>5, <5>6 DEF AccountOf
      <4>5. CASE ~MatchingState
        <5>1. \A s, T : RawsOf(q, s, T)' = 0
          <6>1. \A k \in DOMAIN raws : raws[k].provider # q
            BY <2>8, <3>2, <4>5 DEF NoRows
          <6>2. raws \in Seq(RawRow)
            BY <1>2 DEF ExecutionTypeOK
          <6>3. \A s, T : RowsOf(raws, q, s, T) = 0
            BY <6>1, <6>2, RowsNone
          <6> QED
            BY <4>3, <6>3, RawsOfRows
        <5>2. \A s \in Mine(q)' : /\ Inserted(q, s)' = 0
                                  /\ attempts'[<<q, s>>].discovered = 0
          <6>1. \A s : <<q, s>>[2] = s
            OBVIOUS
          <6> QED
            BY <1>2, <2>2, <4>1, <4>5, <6>1, AbortedFacts DEF Inserted
        <5>3. \A s \in Mine(q)' :
                /\ Inserted(q, s)' <= RawsOf(q, s, {"normalized", "identity_conflict"})'
                /\ attempts'[<<q, s>>].discovered >=
                     RawsOf(q, s, {"fetched", "parse_error", "normalized",
                                   "identity_conflict"})'
          <6> TAKE s \in Mine(q)'
          <6>1. /\ RawsOf(q, s, {"normalized", "identity_conflict"})' = 0
                /\ RawsOf(q, s, {"fetched", "parse_error", "normalized",
                                 "identity_conflict"})' = 0
            BY <5>1
          <6> QED
            BY <5>2, <6>1
        <5>4. \A s \in Mine(q)' :
                ~(Inserted(q, s)' < RawsOf(q, s, {"normalized", "identity_conflict"})')
          <6> TAKE s \in Mine(q)'
          <6>1. RawsOf(q, s, {"normalized", "identity_conflict"})' = 0 /\ Inserted(q, s)' = 0
            BY <5>1, <5>2
          <6> QED
            BY <6>1
        <5> QED
          BY <4>2, <5>3, <5>4 DEF AccountOf
      <4> QED
        BY <4>4, <4>5
    <3> QED
      BY <3>1, <3>2, AccountsOfPrimed
  <2>19. FailuresRecordedOnce'
    BY <2>9, OnceFailures
  <2> QED
    BY <2>9, <2>10, <2>12, <2>13, <2>15, <2>16, <2>17, <2>18, <2>19 DEF IInv
<1> QED
  BY <1>3, <1>4

-----------------------------------------------------------------------------
(***************************************************************************)
(* The invariant is inductive, and what follows from it.                   *)
(***************************************************************************)
LEMMA StutterInv ==
  ASSUME IInv, UNCHANGED vars
  PROVE  IInv'
<1>1. /\ UNCHANGED executionVars /\ run' = run /\ attempts' = attempts /\ pc' = pc
      /\ search' = search /\ names' = names /\ erred' = erred /\ current' = current
      /\ running' = running
  BY DEF vars, runVars
<1>2. /\ Created' = Created /\ RunningAttempts' = RunningAttempts
      /\ raws' = raws /\ exec' = exec /\ ExecutionInv' /\ ExecutionTypeOK'
      /\ (ExecutionClean => ExecutionClean') /\ CountersAccountForPostings'
      /\ \A n : NoRows(n) => NoRows(n)'
  BY <1>1, TablesSame
<1>3. /\ Finished' = Finished /\ RollupIsSum' = RollupIsSum
      /\ CompletedMeansClean' /\ FailuresRecordedOnce' /\ \A n : Fresh(n) => Fresh(n)'
  BY <1>1, OnlyControl
<1>4. TypeOK'
  BY <1>1, <1>2 DEF IInv, TypeOK
<1>5. NamesInv'
  BY <1>1, <1>2 DEF IInv, NamesInv, Fresh, NoRows
<1>6. StageInv'
  BY <1>1, <1>2, <1>3 DEF IInv, StageInv
<1>7. AttemptsInv'
  BY <1>1, <1>2 DEF IInv, AttemptsInv, NoRows
<1>8. RollupInv' /\ CleanInv'
  BY <1>1, <1>2, <1>3 DEF IInv, RollupInv, CleanInv
<1> QED
  BY <1>2, <1>3, <1>4, <1>5, <1>6, <1>7, <1>8 DEF IInv

LEMMA NextIInv == IInv /\ [Next]_vars => IInv'
<1> SUFFICES ASSUME IInv, [Next]_vars PROVE IInv'
  OBVIOUS
<1>1. ASSUME NEW o \in Outcomes, StartRun(o) PROVE IInv'
  BY <1>1, StartRunInv
<1>2. ASSUME NEW o \in Outcomes, AppendPlanningFailure(o) PROVE IInv'
  BY <1>2, AppendPlanningFailureInv
<1>3. ASSUME NEW o \in Outcomes, FinalizeProviderSuccess(o) PROVE IInv'
  BY <1>3, FinalizeProviderSuccessInv
<1>4. ASSUME NEW o \in Outcomes, FinishRun(o) PROVE IInv'
  BY <1>4, FinishRunInv
<1>5. ASSUME NEW o \in Outcomes, FetchRunningAttempts(o) PROVE IInv'
  BY <1>5, FetchRunningAttemptsInv
<1>6. ASSUME NEW o \in Outcomes, FinalizeRunningAttemptsAborted(o) PROVE IInv'
  BY <1>6, FinalizeRunningAttemptsAbortedInv
<1>7. ASSUME NEW o \in Outcomes, RecomputeRollup(o) PROVE IInv'
  BY <1>7, RecomputeRollupInv
<1>8. ASSUME NEW o \in Outcomes, NEW S \in Selections, BeginProviderAttempt(S, o) PROVE IInv'
  BY <1>8, BeginProviderAttemptInv
<1>9. CASE SkipProvider
  BY <1>9, SkipProviderInv
<1>10. CASE NameDrift
  BY <1>10, NameDriftInv
<1>11. CASE ExecuteProviderQuery
  BY <1>11, ExecuteProviderQueryInv
<1>12. CASE ExecutionRaised
  BY <1>12, ExecutionRaisedInv
<1>13. CASE ProcessStops
  BY <1>13, ProcessStopsInv
<1>14. CASE UNCHANGED vars
  BY <1>14, StutterInv
<1> QED
  BY <1>1, <1>2, <1>3, <1>4, <1>5, <1>6, <1>7, <1>8, <1>9, <1>10, <1>11, <1>12, <1>13,
     <1>14 DEF Next

\* IInv holds in every state of every run of a saved search.
THEOREM RunInvariant == Spec => []IInv
<1>1. Init => IInv
  BY InitIInv
<1>2. IInv /\ [Next]_vars => IInv'
  BY NextIInv
<1> QED
  BY <1>1, <1>2, PTL DEF Spec

\* Every variable of the orchestrator keeps its type.
THEOREM RunTypeCorrect == Spec => []TypeOK
<1>1. IInv => TypeOK
  BY DEF IInv
<1> QED
  BY <1>1, RunInvariant, PTL

\* A terminal run's rollup is the sum of its own attempt rows, for any number of
\* providers and sources and wherever the run was cut short.
THEOREM TerminalRollup == Spec => []TerminalRollupIsSum
<1>1. IInv => TerminalRollupIsSum
  BY DEF IInv, RollupInv, TerminalRollupIsSum
<1> QED
  BY <1>1, RunInvariant, PTL

\* A terminal run leaves no attempt running, and what the coroutine did at its end
\* agrees with the status in its row.
THEOREM OutcomeRecorded == Spec => []OutcomeIsRecorded
<1>1. IInv => OutcomeIsRecorded
  BY DEF IInv, StageInv, OutcomeIsRecorded
<1> QED
  BY <1>1, RunInvariant, PTL

\* The counters of settled attempts account for the raw rows, exactly after a
\* normal end, and but for one posting after an abort.
THEOREM CountersAccount == Spec => []CountersAccountForPostings
<1>1. IInv => CountersAccountForPostings
  BY DEF IInv
<1> QED
  BY <1>1, RunInvariant, PTL

\* The failures of a run are those of its providers, each once and in order.
THEOREM FailuresOnce == Spec => []FailuresRecordedOnce
<1>1. IInv => FailuresRecordedOnce
  BY DEF IInv
<1> QED
  BY <1>1, RunInvariant, PTL

\* A run said to be completed had no failure, no incomplete source, no unreadable
\* posting and no identity conflict.
THEOREM CompletedIsClean == Spec => []CompletedMeansClean
<1>1. IInv => CompletedMeansClean
  BY DEF IInv, CleanInv
<1> QED
  BY <1>1, RunInvariant, PTL

-----------------------------------------------------------------------------
(***************************************************************************)
(* What a step may do, and the contract of a collection run.               *)
(***************************************************************************)
\* Attempts are created with nothing counted, and settled ones stay.
Grow ==
    \A a \in AttemptIds :
      /\ attempts[a] = None /\ attempts'[a] # None => attempts'[a] = NewAttempt
      /\ attempts[a] # None => attempts'[a] # None
      /\ a \in Created \ RunningAttempts => attempts'[a] = attempts[a]

SameCounters == /\ run'.discovered = run.discovered /\ run'.inserted = run.inserted
                /\ run'.updated = run.updated

Quiet == run' = run /\ attempts' = attempts
Starts == run = None /\ run' = NewRun /\ attempts' = attempts
Advances ==
    /\ run # None /\ run' # None /\ run.status = "running" /\ run'.status = "running"
    /\ Grow
    /\ SameCounters \/ (RollupIsSum /\ RollupIsSum')
Completes ==
    /\ run # None /\ run' # None /\ run.status = "running"
    /\ run'.status \in {"completed", "completed_with_errors"}
    /\ attempts' = attempts /\ RunningAttempts = {} /\ RollupIsSum'
Fails ==
    /\ run # None /\ run' # None /\ run.status # "failed" /\ run'.status = "failed"
    /\ pc = "abort_rollup" /\ attempts' = attempts /\ RunningAttempts = {} /\ RollupIsSum'

LEMMA AppendFailureShape ==
  ASSUME IInv, NEW o \in Outcomes, AppendPlanningFailure(o)
  PROVE  Quiet \/ Advances
<1>1. pc = "loop" /\ attempts' = attempts
  BY DEF AppendPlanningFailure
<1>2. run # None /\ run \in Run /\ run.status = "running"
  BY <1>1 DEF IInv, StageInv, TypeOK
<1>3. CASE Commits(o)
  <2>1. PICK fs : run' = [run EXCEPT !.failures = fs]
    BY <1>3 DEF AppendPlanningFailure
  <2>2. run'.status = "running" /\ SameCounters
    BY <1>2, <2>1 DEF SameCounters, Run
  <2>3. run' # None
    <3>1. IInv'
      BY AppendPlanningFailureInv
    <3>2. pc' \in {"loop", "abort_fetch"}
      BY DEF AppendPlanningFailure, Continue, Goto
    <3> QED
      BY <3>1, <3>2 DEF IInv, StageInv, Aborting
  <2> QED
    BY <1>1, <1>2, <2>2, <2>3 DEF Advances, Grow
<1>4. CASE ~Commits(o)
  BY <1>1, <1>4 DEF AppendPlanningFailure, Quiet
<1> QED
  BY <1>3, <1>4

LEMMA BeginShape ==
  ASSUME IInv, NEW o \in Outcomes, NEW S \in Selections, BeginProviderAttempt(S, o)
  PROVE  Quiet \/ Advances
<1> DEFINE ids == {Head(names)} \X S
<1>1. pc = "loop" /\ names # <<>>
  BY DEF BeginProviderAttempt
<1>2. run # None /\ run \in Run /\ run.status = "running" /\ TypeOK /\ NamesInv
  BY <1>1 DEF IInv, StageInv, TypeOK
<1>3. CASE Commits(o)
  <2>1. PICK ps : run' = [run EXCEPT !.providers_attempted = ps]
    BY <1>3 DEF BeginProviderAttempt
  <2>2. run'.status = "running" /\ SameCounters
    BY <1>2, <2>1 DEF SameCounters, Run
  <2>3. run' # None
    <3>1. IInv'
      BY BeginProviderAttemptInv
    <3>2. pc' \in {"execute", "abort_fetch"}
      BY DEF BeginProviderAttempt, Continue, Goto
    <3> QED
      BY <3>1, <3>2 DEF IInv, StageInv, Aborting
  <2>4. attempts' = [a \in AttemptIds |-> IF a \in ids THEN NewAttempt ELSE attempts[a]]
    BY <1>3 DEF BeginProviderAttempt
  <2>5. ids \cap Created = {}
    <3>1. 1 \in DOMAIN names /\ Head(names) = names[1]
      BY <1>1, <1>2, NamesTail
    <3>2. \A a \in Created : a[1] # Head(names)
      BY <1>1, <1>2, <3>1 DEF NamesInv, Fresh
    <3>3. \A a \in ids : a[1] = Head(names)
      OBVIOUS
    <3> HIDE DEF ids
    <3> QED
      BY <3>2, <3>3
  <2> HIDE DEF ids
  <2>6. Grow
    BY <2>4, <2>5 DEF Grow, Created
  <2> QED
    BY <1>2, <2>2, <2>3, <2>6 DEF Advances
<1>4. CASE ~Commits(o)
  BY <1>4 DEF BeginProviderAttempt, Quiet
<1> QED
  BY <1>3, <1>4

LEMMA FinalizeShape ==
  ASSUME IInv, NEW o \in Outcomes, FinalizeProviderSuccess(o)
  PROVE  Quiet \/ Advances
<1>1. pc = "execute" /\ exec.pc = "done"
  BY DEF FinalizeProviderSuccess
<1>2. /\ run # None /\ run \in Run /\ run.status = "running" /\ TypeOK /\ ExecutionInv
      /\ RollupIsSum /\ current = RunningAttempts
      /\ current = {exec.provider} \X exec.sources
  BY <1>1 DEF IInv, StageInv, TypeOK, RollupInv, AttemptsInv
<1>3. CASE Commits(o)
  <2>1. run' = [run EXCEPT !.discovered = @ + Sum(state.discovered),
                           !.inserted = @ + Sum(state.inserted),
                           !.updated = @ + Sum(state.updated),
                           !.failures = @ \o Entries(exec.provider)]
    BY <1>3 DEF FinalizeProviderSuccess
  <2>2. run'.status = "running"
    BY <1>2, <2>1 DEF Run
  <2>3. IInv' /\ RollupIsSum'
    BY <1>3, FinalizeProviderSuccessInv
  <2>4. run' # None /\ RollupIsSum'
    <3>1. pc' = IF Returns(o) THEN "loop" ELSE "abort_fetch"
      BY DEF FinalizeProviderSuccess, Continue, Goto
    <3>2. run' # None
      BY <2>3, <3>1 DEF IInv, StageInv, Aborting
    <3> QED
      BY <2>3, <3>2
  <2>5. Grow
    <3>1. attempts' = [a \in AttemptIds |-> IF a \in current THEN Finalized(a[2])
                                            ELSE attempts[a]]
      BY <1>3 DEF FinalizeProviderSuccess
    <3>2. \A a \in current : a[2] \in exec.sources /\ a \in Created
      BY <1>2 DEF RunningAttempts
    <3>3. \A a \in current : Finalized(a[2]) # None
      BY <1>1, <1>2, <3>2, FinalizedFacts
    <3> QED
      BY <1>2, <3>1, <3>2, <3>3 DEF Grow, Created
  <2> QED
    BY <1>2, <2>2, <2>4, <2>5 DEF Advances
<1>4. CASE ~Commits(o)
  BY <1>4 DEF FinalizeProviderSuccess, Quiet
<1> QED
  BY <1>3, <1>4

LEMMA FinishShape ==
  ASSUME IInv, NEW o \in Outcomes, FinishRun(o)
  PROVE  Quiet \/ Completes
<1>1. pc = "loop" /\ attempts' = attempts /\ UNCHANGED executionVars
  BY DEF FinishRun
<1>2. /\ run # None /\ run \in Run /\ run.status = "running" /\ RunningAttempts = {}
      /\ RollupIsSum
  BY <1>1 DEF IInv, StageInv, TypeOK, RollupInv
<1>3. CASE Commits(o)
  <2>1. PICK st \in {"completed", "completed_with_errors"} :
          run' = [run EXCEPT !.status = st]
    BY <1>3 DEF FinishRun
  <2>2. run'.status = st /\ SameCounters
    BY <1>2, <2>1 DEF SameCounters, Run
  <2>3. run' # None
    <3>1. IInv'
      BY FinishRunInv
    <3>2. pc' \in {"returned", "abort_fetch"}
      BY DEF FinishRun, Continue, Goto
    <3> QED
      BY <3>1, <3>2 DEF IInv, StageInv, Aborting
  <2>4. RollupIsSum'
    <3>1. Totals' = Totals
      BY <1>1, AttemptsSame
    <3> QED
      BY <1>2, <2>2, <3>1 DEF RollupIsSum, SameCounters
  <2> QED
    BY <1>1, <1>2, <2>2, <2>3, <2>4 DEF Completes
<1>4. CASE ~Commits(o)
  BY <1>1, <1>4 DEF FinishRun, Quiet
<1> QED
  BY <1>3, <1>4

LEMMA AbortShape ==
  ASSUME IInv, NEW o \in Outcomes, FinalizeRunningAttemptsAborted(o)
  PROVE  Quiet \/ Advances
<1>1. pc = "abort_finalize"
  BY DEF FinalizeRunningAttemptsAborted
<1>2. /\ run # None /\ run \in Run /\ run.status = "running" /\ TypeOK /\ ExecutionTypeOK
      /\ running = RunningAttempts
  BY <1>1 DEF IInv, StageInv, TypeOK, Aborting, Finished, Run, Terminal
<1>3. CASE Commits(o)
  <2>1. PICK fs : run' = run \/ run' = [run EXCEPT !.failures = fs]
    BY <1>3 DEF FinalizeRunningAttemptsAborted
  <2>2. run'.status = "running" /\ SameCounters
    BY <1>2, <2>1 DEF SameCounters, Run
  <2>3. run' # None
    BY FinalizeRunningAttemptsAbortedInv
  <2>4. Grow
    <3>1. attempts' = [a \in AttemptIds |->
                         IF a \in running /\ attempts[a].status = "running"
                         THEN Aborted(a[2]) ELSE attempts[a]]
      BY <1>3 DEF FinalizeRunningAttemptsAborted
    <3>2. \A a \in RunningAttempts : a[2] \in Sources /\ a \in Created
      BY <1>2, CreatedFacts DEF RunningAttempts
    <3>3. \A a \in RunningAttempts : Aborted(a[2]) # None
      BY <1>2, <3>2, AbortedFacts
    <3> QED
      BY <1>2, <3>1, <3>2, <3>3 DEF Grow, Created
  <2> QED
    BY <1>2, <2>2, <2>3, <2>4 DEF Advances
<1>4. CASE ~Commits(o)
  BY <1>4 DEF FinalizeRunningAttemptsAborted, Quiet
<1> QED
  BY <1>3, <1>4

LEMMA RecomputeShape ==
  ASSUME IInv, NEW o \in Outcomes, RecomputeRollup(o)
  PROVE  Quiet \/ Fails
<1>1. pc = "abort_rollup" /\ attempts' = attempts
  BY DEF RecomputeRollup
<1>2. /\ run # None /\ run \in Run /\ run.status # "failed" /\ RunningAttempts = {}
  BY <1>1 DEF IInv, StageInv, TypeOK, Aborting
<1>3. CASE Commits(o)
  <2>1. run' = [run EXCEPT !.status = "failed", !.discovered = Totals.discovered,
                           !.inserted = Totals.inserted, !.updated = Totals.updated]
    BY <1>3 DEF RecomputeRollup
  <2>2. run'.status = "failed"
    BY <1>2, <2>1 DEF Run
  <2>3. IInv' /\ pc' \in {"raised", "suppressed"}
    BY RecomputeRollupInv DEF RecomputeRollup, Goto
  <2>4. run' # None
    BY <1>3, RecomputeRollupInv
  <2>5. RollupIsSum'
    BY <2>2, <2>3, <2>4 DEF IInv, RollupInv, Finished, Terminal
  <2> QED
    BY <1>1, <1>2, <2>2, <2>4, <2>5 DEF Fails
<1>4. CASE ~Commits(o)
  BY <1>1, <1>4 DEF RecomputeRollup, Quiet
<1> QED
  BY <1>3, <1>4

\* Every step is one of these.
LEMMA StepShape ==
  ASSUME IInv, [Next]_vars
  PROVE  Quiet \/ Starts \/ Advances \/ Completes \/ Fails
<1>1. ASSUME NEW o \in Outcomes, StartRun(o) PROVE Quiet \/ Starts
  <2>1. run = None
    BY <1>1 DEF StartRun, IInv, StageInv
  <2> QED
    BY <1>1, <2>1 DEF StartRun, Quiet, Starts, NewRun
<1>2. ASSUME NEW o \in Outcomes, AppendPlanningFailure(o) PROVE Quiet \/ Advances
  BY <1>2, AppendFailureShape
<1>3. ASSUME NEW o \in Outcomes, FinalizeProviderSuccess(o) PROVE Quiet \/ Advances
  BY <1>3, FinalizeShape
<1>4. ASSUME NEW o \in Outcomes, FinishRun(o) PROVE Quiet \/ Completes
  BY <1>4, FinishShape
<1>5. ASSUME NEW o \in Outcomes, FetchRunningAttempts(o) PROVE Quiet
  BY <1>5 DEF FetchRunningAttempts, Quiet
<1>6. ASSUME NEW o \in Outcomes, FinalizeRunningAttemptsAborted(o) PROVE Quiet \/ Advances
  BY <1>6, AbortShape
<1>7. ASSUME NEW o \in Outcomes, RecomputeRollup(o) PROVE Quiet \/ Fails
  BY <1>7, RecomputeShape
<1>8. ASSUME NEW o \in Outcomes, NEW S \in Selections, BeginProviderAttempt(S, o)
      PROVE  Quiet \/ Advances
  BY <1>8, BeginShape
<1>9. CASE SkipProvider \/ NameDrift \/ ExecuteProviderQuery \/ ExecutionRaised \/ ProcessStops
  BY <1>9 DEF SkipProvider, NameDrift, ExecuteProviderQuery, ExecutionRaised, ProcessStops,
              runVars, Quiet
<1>10. CASE UNCHANGED vars
  BY <1>10 DEF vars, runVars, Quiet
<1> QED
  BY <1>1, <1>2, <1>3, <1>4, <1>5, <1>6, <1>7, <1>8, <1>9, <1>10 DEF Next

\* A settled attempt row is never touched again, and a run's status changes only
\* once, or from a completed one to failed when the run ends by raising.
THEOREM SettledStays == Spec => SettledStaysSettled
<1>1. IInv /\ [Next]_vars =>
        [/\ \A a \in Created : attempts[a].status # "running" => attempts'[a] = attempts[a]
         /\ Finished /\ run'.status # run.status =>
              /\ run'.status = "failed"
              /\ pc = "abort_rollup"]_vars
  <2> SUFFICES ASSUME IInv, [Next]_vars
               PROVE  /\ \A a \in Created : attempts[a].status # "running" =>
                                              attempts'[a] = attempts[a]
                      /\ Finished /\ run'.status # run.status =>
                           run'.status = "failed" /\ pc = "abort_rollup"
    OBVIOUS
  <2>1. Quiet \/ Starts \/ Advances \/ Completes \/ Fails
    BY StepShape
  <2>2. \A a \in Created : attempts[a].status # "running" =>
                             a \in AttemptIds /\ a \in Created \ RunningAttempts
    BY DEF Created, RunningAttempts
  <2>3. CASE Quiet \/ Starts
    BY <2>3 DEF Quiet, Starts, Finished
  <2>4. CASE Advances
    BY <2>2, <2>4 DEF Advances, Grow, Finished, Terminal
  <2>5. CASE Completes
    BY <2>5 DEF Completes, Finished, Terminal
  <2>6. CASE Fails
    BY <2>6 DEF Fails
  <2> QED
    BY <2>1, <2>3, <2>4, <2>5, <2>6
<1> QED
  BY <1>1, RunInvariant, PTL DEF Spec, SettledStaysSettled

LEMMA ContractSum == \A f : Contract!SumFunction(f) = SumFunction(f)
BY DEF Contract!SumFunction, Contract!SumFunctionOnSet, Contract!FoldFunctionOnSet,
       Contract!MapThenFoldSet, SumFunction, SumFunctionOnSet, FoldFunctionOnSet,
       MapThenFoldSet

LEMMA ContractState ==
  ASSUME TypeOK
  PROVE  /\ Contract!Created = Created /\ Contract!Running = RunningAttempts
         /\ Contract!Total = Totals
<1>1. attempts \in [AttemptIds -> Attempt \cup {None}]
  BY DEF TypeOK
<1>2. Contract!Created = Created
  BY <1>1, ViewFacts DEF Contract!Created, Created, Views
<1>3. Contract!Running = RunningAttempts
  <2>1. Contract!Running = {a \in Created : Views(AttemptIds, attempts)[a].status = "running"}
    BY <1>2 DEF Contract!Running, Views
  <2>2. \A a \in Created : Views(AttemptIds, attempts)[a].status = attempts[a].status
    BY <1>1, ViewFacts DEF Created
  <2> QED
    BY <2>1, <2>2 DEF RunningAttempts
<1>4. Contract!Total = Totals
  <2>1. DOMAIN Contract!Zero = {"discovered", "inserted", "updated"}
    BY DEF Contract!Zero
  <2>2. Contract!Total =
          [f \in {"discovered", "inserted", "updated"} |->
             SumFunction([a \in Created |-> Views(AttemptIds, attempts)[a].counts[f]])]
    <3> DEFINE F(S, f) == [a \in S |-> Views(AttemptIds, attempts)[a].counts[f]]
               D == {"discovered", "inserted", "updated"}
    <3>1. Contract!Total = [f \in DOMAIN Contract!Zero |->
                              SumFunction(F(Contract!Created, f))]
      <4> DEFINE G(f) == [a \in Contract!Created |-> Views(AttemptIds, attempts)[a].counts[f]]
      <4>1. Contract!Total = [f \in DOMAIN Contract!Zero |-> Contract!SumFunction(G(f))]
        BY DEF Contract!Total, Views
      <4> HIDE DEF G
      <4>2. Contract!Total = [f \in DOMAIN Contract!Zero |-> SumFunction(G(f))]
        BY <4>1, ContractSum
      <4> QED
        BY <4>2 DEF G
    <3> HIDE DEF F
    <3>2. Contract!Total = [f \in D |-> SumFunction(F(Created, f))]
      BY <1>2, <2>1, <3>1
    <3> QED
      BY <3>2 DEF F
  <2>3. Created = {a \in AttemptIds : attempts[a] # None}
    BY DEF Created
  <2>4. ViewTotals(AttemptIds, attempts, Created) = ColumnTotals(attempts, Created)
    BY <1>1, <2>3, TotalsAgree
  <2> QED
    BY <2>2, <2>4 DEF Totals, ViewTotals, ColumnTotals
<1> QED
  BY <1>2, <1>3, <1>4

\* The same, after a step.
LEMMA ContractStatePrimed ==
  TypeOK' => /\ Contract!Created' = Created' /\ Contract!Running' = RunningAttempts'
             /\ Contract!Total' = Totals'
<1> DEFINE Same == /\ Contract!Created = Created /\ Contract!Running = RunningAttempts
                   /\ Contract!Total = Totals
<1>1. TypeOK => Same
  BY ContractState
<1>2. TypeOK' => Same'
  <2> HIDE DEF Same
  <2> QED
    BY <1>1, PTL
<1> QED
  BY <1>2

LEMMA ContractInit == Init => Contract!Init
BY DEF Init, Contract!Init, CountsOf, NewAttempt, Contract!Zero

LEMMA GrowProgress ==
  ASSUME TypeOK, TypeOK', Grow
  PROVE  Contract!AttemptsProgress
<1>1. /\ attempts \in [AttemptIds -> Attempt \cup {None}]
      /\ attempts' \in [AttemptIds -> Attempt \cup {None}]
  BY DEF TypeOK
<1>2. Contract!Created = Created /\ Contract!Running = RunningAttempts
  BY ContractState
<1> DEFINE before == Views(AttemptIds, attempts)
           after == Views(AttemptIds, attempts')
<1>3. ASSUME NEW a \in AttemptIds
      PROVE  /\ before[a] = None /\ after[a] # None =>
                  after[a] = [status |-> "running", counts |-> Contract!Zero]
             /\ before[a] # None => after[a] # None
             /\ a \in Created \ RunningAttempts => after[a] = before[a]
  <2>1. before[a] = None <=> attempts[a] = None
    BY <1>1, <1>3, ViewFacts
  <2>2. after[a] = None <=> attempts'[a] = None
    BY <1>1, <1>3, ViewFacts
  <2>3. attempts'[a] = NewAttempt /\ attempts'[a] # None =>
          after[a] = [status |-> "running", counts |-> Contract!Zero]
    <3>1. StatusAndCounts(NewAttempt) = [status |-> "running", counts |-> Contract!Zero]
      BY DEF StatusAndCounts, CountsOf, NewAttempt, Contract!Zero
    <3>2. attempts'[a] # None => after[a] = StatusAndCounts(attempts'[a])
      BY <1>1, <1>3, ViewFacts
    <3> QED
      BY <3>1, <3>2
  <2>4. attempts'[a] = attempts[a] => after[a] = before[a]
    BY <1>3 DEF Views
  <2> QED
    BY <1>3, <2>1, <2>2, <2>3, <2>4 DEF Grow
<1> QED
  BY <1>2, <1>3 DEF Contract!AttemptsProgress, Views

LEMMA ContractStep ==
  ASSUME IInv, [Next]_vars
  PROVE  [Contract!Next]_(Contract!vars)
<1> DEFINE counts == CountsOf(IF run = None THEN NewAttempt ELSE run)
<1>1. IInv' /\ TypeOK /\ TypeOK'
  BY NextIInv DEF IInv
<1>2. /\ Contract!Created = Created /\ Contract!Running = RunningAttempts
      /\ Contract!Total = Totals
      /\ Contract!Created' = Created' /\ Contract!Running' = RunningAttempts'
      /\ Contract!Total' = Totals'
  BY <1>1, ContractState, ContractStatePrimed
<1>3. Grow => Contract!AttemptsProgress
  BY <1>1, GrowProgress
<1>4. attempts' = attempts => Grow
  BY DEF Grow, Created
<1>5. /\ run # None => counts = [discovered |-> run.discovered, inserted |-> run.inserted,
                                 updated |-> run.updated]
      /\ run' # None => counts' = [discovered |-> run'.discovered,
                                   inserted |-> run'.inserted, updated |-> run'.updated]
  BY DEF CountsOf
<1>6. (run # None /\ RollupIsSum => counts = Totals)
      /\ (run' # None /\ RollupIsSum' => counts' = Totals')
  BY <1>5 DEF RollupIsSum
<1>7. CASE Quiet
  BY <1>7 DEF Quiet, Contract!vars
<1>8. CASE Starts
  <2>1. run' # None /\ run'.status = "running" /\ counts' = Contract!Zero
    BY <1>5, <1>8, NullRun, NewRunType DEF Starts, NewRun, Contract!Zero
  <2> QED
    BY <1>3, <1>4, <1>8, <2>1 DEF Starts, Contract!Next, Contract!Start
<1>9. CASE Advances
  <2>1. /\ run # None /\ run' # None /\ run.status = "running" /\ run'.status = "running"
        /\ Contract!AttemptsProgress
    BY <1>3, <1>9 DEF Advances
  <2>2. \/ counts' = counts
        \/ \A f \in DOMAIN Contract!Zero : counts'[f] + Totals[f] = counts[f] + Totals'[f]
    <3>1. CASE SameCounters
      BY <1>5, <2>1, <3>1 DEF SameCounters
    <3>2. CASE RollupIsSum /\ RollupIsSum'
      <4>1. counts = Totals /\ counts' = Totals'
        BY <1>6, <2>1, <3>2
      <4>2. \A f \in DOMAIN Contract!Zero : Totals[f] \in Nat /\ Totals'[f] \in Nat
        <5>1. DOMAIN Contract!Zero = {"discovered", "inserted", "updated"}
          BY DEF Contract!Zero
        <5>2. /\ Totals["discovered"] \in Nat /\ Totals["inserted"] \in Nat
              /\ Totals["updated"] \in Nat
          BY <1>1, TotalsType DEF Totals
        <5>3. /\ Totals'["discovered"] \in Nat /\ Totals'["inserted"] \in Nat
              /\ Totals'["updated"] \in Nat
          BY <1>1, TotalsTypePrimed DEF Totals
        <5> QED
          BY <5>1, <5>2, <5>3
      <4> HIDE DEF counts
      <4> QED
        BY <4>1, <4>2
    <3> QED
      BY <1>9, <3>1, <3>2 DEF Advances
  <2> QED
    BY <1>2, <2>1, <2>2 DEF Contract!Next, Contract!Progress
<1>10. CASE Completes
  <2>1. /\ run # None /\ run' # None /\ run.status = "running"
        /\ run'.status \in {"completed", "completed_with_errors"}
        /\ Contract!AttemptsProgress /\ RunningAttempts' = {} /\ counts' = Totals'
    BY <1>3, <1>4, <1>6, <1>10, AttemptsSame DEF Completes
  <2> QED
    BY <1>2, <2>1 DEF Contract!Next, Contract!Settle, Contract!Completed
<1>11. CASE Fails
  <2>1. /\ run # None /\ run' # None /\ run.status # "failed" /\ run'.status = "failed"
        /\ Contract!AttemptsProgress /\ RunningAttempts' = {} /\ counts' = Totals'
        /\ Created' = Created
    BY <1>3, <1>4, <1>6, <1>11, AttemptsSame DEF Fails
  <2>2. run.status \in {"running", "completed", "completed_with_errors"}
    BY <1>1, <2>1 DEF TypeOK, Run, Terminal
  <2>3. CASE run.status = "running"
    BY <1>2, <2>1, <2>3 DEF Contract!Next, Contract!Settle
  <2>4. CASE run.status \in {"completed", "completed_with_errors"}
    <3>1. attempts' = attempts
      BY <1>11 DEF Fails
    <3>2. Contract!Overturn
      BY <1>2, <2>1, <2>4, <3>1 DEF Contract!Overturn, Contract!Completed
    <3> QED
      BY <3>2 DEF Contract!Next
  <2> QED
    BY <2>2, <2>3, <2>4
<1> QED
  BY <1>7, <1>8, <1>9, <1>10, <1>11, StepShape

\* The orchestrator implements the contract of a collection run: started with
\* nothing counted, settled once with no attempt running and its rollup their sum.
THEOREM RunImplementsContract == Spec => ImplementsContract
<1>1. Init => Contract!Init
  BY ContractInit
<1>2. IInv /\ [Next]_vars => [Contract!Next]_(Contract!vars)
  BY ContractStep
<1> QED
  BY <1>1, <1>2, RunInvariant, PTL DEF Spec, ImplementsContract, Contract!Spec

===============================================================================
