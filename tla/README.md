# A verification development of jobGoblin

jobGoblin collects job postings from provider adapters and stores them in
PostgreSQL so that the same vacancy, seen under several identities, becomes one
`Job` with several `JobOccurrence` rows; its repository decides with tooling of its
own when a change counts as verified and may be released. This directory holds TLA+
modules that model the ingestion core, the services around it, the parsers of posting
text and that tooling, TLC instances that check them, and TLAPS proofs, for every value of
the constants, of the safety of ingestion, the services, the coordinators, the release and
the migration matrix. Paths below are under `src/backend/`.

## 1. Inventory

| Part | State | Operations | What makes it hard |
|---|---|---|---|
| Natural keys (`app/ingestion/natural_key.py`, `identity.py`) | none | resolve a key, derive lock numbers | three key forms over trimmed text; one number space for all advisory locks |
| Identity resolution (`app/ingestion/persistence.py`) | `raw_job_ingestions`, `jobs`, `job_occurrences`, `identity_conflicts`; locks | `persist_posting` and the tiers it tries | READ COMMITTED: every SELECT sees another moment; four kinds of lock; rollbacks |
| Provider execution (`provider_execution.py`) | raw rows; `ProviderExecutionState` | `discover()`, one transaction per raw row, one per posting | results that break the contract; cancellation on either side of a commit |
| Orchestrator (`orchestrator.py`) | `collection_runs`, `collection_run_provider_attempts`; its own locals | start, begin a provider, finalize it, finish, abort | its locals and the tables disagree after a cancellation; a handler that may itself be cancelled |
| Pipeline (`pipeline.py`) | the same tables | `run` for one provider | writes terminal rows without a guard |
| Query planner (`app/discovery/query_planner.py`) | none | `plan` | which filters a provider enforces |
| Provider registry (`app/providers/`) | registered adapters | `register`, `get`, `names` | name drift after registration |
| Services (`app/services/`) | user jobs, saved searches, profiles; each session's objects | `set_status`, `create`, `get_for_user`, `update` | decisions on rows loaded earlier; only changed columns are written |
| Models and migrations (`app/db/`, `migrations/`) | schema | | CHECKs and partial unique indexes the code relies on |
| Normalisation (`app/normalization/`) | none | parse seniority, work arrangement, schedule, experience, salary, location, skills, ... | longest-first matching, negation, contradicting evidence |
| Verification tooling (`scripts/verif*.py`) | run directories, locks, receipts | coordinate a run, decide which checks a change needs | processes sharing directories; stale receipts |
| Review and release (`scripts/check_review.py`, `check_handoff.py`) | git's history | validate each commit from candidate to post-merge artifact | evidence used for another commit; a main that moves |
| Migration matrix (`scripts/migration_matrix.py`, `db_safety.py`) | databases of a server | round trip of the newest migration, fresh database, cleanup | shared databases, lost acknowledgements |
| Live proof (`scripts/live_proof_greenhouse_ingestion.py`) | a database of its own | create, migrate, ingest twice, drop | cleanup after any failure |
| Corpora and probes (rest of `scripts/`) | files | fetch, freeze, evaluate | I/O |
| HTTP app (`app/main.py`, `app/api/`) | none | health | |

How they interact. `run_saved_search` loads a saved search, asks the registry for
each provider and the planner for its query, and hands both to
`execute_provider_query` with a state object it owns. That function stores every
posting as a raw row (transactions A_i), then for each posting calls
`persist_posting` (B_i) or marks it unidentifiable (C_i), and counts the outcome
on the state object. The orchestrator copies the state to the attempt rows in one
more transaction; after an exception or a cancellation its handler rediscovers
from the tables which attempts are still running. Tasks of different runs meet
only in the database: in the locks and rows of `persist_posting`.

## 2. Modules

| Module | Models | State |
|---|---|---|
| `NaturalKey` | key resolution, the Tier-1 lookup, the lock keys, the tier filters | none (operators) |
| `IdentityLedger` | abstract: postings settle one at a time | raw rows, home of each occurrence, its evidence |
| `IdentityResolution` | `persist_posting` with every caller, one SQL statement per step | the four tables, locks held, one local context per task |
| `IdentityInvariant` | the inductive invariant of `IdentityResolution` | |
| `IdentityResolutionProofs` | TLAPS proofs: the invariant; everything else the runs check of it but liveness | |
| `ProviderExecution` | `execute_provider_query` | the run's raw rows, the state object, control state |
| `Orchestrator` | `run_saved_search`, with `ProviderExecution` inside it | run row, attempt rows, the coroutine's locals |
| `Pipeline` | `pipeline.run`, with `ProviderExecution` inside it | run row, one attempt row per source, where the coroutine is |
| `ProviderExecutionProofs` | TLAPS proofs: sums and counts, and what an execution keeps, for its two callers | |
| `OrchestratorProofs`, `PipelineProofs` | TLAPS proofs: everything the runs check of each | |
| `CollectionRun` | abstract: what a collection run promises its readers | status, rollup, attempts |
| `Verification` | `verification_scope`, the steps of `verify.py`, the validation and eligibility of receipts and post-merge artifacts | none (operators) |
| `Coordinator` | `verification_coordinator` with its locks and worktrees, any number of processes | run directories, lock owners, git's worktrees, one local context per call, records |
| `Planner` | `QueryPlanner.plan`, the provider registry | none (operators) |
| `Services` | the three services in overlapping sessions; the orchestrator's lock on a search | committed rows, pending writes and objects of each session, a run |
| `ServicesProofs` | TLAPS proofs | |
| `Phrases` | masking, compaction and the precedence all classifiers share | none (operators) |
| `Seniority`, `RemoteType`, `Employment`, `Experience`, `Salary` | one classifier each | none (operators) |
| `Normalization` | a posting that grows part by part, classified after each; a compensation text | field, title, description, compensation, answer |
| `NormalizationProofs` | TLAPS proofs of `Normalization`, for texts of any length | |
| `ReviewChain` | `check_review.py`, `check_handoff.py` | git's commits |
| `Release` | slices of work on their way to `origin/main`, with what the coordinator and `ReviewChain` refuse | commits, main, each slice's attempt, who verified and approved what |
| `VerificationProofs` | TLAPS proofs of `Coordinator`, and of `Release` with `ReviewChain` | |
| `MigrationMatrix` | invocations of `verify.py` with the matrix in full, `db_safety.py` | databases, run directories, each invocation |
| `LiveProof` | the live proof beside them | each proof |
| `LiveProofProofs` | TLAPS proofs of `MigrationMatrix` and `LiveProof` together | |
| `MCIdentity`, `MCOrchestrator`, `MCPipeline`, `MCCoordinator`, `MCServices`, `MCNormalization`, `MCRelease`, `MCMigrationMatrix` | instances for TLC | |

### Identity resolution and the code

A step of `IdentityResolution` is one statement of `persist_posting`:

| Action | Statement |
|---|---|
| `LockRaw` | `SELECT raw ... FOR UPDATE`, then `_validate_raw_association` |
| `LockKey` | `pg_advisory_xact_lock` of the natural key |
| `Probe` | the unlocked Tier-1 probe |
| `LockParent`, `LoadOccurrence` | the found Job's row lock; the occurrence under it, and the quarantine decision |
| `LockSignal` | the canonical-URL lock (Tier 2) or the requisition lock (Tier 3) |
| `Discover`, `LockCandidate`, `Recheck`, `DiscoverAll` | `_attach_to_candidate` |
| `CommitFound`, `CommitAttached`, `CommitNewJob` | every flushed write, the raw row's update and the conflict row, as the commit makes them visible |
| `Rollback` | an exception, a cancellation or a crash, at any statement |
| `Fetch`, `MarkParseError`, `Call` | the callers: transactions A_i and C_i, and any task handing any raw row in at any time, again and again |
| `DeleteJob` | external: an administrator's DELETE |

Writes flushed inside a transaction are invisible to others and the rows are
locked, so applying them in the commit from the values *read earlier* keeps every
lost update possible. Text is abstract: `Trim` and `NormalizeUrl` are constants, and
the instances give texts with surrounding whitespace, a blank one, a URL with a
tracking parameter and an unusable one. A hash is taken to be collision free: a
lock is named by what is hashed. A Job and an occurrence are named by the raw row
whose transaction created them, which is sound because a raw row is settled once
(`RawSettledOnce`, proved).

The package deletes no Job. `DeleteJob` applies the schema's ON DELETE rules because
the code has branches that expect it; it waits for the Job's row lock, and its
SET NULL of a raw row another task has locked is taken as immediate.

`IdentityLedger` is what callers rely on: each posting is settled in one step, on
the stored occurrence its key names, else on the Job that carries its canonical
URL, else (weaker, see the finding on ambiguity) on one that carries its
requisition or on a Job of its own. `ImplementsLedger` maps each occurrence to its
Job and its columns, raw rows to themselves.

### Provider execution, orchestrator and the code

A step is one awaited transaction, `discover()`, or the code between them. A
transaction ends with an outcome in `Outcomes`: *returned*; *interrupted* (it
committed, but a cancellation or lost connection is raised instead of the return);
*failed* (rolled back). This is the distinction `run_saved_search`'s handler exists for.
`ProcessStops` ends the coroutine with no handler at all. What `persist_posting`
does is here only its outcome: any `UpsertKind`. `MatchingState` compares the attempt
ids in the coroutine's variable with those found running. Whether a planner selects
sources, skips or fails is arbitrary. An interruption of the very first transaction
is outside the `try` and leaves the run as committed.

`Pipeline` wraps the same execution with different transactions: the attempt rows are
created with the run, settled with it, and the handler writes both again from memory,
guarded by nothing. `CollectionRun` is what the two have in common: the step that
settles a run leaves no attempt running and the rollup equal to the sum of the
attempts, and afterwards the run can only be overturned to `failed` with every count
as it was. Both implement it (`ImplementsContract`, checked and proved). They differ in what
an overturned run does to its attempts: the orchestrator leaves settled rows alone
(`SettledStaysSettled`), the pipeline marks them failed too (`SettledTogether`, a part of
`SettledRight`).

### Verification and the code

A step of `Coordinator` is one effect on what processes share. A call sweeps
(`StartSweep`, then per directory `SweepCheck`, `SweepAcquire`, `SweepRelease`,
`SweepRemove`: the existence test, the lock, its release and the removal are four
steps, as in the code), is authorised (stages 1 to 5; which commits git reports is
arbitrary), makes and locks its directory (`Mkdtemp`, `OpenLock`, `AcquireLock`: the
lock file is there before it is locked), runs the `try` block (`AddWorktree` to
`FinalSnapshot`), its `finally` (`RemoveWorktree`, `ReadSteps`, `ReleaseLock`,
`RemoveDir`) and at last `Conclude`. `Interrupt` is any exception in the `try`,
`Crash` the death of the process: its locks go, its directory and its worktree stay.
Locks are those of POSIX: removing the file leaves its holder with a lock nobody
else can see, which `owner = None` and `unlinked` express. Opening and locking by the
sweep are one step. Both coordinators are one module, told apart by the request's
`kind`, which also says whose directories a call sweeps.

A path of a diff is its category in the rule table; the five static and the two
database steps are one step each; a step's output is whether its evidence is
complete. Which JSON a run left is chosen when it is read, since nothing looks at
it before, and a call that is over forgets its locals: both keep the space small
and lose no behaviour.

### Services, planner and the code

A step of `Services` is one call of a service function up to its flush, or the
caller's commit or rollback. A session keeps the objects it loaded (`objects`, with
what was loaded and what it is now), is not refreshed by a later SELECT and flushes
only the attributes that differ from what it loaded, into whatever the row has become
(`Flush`): this is what lets a status decided from an old object land beside another
session's `applied_at`. A flushed row is locked until the transaction ends
(`WrittenByOthers`), a failed flush leaves only the rollback (`failed`), and a commit
does not expire objects (`db/session.py:26-27`). `DeleteUser` applies the ON DELETE
CASCADE. One table is looked at per behaviour, because the services never touch two.
`LockSearch` and `CreateRun` are the two halves of the orchestrator's first
transaction with its FOR SHARE between them; `PlanProvider` then plans a provider of the
registry from the row as it was read. The model of `plan` keeps which fields are
enforced where and every refusal; the order of sources is left out.

### Classifiers and the code

A text is a sequence of tokens. Each catalogue of phrases holds one phrase of every
shape the code's list has, so an instance over all token sequences of some length meets
every overlap the code's matching can meet. Masking, longest-first matching, the
negation window, coordination, the comma contrast, redaction of malformed numbers, and
the order of the productions are as in the code; Unicode normalisation and the
splitting into sentences are not. The operators were compared with the Python functions on
random texts over their alphabets (218,000 for the three label classifiers, 28,511 for
experience) with the same answers, apart from two abstractions: a comma inside a title
segment, and the blocker "required to be in the office", one token here.

`Normalization` adds a part at a time, so that a property can compare what is
answered before and after. A title segment that the code cuts again at its hyphens is
several parts of experience at once, of which `EvidenceNeverFlips` says nothing: behind "3 years",
"preferred - backend - 5 years" takes one answer away and gives another, 5.

`Salary` keeps the two layers of `salary.py`. `Matches` is the grammar: the ways to cut the
whole text into label, code, amounts, code and period, which is what `fullmatch` on one of the
five productions finds (there was at most one way for every text of the instance). The rest
decides what the slots are worth. A number is one token; what its digits, commas, decimals and
k make of it is its `Figure`, and `Int32Max` a constant, 4000 in the instance. The text is
given after NFKC and without regard to case. All 35,000 texts of the instance were
compared with `classify_salary`, its limit set to 4000: the answers are the same.

### Release and the code

`ReviewChain` reads only git, as `check_review.py` does: a commit is its parents and a
tree of files and handoff sections, and a refusal by exception is FALSE. `Release` is
the workflow of `docs/LLM_WORKFLOW.md` around it. Its actions are people's, and people
make at most `MaxMistakes` mistakes (a stray edit, a rewritten history, an old receipt,
review or artifact, a conflict resolved by dropping a side); what the code adds are the
guards: the coordinator's authority check of the base, the eligibility of receipts
(from `Verification`), each `validate_*_transition`, `validate_published` and
`confirm_main_unchanged` before the push. A candidate drops any of the edits it finds and
adds any of its slice's (`WriteCandidate`); the records filed with the code it leaves alone.
`cross_check_affected_surface` is the comparison of the review's claims with git; the
hashes of recorded files before it and the inventory of witnesses the final gate asks for are left out,
which only lets the model accept more than the code does.

### Migration matrix and the code

A step of `MigrationMatrix` is one query or one Alembic subprocess, which may fail
without effect; CREATE DATABASE may also take effect without an answer, at once
(`create_database`) or later (`ServerCreates`), which is what `provision_fresh_database`
reconciles. A candidate is its history of migrations and its defects; a migration is a
revision, a version and its defects, so that two candidates may have two versions of one
revision. Alembic finds a database by the revision stored in it (`Standing`) and runs its own
scripts from there. On a database that these very scripts have made, what a command does
follows from the defects. On any other, where an invocation of a rival version has come
between (`Surprises`), it may do what it would or fail, and the database is `mixed` from then on:
what the scripts of one version make of the other's tables is not in the code. Several spellings of
a host reach one server (`Reached`). `LiveProof` adds the other program that creates and drops
databases there.

## 3. What is checked

| Run | Instance | Shows |
|---|---|---|
| `identity` | 3 raw rows, 1 deletion; 2 tasks, 2 times and 4 postings around one URL, or 3 tasks and 5 postings of one requisition | one Job per URL, unique natural keys, no lost `last_seen_at`, links, no false merge, one conflict per raw row, genuine ambiguities, fail-closed only after a deletion, lock order, the inductive invariant, refinement of `IdentityLedger` |
| `progress` | 2 tasks, 2 raw rows, postings whose keys and requisitions cross, 1 deletion | every call ends |
| `orchestrator` | 2 providers, 2 sources, 6 results, 6 searches | rollup, outcome, counters, failures, status, settled rows, refinement of `CollectionRun` |
| `pipeline` | 1 provider, 2 sources, 6 results | run and attempts settle right, refinement of `CollectionRun` |
| `services` | 2 sessions, 2 users, 2 rows, 2 times, 2 calls a session | only stale changes of status are refused, one profile per user, no criterion of a search is lost, a run starts from the search as committed |
| `normalization` | per field, texts of one part up to 5 tokens (7 for experience), of several up to 3 (7) | what is stated is found, what is denied or forbidden is not claimed, more text never flips an answer; a salary is what all of its text says |
| `coordinator` | 2 processes, 5 requests, at most one failure or gap in a run's evidence | records are isolated, eligibility means what the diff demands was verified |
| `release` | 2 slices of 2 and 1 edits, 2 candidates and 1, dropping or adding edits, 2 mistakes | what main holds was verified and approved, what migrates was migrated |
| `migration_matrix` | 2 invocations, or one and a live proof, of one candidate, two, one on the other or two versions of one; 6 settings, 2 faults | only the test database changes, what a PASS shows, evidence leaves nothing behind |
| `ambiguity`, `negated_arrangement`, `rival_migrations` | | statements of the source that do not hold, below |

Why the bounds are enough. A natural-key or URL race needs two tasks; a third raw
row lets the state they race over hold an earlier occurrence. An ambiguity needs
two Jobs of one requisition and a third posting, with three tasks so that a wait
cycle of three is possible. Two times give every order of observation. One
deletion is what the code's fail-closed branches react to. The constraint `OneFeed` cuts
`identity` to the behaviours in which all raw rows are of the first feed and two tasks are
under way at a time, or all are of the second and observed at one time; the proofs have no such cut. The orchestrator's
results cover a failed source beside a healthy one, an error on a source that
completed, an incomplete source, nothing found and two broken contracts; two
providers suffice because the coroutine's locals hold one at a time. Two sessions with
two calls each are a read and a write on both sides of each other's commit, and two rows
let one user have both. Two processes are all a run directory needs to be contended: its
owner and one that sweeps. The requests (`MCRequests`) are a documentation gate that may
have it and one that hides a schema change, a fast and a final gate, and a merged schema
change; `MCAsked` leaves out pairs that differ in no interaction, `MCRuns` runs with two
failures at once. A second slice is what moves main under the first, a second candidate
is what evidence can be carried over to, and two mistakes (`MaxMistakes`) are one by the
author and one by whoever pushes or reviews. Each slice asks for the gate it needs
(`MCGates`); asking for another is what `coordinator` looks at. In `migration_matrix` two faults (`MaxFaults`)
are a lost acknowledgement together with a cleanup that fails; the settings are the local
server by name and by address, a shared one, a test URL that names the development
database, and production. The candidates (`MCCandidates`) have each defect once, and beside
each: the same candidate, another, one built on it, and one with a corrected version of its
migration (2.5 million distinct states).

The vocabulary of `normalization` (`MCSegments`, `MCSentences`) has, of each classifier, a
phrase of every kind its code distinguishes: a term, a longer term that contains it, a
negator, a guard that disables a term, a conjunction, an inert word. A single
part is long enough to put a negator, a conjunction and two terms in every order, or two
ranges; several parts together (`MaxTokens`) are long enough to contradict each other. The operators
were compared besides with the Python functions on texts spelled out of the same tokens
(about 218,000 for the three vocabularies, 28,511 for experience). They agree but for two
choices of the model: a comma inside a title segment is not a token, and an obligation to
attend an office is one token.

Deadlock checking is off because the systems stop: all raw rows settled, the
coroutine or every call ended. Symmetry (tasks, raw rows, calls, sessions, users) is used
in runs without liveness only.

Fairness (`FairSpec`, run `progress`). Weak fairness of a task's reads and commit: a
running coroutine takes its next step. Strong fairness of its locking statements:
PostgreSQL queues waiters for a lock in the order they asked, so a lock that is
freed again and again is granted. Nothing is assumed of callers, of `Rollback` in a
healthy call, or of deletions. Nothing else has a liveness property: verification,
review and release wait for people, and a cancelled coroutine promises nothing.

### Where the source says more than the code does

* **`ambiguity`**: `_discover_all_candidates` (`persistence.py:253-257`) says the tier's
  lock makes the candidate list stable. A posting with a canonical URL takes the URL's
  lock, not the requisition's, and still stores its requisition, so it can add a
  candidate before the conflict is committed.
* **`negated_arrangement`**: `remote.py:153-157` calls its negation rule fail-closed. Of
  "This is a remote role, not a hybrid role." the nearest candidate on either side of
  the negator is suppressed, and that is the one in front of it: `classify_remote_type`
  answers hybrid, the arrangement that is denied. `NegatedNeverClaimed` states what does
  hold.
* **`rival_migrations`**: `run_full_matrix` (`migration_matrix.py:360-364`) is "the complete
  migration/schema-change verification matrix", with a round trip of the newest migration, and
  `PassMeansSound` says that a PASS means the migration survived it. All invocations share one test
  database. One of a migration whose downgrade fails and one of its corrected version, verified at once:
  the first upgrades, the second finds the revision in place (375), reverts it
  with its own script (377), and the `downgrade -1` of the first then reverts the migration before
  it. The first passes; its own downgrade was never run. There is no fault or kill in the
  trace. `PassMeansSoundWithoutRivals` states what holds: the part shown on the fresh
  database, which is the run's own, always; the rest as long as no two candidates have different
  versions of one migration (`NoRivals`).

Seen while modelling, each a behaviour of the modules, none a run of its own:

* `jobs.first_seen_at` is documented as the earliest sighting (`db/models/job.py:101-103`);
  attaching an occurrence observed earlier (`persistence.py:403`) leaves it later.
* A rollup that is "always exactly SUM ... on every path" (`orchestrator.py:394-395`) is
  not when the handler is cancelled between its two transactions; `TerminalRollupIsSum`
  states what holds. After a late cancellation a run may still go from a completed status
  to `failed`, only through the handler's last step (`SettledStaysSettled`).
* A receipt "records a failed run as `approval_eligible: false` for audit value"
  (`verification_coordinator.py:549-550`), but `verify.py:128` spells a blocked step `NOT RUN`
  and `verification_receipts.py:39` admits only `NOT_RUN`: a run that failed before its last step
  leaves no receipt.
* An owned run directory "is never touched" (`verification_coordinator.py:111-113`), but the
  sweep removes after giving the lock back (150-152), and may meanwhile be overtaken by the directory's
  owner locking it. `RecordsAreIsolated` states what holds: no record comes of it.
* "A later transition between post-application statuses preserves the original
  `applied_at`" (`services/user_jobs.py:27-28`) of the object, not of the row: a session that
  still sees an interested user overwrites the date that another has committed.
* `validate_merge` (`check_review.py:777-809`) refuses a merge whose first parent is not the one its
  caller names, "reuse is not permitted if main advanced" (796), but nothing compares that parent with the
  receipt's base. If main has moved since the candidate was verified, a merge made on main's
  present tip with the reviewed tree, a conflict resolved by dropping main's side, passes every
  check, `confirm_main_unchanged` included, and drops what main has gained since. A candidate may drop
  main's code by intent as well, so no property says that main only grows: only the
  person who merges can tell one from the other.
* A database created for the fresh-migration stage outlives the run when the query that
  follows a lost acknowledgement fails too, when the drop fails, or when the CREATE takes
  effect after it. `EvidenceLeavesNothingBehind` is about runs that report PASS.
* An exception other than `MigrationMatrixError` leaves `migration_matrix_step` (`verify.py:432-471`)
  and with it the run, without a result file.

## 4. What is proved

`IdentityResolutionProofs` (TLAPS, from `TextAssumption`, `ResolutionAssumption` and
`NullAssumption`: the lookup functions return canonical texts or NULL, NULL is no
identifier and no row, times are naturals), for any number of tasks, rows,
postings and deletions:

* `Invariance`: `Spec => []IInv`.
* `TypeCorrect`, `NaturalKeysAreUnique`, `CanonicalUrlsFoundOneJob`: from it.
* `RawRowsSettleOnce`, `ObservationsAdvance`: action properties, every step under `IInv`.

The argument. `NaturalKeyUnique` is not inductive: nothing in the tables alone says
that a call about to insert still sees no row of its key. `IInv` adds what each
statement leaves the call with (`CallInv`): the raw row's lock and its `fetched`
status, the key's lock from the probe on, and with the key's lock the fact that
the probe found nothing (`KeyAbsent`). Another call cannot falsify `KeyAbsent`,
because storing a row the key finds means holding the same key's lock
(the lookup selects a row exactly when the row's own key is that key, for rows that
have one: lemmas at the head of the module), and `LocksExclusive`
forbids two holders. The same argument with the URL's lock gives `UrlDecided`: a
Tier-2 call's decision to found or to attach is still right at its commit, which is
`CanonicalUrlOneJob`. The Job's row lock gives `OwnsJob`: the `last_seen_at` read is
still the stored one, hence no update is lost. TLC checks `IInv` in `identity`.

The second half of the module proves the rest of what the runs check of identity resolution,
liveness apart:

* `KnowledgeInvariance`: `Spec => []KInv`, inductive with `IInv`.
* `FailsClosedOnlyAfterDelete`, `CallsNeverDeadlock`: from `KInv` and `IInv`.
* `LinksAreRight`, `ConflictsAreOnePerRaw`, `AmbiguitiesAreGenuine`, `MergesAreSupported`,
  `JobsAreSeenLast`: from `HInv`, inductive with both.
* `TransactionsImplementLedger`: the refinement of `IdentityLedger`.

The argument. `IInv` says what no other call can falsify; `KInv` adds what each read told
a call (`Knows`): the occurrence Tier 1 found is one of its key, the Job it attaches to
carries its signal, an ambiguity's Jobs are settled rows other than its own, and nothing
found goes away unless something was deleted. Steps of others cannot take it away,
because only a deletion removes a row, never one whose Job's lock a call holds, and
an occurrence never changes its Job or its evidence (`Frame`, from
`ObservationsAdvance`'s lemma). `LockOrder` in `KInv` says which kinds of locks a call holds at each statement; what
it waits for is of a later kind, so in a circle the call that waits for the latest
kind would be waited for by one that waits for a later one. `HInv` says of the tables what
`FoundEffect`, `AddedTo` and `DeleteEffect`, the effect of each writing step, preserve:
`OneConflictPerRaw` in the form "conflicts name different rows, exactly those in
identity_conflict", `LastSeenIsLatest` as "some occurrence of the Job has its time, none
a later one". For the refinement every commit is one `Resolve` of its raw row: `KeyAbsent`,
`UrlDecided` and `Knows` are the guards of `Rediscover`, `Join` and `Found`. Every other
step but storing a row, marking it and deleting a Job leaves the ledger as it is.

`ServicesProofs` (from `TimesAssumption` and `PlannerAssumption`: NULL is no time and no
TRUE), for any number of sessions, users, rows, calls, requests and providers:

* `ServicesInvariance`: `Spec => []SInv`.
* `ProfilesAreUnique`, `RunsStartFromTheSearch`: from it.
* `StaleChangesAreRefused`: from it and `ObjectsAgree`.
* `CriteriaReachTheSources`: no criterion of a search is lost by the planner.

The argument. That committed profiles have different owners is not inductive: a commit
adds rows that waited, and the UNIQUE was evaluated when they were flushed. `SInv` says of
all rows, committed or pending, that owners differ, that no two sessions write one row
(it is locked from the flush on) and that a write keeps the owner; so a commit only
moves what differed already. `SearchHeld` says that the row behind FOR SHARE has no writer and
is what was read; an update waits, and a deletion does. For `OnlyStaleChangeRefused`,
`ObjectsAgree` says that every object a session decides from has a date that goes with its
status. Loading keeps it because the rows pass the CHECK, a change because `AppliedAt`
does (`ChangeAgrees`); so if the row is still what the object was loaded from, what the
flush makes of the row is what the object says, and the CHECK passes. `NoCriterionLost`
needs no strengthening but `PlannedFromSearch`, that what is planned is the plan of the search
as read: what a search wants is a populated field (`WantedIsPopulated`), every populated
field that a source does not support is among those to be enforced locally
(`PlanFacts`), and what is supported is advertised (`SupportedIsAdvertised`).

`ProviderExecutionProofs`, `OrchestratorProofs` and `PipelineProofs` (from
`ResultAssumption`, `NullAssumption`, `SearchAssumption`, `SelectionAssumption` and
`RunAssumption`: providers and sources are finite sets, results have the types Pydantic
validates, whatever else they say, the registry lists a name once, a selection is not empty,
NULL is no row), for any
registry, searches, planner, results and interruptions:

* `RunInvariant`, `PipelineInvariant`: `Spec => []IInv`, of either module.
* `RunTypeCorrect`, `TerminalRollup`, `OutcomeRecorded`, `CountersAccount`, `FailuresOnce`,
  `CompletedIsClean`, `SettledRunsAreRight`: from them.
* `SettledStays`: an action property, every step under `IInv`.
* `RunImplementsContract`, `PipelineImplementsContract`: the refinements of `CollectionRun`.

The argument. The counters a row ends with are those the state object has when the
row is settled, so what is inductive is about the execution: `ExecutionInv` says, at each of
its stages and for each source, how many raw rows of which status there are for the
counts in memory (`SourceCounted`). `Answered` keeps what `discover()` returned until the end,
`OwnRows` that rows still to be settled are as fetched. A transaction that committed
without returning leaves one row more than the counters know, of one source, which is why
`CountersAccountForPostings` allows one. Around it `StageInv` and `AttemptsInv` say which
attempts run while the coroutine is where: those of one provider, as they were created,
with or without an `attempt_ids` in the coroutine's hands. `NamesInv` says that nothing is
known yet of a name still to be visited, so what one provider does disturbs no other's
account. The rollups are sums over a finite set of attempts: that a sum is what its elements
contribute, and follows a change of one of them, is proved by a least counterexample
(`LeastSubset`), because the induction theorems of the library take an operator. For the
refinement every commit that settles the run is one step of the contract, an overturned run keeps its
counters because the rows it sums are the ones already settled, and other steps create or
settle attempts while it runs.

`VerificationProofs`, of `Coordinator` (from `RequestAssumption`: requests are of the forms the two commands
accept, and what a run may leave is an output of it), for any number of calls, requests
and diffs:

* `CoordinatorInvariant`: `Spec => []CallsInv`.
* `RecordsStayIsolated`, `EligibleRecordsAreVerified`: from it.

The argument. `CallsInv` is a fact of each call alone: what its stages have established for the
later ones. It is past the authorisation only with a sufficient gate (`Allowed`), in the
`try` only with a worktree found clean (`Snapshotted`), concludes only once git and the disk
are rid of the worktree (`Cleaned`), and has steps only if `verify.py` took its arguments
(`FromVerify`). Other calls may do a good deal to its directory: sweep it, remove its lock file
under its feet. But they only take away, or re-create what is empty
(`Undisturbed`), and nothing a call has established is that something is still there
(`UndisturbedKeeps`). That a full PASS means every step ran: `build_steps` lists each step
once and ends with the handoff check, which runs last, so nothing was blocked before it; a diff
that needs the migration matrix forces the final gate, where the matrix is a step.

Of `Release` (from `ReleaseAssumption`: edits are no records, and the names that slices give
commits are neither the root nor NULL), for any slices, edits, gates and
numbers of candidates and mistakes:

* `ReleaseInvariant`: `ReleaseSpec => []ReleaseInv`.
* `MainIsVerifiedAndApproved`, `MigrationsWereTested`: from it.

The argument. A commit never changes, so what is true of it and of those below it stays true
while commits, verifications and approvals are added (`Grows` and the `...Stays` lemmas). `ReleaseInv` says
of every file and section in every tree what the code that let it be issued had checked. A
receipt (`ReceiptOK`): the base was main's tip when it was issued, hence `Tested`; the candidate
has all of the base's artifacts; if it is eligible, the candidate is verified. A review
that approves (`SectionOK`): its candidate is approved. A mistake may put a record in the wrong place
or beside a stray edit, but cannot forge one. `validate_published` then reads off git that
receipt, review and artifact are of this candidate and that nothing but them is between the
candidate and the commit pushed (`ChainChecked`), which is `PublishedAsVerifiedAndApproved`; what
migrates is in the base, which is `Tested`, or in the diff, for which the artifact must hold
a passed matrix: `EveryMigrationWasTested`. Neither property is inductive: they say nothing of
commits still on their branches, of which any may be the next to be pushed.

A candidate may drop code, so of what its base has only the artifacts filed there are still in it
(`Keeps`), and `MigrationsWereTested` needs no more: the matrix that a migration went through
is in one of them. That they are is where ancestors matter (`Descends`): above main's
tip, a slice's candidate, receipt and head have main's artifacts. A push moves main, so `Unpushed`
says that nobody has built on the commit it moves to: the new main is below no branch. git's
reachability is a recursive function, of which no induction is available; `Below`, which
holds of more pairs than `Ancestor` could (`AncestorsAreBelow`, by the least number of
steps that reaches outside a closed set), replaces it.

`LiveProofProofs` (from `UrlAssumption`, `NoneAssumption`, `CandidateAssumption` and
`NameAssumption`), for any number of invocations of `verify.py` and of the live proof, any
URLs, faults and kills; the theorems are of `ProofSpec`, both programs side by side:

* `LiveProofInvariant`: `ProofSpec => []IInv`.
* `OtherDatabasesUnchanged`, `PassIsSound`, `EvidenceIsAlone`: from it.

`PassIsSound` is of `PassMeansSoundWithoutRivals`: that the history runs from nothing for any candidates, and
the rest of a PASS where no two of them have different versions of one migration. That condition is
part of what is stated, not an assumption: the other theorems, and the run, have rivals too.

The argument. Two kinds of database. The shared test database changes at any time, so of it
`IInv` only says what every step of every invocation keeps. Without rivals it is `Plain`
(`OneHistory`): some candidate's migrations up to one of them, nothing mixed, and a residue only of
migrations that have been reverted. For then two histories that share a revision agree up to it (`Agree`), so a
command always finds what its own scripts have made (`NothingSurprises`) and leaves the same
(`UpgradeFacts`, `DowngradeFacts`, `CheckFacts`). `Learned` is what each stage has shown of the candidate, and
`RoundTrip` what it still expects of the shared database: a migration whose downgrade fails stays
applied, and where one has left a residue, the residue stays or it is applied (`Survives`), so
a failing downgrade is met at `downgrade_one` and a residue at the second upgrade, whoever has been there
meanwhile. `OneHistory` is needed because neither survives a rival's script. The other kind
is a database of one's own: `Provisioned` and `Gone` say when the name an invocation made
can exist (`ProofOK` for a proof), and since no other names it, no other's step
matters to it (`Kept`, `OneDatabase`). `PendingIsNew` is why a CREATE that takes effect late
harms nothing that was there.

`NormalizationProofs` (from `PartsAssumption`: a part is a text of at least one token), for
vocabularies of any size and parts of any length and number:

* `HoldingKept`: `NormalizationSpec => []Holding`.
* `TierFound`, `OfficeAttendance`, `NegatedNotClaimed`: `TierFoundIffStated`,
  `OfficeAttendanceBlocks` and `NegatedNeverClaimed`, from it.

The argument. `Holding` says that the answer kept is the classifier's of the whole posting,
so that what remains is to say of one sentence what the classifier makes of it. `SentenceRead`
does so for a tier: no phrase begins as a lead-in does, hence what is stated can be
read in one way, and the longest lead-in is the one of that reading. `AttendanceSaid` does it
for the attendance phrase: without a context word nothing is masked (`NothingHidden`), without a cue
nothing is suppressed (`NothingSpreads`), so the candidate is left. Positions are put in order
by `Ascending`, whose `k`-th is the one with `k` positions up to it (`AscendingMeans`).

`NegatedNotClaimed` has three parts. For schedules and for arrangements (`ScheduleDenied`,
`ArrangementDenied`) every mention of a label is a candidate (`ScheduleCandidates`,
`ArrangementCandidates`); one directly behind a cue is the nearest to it, hence suppressed
(`DenialAhead`, `DenialNext`); and one a conjunction joins to a suppressed one is suppressed
by the spreading (`ScheduleSpreads`, `ArrangementSpreads`). The spreading is a recursion over
numbers, and `Recursion` says that such a function is there: of the numbers up to which it
were not, one would be the least (`LeastBelow`), which does without an induction theorem. For
years (`YearsDenied`) a title without hyphens is cut nowhere (`SegmentsUncut`), redacting puts no number where there was none
(`RedactedMeans`), a segment without a number has no phrase (`NoNumberNoPhrases`, as every
production has a bound in it, `ProductionsBound`), and one with a number is qualified: its own
qualifier survives the redaction, and the segment next to it but for blank ones is its
neighbour (`AscendingNext`).

What the assumptions leave out. `CandidateAssumption` only says what a candidate is: a history
that is not empty and has no revision twice. `NameAssumption` is that a `uuid4` is new. The
others say that URLs and NULL are not confused with other values.

Before they were proved, the inductive invariants of the orchestrator, the pipeline, the
coordinators, the release and the live proof were checked by TLC on the instances of the runs that check
their properties; `identity` still has `IInv`.

Only model-checked:

* `SalaryNeverMisread` and `EvidenceNeverFlips`: they depend on what the folds over a whole text
  compute from its figures and phrases in every order, which was not proved.
* `EveryCallEnds` and all liveness: TLAPS has no support for ENABLED under fairness here.

## 5. Plan

The remaining parsers (location, skills, titles) against references.

## 6. Not modelled, and why

* Descriptive columns of a Job, wording of errors, logging, hashes of payloads, run
  timestamps and durations: no property is about them.
* The adapters' network calls, migrations as DDL, the HTTP application: input and output
  without decisions the models could check; what the schema's CHECKs and indexes refuse is in the
  modules that write the tables.
* Location, skills, titles, company names and sources of `app/normalization`: string matching over large
  tables. `normalize_url` is a constant of `IdentityResolution`, any function.
* Of review: who reviews and with which model, and the launcher of a detached checkout. Of the
  live proof: its assertions on what was ingested and the provider that replays it.
* Evaluation corpora and probes: they fetch, freeze and count files once, by hand.

`PROJECT.json` lists every part with its status.
