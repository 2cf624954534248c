---------------------------- MODULE MigrationMatrix ----------------------------
(***************************************************************************)
(* Invocations of verify.py for candidates that change the schema: the     *)
(* other steps in short, and scripts/migration_matrix.py in full, with the *)
(* guards of scripts/db_safety.py.                                         *)
(*                                                                         *)
(* All invocations share the databases: the development database, which a  *)
(* developer may migrate meanwhile, the one existing test database, and a  *)
(* fresh one for each.  Every query and every Alembic subprocess is a step *)
(* and may fail without effect; CREATE DATABASE may also take effect       *)
(* without an answer, at once or later.  A process may be killed.          *)
(*                                                                         *)
(* A URL is its host and its database name; a name is lower case and says  *)
(* whether it contains "test".  Credentials, driver and port are left out. *)
(***************************************************************************)
EXTENDS Naturals, Sequences, FiniteSets, SequencesExt, TLC

CONSTANTS
    Runs,            \* the invocations
    Candidates,      \* what may be checked out where, [processes -> [history, defects]]
                     \* of migrations, [revision, version, defects]
    Settings,        \* configurations, [development, test, app_env, and who is started]
    DefaultTestUrl,
    MaxFaults,       \* bound on failures, kills and the developer's migrations
    None

ASSUME UrlAssumption ==
    /\ DOMAIN DefaultTestUrl = {"host", "name"} /\ DefaultTestUrl.name.test
    /\ \A s \in Settings : DOMAIN s.development = {"host", "name"}

ASSUME NoneAssumption == None \notin {"other", "MigrationMatrixError", "PASS"}

VARIABLES
    candidate, settings,
    databases,       \* [databases there are -> [applied, residue, mixed]]
    original,        \* what the databases were, but for the developer's changes
    pending,         \* databases the server is still creating
    run_dirs,
    run,             \* [Runs -> the invocation's state]
    faults

vars == <<candidate, settings, databases, original, pending, run_dirs, run, faults>>

-----------------------------------------------------------------------------
(***************************************************************************)
(* Databases and Alembic.                                                  *)
(***************************************************************************)
LocalHosts == {"localhost", "127.0.0.1", "::1"}

\* Several spellings reach one server.
Reached(url) == [server |-> IF url.host \in LocalHosts THEN "local" ELSE url.host,
                 name |-> url.name]

\* A database is at the last of the migrations applied.  Of those in residue something
\* was left behind when they were reverted.  It is mixed when it is no longer what the
\* migrations of any one history make of it.
Empty == [applied |-> <<>>, residue |-> {}, mixed |-> FALSE]

Newest(c) == Last(c.history)

\* Of a migration: the "upgrade" or the "downgrade" always fails, or the downgrade leaves
\* a "residue" on which the upgrade fails.  Of a candidate: its history no longer runs
\* from nothing ("base"), or its models disagree with it.
MigrationDefects == {"upgrade", "downgrade", "residue"}
CandidateDefects == {"base", "models"}

\* A history has one migration of a revision; two candidates may have two versions of it.
ASSUME CandidateAssumption ==
    \A cs \in Candidates, r \in Runs :
        LET c == cs[r]
        IN  /\ c.history \in Seq(ToSet(c.history)) \ {<<>>}
            /\ \A i, j \in DOMAIN c.history :
                  c.history[i].revision = c.history[j].revision => i = j
            /\ \A m \in ToSet(c.history) : m.defects \subseteq MigrationDefects
            /\ c.defects \subseteq CandidateDefects

\* Where the candidate's scripts find a database, by its revision; a revision that they
\* do not have cannot be located.
Standing(c, content) ==
    {k \in 0..Len(c.history) :
        IF k = 0 THEN content.applied = <<>>
        ELSE /\ content.applied # <<>>
             /\ Last(content.applied).revision = c.history[k].revision}

\* What others' versions of the candidate's migrations have made of the database: the
\* scripts were not written for it.  An upgrade at the head runs none.
Surprises(command, c, content, k) ==
    /\ command = "upgrade" => k < Len(c.history)
    /\ \/ content.mixed
       \/ content.applied # SubSeq(c.history, 1, k)
       \/ \E m \in content.residue, n \in ToSet(c.history) :
             m.revision = n.revision /\ m # n

\* There is a migration to revert, or a head to check; no script to be run is one that
\* fails.
Applies(command, c, k) ==
    CASE command = "upgrade" ->
           /\ k = 0 => "base" \notin c.defects
           /\ \A i \in k + 1..Len(c.history) : "upgrade" \notin c.history[i].defects
      [] command = "downgrade" -> k > 0 /\ "downgrade" \notin c.history[k].defects
      [] command = "check" -> k = Len(c.history)

Obstructed(command, c, content, k) ==
    \/ /\ command = "upgrade"
       /\ \E i \in k + 1..Len(c.history) : c.history[i] \in content.residue
    \/ command = "check" /\ "models" \in c.defects

Result(command, c, content, k) ==
    LET mixed == content.mixed \/ Surprises(command, c, content, k)
    IN  CASE command = "upgrade" /\ k < Len(c.history) ->
               [content EXCEPT !.applied = c.history, !.mixed = mixed]
          [] command = "downgrade" ->
               [applied |-> SubSeq(c.history, 1, k - 1), mixed |-> mixed,
                residue |-> content.residue \cup
                    IF "residue" \in c.history[k].defects THEN {c.history[k]} ELSE {}]
          [] OTHER -> content

\* What a command may make of a database, and whether it may fail on it.
Results(command, c, content) ==
    {Result(command, c, content, k) : k \in
        {k \in Standing(c, content) :
            /\ Applies(command, c, k)
            /\ Obstructed(command, c, content, k) => Surprises(command, c, content, k)}}

MayFail(command, c, content) ==
    \A k \in Standing(c, content) : Applies(command, c, k) =>
        Obstructed(command, c, content, k) \/ Surprises(command, c, content, k)

-----------------------------------------------------------------------------
(***************************************************************************)
(* db_safety.                                                              *)
(***************************************************************************)
\* Mutant: the guard's first version, which took another host for another server.
DisposableElsewhere(test_url, development_url) ==
    test_url # development_url /\ test_url.name.test

assert_is_disposable_test_database(test_url, development_url) ==
    test_url.name # development_url.name /\ test_url.name.test

assert_safe_for_local_destructive_lifecycle(url, development_url, app_env) ==
    /\ assert_is_disposable_test_database(url, development_url)
    /\ app_env # "production"
    /\ url.host \in LocalHosts

TestTarget == IF settings.test = None THEN DefaultTestUrl ELSE settings.test

\* The fresh database is made where the default test database is.
FreshUrl(r) == [DefaultTestUrl EXCEPT !.name = [fresh |-> r, test |-> TRUE]]

Existing == Reached(TestTarget)
Development == Reached(settings.development)
Fresh(r) == Reached(FreshUrl(r))

-----------------------------------------------------------------------------
NewRun == [pc |-> "new", error |-> None, dev_before |-> None,
           created_by_this_run |-> FALSE, present_after |-> FALSE, cleaned_up |-> FALSE,
           matrix |-> "NOT RUN", all_passed |-> TRUE, json |-> None]

Init ==
    /\ candidate \in Candidates
    /\ settings \in Settings
    /\ \E r \in Runs : \E taken \in {{}, {r}} :
          databases = [db \in {Development, Existing} \cup {Fresh(t) : t \in taken} |->
                          [Empty EXCEPT !.applied = Front(candidate[r].history)]]
    /\ original = databases
    /\ pending = {}
    /\ run_dirs = {}
    /\ run = [r \in Runs |-> NewRun]
    /\ faults = 0

At(r, pc) == run[r].pc = pc

\* A state of an invocation with some of its fields changed.
Changed(state, changes) ==
    [f \in DOMAIN state |-> IF f \in DOMAIN changes THEN changes[f] ELSE state[f]]

Set(r, changes) == run' = [run EXCEPT ![r] = Changed(@, changes)]
Fault == faults < MaxFaults /\ faults' = faults + 1

\* An exception leaves the matrix; only a MigrationMatrixError is a step's failure,
\* any other goes through main.  Either way the run's directory is removed.
Raised(error) ==
    [pc |-> "cleanup", error |-> IF error = "MigrationMatrixError" THEN None ELSE error,
     matrix |-> "FAIL", all_passed |-> FALSE]

\* A step that changes no database: at pc, on to next unless it is refused or fails.
Ask(r, pc, fine, next, refusal, failure) ==
    /\ At(r, pc)
    /\ \/ fine /\ Set(r, next) /\ UNCHANGED faults
       \/ ~fine /\ Set(r, Raised(refusal)) /\ UNCHANGED faults
       \/ Fault /\ Set(r, Raised(failure))
    /\ UNCHANGED <<candidate, settings, databases, original, pending, run_dirs>>

-----------------------------------------------------------------------------
(***************************************************************************)
(* The invocation around the matrix.                                       *)
(***************************************************************************)
create_run_dir(r) ==
    /\ At(r, "new") /\ r \in settings.started
    /\ run_dirs' = run_dirs \cup {r}
    /\ Set(r, [pc |-> "earlier steps"])
    /\ UNCHANGED <<candidate, settings, databases, original, pending, faults>>

\* Static checks, URL validation, reachability, the suites: a failure blocks the rest.
EarlierSteps(r) ==
    /\ At(r, "earlier steps")
    /\ \/ /\ assert_is_disposable_test_database(TestTarget, settings.development)
          /\ Set(r, [pc |-> "version"])
       \/ Set(r, [pc |-> "cleanup", all_passed |-> FALSE])
    /\ UNCHANGED <<candidate, settings, databases, original, pending, run_dirs, faults>>

HandoffStep(r) ==
    /\ At(r, "later steps")
    /\ \E passed \in BOOLEAN : Set(r, [pc |-> "cleanup", all_passed |-> passed])
    /\ UNCHANGED <<candidate, settings, databases, original, pending, run_dirs, faults>>

\* Tried whatever happened before; an exception on its way goes on.
cleanup_run_dir_step(r) ==
    /\ At(r, "cleanup")
    /\ \/ run_dirs' = run_dirs \ {r} /\ UNCHANGED faults
          /\ Set(r, [pc |-> IF run[r].error = None THEN "report" ELSE "over"])
       \/ Fault /\ UNCHANGED run_dirs
          /\ Set(r, [pc |-> IF run[r].error = None THEN "report" ELSE "over",
                     all_passed |-> FALSE])
    /\ UNCHANGED <<candidate, settings, databases, original, pending>>

\* The JSON the coordinator reads; a traceback leaves none.
_write_step_json(r) ==
    /\ At(r, "report")
    /\ Set(r, [pc |-> "over",
               json |-> [matrix |-> run[r].matrix, all_passed |-> run[r].all_passed,
                         fresh_database_created |-> run[r].created_by_this_run,
                         fresh_database_cleaned_up |-> run[r].cleaned_up]])
    /\ UNCHANGED <<candidate, settings, databases, original, pending, run_dirs, faults>>

-----------------------------------------------------------------------------
(***************************************************************************)
(* run_full_matrix.                                                        *)
(***************************************************************************)
query_postgresql_server_version(r) ==
    Ask(r, "version", TRUE, [pc |-> "before"], None, "other")

capture_before(r) ==
    Ask(r, "before", TRUE, [pc |-> "upgrade", dev_before |-> databases[Development]],
        None, "MigrationMatrixError")

\* One Alembic command against db: its transaction is all or nothing.
_run_alembic(r, pc, command, db, next, otherwise) ==
    /\ At(r, pc)
    /\ \/ /\ \E result \in Results(command, candidate[r], databases[db]) :
                databases' = [databases EXCEPT ![db] = result]
          /\ Set(r, next) /\ UNCHANGED faults
       \/ /\ MayFail(command, candidate[r], databases[db])
          /\ Set(r, otherwise) /\ UNCHANGED <<databases, faults>>
       \/ Fault /\ Set(r, otherwise) /\ UNCHANGED databases
    /\ UNCHANGED <<candidate, settings, original, pending, run_dirs>>

OnExisting(r, pc, command, next) ==
    _run_alembic(r, pc, command, Existing, [pc |-> next], Raised("MigrationMatrixError"))

\* The guard before it has passed among the earlier steps, on the same URLs.
upgrade_existing(r) == OnExisting(r, "upgrade", "upgrade", "downgrade")

\* Mutant: the round trip is an upgrade twice.
NoDowngrade(r) == OnExisting(r, "downgrade", "upgrade", "restore")

downgrade_one(r) == OnExisting(r, "downgrade", "downgrade", "restore")

upgrade_restored(r) == OnExisting(r, "restore", "upgrade", "check")

alembic_check(r) == OnExisting(r, "check", "check", "provision")

-----------------------------------------------------------------------------
(***************************************************************************)
(* The fresh database.                                                     *)
(***************************************************************************)
\* The guards, and the name is not taken.
provision_absent(r) ==
    IF ~assert_safe_for_local_destructive_lifecycle(FreshUrl(r), settings.development,
                                                   settings.app_env)
    THEN Ask(r, "provision", FALSE, run[r], "other", "other")
    ELSE Ask(r, "provision", Fresh(r) \notin DOMAIN databases, [pc |-> "create"],
             "MigrationMatrixError", "other")

\* The databases there are with one more, or again empty.
With(db) == [d \in {db} \cup DOMAIN databases |-> IF d = db THEN Empty ELSE databases[d]]

create_database(r) ==
    /\ At(r, "create")
    /\ \/ /\ databases' = With(Fresh(r))
          /\ \/ Set(r, [pc |-> "created", created_by_this_run |-> TRUE]) /\ UNCHANGED faults
             \/ Fault /\ Set(r, [pc |-> "unacknowledged"])
          /\ UNCHANGED pending
       \/ /\ Fault /\ Set(r, [pc |-> "unacknowledged"])
          /\ pending' \in {pending, pending \cup {Fresh(r)}}
          /\ UNCHANGED databases
    /\ UNCHANGED <<candidate, settings, original, run_dirs>>

ServerCreates(db) ==
    /\ databases' = With(db)
    /\ pending' = pending \ {db}
    /\ UNCHANGED <<candidate, settings, original, run_dirs, run, faults>>

\* After an exception: made after all, or the exception goes on.
reconcile_unacknowledged(r) ==
    Ask(r, "unacknowledged", Fresh(r) \in DOMAIN databases,
        [pc |-> "resolve", created_by_this_run |-> TRUE, present_after |-> TRUE],
        "other", "other")

reconcile_created(r) ==
    Ask(r, "created", TRUE,
        [pc |-> "resolve", present_after |-> Fresh(r) \in DOMAIN databases], None, "other")

\* SELECT current_database() of the target: fails, or is another database's name
\* (a proxy in between), and then the database is dropped before the exception.
query_current_database(r) ==
    /\ At(r, "resolve")
    /\ \/ Set(r, [pc |-> "fresh upgrade"]) /\ UNCHANGED faults
       \/ Fault /\ \E error \in {"other", "MigrationMatrixError"} :
              Set(r, [pc |-> "drop", error |-> error])
    /\ UNCHANGED <<candidate, settings, databases, original, pending, run_dirs>>

upgrade_fresh(r) ==
    _run_alembic(r, "fresh upgrade", "upgrade", Fresh(r), [pc |-> "drop"],
                 [pc |-> "drop", error |-> "MigrationMatrixError"])

\* Mutant: what goes wrong in the cleanup is suppressed.
CleanupSuppressed(r) ==
    /\ At(r, "drop")
    /\ \/ databases' = [db \in DOMAIN databases \ {Fresh(r)} |-> databases[db]]
          /\ UNCHANGED faults
       \/ Fault /\ UNCHANGED databases
    /\ Set(r, IF run[r].error = None THEN [pc |-> "after", cleaned_up |-> TRUE]
              ELSE Raised(run[r].error))
    /\ UNCHANGED <<candidate, settings, original, pending, run_dirs>>

\* In the finally, or before provision's exception; its own exception replaces it.
\* Only of a database that was absent, is seen and is this run's own; of any other it
\* does nothing.
cleanup_fresh_database(r) ==
    LET outcome == IF run[r].error = None THEN [pc |-> "after"] ELSE Raised(run[r].error)
    IN  /\ At(r, "drop")
        /\ IF run[r].created_by_this_run /\ run[r].present_after
           THEN \/ /\ databases' = [db \in DOMAIN databases \ {Fresh(r)} |-> databases[db]]
                   /\ run' = [run EXCEPT ![r] =
                                 Changed([@ EXCEPT !.cleaned_up = TRUE], outcome)]
                   /\ UNCHANGED faults
                \/ Fault /\ Set(r, Raised("other")) /\ UNCHANGED databases
           ELSE Set(r, outcome) /\ UNCHANGED <<databases, faults>>
        /\ UNCHANGED <<candidate, settings, original, pending, run_dirs>>

capture_after(r) ==
    Ask(r, "after", databases[Development] = run[r].dev_before,
        [pc |-> "later steps", matrix |-> "PASS"],
        "MigrationMatrixError", "MigrationMatrixError")

-----------------------------------------------------------------------------
\* A developer moves the development database to a candidate's schema.
DeveloperMigrates ==
    /\ Fault
    /\ \E r \in Runs :
          /\ databases[Development].applied # candidate[r].history
          /\ databases' = [databases EXCEPT ![Development].applied = candidate[r].history]
          /\ original' = [original EXCEPT ![Development] = databases'[Development]]
    /\ UNCHANGED <<candidate, settings, pending, run_dirs, run>>

Kill(r) ==
    /\ run[r].pc \notin {"new", "over", "killed"}
    /\ Fault
    /\ Set(r, [pc |-> "killed"])
    /\ UNCHANGED <<candidate, settings, databases, original, pending, run_dirs>>

RunStep(r) ==
    \/ create_run_dir(r) \/ EarlierSteps(r)
    \/ query_postgresql_server_version(r) \/ capture_before(r)
    \/ upgrade_existing(r) \/ downgrade_one(r) \/ upgrade_restored(r) \/ alembic_check(r)
    \/ provision_absent(r) \/ create_database(r)
    \/ reconcile_unacknowledged(r) \/ reconcile_created(r) \/ query_current_database(r)
    \/ upgrade_fresh(r) \/ cleanup_fresh_database(r) \/ capture_after(r)
    \/ HandoffStep(r) \/ cleanup_run_dir_step(r) \/ _write_step_json(r)
    \/ Kill(r)

Next == \/ \E r \in Runs : RunStep(r)
        \/ \E db \in pending : ServerCreates(db)
        \/ DeveloperMigrates

Spec == Init /\ [][Next]_vars

-----------------------------------------------------------------------------
\* Whatever the two URLs are, no verification drops a database that was there
\* before, or changes one that is not the test database (db_safety.py:36-66,
\* migration_matrix.py:1-13).
OnlyTheTestDatabaseChanges ==
    \A db \in DOMAIN original :
        /\ db \in DOMAIN databases
        /\ db # Existing \/ db = Development => databases[db] = original[db]

\* What is wrong with a candidate's newest migration, its history or its models.
Flaws(c) == c.defects \cup Newest(c).defects

\* Histories that share a revision have one version of it, with the same ones before it.
Agree(s, t) ==
    \A i \in DOMAIN s, j \in DOMAIN t :
        s[i].revision = t[j].revision => SubSeq(s, 1, i) = SubSeq(t, 1, j)

\* No two candidates have different versions of one migration.
NoRivals == \A r, q \in Runs : Agree(candidate[r].history, candidate[q].history)

\* A PASS of the matrix means that the candidate's newest migration can be applied,
\* reverted and applied again, that its history runs from nothing and that its
\* models agree with it (migration_matrix.py:360-368).
PassMeansSound ==
    \A r \in Runs : run[r].matrix = "PASS" => Flaws(candidate[r]) = {}

\* A PASS always means that the history, with its newest migration, runs from nothing,
\* and all of the above as long as no two candidates have different versions of one
\* migration: whatever invocations of the same candidate, of one built on it or of
\* others then do to the shared test database meanwhile (migration_matrix.py:374-400).
PassMeansSoundWithoutRivals ==
    \A r \in Runs : run[r].matrix = "PASS" =>
        /\ Flaws(candidate[r]) \cap {"base", "upgrade"} = {}
        /\ NoRivals => Flaws(candidate[r]) = {}
=============================================================================
