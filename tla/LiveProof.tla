------------------------------- MODULE LiveProof -------------------------------
(***************************************************************************)
(* scripts/live_proof_greenhouse_ingestion.py beside the invocations of    *)
(* verify.py: it too makes a database of its own, on the development       *)
(* database's server, migrates it, runs the pipeline on it twice and drops *)
(* it.  What it fetches and stores there is left to the other modules:     *)
(* here a step passes or it does not.                                      *)
(***************************************************************************)
EXTENDS MigrationMatrix

CONSTANT Proofs    \* invocations of the proof

\* A proof names its database with a new uuid4: no configured one has that name.
ASSUME NameAssumption ==
    /\ Runs \cap Proofs = {}
    /\ \A p \in Proofs : DefaultTestUrl.name # [fresh |-> p, test |-> TRUE]
    /\ \A p \in Proofs, s \in Settings :
          s.test # None => s.test.name # [fresh |-> p, test |-> TRUE]

VARIABLE proof     \* [Proofs -> the invocation's state]

proofVars == <<vars, proof>>

ProofUrl(p) == [settings.development EXCEPT !.name = [fresh |-> p, test |-> TRUE]]
ProofDatabase(p) == Reached(ProofUrl(p))

NewProof == [pc |-> "new", all_passed |-> TRUE, summary |-> None]

ProofInit ==
    /\ Init
    /\ proof = [p \in Proofs |-> NewProof]

AtProof(p, pc) == proof[p].pc = pc
SetProof(p, changes) == proof' = [proof EXCEPT ![p] = Changed(@, changes)]

\* Later steps are not run; the cleanup is.
Failed == [pc |-> "drop", all_passed |-> FALSE]

\* A target that is refused is never connected to, not even for the cleanup.
safety_guard(p) ==
    /\ AtProof(p, "new") /\ p \in settings.started
    /\ \/ /\ assert_safe_for_local_destructive_lifecycle(ProofUrl(p), settings.development,
                                                         settings.app_env)
          /\ SetProof(p, [pc |-> "create"])
       \/ /\ ~assert_safe_for_local_destructive_lifecycle(ProofUrl(p), settings.development,
                                                          settings.app_env)
          /\ SetProof(p, [pc |-> "summary", all_passed |-> FALSE])
    /\ UNCHANGED vars

_create_database(p) ==
    LET db == ProofDatabase(p)
    IN /\ AtProof(p, "create")
       /\ \/ /\ databases' = With(db)
             /\ \/ SetProof(p, [pc |-> "migrate"]) /\ UNCHANGED faults
                \/ Fault /\ SetProof(p, Failed)
             /\ UNCHANGED pending
          \/ /\ Fault /\ SetProof(p, Failed)
             /\ pending' \in {pending, pending \cup {db}}
             /\ UNCHANGED databases
       /\ UNCHANGED <<candidate, settings, original, run_dirs, run>>

_run_alembic_upgrade(p) ==
    LET db == ProofDatabase(p)
    IN /\ AtProof(p, "migrate")
       /\ \/ /\ \E result \in Results("upgrade", candidate[p], databases[db]) :
                   databases' = [databases EXCEPT ![db] = result]
             /\ SetProof(p, [pc |-> "ingest"])
          \/ SetProof(p, Failed) /\ UNCHANGED databases
       /\ UNCHANGED <<candidate, settings, original, pending, run_dirs, run, faults>>

\* Reachability, the one request and the pipeline's two runs.
_run_two_pipeline_passes(p) ==
    /\ AtProof(p, "ingest")
    /\ \/ SetProof(p, [pc |-> "drop"])
       \/ SetProof(p, Failed)
    /\ UNCHANGED vars

_drop_database_if_exists(p) ==
    /\ AtProof(p, "drop")
    /\ \/ /\ databases' = [db \in DOMAIN databases \ {ProofDatabase(p)} |-> databases[db]]
          /\ SetProof(p, [pc |-> "leak check"]) /\ UNCHANGED faults
       \/ /\ Fault /\ UNCHANGED databases
          /\ SetProof(p, [pc |-> "leak check", all_passed |-> FALSE])
    /\ UNCHANGED <<candidate, settings, original, pending, run_dirs, run>>

\* Whatever the drop did.
leak_check(p) ==
    /\ AtProof(p, "leak check")
    /\ \/ SetProof(p, [pc |-> "summary", all_passed |-> /\ proof[p].all_passed
                                              /\ ProofDatabase(p) \notin DOMAIN databases])
          /\ UNCHANGED faults
       \/ Fault /\ SetProof(p, [pc |-> "summary", all_passed |-> FALSE])
    /\ UNCHANGED <<candidate, settings, databases, original, pending, run_dirs, run>>

_print_summary(p) ==
    /\ AtProof(p, "summary")
    /\ SetProof(p, [pc |-> "over", summary |-> IF proof[p].all_passed THEN "PASS" ELSE "FAIL"])
    /\ UNCHANGED vars

KillProof(p) ==
    /\ proof[p].pc \notin {"new", "over", "killed"}
    /\ Fault
    /\ SetProof(p, [pc |-> "killed"])
    /\ UNCHANGED <<candidate, settings, databases, original, pending, run_dirs, run>>

ProofStep(p) ==
    \/ safety_guard(p) \/ _create_database(p) \/ _run_alembic_upgrade(p)
    \/ _run_two_pipeline_passes(p)
    \/ _drop_database_if_exists(p) \/ leak_check(p) \/ _print_summary(p)
    \/ KillProof(p)

ProofNext ==
    \/ Next /\ UNCHANGED proof
    \/ \E p \in Proofs : ProofStep(p)

ProofSpec == ProofInit /\ [][ProofNext]_proofVars

-----------------------------------------------------------------------------
\* Evidence is only ever left by an invocation that has left nothing else: neither
\* its own database, present or still to come, nor, if all passed, its directory.
\* So every leak shows as a run without a JSON or a proof without a PASS
\* (migration_matrix.py:298-327, verify.py:908-921,
\* live_proof_greenhouse_ingestion.py:54-56, 711-748).
EvidenceLeavesNothingBehind ==
    LET there == DOMAIN databases \cup pending
    IN /\ \A r \in Runs : run[r].json # None =>
             /\ Fresh(r) \in there => Fresh(r) \in DOMAIN original
             /\ run[r].json.all_passed => r \notin run_dirs
             /\ run[r].json.matrix = "PASS" => run[r].json.fresh_database_cleaned_up
       /\ \A p \in Proofs : proof[p].summary = "PASS" => ProofDatabase(p) \notin there
=============================================================================
