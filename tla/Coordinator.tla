------------------------------ MODULE Coordinator ------------------------------
(***************************************************************************)
(* The two verification coordinators, run by any number of processes over  *)
(* one checkout: each sweeps the run directories that dead processes left, *)
(* makes and locks one of its own, verifies a commit in a worktree inside  *)
(* it, cleans up, and only then writes a receipt or a post-merge artifact. *)
(*                                                                         *)
(* A step is one effect on what the processes share: the directories, the  *)
(* locks on the files in them, git's list of worktrees, the records.  The  *)
(* authority of the base, the checkout and every git or file operation may *)
(* fail at any time.  File locks are POSIX ones: a lock belongs to an open *)
(* file and is gone from the directory once the file is removed.           *)
(***************************************************************************)
EXTENDS Verification

CONSTANTS
    Calls,     \* calls of either coordinator; each has a directory of its own
    Requests,  \* what they may be asked for
    Asked,     \* [Calls -> Requests] that are asked for together
    Runs       \* [Requests -> JSONs that verify.py may leave for them]

ASSUME RequestAssumption ==
    /\ None \notin Calls
    /\ Asked \subseteq [Calls -> Requests]
    /\ \A r \in Requests : ValidRequest(r) /\ Runs[r] \subseteq Outputs(r)

VARIABLES
    dirs,       \* [Calls -> run directory (EmptyDir and what is put in it) or None]
    owner,      \* [Calls -> the process that holds the lock file in that directory]
    registered, \* worktrees git knows of, by the call that added them
    calls,      \* [Calls -> a call's own variables, as in NewCall]
    records     \* [Calls -> the receipt or artifact it wrote, or None]

vars == <<dirs, owner, registered, calls, records>>

Contents == {"clean", "dirty"}

Ended == {"returned", "refused", "rejected", "crashed"}

NewCall(r) ==
    [pc |-> "start", request |-> r, sweep |-> {}, visiting |-> None, unlinked |-> FALSE,
     worktree |-> FALSE, initial |-> None, final |-> None, steps |-> None,
     cleanup_ok |-> TRUE, raised |-> FALSE]

EmptyDir == [lock_file |-> FALSE, worktree |-> None, steps |-> FALSE]

Init ==
    /\ dirs = [d \in Calls |-> None]
    /\ owner = [d \in Calls |-> None]
    /\ registered = {}
    /\ \E asked \in Asked : calls = [c \in Calls |-> NewCall(asked[c])]
    /\ records = [c \in Calls |-> None]

-----------------------------------------------------------------------------
At(c, pc) == calls[c].pc = pc

\* A call with some of its variables changed.
Changed(call, changes) ==
    [v \in DOMAIN call |-> IF v \in DOMAIN changes THEN changes[v] ELSE call[v]]

Update(c, changes) == calls' = [calls EXCEPT ![c] = Changed(@, changes)]

Goto(c, pc) == Update(c, [pc |-> pc])

\* A call that is over keeps nothing but what it was given and, if that is why it
\* is over, the JSON that was rejected.
Over(c, pc) ==
    [NewCall(calls[c].request) EXCEPT
       !.pc = pc, !.steps = IF pc = "rejected" THEN calls[c].steps ELSE None]

End(c, pc) == Update(c, Over(c, pc))

\* mkdir(parents=True, exist_ok=True), for a path inside directory d.
Made(d) == IF dirs[d] = None THEN EmptyDir ELSE dirs[d]

\* What is left of directory d when rmtree fails: any part of it may be gone.
PartlyRemoved(d) ==
    {dir \in [lock_file : {FALSE, dirs[d].lock_file}, worktree : {None, dirs[d].worktree},
              steps : {FALSE, dirs[d].steps}] : TRUE}

\* rmtree of d by call c, with what its caller makes of the outcome.
Rmtree(c, d, ok, changes) ==
    /\ IF ok THEN dirs' = [dirs EXCEPT ![d] = None]
             ELSE \E rest \in PartlyRemoved(d) : dirs' = [dirs EXCEPT ![d] = rest]
    /\ LET gone == ok \/ ~dirs'[d].lock_file
       IN  /\ owner' = IF gone THEN [owner EXCEPT ![d] = None] ELSE owner
           /\ calls' = [calls EXCEPT ![c] = Changed(@, changes),
                                     ![d].unlinked = IF c # d /\ gone THEN TRUE ELSE @]

-----------------------------------------------------------------------------
(***************************************************************************)
(* cleanup_stale_coordinator_dirs                                          *)
(***************************************************************************)
SameKind(c, d) == calls[c].request.kind = calls[d].request.kind

StartSweep(c) ==
    /\ At(c, "start")
    /\ Update(c, [pc |-> "sweep", sweep |-> {d \in Calls : dirs[d] # None /\ SameKind(c, d)}])
    /\ UNCHANGED <<dirs, owner, registered, records>>

Swept == [pc |-> "sweep", visiting |-> None]

\* A directory without a lock file is left alone.
SweepCheck(c, d) ==
    /\ At(c, "sweep") /\ d \in calls[c].sweep
    /\ LET found == dirs[d] # None /\ dirs[d].lock_file
       IN  Update(c, [sweep |-> calls[c].sweep \ {d},
                      pc |-> IF found THEN "sweep_acquire" ELSE "sweep",
                      visiting |-> IF found THEN d ELSE None])
    /\ UNCHANGED <<dirs, owner, registered, records>>

\* Opening the lock file makes whatever of it is no longer there.
SweepAcquire(c) ==
    LET d == calls[c].visiting
    IN  /\ At(c, "sweep_acquire")
        /\ dirs' = [dirs EXCEPT ![d] = [Made(d) EXCEPT !.lock_file = TRUE]]
        /\ IF owner[d] = None
           THEN owner' = [owner EXCEPT ![d] = c] /\ Goto(c, "sweep_release")
           ELSE Update(c, Swept) /\ UNCHANGED owner
        /\ UNCHANGED <<registered, records>>

\* The lock is given back before the directory is removed.
SweepRelease(c) ==
    /\ At(c, "sweep_release")
    /\ owner' = [owner EXCEPT ![calls[c].visiting] = IF @ = c THEN None ELSE @]
    /\ Goto(c, "sweep_remove")
    /\ UNCHANGED <<dirs, registered, records>>

\* A removal that fails is passed over.
SweepRemove(c, ok) ==
    LET d == calls[c].visiting
    IN  /\ At(c, "sweep_remove")
        /\ IF dirs[d] = None THEN Update(c, Swept) /\ UNCHANGED <<dirs, owner>>
           ELSE Rmtree(c, d, ok, Swept)
        /\ UNCHANGED <<registered, records>>

SweepDone(c) ==
    /\ At(c, "sweep") /\ calls[c].sweep = {}
    /\ Goto(c, "authorise")
    /\ UNCHANGED <<dirs, owner, registered, records>>

-----------------------------------------------------------------------------
\* Mutant: the gate a diff forces is not enforced.
MayVerifyAnyGate(r) == r \in Requests

\* Stages 1 to 5: a diff that forces the final gate has no other.
MayVerify(r) == r.kind = "receipt" /\ forces_final_gate(r.paths) => r.gate = "final"

Authorise(c, ok) ==
    /\ At(c, "authorise")
    /\ IF ok /\ MayVerify(calls[c].request) THEN Goto(c, "mkdtemp") ELSE End(c, "refused")
    /\ UNCHANGED <<dirs, owner, registered, records>>

Mkdtemp(c) ==
    /\ At(c, "mkdtemp")
    /\ dirs' = [dirs EXCEPT ![c] = EmptyDir]
    /\ Goto(c, "open_lock")
    /\ UNCHANGED <<owner, registered, records>>

\* try_acquire_exclusive_lock: the file is there before it is locked.
OpenLock(c) ==
    /\ At(c, "open_lock")
    /\ dirs' = [dirs EXCEPT ![c] = [Made(c) EXCEPT !.lock_file = TRUE]]
    /\ Goto(c, "acquire")
    /\ UNCHANGED <<owner, registered, records>>

AcquireLock(c) ==
    /\ At(c, "acquire")
    /\ IF calls[c].unlinked \/ owner[c] = None
       THEN /\ owner' = IF calls[c].unlinked THEN owner ELSE [owner EXCEPT ![c] = c]
            /\ Goto(c, "add_worktree")
       ELSE End(c, "refused") /\ UNCHANGED owner
    /\ UNCHANGED <<dirs, registered, records>>

-----------------------------------------------------------------------------
(***************************************************************************)
(* The try block: whatever is raised in it, an unclean first snapshot or a *)
(* cancellation included, goes to its finally.                             *)
(***************************************************************************)
Trying == {"add_worktree", "initial", "verify", "final"}

Interrupt(c) ==
    /\ calls[c].pc \in Trying
    /\ Update(c, [pc |-> "remove_worktree", raised |-> TRUE, initial |-> None])
    /\ UNCHANGED <<dirs, owner, registered, records>>

\* git worktree add, which makes the directory again should it be gone; a call that
\* is interrupted before it has the path does not know of its worktree.
AddWorktree(c, contents) ==
    /\ At(c, "add_worktree")
    /\ dirs' = [dirs EXCEPT ![c] = [Made(c) EXCEPT !.worktree = contents]]
    /\ registered' = registered \cup {c}
    /\ \/ Update(c, [pc |-> "initial", worktree |-> TRUE])
       \/ Update(c, [pc |-> "remove_worktree", raised |-> TRUE])
    /\ UNCHANGED <<owner, records>>

HasWorktree(c) == dirs[c] # None /\ dirs[c].worktree # None

InitialSnapshot(c) ==
    /\ At(c, "initial") /\ HasWorktree(c)
    /\ dirs[c].worktree = "clean"
    /\ Update(c, [pc |-> "verify", initial |-> dirs[c].worktree])
    /\ UNCHANGED <<dirs, owner, registered, records>>

\* verify.py runs in the worktree, which it may dirty, and leaves its JSON or none:
\* which one is settled when it is read, since nothing looks at it before.
Verify(c) ==
    /\ At(c, "verify") /\ HasWorktree(c)
    /\ \E contents \in Contents, output \in BOOLEAN :
         /\ output => AcceptedArguments(calls[c].request)
         /\ dirs' = [dirs EXCEPT ![c].worktree = contents, ![c].steps = output]
    /\ Goto(c, "final")
    /\ UNCHANGED <<owner, registered, records>>

FinalSnapshot(c) ==
    /\ At(c, "final") /\ HasWorktree(c)
    /\ Update(c, [pc |-> "remove_worktree", final |-> dirs[c].worktree])
    /\ UNCHANGED <<dirs, owner, registered, records>>

\* git forgets a worktree whose directory is already gone, too.
RemoveWorktree(c, ok) ==
    /\ At(c, "remove_worktree")
    /\ IF calls[c].worktree /\ ok
       THEN /\ registered' = registered \ {c}
            /\ dirs' = IF dirs[c] = None THEN dirs ELSE [dirs EXCEPT ![c].worktree = None]
       ELSE UNCHANGED <<registered, dirs>>
    /\ Update(c, [pc |-> "read_steps", cleanup_ok |-> ok])
    /\ UNCHANGED <<owner, records>>

\* The JSON is read, if it can be, before the directory it is in goes away.
ReadSteps(c) ==
    /\ At(c, "read_steps")
    /\ \E output \in Runs[calls[c].request] \cup {None} :
         /\ output # None => ~calls[c].raised /\ dirs[c] # None /\ dirs[c].steps
         /\ Update(c, [pc |-> "release", steps |-> output])
    /\ UNCHANGED <<dirs, owner, registered, records>>

ReleaseLock(c) ==
    /\ At(c, "release")
    /\ owner' = [owner EXCEPT ![c] = IF @ = c THEN None ELSE @]
    /\ Goto(c, "remove_dir")
    /\ UNCHANGED <<dirs, registered, records>>

\* Mutant: what cleanup reported is not asked for.
CleanedUpAnyhow(c, ok) == ~calls[c].raised

\* What was raised goes on, and a cleanup that failed raises.
CleanedUp(c, ok) == ~calls[c].raised /\ calls[c].cleanup_ok /\ ok

RemoveDir(c, ok) ==
    LET after == IF CleanedUp(c, ok) THEN [pc |-> "conclude"] ELSE Over(c, "refused")
    IN  /\ At(c, "remove_dir")
        /\ IF dirs[c] = None THEN ok /\ Update(c, after) /\ UNCHANGED <<dirs, owner>>
           ELSE Rmtree(c, c, ok, after)
        /\ UNCHANGED <<registered, records>>

-----------------------------------------------------------------------------
\* What a run must have been for a record of it to be built at all.
Sound(c) ==
    /\ calls[c].steps # None
    /\ calls[c].initial = calls[c].final
    /\ calls[c].request.kind = "post_merge" => all_passed(calls[c].steps)

Recordable(c) == IF calls[c].request.kind = "receipt"
                 THEN validate_receipt_schema(calls[c].steps)
                 ELSE validate_post_merge_artifact(calls[c].steps)

\* The checkout is looked at again; then the record is built, validated and
\* linked to its name, which is new.
Conclude(c, unchanged) ==
    LET call == calls[c]
    IN  /\ At(c, "conclude")
        /\ IF ~(unchanged /\ Sound(c)) THEN End(c, "refused") /\ UNCHANGED records
           ELSE IF ~Recordable(c) THEN End(c, "rejected") /\ UNCHANGED records
           ELSE /\ records' = [records EXCEPT ![c] =
                     [steps |-> call.steps, initial |-> call.initial, final |-> call.final,
                      approval_eligible |->
                        \/ call.request.kind = "post_merge"
                        \/ compute_approval_eligible(call.request.gate, call.steps,
                                                     call.initial, call.final)]]
                /\ End(c, "returned")
        /\ UNCHANGED <<dirs, owner, registered>>

\* A process that dies lets go of its locks and of nothing else.
Crash(c) ==
    /\ calls[c].pc \notin Ended
    /\ owner' = [d \in Calls |-> IF owner[d] = c THEN None ELSE owner[d]]
    /\ End(c, "crashed")
    /\ UNCHANGED <<dirs, registered, records>>

Next ==
    \E c \in Calls :
      \/ StartSweep(c) \/ SweepAcquire(c) \/ SweepRelease(c) \/ SweepDone(c)
      \/ Mkdtemp(c) \/ OpenLock(c) \/ AcquireLock(c) \/ Interrupt(c)
      \/ InitialSnapshot(c) \/ FinalSnapshot(c) \/ ReleaseLock(c) \/ Crash(c)
      \/ \E d \in Calls : SweepCheck(c, d)
      \/ \E ok \in BOOLEAN :
           \/ SweepRemove(c, ok) \/ Authorise(c, ok) \/ RemoveWorktree(c, ok)
           \/ RemoveDir(c, ok) \/ Conclude(c, ok)
      \/ Verify(c) \/ ReadSteps(c) \/ \E contents \in Contents : AddWorktree(c, contents)

Spec == Init /\ [][Next]_vars

-----------------------------------------------------------------------------
\* A receipt or an artifact stands for a run of its own that nothing disturbed,
\* not even a sweep that took its directory for a dead one's: the worktree was
\* clean before and after, git has forgotten it, and it is gone from the disk.
RecordsAreIsolated ==
    \A c \in Calls : records[c] # None =>
      /\ records[c].initial = "clean" /\ records[c].final = "clean"
      /\ c \notin registered
      /\ dirs[c] = None \/ dirs[c].worktree = None

\* What may be approved was verified as its diff demands: every step passed, a
\* final record with a counted suite and all witnesses, and a diff that touches
\* the schema with the migration matrix, whatever gate was asked for.
EligibleMeansVerified ==
    \A c \in Calls : records[c] # None /\ records[c].approval_eligible =>
      LET r == calls[c].request
          data == records[c].steps
      IN  /\ all_passed(data)
          /\ ToSet(build_steps(r)) \subseteq DOMAIN data.steps
          /\ migration_required(r.paths) =>
               "migration matrix" \in data.ran \cap data.complete
          /\ forces_final_gate(r.paths) \/ r.gate = "final" =>
               {"full pytest suite", "contract mutation witnesses"} \subseteq
                 data.ran \cap data.complete
=============================================================================
