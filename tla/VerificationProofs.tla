-------------------------- MODULE VerificationProofs --------------------------
(***************************************************************************)
(* Proofs about what the repository requires of its own changes.  Of       *)
(* Coordinator, for any number of calls, any requests and any diffs: a     *)
(* receipt or a post-merge artifact stands for a run that was isolated,    *)
(* and what may be approved was verified as its diff demands.  Of Release, *)
(* for any slices, edits, gates and mistakes: what main holds was verified *)
(* and approved as it is, and each schema change in it went through the    *)
(* migration matrix.                                                       *)
(***************************************************************************)
EXTENDS Coordinator, Release, SequenceTheorems, FiniteSetTheorems,
        WellFoundedInduction, TLAPS

-----------------------------------------------------------------------------
(***************************************************************************)
(* The inductive invariant: what each stage of a call has established for  *)
(* the ones after it, whatever other calls do to its directory meanwhile.  *)
(***************************************************************************)
Sweeping == {"sweep_acquire", "sweep_release", "sweep_remove"}

CleaningUp == {"read_steps", "release", "remove_dir", "conclude"}

Authorised == {"mkdtemp", "open_lock", "acquire", "remove_worktree"} \cup Trying \cup CleaningUp

Results == UNION {Runs[r] : r \in Requests}

Call ==
    [pc : {"start", "sweep", "authorise"} \cup Sweeping \cup Authorised \cup Ended,
     request : Requests, sweep : SUBSET Calls, visiting : Calls \cup {None},
     unlinked : BOOLEAN, worktree : BOOLEAN, initial : Contents \cup {None},
     final : Contents \cup {None}, steps : Results \cup {None},
     cleanup_ok : BOOLEAN, raised : BOOLEAN]

Dir == [lock_file : BOOLEAN, worktree : Contents \cup {None}, steps : BOOLEAN]

CallsTypeOK ==
    /\ dirs \in [Calls -> Dir \cup {None}]
    /\ owner \in [Calls -> Calls \cup {None}]
    /\ registered \subseteq Calls
    /\ calls \in [Calls -> Call]
    /\ DOMAIN records = Calls /\ records = [c \in Calls |-> records[c]]

\* A call that looks into a directory of a dead process knows which one.
Visits(c) == calls[c].pc \in Sweeping => calls[c].visiting \in Calls

\* Nobody gets past the authorisation with a gate below what the diff forces.
Allowed(c) == calls[c].pc \in Authorised => MayVerify(calls[c].request)

\* The try block ends either raised or with its worktree known and found clean.
Snapshotted(c) ==
    /\ calls[c].pc \in {"initial", "verify", "final"} => calls[c].worktree
    /\ calls[c].pc \in {"verify", "final"} => calls[c].initial = "clean"
    /\ calls[c].pc = "remove_worktree" => calls[c].raised \/ calls[c].worktree
    /\ calls[c].pc \in {"remove_worktree"} \cup CleaningUp =>
         calls[c].raised \/ calls[c].initial = "clean"

\* Git has forgotten the worktree of c, and it is gone from the disk.
Isolated(c) == c \notin registered /\ (dirs[c] = None \/ dirs[c].worktree = None)

\* Once the worktree is removed nobody brings it back, and only a call whose
\* cleanup went well gets to conclude.
Cleaned(c) ==
    /\ calls[c].pc \in CleaningUp /\ calls[c].cleanup_ok => calls[c].raised \/ Isolated(c)
    /\ calls[c].pc = "conclude" => calls[c].cleanup_ok /\ ~calls[c].raised

\* A JSON is there only if verify.py accepted its arguments and left it.
FromVerify(c) ==
    /\ dirs[c] # None /\ dirs[c].steps => AcceptedArguments(calls[c].request)
    /\ calls[c].steps # None => /\ AcceptedArguments(calls[c].request)
                                /\ calls[c].steps \in Runs[calls[c].request]

Verified(r, data) ==
    /\ all_passed(data)
    /\ ToSet(build_steps(r)) \subseteq DOMAIN data.steps
    /\ migration_required(r.paths) => "migration matrix" \in data.ran \cap data.complete
    /\ forces_final_gate(r.paths) \/ r.gate = "final" =>
         {"full pytest suite", "contract mutation witnesses"} \subseteq
           data.ran \cap data.complete

\* A record is its call's last act.
CallRecorded(c) ==
    records[c] # None =>
      /\ calls[c].pc = "returned"
      /\ Isolated(c)
      /\ records[c].initial = "clean" /\ records[c].final = "clean"
      /\ records[c].approval_eligible => Verified(calls[c].request, records[c].steps)

CallOK(c) ==
    Visits(c) /\ Allowed(c) /\ Snapshotted(c) /\ Cleaned(c) /\ FromVerify(c) /\ CallRecorded(c)

CallsInv == CallsTypeOK /\ \A c \in Calls : CallOK(c)

-----------------------------------------------------------------------------
(***************************************************************************)
(* What an update leaves of a call.                                        *)
(***************************************************************************)
CallFields == {"pc", "request", "sweep", "visiting", "unlinked", "worktree", "initial", "final",
           "steps", "cleanup_ok", "raised"}

\* A changed call, field by field.
Fieldwise(call, changes) ==
    [pc |-> IF "pc" \in DOMAIN changes THEN changes.pc ELSE call.pc,
     request |-> IF "request" \in DOMAIN changes THEN changes.request ELSE call.request,
     sweep |-> IF "sweep" \in DOMAIN changes THEN changes.sweep ELSE call.sweep,
     visiting |-> IF "visiting" \in DOMAIN changes THEN changes.visiting ELSE call.visiting,
     unlinked |-> IF "unlinked" \in DOMAIN changes THEN changes.unlinked ELSE call.unlinked,
     worktree |-> IF "worktree" \in DOMAIN changes THEN changes.worktree ELSE call.worktree,
     initial |-> IF "initial" \in DOMAIN changes THEN changes.initial ELSE call.initial,
     final |-> IF "final" \in DOMAIN changes THEN changes.final ELSE call.final,
     steps |-> IF "steps" \in DOMAIN changes THEN changes.steps ELSE call.steps,
     cleanup_ok |->
       IF "cleanup_ok" \in DOMAIN changes THEN changes.cleanup_ok ELSE call.cleanup_ok,
     raised |-> IF "raised" \in DOMAIN changes THEN changes.raised ELSE call.raised]

\* Changing fields of a call makes no new ones.
LEMMA ChangesOfACall ==
    ASSUME NEW call \in Call, NEW changes, DOMAIN changes \subseteq CallFields
    PROVE  Changed(call, changes) = Fieldwise(call, changes)
<1>1. DOMAIN call = CallFields
  BY DEF Call, CallFields
<1>2. Changed(call, changes) =
        [f \in CallFields |-> IF f \in DOMAIN changes THEN changes[f] ELSE call[f]]
  BY <1>1 DEF Changed
<1>3. Fieldwise(call, changes) =
        [f \in CallFields |-> IF f \in DOMAIN changes THEN changes[f] ELSE call[f]]
  BY DEF Fieldwise, CallFields
<1> QED
  BY <1>2, <1>3

\* An update of call c changes the fields it names, and no other call.
LEMMA UpdateFacts ==
    ASSUME CallsTypeOK, NEW c \in Calls, NEW changes, DOMAIN changes \subseteq CallFields,
           Update(c, changes)
    PROVE  /\ calls'[c] = Fieldwise(calls[c], changes)
           /\ \A d \in Calls \ {c} : calls'[d] = calls[d]
           /\ DOMAIN calls' = Calls /\ calls' = [d \in Calls |-> calls'[d]]
<1>1. calls[c] \in Call
  BY DEF CallsTypeOK
<1>2. Changed(calls[c], changes) = Fieldwise(calls[c], changes)
  BY <1>1, ChangesOfACall
<1> QED
  BY <1>2 DEF CallsTypeOK, Update

\* So does a removal, but that the call whose directory is gone may lose its lock.
LEMMA RmtreeFacts ==
    ASSUME CallsTypeOK, NEW c \in Calls, NEW d \in Calls, NEW ok \in BOOLEAN, dirs[d] # None,
           NEW changes, DOMAIN changes \subseteq CallFields,
           Rmtree(c, d, ok, changes)
    PROVE  /\ calls'[c] = Fieldwise(calls[c], changes)
           /\ d # c => \/ calls'[d] = calls[d]
                       \/ calls'[d] = [calls[d] EXCEPT !.unlinked = TRUE]
           /\ \A e \in Calls \ {c, d} : calls'[e] = calls[e]
           /\ DOMAIN calls' = Calls /\ calls' = [e \in Calls |-> calls'[e]]
           /\ dirs' \in [Calls -> Dir \cup {None}]
           /\ \A e \in Calls \ {d} : dirs'[e] = dirs[e]
           /\ ok => dirs'[d] = None
           /\ ~ok => /\ dirs'[d] \in Dir
                     /\ dirs'[d].worktree \in {None, dirs[d].worktree}
                     /\ dirs'[d].steps \in {FALSE, dirs[d].steps}
           /\ owner' \in [Calls -> Calls \cup {None}]
<1> DEFINE gone == ok \/ ~dirs'[d].lock_file
           unlinked == IF c # d /\ gone THEN TRUE ELSE calls[d].unlinked
<1>1. calls[c] \in Call /\ calls[d] \in Call /\ dirs[d] \in Dir
  BY DEF CallsTypeOK
<1>2. Changed(calls[c], changes) = Fieldwise(calls[c], changes)
  BY <1>1, ChangesOfACall
<1>3. calls' = [calls EXCEPT ![c] = Fieldwise(calls[c], changes),
                             ![d].unlinked = IF c # d /\ gone THEN TRUE ELSE @]
  BY <1>2 DEF Rmtree, CallsTypeOK
<1>4. /\ DOMAIN calls' = Calls /\ calls' = [e \in Calls |-> calls'[e]]
      /\ \A e \in Calls \ {c, d} : calls'[e] = calls[e]
  BY <1>3 DEF CallsTypeOK
<1>5. calls'[c] = Fieldwise(calls[c], changes)
  <2>1. CASE c = d
    <3>1. calls'[c] = [Fieldwise(calls[c], changes) EXCEPT !.unlinked = @]
      BY <1>3, <2>1 DEF CallsTypeOK
    <3> QED  BY <3>1 DEF Fieldwise
  <2>2. CASE c # d
    BY <1>3, <2>2 DEF CallsTypeOK
  <2> QED  BY <2>1, <2>2
<1>6. d # c => \/ calls'[d] = calls[d]
               \/ calls'[d] = [calls[d] EXCEPT !.unlinked = TRUE]
  <2> HAVE d # c
  <2> HIDE DEF gone
  <2>1. calls'[d] = [calls[d] EXCEPT !.unlinked = IF c # d /\ gone THEN TRUE ELSE @]
    BY <1>3 DEF CallsTypeOK
  <2>2. calls[d] = [calls[d] EXCEPT !.unlinked = @]
    BY <1>1 DEF Call
  <2> QED  BY <2>1, <2>2
<1>7. CASE ok
  BY <1>1, <1>4, <1>5, <1>6, <1>7 DEF Rmtree, CallsTypeOK
<1>8. CASE ~ok
  <2>1. PICK rest \in PartlyRemoved(d) : dirs' = [dirs EXCEPT ![d] = rest]
    BY <1>8 DEF Rmtree
  <2>2. /\ rest \in Dir
        /\ rest.worktree \in {None, dirs[d].worktree} /\ rest.steps \in {FALSE, dirs[d].steps}
    BY <1>1 DEF PartlyRemoved, Dir
  <2> QED
    BY <1>1, <1>4, <1>5, <1>6, <1>8, <2>1, <2>2 DEF Rmtree, CallsTypeOK
<1> QED
  BY <1>7, <1>8

\* Going on changes nothing but where a call is.
LEMMA GotoFacts ==
    ASSUME CallsTypeOK, NEW c \in Calls, NEW pc, Goto(c, pc)
    PROVE  calls' = [calls EXCEPT ![c].pc = pc]
<1>1. Changed(calls[c], [pc |-> pc]) = Fieldwise(calls[c], [pc |-> pc])
  BY ChangesOfACall DEF CallsTypeOK, CallFields
<1>2. Fieldwise(calls[c], [pc |-> pc]) = [calls[c] EXCEPT !.pc = pc]
  BY DEF CallsTypeOK, Call, Fieldwise
<1> QED
  BY <1>1, <1>2 DEF Goto, Update, CallsTypeOK

\* A call that is over keeps its request and starts everything else again.
LEMMA OverRecord ==
    ASSUME NEW c, NEW pc
    PROVE  Over(c, pc) =
             [pc |-> pc, request |-> calls[c].request, sweep |-> {}, visiting |-> None,
              unlinked |-> FALSE, worktree |-> FALSE, initial |-> None, final |-> None,
              steps |-> IF pc = "rejected" THEN calls[c].steps ELSE None,
              cleanup_ok |-> TRUE, raised |-> FALSE]
<1> DEFINE request == calls[c].request
           steps == IF pc = "rejected" THEN calls[c].steps ELSE None
           over == [NewCall(request) EXCEPT !.pc = pc, !.steps = steps]
<1> HIDE DEF request, steps
<1>1. /\ over.pc = pc /\ over.request = request /\ over.sweep = {} /\ over.visiting = None
      /\ over.unlinked = FALSE /\ over.worktree = FALSE /\ over.initial = None
      /\ over.final = None /\ over.steps = steps /\ over.cleanup_ok = TRUE
      /\ over.raised = FALSE
      /\ over = [f \in CallFields |-> over[f]]
  BY DEF NewCall, CallFields
<1> HIDE DEF over
<1>2. over = [pc |-> pc, request |-> request, sweep |-> {}, visiting |-> None,
              unlinked |-> FALSE, worktree |-> FALSE, initial |-> None, final |-> None,
              steps |-> steps, cleanup_ok |-> TRUE, raised |-> FALSE]
  BY <1>1 DEF CallFields
<1> QED
  BY <1>2 DEF Over, over, request, steps

\* It is a call, with a JSON only if that was rejected.
LEMMA OverFacts ==
    ASSUME CallsTypeOK, NEW c \in Calls, NEW pc \in Ended
    PROVE  /\ Over(c, pc) \in Call /\ DOMAIN Over(c, pc) = CallFields
           /\ Over(c, pc).pc = pc /\ Over(c, pc).request = calls[c].request
           /\ \/ Over(c, pc).steps = None
              \/ pc = "rejected" /\ Over(c, pc).steps = calls[c].steps
           /\ Fieldwise(calls[c], Over(c, pc)) = Over(c, pc)
<1> DEFINE steps == IF pc = "rejected" THEN calls[c].steps ELSE None
           over ==
             [pc |-> pc, request |-> calls[c].request, sweep |-> {}, visiting |-> None,
              unlinked |-> FALSE, worktree |-> FALSE, initial |-> None, final |-> None,
              steps |-> steps, cleanup_ok |-> TRUE, raised |-> FALSE]
<1>1. Over(c, pc) = over
  BY OverRecord
<1>2. calls[c].request \in Requests /\ steps \in Results \cup {None}
  BY DEF CallsTypeOK, Call
<1>3. steps = None \/ (pc = "rejected" /\ steps = calls[c].steps)
  BY DEF Ended
<1> HIDE DEF steps
<1>4. over \in Call /\ DOMAIN over = CallFields
  BY <1>2 DEF Call, CallFields
<1>5. Fieldwise(calls[c], over) = over
  BY <1>4 DEF Fieldwise, CallFields
<1> QED
  BY <1>1, <1>3, <1>4, <1>5

-----------------------------------------------------------------------------
(***************************************************************************)
(* What a step of one call leaves of the others.                           *)
(***************************************************************************)
\* The call goes on as before, but that its lock file may have been unlinked.
Unmoved(d) == calls'[d] = calls[d] \/ calls'[d] = [calls[d] EXCEPT !.unlinked = TRUE]

\* Neither a worktree nor a JSON has come into the directory.
NothingNew(d) ==
    dirs'[d] # None =>
      /\ \/ dirs'[d].worktree = None
         \/ dirs[d] # None /\ dirs'[d].worktree = dirs[d].worktree
      /\ dirs'[d].steps => dirs[d] # None /\ dirs[d].steps

Undisturbed(d) ==
    /\ Unmoved(d) /\ NothingNew(d)
    /\ d \in registered' => d \in registered
    /\ records'[d] = records[d]

\* An undisturbed call keeps what it has established.
LEMMA UndisturbedKeeps ==
    ASSUME CallsTypeOK, NEW d \in Calls, CallOK(d), Undisturbed(d)
    PROVE  CallOK(d)'
<1>1. /\ calls'[d].pc = calls[d].pc /\ calls'[d].request = calls[d].request
      /\ calls'[d].visiting = calls[d].visiting /\ calls'[d].worktree = calls[d].worktree
      /\ calls'[d].initial = calls[d].initial /\ calls'[d].steps = calls[d].steps
      /\ calls'[d].cleanup_ok = calls[d].cleanup_ok /\ calls'[d].raised = calls[d].raised
  BY DEF Undisturbed, Unmoved, CallsTypeOK, Call
<1>2. Isolated(d) => Isolated(d)'
  BY DEF Isolated, Undisturbed, NothingNew
<1>3. Visits(d)' /\ Allowed(d)' /\ Snapshotted(d)'
  BY <1>1 DEF CallOK, Visits, Allowed, Snapshotted
<1>4. Cleaned(d)'
  BY <1>1, <1>2 DEF CallOK, Cleaned
<1>5. FromVerify(d)'
  BY <1>1 DEF CallOK, FromVerify, Undisturbed, NothingNew
<1>6. CallRecorded(d)'
  BY <1>1, <1>2 DEF CallOK, CallRecorded, Undisturbed
<1> QED
  BY <1>3, <1>4, <1>5, <1>6 DEF CallOK

\* It is enough to look at the call that moves, if it disturbs no other.
LEMMA OneCallMoves ==
    ASSUME CallsInv, NEW c \in Calls, CallsTypeOK', CallOK(c)',
           \A d \in Calls \ {c} : Undisturbed(d)
    PROVE  CallsInv'
  BY UndisturbedKeeps DEF CallsInv

\* The same for a step that changes nothing but the variables of a call and its locks.
LEMMA QuietStep ==
    ASSUME CallsInv, NEW c \in Calls, NEW changes, DOMAIN changes \subseteq CallFields,
           Update(c, changes), UNCHANGED <<dirs, registered, records>>,
           owner' \in [Calls -> Calls \cup {None}],
           calls'[c] = Fieldwise(calls[c], changes) =>
             calls'[c] \in Call /\ CallOK(c)'
    PROVE  CallsInv'
<1>1. /\ calls'[c] = Fieldwise(calls[c], changes)
      /\ \A d \in Calls \ {c} : calls'[d] = calls[d]
      /\ DOMAIN calls' = Calls /\ calls' = [d \in Calls |-> calls'[d]]
  BY UpdateFacts DEF CallsInv
<1>2. CallsTypeOK'
  BY <1>1 DEF CallsInv, CallsTypeOK
<1>3. \A d \in Calls \ {c} : Undisturbed(d)
  BY <1>1 DEF Undisturbed, Unmoved, NothingNew
<1> QED
  BY <1>1, <1>2, <1>3, OneCallMoves

-----------------------------------------------------------------------------
(***************************************************************************)
(* The invariant is preserved by each step: the sweep.                     *)
(***************************************************************************)
\* A call that is not over has no record yet.
LEMMA NoRecordYet ==
    ASSUME CallsInv, NEW c \in Calls, calls[c].pc # "returned", records' = records
    PROVE  CallRecorded(c)'
  BY DEF CallsInv, CallOK, CallRecorded

\* It is enough to know the new call and that its directory has nothing new.
LEMMA SweepingStep ==
    ASSUME CallsInv, NEW c \in Calls, calls[c].pc # "returned",
           calls'[c].pc \in {"sweep", "authorise"} \cup Sweeping,
           calls'[c].pc \in Sweeping => calls'[c].visiting \in Calls,
           calls'[c].request = calls[c].request, calls'[c].steps = calls[c].steps,
           CallsTypeOK', UNCHANGED <<registered, records>>,
           \A d \in Calls : NothingNew(d), \A d \in Calls \ {c} : Unmoved(d)
    PROVE  CallsInv'
<1>1. Visits(c)' /\ Allowed(c)' /\ Snapshotted(c)' /\ Cleaned(c)'
  BY DEF Visits, Allowed, Snapshotted, Cleaned, Sweeping, Authorised, Trying, CleaningUp
<1>2. FromVerify(c)'
  BY DEF CallsInv, CallOK, FromVerify, NothingNew
<1>3. CallOK(c)'
  BY <1>1, <1>2, NoRecordYet DEF CallOK
<1>4. \A d \in Calls \ {c} : Undisturbed(d)
  BY DEF Undisturbed
<1> QED
  BY <1>3, <1>4, OneCallMoves

\* The same if no directory changes at all.
LEMMA SweepingQuietly ==
    ASSUME CallsInv, NEW c \in Calls, calls[c].pc # "returned",
           NEW changes, DOMAIN changes \subseteq {"pc", "sweep", "visiting"},
           "pc" \in DOMAIN changes,
           "sweep" \in DOMAIN changes => changes.sweep \subseteq Calls,
           "visiting" \in DOMAIN changes => changes.visiting \in Calls \cup {None},
           changes.pc \in {"sweep", "authorise"} \cup Sweeping,
           changes.pc \in Sweeping =>
             IF "visiting" \in DOMAIN changes THEN changes.visiting \in Calls
             ELSE calls[c].visiting \in Calls,
           Update(c, changes), UNCHANGED <<dirs, registered, records>>,
           owner' \in [Calls -> Calls \cup {None}]
    PROVE  CallsInv'
<1>1. /\ calls'[c] = Fieldwise(calls[c], changes)
      /\ \A d \in Calls \ {c} : calls'[d] = calls[d]
      /\ DOMAIN calls' = Calls /\ calls' = [d \in Calls |-> calls'[d]]
  BY UpdateFacts DEF CallsInv, CallFields
<1>2. calls[c] \in Call
  BY DEF CallsInv, CallsTypeOK
<1>3. /\ calls'[c].pc = changes.pc
      /\ calls'[c].pc \in Sweeping => calls'[c].visiting \in Calls
      /\ calls'[c].request = calls[c].request /\ calls'[c].steps = calls[c].steps
  BY <1>1 DEF Fieldwise
<1>4. calls'[c] \in Call
  BY <1>1, <1>2 DEF Fieldwise, Call
<1>5. CallsTypeOK'
  BY <1>1, <1>4 DEF CallsInv, CallsTypeOK
<1>6. (\A d \in Calls : NothingNew(d)) /\ \A d \in Calls \ {c} : Unmoved(d)
  BY <1>1 DEF NothingNew, Unmoved
<1> QED
  BY <1>3, <1>5, <1>6, SweepingStep

\* Listing, looking into and leaving directories changes none of them.
LEMMA SweepSteps ==
    ASSUME CallsInv, NEW c \in Calls,
           \/ StartSweep(c) \/ SweepDone(c) \/ SweepRelease(c)
           \/ \E d \in Calls : SweepCheck(c, d)
    PROVE  CallsInv'
<1> USE DEF At, Sweeping
<1>1. owner \in [Calls -> Calls \cup {None}]
  BY DEF CallsInv, CallsTypeOK
<1>2. CASE StartSweep(c)
  BY <1>1, <1>2, SweepingQuietly DEF StartSweep
<1>3. CASE SweepDone(c)
  BY <1>1, <1>3, SweepingQuietly DEF SweepDone, Goto
<1>4. CASE SweepRelease(c)
  <2>1. calls[c].visiting \in Calls
    BY <1>4 DEF SweepRelease, CallsInv, CallOK, Visits
  <2>2. owner' \in [Calls -> Calls \cup {None}]
    BY <1>1, <1>4 DEF SweepRelease
  <2> QED
    BY <1>4, <2>1, <2>2, SweepingQuietly DEF SweepRelease, Goto
<1>5. ASSUME NEW d \in Calls, SweepCheck(c, d) PROVE CallsInv'
  <2>1. calls[c].sweep \subseteq Calls
    BY DEF CallsInv, CallsTypeOK, Call
  <2> DEFINE found == dirs[d] # None /\ dirs[d].lock_file
             changes == [sweep |-> calls[c].sweep \ {d},
                         pc |-> IF found THEN "sweep_acquire" ELSE "sweep",
                         visiting |-> IF found THEN d ELSE None]
  <2>2. /\ DOMAIN changes \subseteq {"pc", "sweep", "visiting"} /\ "pc" \in DOMAIN changes
        /\ changes.sweep \subseteq Calls /\ changes.visiting \in Calls \cup {None}
        /\ changes.pc \in {"sweep", "sweep_acquire"}
        /\ changes.pc = "sweep_acquire" => changes.visiting \in Calls
        /\ "visiting" \in DOMAIN changes
    BY <2>1
  <2>3. Update(c, changes)
    BY <1>5 DEF SweepCheck
  <2> HIDE DEF changes
  <2> QED
    BY <1>1, <1>5, <2>2, <2>3, SweepingQuietly DEF SweepCheck
<1> QED
  BY <1>2, <1>3, <1>4, <1>5

\* A directory made again has a lock file and nothing else.
LEMMA MadeFacts ==
    ASSUME CallsTypeOK, NEW d \in Calls
    PROVE  /\ Made(d) \in Dir
           /\ \/ dirs[d] # None /\ Made(d) = dirs[d]
              \/ Made(d).worktree = None /\ ~Made(d).steps
  BY DEF Made, EmptyDir, CallsTypeOK, Dir

\* Taking the lock of a dead process may make its directory again, with nothing in it.
LEMMA SweepAcquireStep ==
    ASSUME CallsInv, NEW c \in Calls, SweepAcquire(c)
    PROVE  CallsInv'
<1> DEFINE d == calls[c].visiting
<1>1. /\ CallsTypeOK /\ d \in Calls /\ calls[c].pc = "sweep_acquire" /\ calls[c] \in Call
  BY DEF CallsInv, CallsTypeOK, CallOK, Visits, SweepAcquire, At, Sweeping
<1> HIDE DEF d
<1>2. [Made(d) EXCEPT !.lock_file = TRUE] \in Dir
  BY <1>1, MadeFacts DEF Dir
<1>3. dirs' = [dirs EXCEPT ![d] = [Made(d) EXCEPT !.lock_file = TRUE]]
  BY DEF SweepAcquire, d
<1>4. /\ dirs' \in [Calls -> Dir \cup {None}]
      /\ \A e \in Calls : NothingNew(e)
  BY <1>1, <1>2, <1>3, MadeFacts DEF CallsTypeOK, NothingNew, Dir
<1>5. CASE owner[d] = None
  <2>1. owner' = [owner EXCEPT ![d] = c] /\ Goto(c, "sweep_release")
    BY <1>5 DEF SweepAcquire, d
  <2>2. calls' = [calls EXCEPT ![c].pc = "sweep_release"]
    BY <1>1, <2>1, GotoFacts
  <2>3. /\ calls'[c].pc = "sweep_release" /\ calls'[c].visiting = d
        /\ calls'[c].request = calls[c].request /\ calls'[c].steps = calls[c].steps
        /\ calls'[c] \in Call /\ \A e \in Calls \ {c} : calls'[e] = calls[e]
        /\ calls' \in [Calls -> Call]
    BY <1>1, <2>2 DEF CallsTypeOK, Call, Sweeping, d
  <2>4. owner' \in [Calls -> Calls \cup {None}] /\ UNCHANGED <<registered, records>>
    BY <1>1, <2>1 DEF CallsTypeOK, SweepAcquire
  <2>5. CallsTypeOK'
    BY <1>1, <1>4, <2>3, <2>4 DEF CallsTypeOK
  <2> QED
    BY <1>1, <1>4, <2>3, <2>5, SweepingStep DEF Sweeping, Unmoved, SweepAcquire
<1>6. CASE owner[d] # None
  <2>1. UNCHANGED owner /\ Update(c, Swept)
    BY <1>6 DEF SweepAcquire, d
  <2>2. /\ calls'[c] = Fieldwise(calls[c], Swept)
        /\ \A e \in Calls \ {c} : calls'[e] = calls[e]
        /\ DOMAIN calls' = Calls /\ calls' = [e \in Calls |-> calls'[e]]
    BY <1>1, <2>1, UpdateFacts DEF CallFields, Swept
  <2>3. /\ calls'[c].pc = "sweep"
        /\ calls'[c].request = calls[c].request /\ calls'[c].steps = calls[c].steps
        /\ calls'[c] \in Call
    BY <1>1, <2>2 DEF Fieldwise, Swept, Call
  <2>4. CallsTypeOK'
    BY <1>1, <1>4, <2>1, <2>2, <2>3 DEF CallsTypeOK, SweepAcquire
  <2> QED
    BY <1>1, <1>4, <2>2, <2>3, <2>4, SweepingStep DEF Sweeping, Unmoved, SweepAcquire
<1> QED
  BY <1>5, <1>6

\* A removal brings nothing into any directory.
LEMMA RmtreeBringsNothing ==
    ASSUME CallsTypeOK, NEW c \in Calls, NEW d \in Calls, NEW ok \in BOOLEAN, dirs[d] # None,
           NEW changes, DOMAIN changes \subseteq CallFields,
           Rmtree(c, d, ok, changes), Fieldwise(calls[c], changes) \in Call,
           UNCHANGED <<registered, records>>
    PROVE  /\ CallsTypeOK'
           /\ calls'[c] = Fieldwise(calls[c], changes)
           /\ \A e \in Calls : NothingNew(e)
           /\ \A e \in Calls \ {c} : Unmoved(e)
<1>1. /\ calls'[c] = Fieldwise(calls[c], changes)
      /\ d # c => \/ calls'[d] = calls[d]
                  \/ calls'[d] = [calls[d] EXCEPT !.unlinked = TRUE]
      /\ \A e \in Calls \ {c, d} : calls'[e] = calls[e]
      /\ DOMAIN calls' = Calls /\ calls' = [e \in Calls |-> calls'[e]]
      /\ dirs' \in [Calls -> Dir \cup {None}]
      /\ \A e \in Calls \ {d} : dirs'[e] = dirs[e]
      /\ ok => dirs'[d] = None
      /\ ~ok => /\ dirs'[d] \in Dir
                /\ dirs'[d].worktree \in {None, dirs[d].worktree}
                /\ dirs'[d].steps \in {FALSE, dirs[d].steps}
      /\ owner' \in [Calls -> Calls \cup {None}]
  BY RmtreeFacts
<1>2. \A e \in Calls \ {c} : Unmoved(e)
  BY <1>1 DEF Unmoved
<1>3. \A e \in Calls : NothingNew(e)
  <2> TAKE e \in Calls
  <2>1. CASE e # d
    BY <1>1, <2>1 DEF NothingNew
  <2>2. CASE e = d
    BY <1>1, <2>2 DEF NothingNew
  <2> QED  BY <2>1, <2>2
<1>4. \A e \in Calls : calls'[e] \in Call
  <2>1. \A e \in Calls : calls[e] \in Call
    BY DEF CallsTypeOK
  <2>2. \A call \in Call : [call EXCEPT !.unlinked = TRUE] \in Call
    BY DEF Call
  <2> QED  BY <1>1, <1>2, <2>1, <2>2 DEF Unmoved
<1>5. CallsTypeOK'
  BY <1>1, <1>4 DEF CallsTypeOK
<1> QED
  BY <1>1, <1>2, <1>3, <1>5

\* A sweep may remove the directory of any call, a running one included.
LEMMA SweepRemoveStep ==
    ASSUME CallsInv, NEW c \in Calls, NEW ok \in BOOLEAN, SweepRemove(c, ok)
    PROVE  CallsInv'
<1> DEFINE d == calls[c].visiting
<1>1. /\ CallsTypeOK /\ d \in Calls /\ calls[c].pc = "sweep_remove" /\ calls[c] \in Call
  BY DEF CallsInv, CallsTypeOK, CallOK, Visits, SweepRemove, At, Sweeping
<1> HIDE DEF d
<1>2. /\ Fieldwise(calls[c], Swept) \in Call
      /\ Fieldwise(calls[c], Swept).pc = "sweep"
      /\ Fieldwise(calls[c], Swept).request = calls[c].request
      /\ Fieldwise(calls[c], Swept).steps = calls[c].steps
      /\ DOMAIN Swept \subseteq CallFields
  BY <1>1 DEF Fieldwise, Swept, Call, CallFields
<1>3. CASE dirs[d] = None
  <2>1. /\ Update(c, Swept) /\ owner' = owner
        /\ UNCHANGED <<dirs, registered, records>>
    BY <1>3 DEF SweepRemove, d
  <2>2. DOMAIN Swept \subseteq {"pc", "sweep", "visiting"} /\ Swept.pc = "sweep"
        /\ "pc" \in DOMAIN Swept /\ Swept.visiting = None /\ "sweep" \notin DOMAIN Swept
    BY DEF Swept
  <2>3. owner' \in [Calls -> Calls \cup {None}] /\ calls[c].pc # "returned"
    BY <1>1, <2>1 DEF CallsTypeOK
  <2> HIDE DEF Swept
  <2> QED
    BY <2>1, <2>2, <2>3, SweepingQuietly DEF Sweeping
<1>4. CASE dirs[d] # None
  <2>1. Rmtree(c, d, ok, Swept) /\ UNCHANGED <<registered, records>>
    BY <1>4 DEF SweepRemove, d
  <2>2. /\ CallsTypeOK'
        /\ calls'[c] = Fieldwise(calls[c], Swept)
        /\ \A e \in Calls : NothingNew(e)
        /\ \A e \in Calls \ {c} : Unmoved(e)
    BY <1>1, <1>2, <1>4, <2>1, RmtreeBringsNothing
  <2> QED
    BY <1>1, <1>2, <2>1, <2>2, SweepingStep DEF Sweeping
<1> QED
  BY <1>3, <1>4

-----------------------------------------------------------------------------
(***************************************************************************)
(* A call that ends without a record, and the way to the try block.        *)
(***************************************************************************)
\* A call may be refused, rejected or killed at any stage.
LEMMA EndsWithoutRecord ==
    ASSUME CallsInv, NEW c \in Calls, calls[c].pc # "returned", NEW pc \in Ended \ {"returned"},
           calls'[c] = Over(c, pc), CallsTypeOK', UNCHANGED <<registered, records>>,
           \A d \in Calls : NothingNew(d), \A d \in Calls \ {c} : Unmoved(d)
    PROVE  CallsInv'
<1>1. /\ calls'[c].pc = pc /\ calls'[c].request = calls[c].request
      /\ \/ calls'[c].steps = None
         \/ calls'[c].steps = calls[c].steps
  BY OverFacts DEF CallsInv
<1>2. Visits(c)' /\ Allowed(c)' /\ Snapshotted(c)' /\ Cleaned(c)'
  BY <1>1 DEF Visits, Allowed, Snapshotted, Cleaned, Sweeping, Authorised, Trying, CleaningUp,
              Ended
<1>3. FromVerify(c)'
  BY <1>1 DEF CallsInv, CallOK, FromVerify, NothingNew
<1>4. CallOK(c)'
  BY <1>2, <1>3, NoRecordYet DEF CallOK
<1>5. \A d \in Calls \ {c} : Undisturbed(d)
  BY DEF Undisturbed
<1> QED
  BY <1>4, <1>5, OneCallMoves

\* The same if no directory changes.
LEMMA EndStep ==
    ASSUME CallsInv, NEW c \in Calls, calls[c].pc # "returned", NEW pc \in Ended \ {"returned"},
           End(c, pc), UNCHANGED <<dirs, registered, records>>,
           owner' \in [Calls -> Calls \cup {None}]
    PROVE  CallsInv'
<1>1. /\ Over(c, pc) \in Call /\ DOMAIN Over(c, pc) = CallFields
      /\ Fieldwise(calls[c], Over(c, pc)) = Over(c, pc)
  BY OverFacts DEF CallsInv
<1>2. /\ calls'[c] = Over(c, pc)
      /\ \A d \in Calls \ {c} : calls'[d] = calls[d]
      /\ DOMAIN calls' = Calls /\ calls' = [d \in Calls |-> calls'[d]]
  BY <1>1, UpdateFacts DEF CallsInv, End
<1>3. CallsTypeOK'
  BY <1>1, <1>2 DEF CallsInv, CallsTypeOK
<1>4. (\A d \in Calls : NothingNew(d)) /\ \A d \in Calls \ {c} : Unmoved(d)
  BY <1>2 DEF NothingNew, Unmoved
<1> QED
  BY <1>2, <1>3, <1>4, EndsWithoutRecord

\* A call that goes on to a stage that asks nothing more of it than it has.
LEMMA GoesOn ==
    ASSUME CallsInv, NEW c \in Calls, calls[c].pc # "returned",
           NEW pc \in {"mkdtemp", "open_lock", "acquire", "add_worktree"},
           Goto(c, pc), MayVerify(calls[c].request),
           dirs' \in [Calls -> Dir \cup {None}], owner' \in [Calls -> Calls \cup {None}],
           UNCHANGED <<registered, records>>, \A d \in Calls : NothingNew(d)
    PROVE  CallsInv'
<1>1. calls' = [calls EXCEPT ![c].pc = pc]
  BY GotoFacts DEF CallsInv
<1>2. calls[c] \in Call /\ [calls[c] EXCEPT !.pc = pc] \in Call
  BY DEF CallsInv, CallsTypeOK, Call, Authorised, Trying
<1>3. /\ calls'[c].pc = pc /\ calls'[c].request = calls[c].request
      /\ calls'[c].steps = calls[c].steps
      /\ \A d \in Calls \ {c} : calls'[d] = calls[d]
      /\ calls' \in [Calls -> Call]
  BY <1>1, <1>2 DEF CallsInv, CallsTypeOK, Call
<1>4. CallsTypeOK'
  BY <1>3 DEF CallsInv, CallsTypeOK
<1>5. Visits(c)' /\ Allowed(c)' /\ Snapshotted(c)' /\ Cleaned(c)'
  BY <1>3 DEF Visits, Allowed, Snapshotted, Cleaned, Sweeping, CleaningUp
<1>6. FromVerify(c)'
  BY <1>3 DEF CallsInv, CallOK, FromVerify, NothingNew
<1>7. CallOK(c)'
  BY <1>5, <1>6, NoRecordYet DEF CallOK
<1>8. \A d \in Calls \ {c} : Undisturbed(d)
  BY <1>3 DEF Undisturbed, Unmoved
<1> QED
  BY <1>4, <1>7, <1>8, OneCallMoves

\* From the authorisation to the locked directory.
LEMMA OpeningSteps ==
    ASSUME CallsInv, NEW c \in Calls, NEW ok \in BOOLEAN,
           Authorise(c, ok) \/ Mkdtemp(c) \/ OpenLock(c) \/ AcquireLock(c)
    PROVE  CallsInv'
<1> USE DEF At
<1>1. CallsTypeOK /\ owner \in [Calls -> Calls \cup {None}] /\ dirs \in [Calls -> Dir \cup {None}]
  BY DEF CallsInv, CallsTypeOK
<1>2. ASSUME UNCHANGED dirs PROVE \A d \in Calls : NothingNew(d)
  BY <1>2 DEF NothingNew
<1>3. calls[c].pc \in Authorised => MayVerify(calls[c].request)
  BY DEF CallsInv, CallOK, Allowed
<1>4. CASE Authorise(c, ok)
  <2>1. CASE ok /\ MayVerify(calls[c].request)
    BY <1>1, <1>2, <1>4, <2>1, GoesOn DEF Authorise
  <2>2. CASE ~(ok /\ MayVerify(calls[c].request))
    BY <1>1, <1>4, <2>2, EndStep DEF Authorise, Ended
  <2> QED  BY <2>1, <2>2
<1>5. CASE Mkdtemp(c)
  <2>1. EmptyDir \in Dir /\ EmptyDir.worktree = None /\ EmptyDir.steps = FALSE
    BY DEF EmptyDir, Dir
  <2>2. dirs' = [dirs EXCEPT ![c] = EmptyDir]
    BY <1>5 DEF Mkdtemp
  <2>3. dirs' \in [Calls -> Dir \cup {None}] /\ \A d \in Calls : NothingNew(d)
    BY <1>1, <2>1, <2>2 DEF NothingNew
  <2> QED
    BY <1>1, <1>3, <1>5, <2>3, GoesOn DEF Mkdtemp, Authorised
<1>6. CASE OpenLock(c)
  <2>1. [Made(c) EXCEPT !.lock_file = TRUE] \in Dir
    BY <1>1, MadeFacts DEF Dir
  <2>2. dirs' = [dirs EXCEPT ![c] = [Made(c) EXCEPT !.lock_file = TRUE]]
    BY <1>6 DEF OpenLock
  <2>3. dirs' \in [Calls -> Dir \cup {None}] /\ \A d \in Calls : NothingNew(d)
    BY <1>1, <2>1, <2>2, MadeFacts DEF NothingNew, Dir
  <2> QED
    BY <1>1, <1>3, <1>6, <2>3, GoesOn DEF OpenLock, Authorised
<1>7. CASE AcquireLock(c)
  <2>1. CASE calls[c].unlinked \/ owner[c] = None
    <3>1. owner' \in [Calls -> Calls \cup {None}]
      BY <1>1, <1>7, <2>1 DEF AcquireLock
    <3> QED
      BY <1>1, <1>2, <1>3, <1>7, <2>1, <3>1, GoesOn DEF AcquireLock, Authorised
  <2>2. CASE ~(calls[c].unlinked \/ owner[c] = None)
    BY <1>1, <1>7, <2>2, EndStep DEF AcquireLock, Ended
  <2> QED  BY <2>1, <2>2
<1> QED
  BY <1>4, <1>5, <1>6, <1>7

-----------------------------------------------------------------------------
(***************************************************************************)
(* The try block and its finally.                                          *)
(***************************************************************************)
\* A step of c that touches no directory but its own.
LEMMA OwnStep ==
    ASSUME CallsInv, NEW c \in Calls, calls[c].pc # "returned",
           NEW changes, DOMAIN changes \subseteq CallFields, Update(c, changes),
           Fieldwise(calls[c], changes) \in Call,
           dirs' \in [Calls -> Dir \cup {None}],
           \A d \in Calls \ {c} : dirs'[d] = dirs[d],
           registered' \subseteq registered \cup {c}, UNCHANGED records,
           owner' \in [Calls -> Calls \cup {None}],
           calls'[c] = Fieldwise(calls[c], changes) =>
             Visits(c)' /\ Allowed(c)' /\ Snapshotted(c)' /\ Cleaned(c)' /\ FromVerify(c)'
    PROVE  CallsInv'
<1>1. /\ calls'[c] = Fieldwise(calls[c], changes)
      /\ \A d \in Calls \ {c} : calls'[d] = calls[d]
      /\ DOMAIN calls' = Calls /\ calls' = [d \in Calls |-> calls'[d]]
  BY UpdateFacts DEF CallsInv
<1>2. CallsTypeOK'
  BY <1>1 DEF CallsInv, CallsTypeOK
<1>3. CallOK(c)'
  BY <1>1, NoRecordYet DEF CallOK
<1>4. \A d \in Calls \ {c} : Undisturbed(d)
  BY <1>1 DEF Undisturbed, Unmoved, NothingNew
<1> QED
  BY <1>2, <1>3, <1>4, OneCallMoves

\* What is raised in the try block is remembered to the end of the finally.
LEMMA InterruptStep ==
    ASSUME CallsInv, NEW c \in Calls, Interrupt(c)
    PROVE  CallsInv'
<1> DEFINE changes == [pc |-> "remove_worktree", raised |-> TRUE, initial |-> None]
           new == Fieldwise(calls[c], changes)
<1>1. /\ CallsTypeOK /\ calls[c] \in Call /\ calls[c].pc \in Trying /\ CallOK(c)
      /\ Update(c, changes) /\ UNCHANGED <<dirs, owner, registered, records>>
  BY DEF CallsInv, CallsTypeOK, Interrupt
<1>2. /\ new \in Call /\ DOMAIN changes \subseteq CallFields
      /\ new.pc = "remove_worktree" /\ new.raised = TRUE
      /\ new.request = calls[c].request /\ new.steps = calls[c].steps
  BY <1>1 DEF Fieldwise, Call, CallFields, Authorised
<1>3. ASSUME calls'[c] = new
      PROVE  Visits(c)' /\ Allowed(c)' /\ Snapshotted(c)' /\ Cleaned(c)' /\ FromVerify(c)'
  <2> HIDE DEF new
  <2>1. Visits(c)' /\ Allowed(c)' /\ Snapshotted(c)' /\ Cleaned(c)'
    BY <1>1, <1>2, <1>3 DEF CallOK, Visits, Allowed, Snapshotted, Cleaned, Sweeping, CleaningUp,
                            Authorised
  <2>2. FromVerify(c)'
    BY <1>1, <1>2, <1>3 DEF CallOK, FromVerify
  <2> QED  BY <2>1, <2>2
<1>4. calls[c].pc # "returned"
  BY <1>1 DEF Trying
<1> HIDE DEF changes
<1> QED
  BY <1>1, <1>2, <1>3, <1>4, OwnStep DEF CallsTypeOK

\* A worktree is added by its own call only, which knows of it or has raised.
LEMMA AddWorktreeStep ==
    ASSUME CallsInv, NEW c \in Calls, NEW contents \in Contents, AddWorktree(c, contents)
    PROVE  CallsInv'
<1>1. /\ CallsTypeOK /\ calls[c] \in Call /\ calls[c].pc = "add_worktree" /\ CallOK(c)
      /\ registered' = registered \cup {c} /\ UNCHANGED <<owner, records>>
      /\ dirs' = [dirs EXCEPT ![c] = [Made(c) EXCEPT !.worktree = contents]]
  BY DEF CallsInv, CallsTypeOK, AddWorktree, At
<1>2. /\ Made(c) \in Dir /\ [Made(c) EXCEPT !.worktree = contents] \in Dir
      /\ [Made(c) EXCEPT !.worktree = contents].steps = Made(c).steps
  BY <1>1, MadeFacts DEF Dir
<1>3. /\ dirs' \in [Calls -> Dir \cup {None}] /\ \A d \in Calls \ {c} : dirs'[d] = dirs[d]
      /\ dirs'[c].steps => dirs[c] # None /\ dirs[c].steps
  BY <1>1, <1>2, MadeFacts DEF CallsTypeOK
<1>4. ASSUME NEW changes, DOMAIN changes \subseteq CallFields, Update(c, changes),
             Fieldwise(calls[c], changes) \in Call,
             NEW new, new = Fieldwise(calls[c], changes),
             \/ new.pc = "initial" /\ new.worktree = TRUE
             \/ new.pc = "remove_worktree" /\ new.raised = TRUE,
             new.request = calls[c].request, new.steps = calls[c].steps
      PROVE  CallsInv'
  <2>1. ASSUME calls'[c] = new
        PROVE  Visits(c)' /\ Allowed(c)' /\ Snapshotted(c)' /\ Cleaned(c)' /\ FromVerify(c)'
    <3>1. Visits(c)' /\ Allowed(c)' /\ Snapshotted(c)' /\ Cleaned(c)'
      BY <1>1, <1>4, <2>1 DEF CallOK, Visits, Allowed, Snapshotted, Cleaned, Sweeping,
                              CleaningUp, Authorised, Trying
    <3>2. FromVerify(c)'
      BY <1>1, <1>3, <1>4, <2>1 DEF CallOK, FromVerify
    <3> QED  BY <3>1, <3>2
  <2> QED
    BY <1>1, <1>3, <1>4, <2>1, OwnStep DEF CallsTypeOK
<1>5. CASE Update(c, [pc |-> "initial", worktree |-> TRUE])
  <2> DEFINE changes == [pc |-> "initial", worktree |-> TRUE]
  <2>1. /\ DOMAIN changes \subseteq CallFields /\ Fieldwise(calls[c], changes) \in Call
        /\ Fieldwise(calls[c], changes).pc = "initial"
        /\ Fieldwise(calls[c], changes).worktree = TRUE
        /\ Fieldwise(calls[c], changes).request = calls[c].request
        /\ Fieldwise(calls[c], changes).steps = calls[c].steps
    BY <1>1 DEF CallFields, Fieldwise, Call, Authorised, Trying
  <2>2. Update(c, changes)
    BY <1>5
  <2> HIDE DEF changes
  <2> QED  BY <1>4, <2>1, <2>2
<1>6. CASE Update(c, [pc |-> "remove_worktree", raised |-> TRUE])
  <2> DEFINE changes == [pc |-> "remove_worktree", raised |-> TRUE]
  <2>1. /\ DOMAIN changes \subseteq CallFields /\ Fieldwise(calls[c], changes) \in Call
        /\ Fieldwise(calls[c], changes).pc = "remove_worktree"
        /\ Fieldwise(calls[c], changes).raised = TRUE
        /\ Fieldwise(calls[c], changes).request = calls[c].request
        /\ Fieldwise(calls[c], changes).steps = calls[c].steps
    BY <1>1 DEF CallFields, Fieldwise, Call, Authorised
  <2>2. Update(c, changes)
    BY <1>6
  <2> HIDE DEF changes
  <2> QED  BY <1>4, <2>1, <2>2
<1> QED
  BY <1>5, <1>6 DEF AddWorktree

\* The first snapshot lets nothing but a clean worktree through.
LEMMA SnapshotSteps ==
    ASSUME CallsInv, NEW c \in Calls, InitialSnapshot(c) \/ FinalSnapshot(c)
    PROVE  CallsInv'
<1> DEFINE first == [pc |-> "verify", initial |-> dirs[c].worktree]
           second == [pc |-> "remove_worktree", final |-> dirs[c].worktree]
<1>1. /\ CallsTypeOK /\ calls[c] \in Call /\ CallOK(c) /\ HasWorktree(c)
      /\ UNCHANGED <<dirs, owner, registered, records>>
  BY DEF CallsInv, CallsTypeOK, InitialSnapshot, FinalSnapshot
<1>2. dirs[c].worktree \in Contents \cup {None}
  BY <1>1 DEF HasWorktree, CallsTypeOK, Dir
<1>3. CASE InitialSnapshot(c)
  <2>1. calls[c].pc = "initial" /\ dirs[c].worktree = "clean" /\ Update(c, first)
    BY <1>3 DEF InitialSnapshot, At
  <2> DEFINE new == Fieldwise(calls[c], first)
  <2>2. /\ DOMAIN first \subseteq CallFields /\ new \in Call
        /\ new.pc = "verify" /\ new.initial = "clean" /\ new.worktree = calls[c].worktree
        /\ new.request = calls[c].request /\ new.steps = calls[c].steps
    BY <1>1, <1>2, <2>1 DEF CallFields, Fieldwise, Call, Authorised, Trying
  <2> HIDE DEF first
  <2>3. ASSUME calls'[c] = new
        PROVE  Visits(c)' /\ Allowed(c)' /\ Snapshotted(c)' /\ Cleaned(c)' /\ FromVerify(c)'
    <3> HIDE DEF new
    <3>1. Visits(c)' /\ Allowed(c)' /\ Snapshotted(c)' /\ Cleaned(c)'
      BY <1>1, <2>1, <2>2, <2>3 DEF CallOK, Visits, Allowed, Snapshotted, Cleaned, Sweeping,
                                    CleaningUp, Authorised, Trying
    <3>2. FromVerify(c)'
      BY <1>1, <2>2, <2>3 DEF CallOK, FromVerify
    <3> QED  BY <3>1, <3>2
  <2> QED
    BY <1>1, <2>1, <2>2, <2>3, OwnStep DEF CallsTypeOK
<1>4. CASE FinalSnapshot(c)
  <2>1. calls[c].pc = "final" /\ Update(c, second)
    BY <1>4 DEF FinalSnapshot, At
  <2> DEFINE new == Fieldwise(calls[c], second)
  <2>2. /\ DOMAIN second \subseteq CallFields /\ new \in Call
        /\ new.pc = "remove_worktree" /\ new.worktree = calls[c].worktree
        /\ new.initial = calls[c].initial
        /\ new.request = calls[c].request /\ new.steps = calls[c].steps
    BY <1>1, <1>2 DEF CallFields, Fieldwise, Call, Authorised
  <2> HIDE DEF second
  <2>3. ASSUME calls'[c] = new
        PROVE  Visits(c)' /\ Allowed(c)' /\ Snapshotted(c)' /\ Cleaned(c)' /\ FromVerify(c)'
    <3> HIDE DEF new
    <3>1. Visits(c)' /\ Allowed(c)' /\ Snapshotted(c)' /\ Cleaned(c)'
      BY <1>1, <2>1, <2>2, <2>3 DEF CallOK, Visits, Allowed, Snapshotted, Cleaned, Sweeping,
                                    CleaningUp, Authorised, Trying
    <3>2. FromVerify(c)'
      BY <1>1, <2>2, <2>3 DEF CallOK, FromVerify
    <3> QED  BY <3>1, <3>2
  <2> QED
    BY <1>1, <2>1, <2>2, <2>3, OwnStep DEF CallsTypeOK
<1> QED
  BY <1>3, <1>4

\* verify.py leaves a JSON only if it accepted its arguments.
LEMMA VerifyStep ==
    ASSUME CallsInv, NEW c \in Calls, Verify(c)
    PROVE  CallsInv'
<1> DEFINE changes == [pc |-> "final"]
           new == Fieldwise(calls[c], changes)
<1>1. /\ CallsTypeOK /\ calls[c] \in Call /\ CallOK(c) /\ HasWorktree(c)
      /\ calls[c].pc = "verify" /\ Update(c, changes)
      /\ UNCHANGED <<owner, registered, records>>
  BY DEF CallsInv, CallsTypeOK, Verify, At, Goto
<1>2. PICK contents \in Contents, output \in BOOLEAN :
        /\ output => AcceptedArguments(calls[c].request)
        /\ dirs' = [dirs EXCEPT ![c].worktree = contents, ![c].steps = output]
  BY DEF Verify
<1>3. dirs[c] \in Dir
  BY <1>1 DEF CallsTypeOK, HasWorktree
<1>4. /\ dirs' \in [Calls -> Dir \cup {None}] /\ \A d \in Calls \ {c} : dirs'[d] = dirs[d]
      /\ dirs'[c].steps = output
  BY <1>1, <1>2, <1>3 DEF CallsTypeOK, Dir
<1>5. /\ DOMAIN changes \subseteq CallFields /\ new \in Call
      /\ new.pc = "final" /\ new.worktree = calls[c].worktree
      /\ new.initial = calls[c].initial
      /\ new.request = calls[c].request /\ new.steps = calls[c].steps
  BY <1>1 DEF CallFields, Fieldwise, Call, Authorised, Trying
<1> HIDE DEF changes
<1>6. ASSUME calls'[c] = new
      PROVE  Visits(c)' /\ Allowed(c)' /\ Snapshotted(c)' /\ Cleaned(c)' /\ FromVerify(c)'
  <2> HIDE DEF new
  <2>1. Visits(c)' /\ Allowed(c)' /\ Snapshotted(c)' /\ Cleaned(c)'
    BY <1>1, <1>5, <1>6 DEF CallOK, Visits, Allowed, Snapshotted, Cleaned, Sweeping,
                            CleaningUp, Authorised, Trying
  <2>2. FromVerify(c)'
    BY <1>1, <1>2, <1>4, <1>5, <1>6 DEF CallOK, FromVerify
  <2> QED  BY <2>1, <2>2
<1> QED
  BY <1>1, <1>4, <1>5, <1>6, OwnStep DEF CallsTypeOK

\* A removal that went well leaves the worktree neither to git nor on the disk.
LEMMA RemoveWorktreeStep ==
    ASSUME CallsInv, NEW c \in Calls, NEW ok \in BOOLEAN, RemoveWorktree(c, ok)
    PROVE  CallsInv'
<1> DEFINE changes == [pc |-> "read_steps", cleanup_ok |-> ok]
           new == Fieldwise(calls[c], changes)
<1>1. /\ CallsTypeOK /\ calls[c] \in Call /\ CallOK(c) /\ calls[c].pc = "remove_worktree"
      /\ Update(c, changes) /\ UNCHANGED <<owner, records>>
  BY DEF CallsInv, CallsTypeOK, RemoveWorktree, At
<1>2. /\ dirs' \in [Calls -> Dir \cup {None}] /\ \A d \in Calls \ {c} : dirs'[d] = dirs[d]
      /\ dirs'[c] # None => dirs[c] # None /\ dirs'[c].steps = dirs[c].steps
      /\ registered' \subseteq registered
      /\ calls[c].worktree /\ ok => Isolated(c)'
  <2>1. CASE calls[c].worktree /\ ok
    <3>1. /\ registered' = registered \ {c}
          /\ dirs' = IF dirs[c] = None THEN dirs ELSE [dirs EXCEPT ![c].worktree = None]
      BY <2>1 DEF RemoveWorktree
    <3> QED
      BY <1>1, <3>1 DEF CallsTypeOK, Dir, Isolated
  <2>2. CASE ~(calls[c].worktree /\ ok)
    BY <1>1, <2>2 DEF RemoveWorktree, CallsTypeOK
  <2> QED  BY <2>1, <2>2
<1>3. /\ DOMAIN changes \subseteq CallFields /\ new \in Call
      /\ new.pc = "read_steps" /\ new.cleanup_ok = ok
      /\ new.raised = calls[c].raised /\ new.initial = calls[c].initial
      /\ new.request = calls[c].request /\ new.steps = calls[c].steps
  BY <1>1 DEF CallFields, Fieldwise, Call, Authorised, CleaningUp
<1> HIDE DEF changes
<1>4. ASSUME calls'[c] = new
      PROVE  Visits(c)' /\ Allowed(c)' /\ Snapshotted(c)' /\ Cleaned(c)' /\ FromVerify(c)'
  <2> HIDE DEF new
  <2>1. Visits(c)' /\ Allowed(c)' /\ Snapshotted(c)'
    BY <1>1, <1>3, <1>4 DEF CallOK, Visits, Allowed, Snapshotted, Sweeping, CleaningUp,
                            Authorised, Trying
  <2>2. Cleaned(c)'
    BY <1>1, <1>2, <1>3, <1>4 DEF CallOK, Snapshotted, Cleaned, CleaningUp
  <2>3. FromVerify(c)'
    BY <1>1, <1>2, <1>3, <1>4 DEF CallOK, FromVerify
  <2> QED  BY <2>1, <2>2, <2>3
<1> QED
  BY <1>1, <1>2, <1>3, <1>4, OwnStep DEF CallsTypeOK

\* A JSON that is read is one that verify.py left.
LEMMA ReadStepsStep ==
    ASSUME CallsInv, NEW c \in Calls, ReadSteps(c)
    PROVE  CallsInv'
<1>1. /\ CallsTypeOK /\ calls[c] \in Call /\ CallOK(c) /\ calls[c].pc = "read_steps"
      /\ UNCHANGED <<dirs, owner, registered, records>>
  BY DEF CallsInv, CallsTypeOK, ReadSteps, At
<1>2. PICK output \in Runs[calls[c].request] \cup {None} :
        /\ output # None => dirs[c] # None /\ dirs[c].steps
        /\ Update(c, [pc |-> "release", steps |-> output])
  BY DEF ReadSteps
<1> DEFINE changes == [pc |-> "release", steps |-> output]
           new == Fieldwise(calls[c], changes)
<1>3. output \in Results \cup {None}
  BY <1>1 DEF Results, Call
<1>4. /\ DOMAIN changes \subseteq CallFields /\ new \in Call
      /\ new.pc = "release" /\ new.cleanup_ok = calls[c].cleanup_ok
      /\ new.raised = calls[c].raised /\ new.initial = calls[c].initial
      /\ new.request = calls[c].request /\ new.steps = output
  BY <1>1, <1>3 DEF CallFields, Fieldwise, Call, Authorised, CleaningUp
<1>5. Update(c, changes)
  BY <1>2
<1> HIDE DEF changes
<1>6. ASSUME calls'[c] = new
      PROVE  Visits(c)' /\ Allowed(c)' /\ Snapshotted(c)' /\ Cleaned(c)' /\ FromVerify(c)'
  <2> HIDE DEF new
  <2>1. Visits(c)' /\ Allowed(c)' /\ Snapshotted(c)'
    BY <1>1, <1>4, <1>6 DEF CallOK, Visits, Allowed, Snapshotted, Sweeping, CleaningUp,
                            Authorised, Trying
  <2>2. Cleaned(c)'
    BY <1>1, <1>4, <1>6 DEF CallOK, Cleaned, CleaningUp, Isolated
  <2>3. FromVerify(c)'
    BY <1>1, <1>2, <1>4, <1>6 DEF CallOK, FromVerify
  <2> QED  BY <2>1, <2>2, <2>3
<1> QED
  BY <1>1, <1>4, <1>5, <1>6, OwnStep DEF CallsTypeOK

\* Giving the lock back changes nothing else.
LEMMA ReleaseLockStep ==
    ASSUME CallsInv, NEW c \in Calls, ReleaseLock(c)
    PROVE  CallsInv'
<1> DEFINE changes == [pc |-> "remove_dir"]
           new == Fieldwise(calls[c], changes)
<1>1. /\ CallsTypeOK /\ calls[c] \in Call /\ CallOK(c) /\ calls[c].pc = "release"
      /\ Update(c, changes) /\ UNCHANGED <<dirs, registered, records>>
      /\ owner' \in [Calls -> Calls \cup {None}]
  BY DEF CallsInv, CallsTypeOK, ReleaseLock, At, Goto
<1>2. /\ DOMAIN changes \subseteq CallFields /\ new \in Call
      /\ new.pc = "remove_dir" /\ new.cleanup_ok = calls[c].cleanup_ok
      /\ new.raised = calls[c].raised /\ new.initial = calls[c].initial
      /\ new.request = calls[c].request /\ new.steps = calls[c].steps
  BY <1>1 DEF CallFields, Fieldwise, Call, Authorised, CleaningUp
<1> HIDE DEF changes
<1>3. ASSUME calls'[c] = new
      PROVE  Visits(c)' /\ Allowed(c)' /\ Snapshotted(c)' /\ Cleaned(c)' /\ FromVerify(c)'
  <2> HIDE DEF new
  <2>1. Visits(c)' /\ Allowed(c)' /\ Snapshotted(c)'
    BY <1>1, <1>2, <1>3 DEF CallOK, Visits, Allowed, Snapshotted, Sweeping, CleaningUp,
                            Authorised, Trying
  <2>2. Cleaned(c)' /\ FromVerify(c)'
    BY <1>1, <1>2, <1>3 DEF CallOK, Cleaned, CleaningUp, Isolated, FromVerify
  <2> QED  BY <2>1, <2>2
<1> QED
  BY <1>1, <1>2, <1>3, OwnStep DEF CallsTypeOK

\* Nothing raised and a cleanup that went well, or no conclusion.
LEMMA RemoveDirStep ==
    ASSUME CallsInv, NEW c \in Calls, NEW ok \in BOOLEAN, RemoveDir(c, ok)
    PROVE  CallsInv'
<1> DEFINE goesOn == [pc |-> "conclude"]
           after == IF CleanedUp(c, ok) THEN goesOn ELSE Over(c, "refused")
           new == Fieldwise(calls[c], after)
<1>1. /\ CallsTypeOK /\ calls[c] \in Call /\ CallOK(c) /\ calls[c].pc = "remove_dir"
      /\ UNCHANGED <<registered, records>>
  BY DEF CallsInv, CallsTypeOK, RemoveDir, At
<1>2. /\ DOMAIN goesOn \subseteq CallFields /\ Fieldwise(calls[c], goesOn) \in Call
      /\ Fieldwise(calls[c], goesOn).pc = "conclude"
      /\ Fieldwise(calls[c], goesOn).cleanup_ok = calls[c].cleanup_ok
      /\ Fieldwise(calls[c], goesOn).raised = calls[c].raised
      /\ Fieldwise(calls[c], goesOn).initial = calls[c].initial
      /\ Fieldwise(calls[c], goesOn).request = calls[c].request
      /\ Fieldwise(calls[c], goesOn).steps = calls[c].steps
  BY <1>1 DEF CallFields, Fieldwise, Call, Authorised, CleaningUp
<1>3. /\ Over(c, "refused") \in Call /\ DOMAIN Over(c, "refused") = CallFields
      /\ Fieldwise(calls[c], Over(c, "refused")) = Over(c, "refused")
  BY <1>1, OverFacts DEF Ended
<1> HIDE DEF goesOn
<1>4. DOMAIN after \subseteq CallFields /\ new \in Call
  BY <1>2, <1>3
<1>5. /\ CallsTypeOK' /\ calls'[c] = new
      /\ \A d \in Calls : NothingNew(d)
      /\ \A d \in Calls \ {c} : Unmoved(d)
  <2> HIDE DEF after
  <2>1. CASE dirs[c] = None
    <3>1. Update(c, after) /\ UNCHANGED <<dirs, owner>>
      BY <2>1 DEF RemoveDir, after, goesOn
    <3>2. /\ calls'[c] = new /\ \A d \in Calls \ {c} : calls'[d] = calls[d]
          /\ DOMAIN calls' = Calls /\ calls' = [d \in Calls |-> calls'[d]]
      BY <1>1, <1>4, <3>1, UpdateFacts
    <3> HIDE DEF new
    <3> QED
      BY <1>1, <1>4, <3>1, <3>2 DEF CallsTypeOK, NothingNew, Unmoved
  <2>2. CASE dirs[c] # None
    <3>1. Rmtree(c, c, ok, after)
      BY <2>2 DEF RemoveDir, after, goesOn
    <3> QED
      BY <1>1, <1>4, <2>2, <3>1, RmtreeBringsNothing
  <2> QED  BY <2>1, <2>2
<1>6. CASE CleanedUp(c, ok)
  <2>1. calls[c].cleanup_ok /\ ~calls[c].raised
    BY <1>6 DEF CleanedUp
  <2>2. /\ calls'[c].pc = "conclude" /\ calls'[c].cleanup_ok = calls[c].cleanup_ok
        /\ calls'[c].raised = calls[c].raised /\ calls'[c].initial = calls[c].initial
        /\ calls'[c].request = calls[c].request /\ calls'[c].steps = calls[c].steps
    BY <1>2, <1>5, <1>6
  <2>3. Visits(c)' /\ Allowed(c)' /\ Snapshotted(c)'
    BY <1>1, <2>2 DEF CallOK, Visits, Allowed, Snapshotted, Sweeping, CleaningUp, Authorised,
                      Trying
  <2>4. Cleaned(c)'
    BY <1>1, <1>5, <2>1, <2>2 DEF CallOK, Cleaned, CleaningUp, Isolated, NothingNew
  <2>5. FromVerify(c)'
    BY <1>1, <1>5, <2>2 DEF CallOK, FromVerify, NothingNew
  <2>6. CallOK(c)'
    BY <1>1, <2>3, <2>4, <2>5, NoRecordYet DEF CallOK
  <2>7. \A d \in Calls \ {c} : Undisturbed(d)
    BY <1>1, <1>5 DEF Undisturbed
  <2> QED
    BY <1>5, <2>6, <2>7, OneCallMoves
<1>7. CASE ~CleanedUp(c, ok)
  <2>1. calls'[c] = Over(c, "refused")
    BY <1>3, <1>5, <1>7
  <2> QED
    BY <1>1, <1>5, <2>1, EndsWithoutRecord DEF Ended
<1> QED
  BY <1>6, <1>7

\* A process that dies leaves its directory as it is.
LEMMA CrashStep ==
    ASSUME CallsInv, NEW c \in Calls, Crash(c)
    PROVE  CallsInv'
<1>1. owner' \in [Calls -> Calls \cup {None}]
  BY DEF CallsInv, CallsTypeOK, Crash
<1> QED
  BY <1>1, EndStep DEF Crash, Ended


-----------------------------------------------------------------------------
(***************************************************************************)
(* What the JSON of a run that passed says of the steps it was to execute. *)
(***************************************************************************)
\* Every step but the last one, which is always there and there once.
Earlier == {"static checks", "database checks", "focused pytest", "full pytest suite",
            "contract mutation witnesses", "migration matrix"}

HandoffStep == "handoff metadata validation"

\* The elements of two sequences put together.
LEMMA ToSetOfConcatenation ==
    ASSUME NEW S, NEW s \in Seq(S), NEW t \in Seq(S)
    PROVE  s \o t \in Seq(S) /\ ToSet(s \o t) = ToSet(s) \cup ToSet(t)
<1>1. ToSet(s) = Range(s) /\ ToSet(t) = Range(t) /\ ToSet(s \o t) = Range(s \o t)
  BY DEF ToSet, Range
<1> QED
  BY <1>1, RangeConcatenation, ConcatProperties

\* build_steps(r) is some of the earlier steps and then the handoff; a gate that
\* counts has the suite and the witnesses, a migration its matrix.
LEMMA BuildSteps ==
    ASSUME NEW r
    PROVE  /\ \E front \in Seq(Earlier) : build_steps(r) = front \o <<HandoffStep>>
           /\ ~r.docs_only /\ r.gate # "fast" =>
                "full pytest suite" \in ToSet(build_steps(r))
           /\ r.gate # "docs" => "contract mutation witnesses" \in ToSet(build_steps(r))
           /\ migration_required(r.paths) /\ ~r.docs_only =>
                "migration matrix" \in ToSet(build_steps(r))
<1> DEFINE If(condition, name) == IF condition THEN <<name>> ELSE <<>>
           s1 == <<"static checks">>
           s2 == If(~r.docs_only, "database checks")
           s3 == If(~r.docs_only /\ Focus(r) # {}, "focused pytest")
           s4 == If(~r.docs_only /\ r.gate # "fast", "full pytest suite")
           s5 == If(r.gate # "docs", "contract mutation witnesses")
           s6 == If(migration_required(r.paths) /\ ~r.docs_only, "migration matrix")
           s7 == <<HandoffStep>>
           first3 == s1 \o s2 \o s3
           first4 == first3 \o s4
           first5 == first4 \o s5
           front == first5 \o s6
           All == Earlier \cup {HandoffStep}
<1>1. build_steps(r) = front \o s7
  BY DEF build_steps, HandoffStep
<1>2. /\ s1 \in Seq(Earlier) /\ s2 \in Seq(Earlier) /\ s3 \in Seq(Earlier)
      /\ s4 \in Seq(Earlier) /\ s5 \in Seq(Earlier) /\ s6 \in Seq(Earlier)
  <2>1. <<>> \in Seq(Earlier) /\ \A name \in Earlier : <<name>> \in Seq(Earlier)
    OBVIOUS
  <2>2. /\ "static checks" \in Earlier /\ "database checks" \in Earlier
        /\ "focused pytest" \in Earlier /\ "full pytest suite" \in Earlier
        /\ "contract mutation witnesses" \in Earlier /\ "migration matrix" \in Earlier
    BY DEF Earlier
  <2> QED  BY <2>1, <2>2
<1>3. /\ ~r.docs_only /\ r.gate # "fast" => "full pytest suite" \in ToSet(s4)
      /\ r.gate # "docs" => "contract mutation witnesses" \in ToSet(s5)
      /\ migration_required(r.paths) /\ ~r.docs_only => "migration matrix" \in ToSet(s6)
  <2>1. \A name : name \in ToSet(<<name>>)
    BY DEF ToSet
  <2> QED  BY <2>1
<1> HIDE DEF s1, s2, s3, s4, s5, s6
<1>4. first3 \in Seq(Earlier)
  BY <1>2, ConcatProperties
<1> HIDE DEF first3
<1>5. first4 \in Seq(Earlier) /\ ToSet(first4) = ToSet(first3) \cup ToSet(s4)
  BY <1>2, <1>4, ToSetOfConcatenation
<1> HIDE DEF first4
<1>6. first5 \in Seq(Earlier) /\ ToSet(first5) = ToSet(first4) \cup ToSet(s5)
  BY <1>2, <1>5, ToSetOfConcatenation
<1> HIDE DEF first5
<1>7. front \in Seq(Earlier) /\ ToSet(front) = ToSet(first5) \cup ToSet(s6)
  BY <1>2, <1>6, ToSetOfConcatenation
<1> HIDE DEF front, s7
<1>8. ToSet(front) \subseteq ToSet(build_steps(r))
  <2>1. front \in Seq(All) /\ s7 \in Seq(All)
    BY <1>7, SeqMonotonic DEF s7
  <2> QED  BY <1>1, <2>1, ToSetOfConcatenation
<1> QED
  BY <1>1, <1>3, <1>5, <1>6, <1>7, <1>8 DEF s7

\* So the handoff is found at the end only.
LEMMA HandoffIsLast ==
    ASSUME NEW r
    PROVE  LET steps == build_steps(r)
           IN  /\ Len(steps) \in Nat /\ DOMAIN steps = 1..Len(steps) /\ Len(steps) > 0
               /\ \A i \in DOMAIN steps : steps[i] = HandoffStep <=> i = Len(steps)
<1>1. PICK front \in Seq(Earlier) : build_steps(r) = front \o <<HandoffStep>>
  BY BuildSteps
<1>2. \A i \in 1..Len(front) : front[i] # HandoffStep
  <2>1. \A i \in 1..Len(front) : front[i] \in Earlier
    BY ElementOfSeq
  <2>2. HandoffStep \notin Earlier
    BY DEF Earlier, HandoffStep
  <2> QED  BY <2>1, <2>2
<1> QED
  BY <1>1, <1>2

\* A run whose every step passed ran all it was to run.
LEMMA AllPassedRanAll ==
    ASSUME NEW r, NEW data \in Outputs(r)
    PROVE  /\ ToSet(build_steps(r)) \subseteq DOMAIN data.steps
           /\ all_passed(data) => data.ran = ToSet(build_steps(r))
<1> DEFINE steps == build_steps(r)
           index(name) == CHOOSE i \in DOMAIN steps : steps[i] = name
<1>1. PICK failing \in 1..Len(steps) + 1, cleanup \in {"PASS", "FAIL"},
           complete \in SUBSET Evidenced : data = StepData(r, failing, cleanup, complete)
  BY DEF Outputs
<1>2. /\ Len(steps) \in Nat /\ DOMAIN steps = 1..Len(steps) /\ Len(steps) > 0
      /\ \A i \in DOMAIN steps : steps[i] = HandoffStep <=> i = Len(steps)
  BY HandoffIsLast
<1>3. HandoffStep \in ToSet(steps) /\ index(HandoffStep) = Len(steps)
  BY <1>2 DEF ToSet
<1>4. /\ DOMAIN data.steps = ToSet(steps) \cup {"temporary-directory cleanup"}
      /\ data.steps[HandoffStep] = IF Len(steps) < failing THEN "PASS"
                               ELSE IF Len(steps) = failing THEN "FAIL" ELSE "NOT RUN"
      /\ data.ran = {steps[i] : i \in {j \in DOMAIN steps : j <= failing}}
  BY <1>1, <1>3 DEF StepData
<1>5. ASSUME all_passed(data) PROVE data.ran = ToSet(steps)
  <2>1. data.steps[HandoffStep] = "PASS"
    BY <1>3, <1>4, <1>5 DEF all_passed, Passed
  <2>2. Len(steps) < failing
    BY <1>4, <2>1
  <2>3. {j \in DOMAIN steps : j <= failing} = DOMAIN steps
    BY <1>1, <1>2, <2>2
  <2> QED
    BY <1>4, <2>3 DEF ToSet
<1> QED
  BY <1>4, <1>5

\* A diff with a migration has no gate but the final one.
LEMMA MigrationsForceTheFinalGate ==
    ASSUME NEW r, ValidRequest(r), MayVerify(r),
           migration_required(r.paths) \/ forces_final_gate(r.paths)
    PROVE  r.gate = "final"
<1>1. migration_required(r.paths) => forces_final_gate(r.paths)
  BY DEF migration_required, forces_final_gate, ValidRequest, ValidPath, Broad
<1> QED
  BY <1>1 DEF MayVerify, ValidRequest, Kinds

\* What an eligible record says, in the words of the property.
LEMMA EligibleIsVerified ==
    ASSUME NEW r, ValidRequest(r), MayVerify(r), AcceptedArguments(r),
           NEW data \in Outputs(r), all_passed(data),
           migration_matrix_genuinely_passed(data),
           r.gate = "final" => /\ "full pytest suite" \in data.complete
                               /\ "contract mutation witnesses" \in data.complete
    PROVE  Verified(r, data)
<1>1. /\ ToSet(build_steps(r)) \subseteq DOMAIN data.steps
      /\ data.ran = ToSet(build_steps(r))
  BY AllPassedRanAll
<1>2. r.gate = "final" => ~r.docs_only
  BY DEF AcceptedArguments
<1>3. migration_required(r.paths) => "migration matrix" \in data.ran \cap data.complete
  BY <1>1, <1>2, BuildSteps, MigrationsForceTheFinalGate DEF migration_matrix_genuinely_passed
<1>4. forces_final_gate(r.paths) \/ r.gate = "final" =>
        {"full pytest suite", "contract mutation witnesses"} \subseteq
          data.ran \cap data.complete
  <2>1. forces_final_gate(r.paths) \/ r.gate = "final" => r.gate = "final"
    BY MigrationsForceTheFinalGate
  <2>2. r.gate = "final" => /\ "full pytest suite" \in data.ran
                            /\ "contract mutation witnesses" \in data.ran
    BY <1>1, <1>2, BuildSteps
  <2> QED  BY <2>1, <2>2
<1> QED
  BY <1>1, <1>3, <1>4 DEF Verified

\* A record is built from what the stages before it established.
LEMMA ConcludeStep ==
    ASSUME CallsInv, NEW c \in Calls, NEW unchanged \in BOOLEAN, Conclude(c, unchanged)
    PROVE  CallsInv'
<1> DEFINE call == calls[c]
           r == call.request
           eligible == \/ r.kind = "post_merge"
                       \/ compute_approval_eligible(r.gate, call.steps, call.initial, call.final)
           record == [steps |-> call.steps, initial |-> call.initial, final |-> call.final,
                      approval_eligible |-> eligible]
<1>1. /\ CallsTypeOK /\ call \in Call /\ CallOK(c) /\ call.pc = "conclude"
      /\ UNCHANGED <<dirs, owner, registered>>
  BY DEF CallsInv, CallsTypeOK, Conclude, At
<1>2. owner' \in [Calls -> Calls \cup {None}]
  BY <1>1 DEF CallsTypeOK
<1>3. CASE ~(unchanged /\ Sound(c))
  BY <1>1, <1>2, <1>3, EndStep DEF Conclude, Ended
<1>4. CASE unchanged /\ Sound(c) /\ ~Recordable(c)
  BY <1>1, <1>2, <1>4, EndStep DEF Conclude, Ended
<1>5. CASE unchanged /\ Sound(c) /\ Recordable(c)
  <2>1. records' = [records EXCEPT ![c] = record] /\ End(c, "returned")
    BY <1>5 DEF Conclude
  <2>2. /\ r \in Requests /\ ValidRequest(r) /\ Runs[r] \subseteq Outputs(r)
        /\ MayVerify(r) /\ AcceptedArguments(r)
        /\ call.steps \in Runs[r] /\ call.steps \in Outputs(r)
    BY <1>1, <1>5, RequestAssumption DEF Sound, CallOK, Allowed, Authorised, CleaningUp,
                                         FromVerify, Call
  <2>3. call.initial = "clean" /\ call.final = "clean" /\ Isolated(c)
    BY <1>1, <1>5 DEF CallOK, Snapshotted, Cleaned, CleaningUp, Sound
  <2>4. eligible => Verified(r, call.steps)
    <3>1. CASE r.kind = "post_merge"
      <4>1. /\ all_passed(call.steps) /\ validate_post_merge_artifact(call.steps)
        BY <1>5, <3>1 DEF Sound, Recordable
      <4> QED
        BY <2>2, <4>1, EligibleIsVerified DEF validate_post_merge_artifact
    <3>2. CASE compute_approval_eligible(r.gate, call.steps, call.initial, call.final)
      BY <2>2, <3>2, EligibleIsVerified DEF compute_approval_eligible
    <3> QED  BY <3>1, <3>2
  <2> HIDE DEF eligible
  <2>5. /\ Over(c, "returned") \in Call /\ DOMAIN Over(c, "returned") = CallFields
        /\ Over(c, "returned").pc = "returned" /\ Over(c, "returned").request = r
        /\ Over(c, "returned").steps = None
        /\ Fieldwise(calls[c], Over(c, "returned")) = Over(c, "returned")
    BY <1>1, OverFacts DEF Ended
  <2>6. /\ calls'[c] = Over(c, "returned")
        /\ \A d \in Calls \ {c} : calls'[d] = calls[d]
        /\ DOMAIN calls' = Calls /\ calls' = [d \in Calls |-> calls'[d]]
    BY <1>1, <2>1, <2>5, UpdateFacts DEF End
  <2>7. /\ records'[c] = record /\ \A d \in Calls \ {c} : records'[d] = records[d]
        /\ DOMAIN records' = Calls /\ records' = [d \in Calls |-> records'[d]]
    BY <1>1, <2>1 DEF CallsTypeOK
  <2>8. CallsTypeOK'
    BY <1>1, <1>2, <2>5, <2>6, <2>7 DEF CallsTypeOK
  <2>9. Visits(c)' /\ Allowed(c)' /\ Snapshotted(c)' /\ Cleaned(c)'
    BY <2>5, <2>6 DEF Visits, Allowed, Snapshotted, Cleaned, Sweeping, Authorised, Trying,
                      CleaningUp
  <2>10. FromVerify(c)'
    BY <1>1, <2>5, <2>6 DEF CallOK, FromVerify
  <2>11. CallRecorded(c)'
    <3>1. /\ record.steps = call.steps /\ record.initial = call.initial
          /\ record.final = call.final /\ record.approval_eligible = eligible
      OBVIOUS
    <3>2. Isolated(c)'
      BY <1>1, <2>3 DEF Isolated
    <3> HIDE DEF record
    <3> QED
      BY <2>3, <2>4, <2>5, <2>6, <2>7, <3>1, <3>2 DEF CallRecorded
  <2>12. CallOK(c)'
    BY <2>9, <2>10, <2>11 DEF CallOK
  <2>13. \A d \in Calls \ {c} : Undisturbed(d)
    BY <1>1, <2>6, <2>7 DEF Undisturbed, Unmoved, NothingNew
  <2> QED
    BY <2>8, <2>12, <2>13, OneCallMoves
<1> QED
  BY <1>3, <1>4, <1>5

-----------------------------------------------------------------------------
(***************************************************************************)
(* The invariant and the theorems.                                         *)
(***************************************************************************)
\* No call has started.
LEMMA InvariantInit ==
    ASSUME Init
    PROVE  CallsInv
<1>1. PICK asked \in Asked : calls = [c \in Calls |-> NewCall(asked[c])]
  BY DEF Init
<1>2. asked \in [Calls -> Requests]
  BY RequestAssumption
<1>3. ASSUME NEW c \in Calls
      PROVE  /\ calls[c] \in Call /\ calls[c].pc = "start" /\ calls[c].steps = None
             /\ dirs[c] = None /\ records[c] = None
  <2>1. \A q \in Requests : /\ NewCall(q) \in Call /\ NewCall(q).pc = "start"
                            /\ NewCall(q).steps = None
    BY DEF NewCall, Call
  <2> QED
    BY <1>1, <1>2, <2>1 DEF Init
<1>4. CallsTypeOK
  BY <1>1, <1>3 DEF CallsTypeOK, Init
<1>5. ASSUME NEW c \in Calls PROVE CallOK(c)
  BY <1>3 DEF CallOK, Visits, Allowed, Snapshotted, Cleaned, FromVerify, CallRecorded, Sweeping,
              Authorised, Trying, CleaningUp
<1> QED
  BY <1>4, <1>5 DEF CallsInv

\* Each step preserves the invariant.
LEMMA InvariantStep ==
    ASSUME CallsInv, [Next]_vars
    PROVE  CallsInv'
<1>1. ASSUME NEW c \in Calls, NEW ok \in BOOLEAN, NEW contents \in Contents,
             \/ StartSweep(c) \/ SweepAcquire(c) \/ SweepRelease(c) \/ SweepDone(c)
             \/ Mkdtemp(c) \/ OpenLock(c) \/ AcquireLock(c) \/ Interrupt(c)
             \/ InitialSnapshot(c) \/ FinalSnapshot(c) \/ ReleaseLock(c) \/ Crash(c)
             \/ \E d \in Calls : SweepCheck(c, d)
             \/ SweepRemove(c, ok) \/ Authorise(c, ok) \/ RemoveWorktree(c, ok)
             \/ RemoveDir(c, ok) \/ Conclude(c, ok)
             \/ Verify(c) \/ ReadSteps(c) \/ AddWorktree(c, contents)
      PROVE  CallsInv'
  BY <1>1, SweepSteps, SweepAcquireStep, SweepRemoveStep, OpeningSteps, InterruptStep,
     AddWorktreeStep, SnapshotSteps, VerifyStep, RemoveWorktreeStep, ReadStepsStep,
     ReleaseLockStep, RemoveDirStep, ConcludeStep, CrashStep
<1>2. CASE Next
  <2>1. TRUE \in BOOLEAN /\ "clean" \in Contents
    BY DEF Contents
  <2> QED  BY <1>1, <1>2, <2>1 DEF Next
<1>3. CASE UNCHANGED vars
  <2> USE <1>3 DEF vars
  <2>1. CallsTypeOK'
    BY DEF CallsInv, CallsTypeOK
  <2>2. \A c \in Calls : Undisturbed(c)
    BY DEF Undisturbed, Unmoved, NothingNew
  <2> QED
    BY <2>1, <2>2, UndisturbedKeeps DEF CallsInv
<1> QED
  BY <1>2, <1>3

\* What every stage of a call has established holds whatever the other calls,
\* their sweeps and their crashes do in between.
THEOREM CoordinatorInvariant == Spec => []CallsInv
<1> QED
  BY InvariantInit, InvariantStep, PTL DEF Spec

\* Every receipt and every artifact stands for a run in a worktree of its own that
\* was clean before and after and that is gone, from git and from the disk, and
\* stays gone (cleanup before publication in both coordinators).
THEOREM RecordsStayIsolated == Spec => []RecordsAreIsolated
<1>1. CallsInv => RecordsAreIsolated
  BY DEF CallsInv, CallOK, CallRecorded, Isolated, RecordsAreIsolated
<1> QED
  BY <1>1, CoordinatorInvariant, PTL

\* What may be approved passed every step its diff demands, and the evidence of
\* each of them is in the record (verification_scope, compute_approval_eligible).
THEOREM EligibleRecordsAreVerified == Spec => []EligibleMeansVerified
<1>1. CallsInv => EligibleMeansVerified
  BY DEF CallsInv, CallOK, CallRecorded, Verified, EligibleMeansVerified
<1> QED
  BY <1>1, CoordinatorInvariant, PTL

-----------------------------------------------------------------------------
(***************************************************************************)
(* The inductive invariant.  A commit never changes; so what it says of    *)
(* others, and what they say of it, stays true.                            *)
(***************************************************************************)
SliceFields == {"stage", "made", "candidates", "head", "fork", "c", "a", "r", "m", "q",
           "first_parent", "receipt", "artifact"}

Roles == {"c", "a", "r", "m", "q"}

Stages == {"new", "candidate", "verified", "published", "reviewed", "merged", "post_merge",
           "q", "pushed"}

\* From where on a slice has the commit of a role.
StagesWith ==
    [c |-> Stages \ {"new"}, a |-> Stages \ {"new", "candidate", "verified"},
     r |-> {"reviewed", "merged", "post_merge", "q", "pushed"},
     m |-> {"merged", "post_merge", "q", "pushed"}, q |-> {"q", "pushed"}]

ReleaseTypeOK ==
    /\ {Root, main} \cup verified \subseteq DOMAIN commits
    /\ IsFiniteSet(DOMAIN commits)
    /\ \A x \in DOMAIN commits : ToSet(Parents(x)) \subseteq DOMAIN commits
    /\ DOMAIN work = Slices
    /\ \A s \in Slices :
         /\ DOMAIN work[s] = SliceFields /\ work[s].stage \in Stages /\ work[s].made \in Nat
         /\ \A n \in Nat : <<s, n>> \in DOMAIN commits => n <= work[s].made

\* The schema changes in x went through the matrix in a merged tree that has them.
Tested(x) ==
    \A edit \in Code(x) : edit.path.migration =>
        \E artifact \in OfKind("artifact", Tree(x).files) :
            /\ artifact.merged_commit \in DOMAIN commits
            /\ edit \in Code(artifact.merged_commit)
            /\ MatrixTriggered(artifact.data)
            /\ migration_matrix_genuinely_passed(artifact.data)

\* What a tree holds of the evidence of merges, the other holds too.
Keeps(tree, other) == OfKind("artifact", tree.files) \subseteq other.files

\* A receipt's base was main's tip when it was issued, and the candidate has its evidence.
ReceiptOK(f) ==
    /\ {"kind", "base", "candidate", "gate", "data"} \subseteq DOMAIN f
    /\ f.kind = "receipt"
    /\ {f.base, f.candidate} \subseteq DOMAIN commits
    /\ Tested(f.base)
    /\ Keeps(Tree(f.base), Tree(f.candidate))
    /\ receipt_eligible(f) => f.candidate \in verified

ArtifactOK(f) == f.kind = "artifact" /\ f.merged_commit \in DOMAIN commits

FileOK(f) ==
    /\ f.kind = "receipt" => ReceiptOK(f)
    /\ f.kind = "artifact" => ArtifactOK(f)

\* A review that approves is of a candidate among approvals.
SectionOK(section, approvals) ==
    /\ "kind" \in DOMAIN section
    /\ section.kind = "review" /\ section.verdict = "approved" => section.candidate \in approvals

HandoffOK(handoff, approvals) ==
    /\ handoff \in Seq(ToSet(handoff)) /\ handoff # <<>>
    /\ \A i \in DOMAIN handoff : SectionOK(handoff[i], approvals)

TreeOK(tree, approvals) ==
    /\ tree = [files |-> tree.files, handoff |-> tree.handoff]
    /\ \A f \in tree.files : FileOK(f)
    /\ HandoffOK(tree.handoff, approvals)

\* x is in every set of commits that has y and, of its members, the parents.
Below(x, y) ==
    \A T \in SUBSET DOMAIN commits :
        y \in T /\ (\A t \in T : ToSet(Parents(t)) \subseteq T) => x \in T

Own(s) == DOMAIN commits \cap ({s} \X Nat)

\* The commits of a slice are its own, and there when its stage needs them.
Owned(s) ==
    /\ \A role \in Roles : /\ work[s][role] \in Own(s) \cup {None}
                           /\ work[s].stage \in StagesWith[role] => work[s][role] # None
    /\ work[s].head \in Own(s) \cup {None}
    /\ work[s].stage = "new" => work[s].head = None
    /\ work[s].stage # "new" => /\ work[s].fork \in DOMAIN commits
                                /\ WorkDone(Handoff(work[s].c)) # {}

SliceRecorded(s) ==
    /\ work[s].stage = "verified" \/ work[s].receipt # None => ReceiptOK(work[s].receipt)
    /\ work[s].stage = "post_merge" \/ work[s].artifact # None => ArtifactOK(work[s].artifact)

\* Nobody builds on a commit that is still to be pushed.
Unpushed(s) ==
    work[s].stage = "q" =>
      /\ work[s].q # main
      /\ \A x \in DOMAIN commits : work[s].q \notin ToSet(Parents(x))

\* What descends from main's tip without a merge has all its artifacts.
Descends(s) ==
    \A x \in {work[s].c, work[s].a, work[s].head} \ {None} :
        Below(main, x) => Keeps(Tree(main), Tree(x))

WorkOK(s) == Owned(s) /\ SliceRecorded(s) /\ Unpushed(s) /\ Descends(s)

ReleaseInv ==
    /\ ReleaseTypeOK
    /\ \A x \in DOMAIN commits : TreeOK(Tree(x), approved)
    /\ \A s \in Slices : WorkOK(s)
    /\ Tested(main)
    /\ PublishedAsVerifiedAndApproved

-----------------------------------------------------------------------------
(***************************************************************************)
(* Handoffs and trees.                                                     *)
(***************************************************************************)
\* A sequence over any set is one over its elements.
LEMMA OverItsElements ==
  ASSUME NEW S, NEW h \in Seq(S)
  PROVE  h \in Seq(ToSet(h))
BY SeqOfRange DEF ToSet, Range

\* Appending a section.
LEMMA AppendOK ==
  ASSUME NEW approvals, NEW h, HandoffOK(h, approvals),
         NEW section, SectionOK(section, approvals)
  PROVE  /\ HandoffOK(Append(h, section), approvals)
         /\ DOMAIN Append(h, section) = 1..Len(h) + 1
         /\ Append(h, section)[Len(h) + 1] = section
         /\ Len(h) \in Nat
<1> DEFINE S == ToSet(h) \cup {section}
           new == Append(h, section)
<1>1. h \in Seq(S) /\ section \in S
  BY SeqMonotonic DEF HandoffOK
<1>2. /\ new \in Seq(S) /\ new # <<>> /\ Len(new) = Len(h) + 1
      /\ \A i \in 1..Len(h) : new[i] = h[i]
      /\ new[Len(h) + 1] = section
  BY <1>1, AppendProperties
<1>3. /\ Len(h) \in Nat /\ DOMAIN h = 1..Len(h) /\ DOMAIN new = 1..Len(new)
  BY <1>1, <1>2, LenProperties
<1>4. new \in Seq(ToSet(new))
  BY <1>2, OverItsElements
<1> HIDE DEF new, S
<1>5. \A i \in DOMAIN new : SectionOK(new[i], approvals)
  BY <1>2, <1>3 DEF HandoffOK
<1> QED
  BY <1>2, <1>3, <1>4, <1>5 DEF HandoffOK, new

\* Replacing one, if it is there.
LEMMA ReplaceOK ==
  ASSUME NEW approvals, NEW h, HandoffOK(h, approvals), NEW i,
         NEW section, SectionOK(section, approvals)
  PROVE  HandoffOK([h EXCEPT ![i] = section], approvals)
<1> DEFINE S == ToSet(h) \cup {section}
           new == [h EXCEPT ![i] = section]
<1>1. h \in Seq(S) /\ section \in S
  BY SeqMonotonic DEF HandoffOK
<1>2. /\ Len(h) \in Nat /\ DOMAIN h = 1..Len(h) /\ h \in [1..Len(h) -> S]
  BY <1>1, LenProperties
<1>3. CASE i \in DOMAIN h
  <2>1. /\ new \in Seq(S) /\ Len(new) = Len(h)
        /\ \A j \in 1..Len(h) : new[j] = IF j = i THEN section ELSE h[j]
    BY <1>1, <1>2, <1>3, ExceptSeq
  <2>2. new \in Seq(ToSet(new)) /\ DOMAIN new = DOMAIN h
    BY <1>2, <2>1, OverItsElements, LenProperties
  <2>3. new # <<>>
    BY <1>2, <2>1, EmptySeq DEF HandoffOK
  <2> QED
    BY <1>2, <2>1, <2>2, <2>3 DEF HandoffOK
<1>4. CASE i \notin DOMAIN h
  <2>1. new = h
    BY <1>2, <1>4
  <2> QED
    BY <2>1
<1> QED
  BY <1>3, <1>4

\* Keeping what both sides of a merge have appended.
LEMMA JoinOK ==
  ASSUME NEW approvals, NEW g, HandoffOK(g, approvals), NEW h, HandoffOK(h, approvals),
         NEW n \in Nat
  PROVE  HandoffOK(g \o SubSeq(h, n + 1, Len(h)), approvals)
<1> DEFINE S == ToSet(g) \cup ToSet(h)
           tail == SubSeq(h, n + 1, Len(h))
           new == g \o tail
<1>1. g \in Seq(S) /\ h \in Seq(S)
  BY SeqMonotonic DEF HandoffOK
<1>2. /\ Len(h) \in Nat /\ DOMAIN h = 1..Len(h) /\ h \in [1..Len(h) -> S]
      /\ Len(g) \in Nat /\ DOMAIN g = 1..Len(g)
  BY <1>1, LenProperties
<1>3. /\ tail \in Seq(S)
      /\ Len(tail) = IF n + 1 <= Len(h) THEN Len(h) - n ELSE 0
      /\ \A i \in 1..Len(h) - n : tail[i] = h[n + i]
  <2>1. \A i \in (n + 1)..Len(h) : h[i] \in S
    BY <1>2
  <2>2. n + 1 \in Int /\ Len(h) \in Int
    BY <1>2
  <2>3. /\ tail \in Seq(S)
        /\ Len(tail) = IF n + 1 <= Len(h) THEN Len(h) - (n + 1) + 1 ELSE 0
        /\ \A i \in 1..Len(h) - (n + 1) + 1 : tail[i] = h[(n + 1) + i - 1]
    BY <2>1, <2>2, SubSeqProperties
  <2> QED
    BY <1>2, <2>3
<1> HIDE DEF tail
<1>4. /\ new \in Seq(S) /\ Len(new) = Len(g) + Len(tail)
      /\ \A i \in 1..Len(g) + Len(tail) :
           new[i] = IF i <= Len(g) THEN g[i] ELSE tail[i - Len(g)]
  BY <1>1, <1>3, ConcatProperties
<1>5. DOMAIN new = 1..Len(new) /\ new \in Seq(ToSet(new))
  BY <1>4, LenProperties, OverItsElements
<1>6. new # <<>>
  BY <1>1, <1>3, ConcatEqualIffEmpty, ConcatSimplifications DEF HandoffOK
<1> HIDE DEF new
<1>7. ASSUME NEW i \in DOMAIN new PROVE SectionOK(new[i], approvals)
  <2>1. CASE i <= Len(g)
    BY <1>2, <1>4, <1>5, <1>7, <2>1 DEF HandoffOK
  <2>2. CASE ~(i <= Len(g))
    <3>1. /\ i - Len(g) \in 1..Len(h) - n /\ new[i] = tail[i - Len(g)]
      <4>1. i \in 1..Len(g) + Len(tail) /\ Len(g) \in Nat /\ Len(h) \in Nat
        BY <1>2, <1>4, <1>5, <1>7
      <4>2. Len(tail) = IF n + 1 <= Len(h) THEN Len(h) - n ELSE 0
        BY <1>3
      <4>3. i - Len(g) \in 1..Len(h) - n
        BY <2>2, <4>1, <4>2
      <4> QED
        BY <1>4, <2>2, <4>1, <4>3
    <3>2. new[i] = h[n + (i - Len(g))] /\ n + (i - Len(g)) \in DOMAIN h
      <4>1. PICK j : j = i - Len(g)
        OBVIOUS
      <4>2. j \in 1..Len(h) - n /\ tail[j] = h[n + j]
        BY <1>3, <3>1, <4>1
      <4>3. n + j \in 1..Len(h)
        BY <1>2, <4>2
      <4> QED
        BY <1>2, <3>1, <4>1, <4>2, <4>3
    <3> QED
      BY <3>2 DEF HandoffOK
  <2> QED
    BY <2>1, <2>2
<1> QED
  BY <1>5, <1>6, <1>7 DEF HandoffOK, new, tail

\* More approvals do no harm.
LEMMA MoreApprovals ==
  ASSUME NEW approvals, NEW more, approvals \subseteq more,
         NEW tree, TreeOK(tree, approvals)
  PROVE  TreeOK(tree, more)
BY DEF TreeOK, HandoffOK, SectionOK

-----------------------------------------------------------------------------
(***************************************************************************)
(* Ancestors.                                                              *)
(***************************************************************************)
\* A set of subsets of a finite set has a least one.
LEMMA LeastSubset ==
  ASSUME NEW S, IsFiniteSet(S), NEW T, T \subseteq SUBSET S, T # {}
  PROVE  \E x \in T : \A y \in T : y \subseteq x => y = x
<1>1. IsWellFoundedOn(StrictSubsetOrdering(S), SUBSET S)
  BY FS_StrictSubsetOrderingWellFounded, FS_FiniteSubsetsOfFinite
<1>2. PICK x \in T : \A y \in T : ~ (<<y, x>> \in StrictSubsetOrdering(S))
  BY <1>1, WFMin
<1> QED
  BY <1>2 DEF StrictSubsetOrdering

\* A set of numbers has a least one.
LEMMA LeastNumber ==
  ASSUME NEW T, T \subseteq Nat, T # {}
  PROVE  \E n \in T : \A m \in T : n <= m
<1>1. PICK k \in T : TRUE
  OBVIOUS
<1> DEFINE intervals == {x \in SUBSET (0..k) : \E n \in T : n <= k /\ x = 0..n}
<1>2. IsFiniteSet(0..k)
  BY <1>1, FS_Interval
<1>3. PICK x \in intervals : \A y \in intervals : y \subseteq x => y = x
  <2>1. 0..k \in intervals /\ intervals \subseteq SUBSET (0..k)
    BY <1>1
  <2> DEFINE S == 0..k
  <2>2. IsFiniteSet(S) /\ intervals # {} /\ intervals \subseteq SUBSET S
    BY <1>2, <2>1
  <2> HIDE DEF intervals, S
  <2> QED
    BY <2>2, LeastSubset
<1>4. PICK n \in T : n <= k /\ x = 0..n
  BY <1>3
<1>5. ASSUME NEW m \in T, m < n PROVE FALSE
  <2>1. 0..m \in intervals /\ 0..m \subseteq 0..n
    BY <1>1, <1>4, <1>5
  <2>2. n \in 0..m
    <3>1. 0..m = 0..n
      BY <1>3, <1>4, <2>1
    <3>2. n \in 0..n
      BY <1>4
    <3> QED
      BY <3>1, <3>2
  <2> QED
    BY <1>4, <1>5, <2>2
<1> QED
  BY <1>4, <1>5

\* f reaches the ancestors of y generation by generation, up to the n-th.
Reaches(f, y, n) ==
    f = [i \in 0..n |-> IF i = 0 THEN {y}
                        ELSE f[i - 1] \cup UNION {ToSet(Parents(c)) : c \in f[i - 1]}]

\* Following parents once more than before reaches what was reached and its parents.
LEMMA ReachesFurther ==
  ASSUME NEW y, NEW n \in Nat, NEW f, Reaches(f, y, n)
  PROVE  \E g : Reaches(g, y, n + 1)
<1> DEFINE More(set) == set \cup UNION {ToSet(Parents(c)) : c \in set}
           g == [i \in 0..n + 1 |-> IF i <= n THEN f[i] ELSE More(f[n])]
<1>1. \A i \in 0..n : f[i] = IF i = 0 THEN {y} ELSE More(f[i - 1])
  BY DEF Reaches
<1> HIDE DEF More
<1>2. ASSUME NEW i \in 0..n + 1 PROVE g[i] = IF i = 0 THEN {y} ELSE More(g[i - 1])
  <2>1. CASE i <= n
    <3>1. i \in 0..n /\ g[i] = f[i]
      BY <2>1
    <3>2. i # 0 => i - 1 \in 0..n /\ g[i - 1] = f[i - 1]
      BY <2>1
    <3> QED
      BY <1>1, <3>1, <3>2
  <2>2. CASE i = n + 1
    <3>1. i # 0 /\ g[i] = More(f[n])
      BY <2>2
    <3>2. g[i - 1] = f[n]
      BY <2>2
    <3> QED
      BY <3>1, <3>2
  <2> QED
    BY <2>1, <2>2
<1>3. g = [i \in 0..n + 1 |-> g[i]]
  OBVIOUS
<1> HIDE DEF g
<1>4. g = [i \in 0..n + 1 |-> IF i = 0 THEN {y} ELSE More(g[i - 1])]
  BY <1>2, <1>3
<1> QED
  BY <1>4 DEF Reaches, More

\* What is reached in some number of steps is reached in every greater number.
LEMMA ReachesAll ==
  ASSUME NEW y, NEW n \in Nat
  PROVE  \E f : Reaches(f, y, n)
<1> DEFINE bad == {k \in Nat : ~ \E f : Reaches(f, y, k)}
<1>1. SUFFICES ASSUME bad # {} PROVE FALSE
  OBVIOUS
<1>2. PICK k \in bad : \A m \in bad : k <= m
  <2>1. bad \subseteq Nat
    OBVIOUS
  <2> HIDE DEF bad
  <2> QED
    BY <1>1, <2>1, LeastNumber
<1>3. \E f : Reaches(f, y, 0)
  <2> DEFINE f == [i \in 0..0 |-> {y}]
  <2>1. Reaches(f, y, 0)
    BY DEF Reaches
  <2> QED
    BY <2>1
<1>4. k # 0 /\ k \in Nat
  BY <1>2, <1>3
<1>5. k - 1 \in Nat /\ k - 1 \notin bad
  BY <1>2, <1>4
<1>6. PICK f : Reaches(f, y, k - 1)
  BY <1>5
<1>7. \E g : Reaches(g, y, (k - 1) + 1)
  BY <1>5, <1>6, ReachesFurther
<1> QED
  BY <1>2, <1>4, <1>7

\* What git finds by following parents is in every set closed under them.
LEMMA AncestorsAreBelow ==
  ASSUME IsFiniteSet(DOMAIN commits), NEW x, NEW y, Ancestor(x, y)
  PROVE  Below(x, y)
<1> DEFINE n == Cardinality(DOMAIN commits)
           reached == CHOOSE f : Reaches(f, y, n)
<1>1. n \in Nat
  BY FS_CardinalityType
<1>2. x \in reached[n]
  BY DEF Ancestor, Reaches
<1>3. Reaches(reached, y, n)
  BY <1>1, ReachesAll
<1> HIDE DEF n, reached
<1>4. SUFFICES ASSUME NEW T \in SUBSET DOMAIN commits, y \in T,
                      \A t \in T : ToSet(Parents(t)) \subseteq T
               PROVE  x \in T
  BY DEF Below
<1> DEFINE bad == {i \in 0..n : ~(reached[i] \subseteq T)}
<1>5. SUFFICES ASSUME bad # {} PROVE FALSE
  BY <1>1, <1>2
<1>6. PICK k \in bad : \A m \in bad : k <= m
  <2>1. bad \subseteq Nat
    BY <1>1
  <2> HIDE DEF bad
  <2> QED
    BY <1>5, <2>1, LeastNumber
<1>7. \A i \in 0..n : reached[i] =
         IF i = 0 THEN {y}
         ELSE reached[i - 1] \cup UNION {ToSet(Parents(c)) : c \in reached[i - 1]}
  BY <1>3 DEF Reaches
<1>8. k # 0 /\ k \in 0..n
  BY <1>4, <1>6, <1>7, <1>1
<1>9. reached[k - 1] \subseteq T
  BY <1>1, <1>6, <1>8
<1>10. reached[k] \subseteq T
  <2>1. reached[k] = reached[k - 1] \cup UNION {ToSet(Parents(c)) : c \in reached[k - 1]}
    BY <1>7, <1>8
  <2>2. \A c \in reached[k - 1] : ToSet(Parents(c)) \subseteq T
    BY <1>4, <1>9
  <2> QED
    BY <1>9, <2>1, <2>2
<1> QED
  BY <1>6, <1>10

-----------------------------------------------------------------------------
(***************************************************************************)
(* A commit is added; nothing else in git's store changes.                 *)
(***************************************************************************)
Grows ==
    /\ DOMAIN commits \subseteq DOMAIN commits'
    /\ \A x \in DOMAIN commits : commits'[x] = commits[x]
    /\ verified \subseteq verified'

\* What is said of commits there are stays true.
LEMMA TestedStays ==
  ASSUME Grows, NEW x \in DOMAIN commits, Tested(x)
  PROVE  Tested(x)'
<1>1. Tree(x)' = Tree(x) /\ Code(x)' = Code(x)
  BY DEF Grows, Tree, Code
<1>2. ASSUME NEW edit \in Code(x)', edit.path.migration
      PROVE  \E artifact \in OfKind("artifact", Tree(x).files)' :
               /\ artifact.merged_commit \in DOMAIN commits'
               /\ edit \in Code(artifact.merged_commit)'
               /\ MatrixTriggered(artifact.data)
               /\ migration_matrix_genuinely_passed(artifact.data)
  <2>1. PICK artifact \in OfKind("artifact", Tree(x).files) :
               /\ artifact.merged_commit \in DOMAIN commits
               /\ edit \in Code(artifact.merged_commit)
               /\ MatrixTriggered(artifact.data)
               /\ migration_matrix_genuinely_passed(artifact.data)
    BY <1>1, <1>2 DEF Tested
  <2>2. Code(artifact.merged_commit)' = Code(artifact.merged_commit)
    BY <2>1 DEF Grows, Code, Tree
  <2> QED
    BY <1>1, <2>1, <2>2 DEF Grows, OfKind
<1> QED
  BY <1>2 DEF Tested

\* A receipt's claim of the candidate it names survives a step.
LEMMA ReceiptStays ==
  ASSUME Grows, NEW f, ReceiptOK(f)
  PROVE  ReceiptOK(f)'
<1>1. Tested(f.base)'
  BY TestedStays DEF ReceiptOK
<1>2. Tree(f.base)' = Tree(f.base) /\ Tree(f.candidate)' = Tree(f.candidate)
  BY DEF Grows, Tree, ReceiptOK
<1> QED
  BY <1>1, <1>2 DEF Grows, ReceiptOK

\* What an artifact's parents hold survives a step.
LEMMA ArtifactStays ==
  ASSUME Grows, NEW f, ArtifactOK(f)
  PROVE  ArtifactOK(f)'
BY DEF Grows, ArtifactOK

\* What a tree's files and sections may be survives a step.
LEMMA TreeStays ==
  ASSUME Grows, NEW tree, TreeOK(tree, approved')
  PROVE  TreeOK(tree, approved)'
<1>1. \A f \in tree.files : FileOK(f)'
  BY ReceiptStays, ArtifactStays DEF TreeOK, FileOK
<1> QED
  BY <1>1 DEF TreeOK, HandoffOK, SectionOK

\* So is what is below what.
LEMMA BelowStays ==
  ASSUME Grows, NEW x, NEW y \in DOMAIN commits, Below(x, y)'
  PROVE  Below(x, y)
<1> SUFFICES ASSUME NEW T \in SUBSET DOMAIN commits, y \in T,
                    \A t \in T : ToSet(Parents(t)) \subseteq T
             PROVE  x \in T
  BY DEF Below
<1>1. \A t \in T : ToSet(Parents(t))' \subseteq T
  BY DEF Grows, Parents, ToSet
<1>2. T \in SUBSET DOMAIN commits'
  BY DEF Grows
<1> QED
  BY <1>1, <1>2 DEF Below

\* Below a new commit with one parent is what is below the parent.
LEMMA BelowNew ==
  ASSUME Grows, NEW new, DOMAIN commits' = DOMAIN commits \cup {new},
         NEW parent \in DOMAIN commits, ToSet(Parents(new))' = {parent},
         NEW x, x # new, Below(x, new)'
  PROVE  Below(x, parent)
<1> SUFFICES ASSUME NEW T \in SUBSET DOMAIN commits, parent \in T,
                    \A t \in T : ToSet(Parents(t)) \subseteq T
             PROVE  x \in T
  BY DEF Below
<1>1. \A t \in T : ToSet(Parents(t))' \subseteq T
  BY DEF Grows, Parents, ToSet
<1>2. T \cup {new} \in SUBSET DOMAIN commits'
  BY DEF Grows
<1>3. \A t \in T \cup {new} : ToSet(Parents(t))' \subseteq T \cup {new}
  BY <1>1
<1>4. x \in T \cup {new}
  BY <1>2, <1>3 DEF Below
<1> QED
  BY <1>4

Changeable == {"stage", "head", "candidates", "fork", "first_parent"}

\* What Store does, field by field.
Stored(s, role, parents, tree, changes) ==
    LET new == NextCommit(s)
    IN  /\ new \notin DOMAIN commits /\ new \in {s} \X Nat
        /\ DOMAIN commits' = DOMAIN commits \cup {new}
        /\ commits'[new].parents = parents /\ commits'[new].tree = tree
        /\ \A x \in DOMAIN commits : commits'[x] = commits[x]
        /\ DOMAIN work' = Slices /\ \A t \in Slices \ {s} : work'[t] = work[t]
        /\ DOMAIN work'[s] = SliceFields
        /\ work'[s].made = work[s].made + 1 /\ new = <<s, work[s].made + 1>>
        /\ work'[s][role] = new
        /\ \A f \in SliceFields \ {role, "made"} :
             work'[s][f] = IF f \in DOMAIN changes THEN changes[f] ELSE work[s][f]

\* What a commit stores, and that nothing else of the commits changes.
LEMMA StoreStores ==
  ASSUME ReleaseTypeOK, NEW s \in Slices, NEW role \in Roles, NEW parents, NEW tree,
         NEW changes, DOMAIN changes \subseteq Changeable,
         Store(s, role, parents, tree, changes)
  PROVE  Stored(s, role, parents, tree, changes)
<1> DEFINE new == NextCommit(s)
           commit == [parents |-> parents, tree |-> tree]
           u == [f \in DOMAIN work[s] |-> IF f \in DOMAIN changes THEN changes[f] ELSE work[s][f]]
           w == [u EXCEPT !.made = work[s].made + 1, ![role] = new]
<1>1. work[s].made \in Nat /\ DOMAIN work = Slices /\ DOMAIN work[s] = SliceFields
  BY DEF ReleaseTypeOK
<1>2. new = <<s, work[s].made + 1>> /\ new \in {s} \X Nat
  BY <1>1 DEF NextCommit
<1>3. new \notin DOMAIN commits
  BY <1>1, <1>2 DEF ReleaseTypeOK
<1>4. commits' = [x \in DOMAIN commits \cup {new} |-> IF x = new THEN commit ELSE commits[x]]
  BY DEF Store
<1>5. work' = [work EXCEPT ![s] = w]
  BY DEF Store
<1>6. /\ DOMAIN w = SliceFields /\ w[role] = new /\ w.made = work[s].made + 1
      /\ \A f \in SliceFields \ {role, "made"} :
           w[f] = IF f \in DOMAIN changes THEN changes[f] ELSE work[s][f]
  BY <1>1 DEF SliceFields, Roles, Changeable
<1> HIDE DEF w, new
<1>7. /\ DOMAIN work' = Slices /\ work'[s] = w
      /\ \A t \in Slices \ {s} : work'[t] = work[t]
  BY <1>1, <1>5
<1>8. /\ DOMAIN commits' = DOMAIN commits \cup {new} /\ commits'[new] = commit
      /\ \A x \in DOMAIN commits : commits'[x] = commits[x]
  BY <1>3, <1>4
<1> QED
  BY <1>2, <1>3, <1>6, <1>7, <1>8 DEF Stored, new

\* What has reached main stays as it is while main does.
LEMMA PublishedStays ==
  ASSUME Grows, approved \subseteq approved', verified \subseteq DOMAIN commits,
         main \in DOMAIN commits, main' = main, PublishedAsVerifiedAndApproved
  PROVE  PublishedAsVerifiedAndApproved'
<1> SUFFICES ASSUME main # Root
             PROVE  \E c \in verified' \cap approved' :
                      /\ Code(main)' = Code(c)'
                      /\ IsPrefix(SubSeq(Handoff(c), 1, LatestWorkDone(Handoff(c)) - 1),
                                  Handoff(main))'
  BY DEF PublishedAsVerifiedAndApproved
<1>1. PICK c \in verified \cap approved :
        /\ Code(main) = Code(c)
        /\ IsPrefix(SubSeq(Handoff(c), 1, LatestWorkDone(Handoff(c)) - 1), Handoff(main))
  BY DEF PublishedAsVerifiedAndApproved
<1>2. Tree(c)' = Tree(c) /\ Tree(main)' = Tree(main)
  BY DEF Grows, Tree
<1>3. /\ Code(c)' = Code(c) /\ Code(main)' = Code(main)
      /\ Handoff(c)' = Handoff(c) /\ Handoff(main)' = Handoff(main)
  BY <1>2 DEF Code, Handoff
<1>4. IsPrefix(SubSeq(Handoff(c), 1, LatestWorkDone(Handoff(c)) - 1), Handoff(main))'
  BY <1>1, <1>3
<1> QED
  BY <1>1, <1>3, <1>4 DEF Grows

\* The step of one slice, that adds a commit to main or to its own ones, takes
\* nothing from the others.
LEMMA NewCommit ==
  ASSUME ReleaseInv, NEW s \in Slices, NEW role \in Roles, NEW parents, NEW tree,
         NEW changes, DOMAIN changes \subseteq Changeable,
         "stage" \in DOMAIN changes, changes.stage \in Stages,
         Stored(s, role, parents, tree, changes),
         ToSet(parents) \subseteq {main} \cup Own(s),
         TreeOK(tree, approved'), approved \subseteq approved',
         verified' = verified, main' = main
  PROVE  /\ Grows /\ ReleaseTypeOK'
         /\ \A x \in DOMAIN commits' : TreeOK(Tree(x), approved)'
         /\ \A t \in Slices \ {s} : WorkOK(t)'
         /\ Tested(main)' /\ PublishedAsVerifiedAndApproved'
<1> DEFINE new == NextCommit(s)
<1>1. /\ new \notin DOMAIN commits /\ new \in {s} \X Nat
      /\ DOMAIN commits' = DOMAIN commits \cup {new}
      /\ commits'[new].parents = parents /\ commits'[new].tree = tree
      /\ \A x \in DOMAIN commits : commits'[x] = commits[x]
      /\ DOMAIN work' = Slices /\ \A t \in Slices \ {s} : work'[t] = work[t]
      /\ DOMAIN work'[s] = SliceFields
      /\ work'[s].made = work[s].made + 1 /\ new = <<s, work[s].made + 1>>
      /\ work'[s].stage \in Stages
  BY DEF Stored, SliceFields, Roles
<1>2. Grows
  BY <1>1 DEF Grows
<1> HIDE DEF new
<1>3. ReleaseTypeOK
  BY DEF ReleaseInv
<1>4. ReleaseTypeOK'
  <2>1. {Root, main}' \cup verified' \subseteq DOMAIN commits'
    BY <1>1, <1>3 DEF ReleaseTypeOK
  <2>2. IsFiniteSet(DOMAIN commits')
    BY <1>1, <1>3, FS_AddElement DEF ReleaseTypeOK
  <2>3. ASSUME NEW x \in DOMAIN commits' PROVE ToSet(Parents(x))' \subseteq DOMAIN commits'
    <3>1. CASE x = new
      <4>1. ToSet(Parents(x))' = ToSet(parents)
        BY <1>1, <3>1 DEF Parents
      <4> QED
        BY <1>1, <1>3, <4>1 DEF ReleaseTypeOK, Own
    <3>2. CASE x \in DOMAIN commits
      <4>1. Parents(x)' = Parents(x)
        BY <1>1, <3>2 DEF Parents
      <4> QED
        BY <1>1, <1>3, <3>2, <4>1 DEF ReleaseTypeOK, ToSet
    <3> QED
      BY <1>1, <3>1, <3>2
  <2>4. ASSUME NEW t \in Slices
        PROVE  /\ DOMAIN work'[t] = SliceFields /\ work'[t].stage \in Stages
               /\ work'[t].made \in Nat
               /\ \A n \in Nat : <<t, n>> \in DOMAIN commits' => n <= work'[t].made
    <3>1. CASE t = s
      BY <1>1, <1>3, <3>1 DEF ReleaseTypeOK
    <3>2. CASE t # s
      <4>1. \A n \in Nat : <<t, n>> # new
        BY <1>1, <3>2
      <4> QED
        BY <1>1, <1>3, <3>2, <4>1 DEF ReleaseTypeOK
    <3> QED
      BY <3>1, <3>2
  <2> QED
    BY <1>1, <2>1, <2>2, <2>3, <2>4 DEF ReleaseTypeOK
<1>5. ASSUME NEW x \in DOMAIN commits' PROVE TreeOK(Tree(x), approved)'
  <2>1. CASE x = new
    BY <1>1, <1>2, <2>1, TreeStays DEF Tree
  <2>2. CASE x \in DOMAIN commits
    <3>1. TreeOK(Tree(x), approved')
      BY <2>2, MoreApprovals DEF ReleaseInv
    <3> QED
      BY <1>1, <1>2, <2>2, <3>1, TreeStays DEF Tree
  <2> QED
    BY <1>1, <2>1, <2>2
<1>6. Tested(main)'
  <2>1. main \in DOMAIN commits /\ Tested(main)
    BY <1>3 DEF ReleaseInv, ReleaseTypeOK
  <2>2. Tested(main)' <=> \A x : x = main => Tested(x)'
    BY DEF Tested, Code, Tree
  <2> QED
    BY <1>2, <2>1, <2>2, TestedStays
<1>7. PublishedAsVerifiedAndApproved'
  BY <1>2, <1>3, PublishedStays DEF ReleaseInv, ReleaseTypeOK
<1>8. ASSUME NEW t \in Slices \ {s} PROVE WorkOK(t)'
  <2>1. WorkOK(t) /\ work'[t] = work[t]
    BY <1>1 DEF ReleaseInv
  <2>2. Owned(t)'
    <3>1. Own(t) \subseteq Own(t)'
      BY <1>1 DEF Own
    <3>2. work[t].stage # "new" => Handoff(work[t].c)' = Handoff(work[t].c)
      <4>1. work[t].stage # "new" => work[t].c \in DOMAIN commits
        BY <1>3, <2>1 DEF WorkOK, Owned, Own, StagesWith, Roles, ReleaseTypeOK
      <4> QED
        BY <1>1, <4>1 DEF Handoff, Tree
    <3>3. work[t].stage # "new" => WorkDone(Handoff(work[t].c)') # {}
      BY <2>1, <3>2 DEF WorkOK, Owned
    <3> QED
      BY <1>1, <2>1, <3>1, <3>3 DEF WorkOK, Owned
  <2>3. SliceRecorded(t)'
    BY <1>2, <2>1, ReceiptStays, ArtifactStays DEF WorkOK, SliceRecorded
  <2>4. Unpushed(t)'
    <3>1. /\ work[t].stage = "q" => work[t].q # main
          /\ work[t].stage = "q" => \A y \in DOMAIN commits : work[t].q \notin ToSet(Parents(y))
      BY <2>1 DEF WorkOK, Unpushed
    <3>2. work[t].stage = "q" => work[t].q \in Own(t)
      BY <2>1 DEF WorkOK, Owned, StagesWith, Roles
    <3>3. ASSUME work[t].stage = "q", NEW x \in DOMAIN commits'
          PROVE  work[t].q \notin ToSet(Parents(x))'
      <4>1. CASE x = new
        <5>1. Parents(x)' = parents
          BY <1>1, <4>1 DEF Parents
        <5>2. work[t].q \notin Own(s)
          BY <3>2, <3>3 DEF Own
        <5> QED
          BY <3>1, <3>3, <5>1, <5>2 DEF ToSet
      <4>2. CASE x \in DOMAIN commits
        <5>1. Parents(x)' = Parents(x)
          BY <1>1, <4>2 DEF Parents
        <5> QED
          BY <3>1, <3>3, <4>2, <5>1 DEF ToSet
      <4> QED
        BY <1>1, <4>1, <4>2
    <3> QED
      BY <2>1, <3>1, <3>3 DEF Unpushed
  <2>5. Descends(t)'
    <3> SUFFICES ASSUME NEW x \in {work[t].c, work[t].a, work[t].head} \ {None},
                        Below(main, x)'
                 PROVE  Keeps(Tree(main)', Tree(x)')
      BY <2>1 DEF Descends
    <3>1. x \in DOMAIN commits
      BY <2>1 DEF WorkOK, Owned, Own, Roles
    <3>2. Below(main, x)
      <4>1. Below(main, x)' <=> \A m : m = main => Below(m, x)'
        BY DEF Below
      <4> QED
        BY <1>2, <3>1, <4>1, BelowStays
    <3>3. Keeps(Tree(main), Tree(x))
      BY <2>1, <3>2 DEF WorkOK, Descends
    <3> QED
      BY <1>1, <1>3, <3>1, <3>3 DEF Tree, ReleaseTypeOK
  <2> QED
    BY <2>2, <2>3, <2>4, <2>5 DEF WorkOK
<1> QED
  BY <1>2, <1>4, <1>5, <1>6, <1>7, <1>8

\* A step that adds no commit and verifies some takes nothing from the others.
LEMMA SameCommits ==
  ASSUME ReleaseInv, NEW s \in Slices, commits' = commits,
         verified \subseteq verified', verified' \subseteq DOMAIN commits,
         approved' = approved, main' = main,
         DOMAIN work' = Slices, \A t \in Slices \ {s} : work'[t] = work[t],
         DOMAIN work'[s] = SliceFields, work'[s].made = work[s].made, work'[s].stage \in Stages
  PROVE  /\ Grows /\ ReleaseTypeOK'
         /\ \A x \in DOMAIN commits' : TreeOK(Tree(x), approved)'
         /\ \A t \in Slices \ {s} : WorkOK(t)'
         /\ Tested(main)' /\ PublishedAsVerifiedAndApproved'
<1>1. Grows
  BY DEF Grows
<1>2. ReleaseTypeOK'
  BY DEF ReleaseInv, ReleaseTypeOK, Parents
<1>3. \A x \in DOMAIN commits' : TreeOK(Tree(x), approved)'
  <2> SUFFICES ASSUME NEW x \in DOMAIN commits' PROVE TreeOK(Tree(x), approved)'
    OBVIOUS
  <2>1. TreeOK(Tree(x), approved') /\ Tree(x)' = Tree(x)
    BY DEF ReleaseInv, Tree
  <2> QED
    BY <1>1, <2>1, TreeStays
<1>4. Tested(main)'
  <2>1. main \in DOMAIN commits /\ Tested(main)
    BY DEF ReleaseInv, ReleaseTypeOK
  <2>2. Tested(main)' <=> \A x : x = main => Tested(x)'
    BY DEF Tested, Code, Tree
  <2> QED
    BY <1>1, <2>1, <2>2, TestedStays
<1>5. PublishedAsVerifiedAndApproved'
  BY <1>1, PublishedStays DEF ReleaseInv, ReleaseTypeOK
<1>6. ASSUME NEW t \in Slices \ {s} PROVE WorkOK(t)'
  <2>1. WorkOK(t) /\ work'[t] = work[t]
    BY DEF ReleaseInv
  <2>2. Owned(t)'
    BY <2>1 DEF WorkOK, Owned, Own, Handoff, Tree
  <2>3. SliceRecorded(t)'
    BY <1>1, <2>1, ReceiptStays, ArtifactStays DEF WorkOK, SliceRecorded
  <2>4. Unpushed(t)' /\ Descends(t)'
    BY <2>1 DEF WorkOK, Unpushed, Descends, Below, Parents, Tree
  <2> QED
    BY <2>2, <2>3, <2>4 DEF WorkOK
<1> QED
  BY <1>1, <1>2, <1>3, <1>4, <1>5, <1>6

-----------------------------------------------------------------------------
(***************************************************************************)
(* Trees with a mistake in them, and the newest Work done section.         *)
(***************************************************************************)
\* A commit has the tree that is meant or a wrong one.
LEMMA CommitsOne ==
  ASSUME NEW s, NEW role, NEW parents, NEW meant, NEW wrong, NEW changes,
         CommitOf(s, role, parents, meant, wrong, changes)
  PROVE  \E tree \in {meant} \cup wrong : Store(s, role, parents, tree, changes)
BY DEF CommitOf

\* An edit, and what is no record, may be in any tree.
LEMMA SlipsOK ==
  ASSUME NEW s \in Slices, NEW approvals, NEW tree, TreeOK(tree, approvals),
         NEW slip \in Slips(tree)
  PROVE  TreeOK(slip, approvals) /\ tree.files \subseteq slip.files
<1>1. Stray.kind = "edit"
  BY ReleaseAssumption
<1>2. CASE slip = [tree EXCEPT !.files = @ \cup {Stray}]
  <2>1. slip = [files |-> tree.files \cup {Stray}, handoff |-> tree.handoff]
    BY <1>2 DEF TreeOK
  <2>2. FileOK(Stray)
    BY <1>1 DEF FileOK
  <2> QED
    BY <2>1, <2>2 DEF TreeOK
<1>3. CASE slip = [tree EXCEPT !.handoff[1] = [kind |-> "rewritten"]]
  <2> DEFINE handoff == [tree.handoff EXCEPT ![1] = [kind |-> "rewritten"]]
  <2>1. slip = [files |-> tree.files, handoff |-> handoff]
    BY <1>3 DEF TreeOK
  <2>2. SectionOK([kind |-> "rewritten"], approvals)
    BY DEF SectionOK
  <2>3. HandoffOK(handoff, approvals)
    BY <2>2, ReplaceOK DEF TreeOK
  <2> HIDE DEF handoff
  <2> QED
    BY <2>1, <2>3 DEF TreeOK
<1> QED
  BY <1>2, <1>3 DEF Slips

\* If there is one, the newest is it.
LEMMA LatestIsOne ==
  ASSUME NEW approvals, NEW h, HandoffOK(h, approvals), WorkDone(h) # {}
  PROVE  /\ LatestWorkDone(h) \in WorkDone(h)
         /\ \A j \in WorkDone(h) : j <= LatestWorkDone(h)
<1>1. Len(h) \in Nat /\ DOMAIN h = 1..Len(h)
  BY LenProperties DEF HandoffOK
<1> DEFINE left == {n \in Nat : \E i \in WorkDone(h) : n = Len(h) - i}
<1>2. PICK n \in left : \A m \in left : n <= m
  <2>1. PICK j \in WorkDone(h) : TRUE
    OBVIOUS
  <2>2. Len(h) - j \in Nat
    BY <1>1 DEF WorkDone
  <2>3. Len(h) - j \in left /\ left \subseteq Nat
    BY <2>2
  <2> HIDE DEF left
  <2> QED
    BY <2>3, LeastNumber
<1>3. PICK i \in WorkDone(h) : n = Len(h) - i
  BY <1>2
<1>4. ASSUME NEW j \in WorkDone(h) PROVE j <= i
  <2>1. i \in Nat /\ j \in Nat /\ Len(h) \in Nat /\ Len(h) - j \in Nat
    BY <1>1 DEF WorkDone
  <2>2. Len(h) - j \in left
    BY <2>1
  <2>3. Len(h) - i <= Len(h) - j
    BY <1>2, <1>3, <2>2
  <2> HIDE DEF left
  <2> QED
    BY <2>1, <2>3
<1> QED
  BY <1>4 DEF LatestWorkDone

-----------------------------------------------------------------------------
(***************************************************************************)
(* The actions.                                                            *)
(***************************************************************************)
\* What the slice itself keeps, when it adds a commit and no candidate.
LEMMA KeepsItsOwn ==
  ASSUME ReleaseInv, NEW s \in Slices, work[s].stage # "new", NEW role \in Roles \ {"c"},
         NEW parents, NEW tree, NEW changes,
         DOMAIN changes \in {{"stage"}, {"stage", "head"}, {"stage", "first_parent"}},
         changes.stage \notin {"new", "verified", "post_merge"},
         "head" \in DOMAIN changes => changes.head = NextCommit(s),
         Stored(s, role, parents, tree, changes), Grows, main' = main, approved \subseteq approved',
         \A needed \in Roles \ {role} :
             changes.stage \in StagesWith[needed] => work[s].stage \in StagesWith[needed]
  PROVE  /\ Owned(s)' /\ SliceRecorded(s)'
         /\ \A x \in {work[s].c, work[s].a, work[s].head} \ {None} :
              Below(main, x)' => Keeps(Tree(main)', Tree(x)')
<1> DEFINE new == NextCommit(s)
<1>1. /\ new \notin DOMAIN commits /\ new \in {s} \X Nat
      /\ DOMAIN commits' = DOMAIN commits \cup {new}
      /\ \A x \in DOMAIN commits : commits'[x] = commits[x]
      /\ work'[s][role] = new
      /\ work'[s].stage = changes.stage
      /\ work'[s].head \in {new, work[s].head}
      /\ work'[s].fork = work[s].fork /\ work'[s].receipt = work[s].receipt
      /\ work'[s].artifact = work[s].artifact /\ work'[s].c = work[s].c
      /\ \A other \in Roles \ {role} : work'[s][other] = work[s][other]
  BY DEF Stored, SliceFields, Roles
<1>2. WorkOK(s) /\ ReleaseTypeOK
  BY DEF ReleaseInv
<1> HIDE DEF new
<1>3. new # None
  BY <1>1, ReleaseAssumption
<1>4. Own(s)' = Own(s) \cup {new}
  BY <1>1 DEF Own
<1>5. work[s].c \in DOMAIN commits
  BY <1>2 DEF WorkOK, Owned, StagesWith, Roles, Own, ReleaseTypeOK
<1>6. Owned(s)'
  <2>1. WorkDone(Handoff(work[s].c)') # {}
    BY <1>1, <1>2, <1>5 DEF WorkOK, Owned, Handoff, Tree
  <2>2. ASSUME NEW other \in Roles
        PROVE  /\ work'[s][other] \in Own(s)' \cup {None}
               /\ work'[s].stage \in StagesWith[other] => work'[s][other] # None
    <3>1. CASE other = role
      BY <1>1, <1>3, <1>4, <3>1
    <3>2. CASE other # role
      BY <1>1, <1>2, <1>4, <3>2 DEF WorkOK, Owned
    <3> QED
      BY <3>1, <3>2
  <2>3. work'[s].head \in Own(s)' \cup {None}
    BY <1>1, <1>2, <1>4 DEF WorkOK, Owned
  <2> QED
    BY <1>1, <1>2, <2>1, <2>2, <2>3 DEF WorkOK, Owned
<1>7. SliceRecorded(s)'
  BY <1>1, <1>2, ReceiptStays, ArtifactStays DEF WorkOK, SliceRecorded
<1>8. ASSUME NEW x \in {work[s].c, work[s].a, work[s].head} \ {None}, Below(main, x)'
      PROVE  Keeps(Tree(main)', Tree(x)')
  <2>1. x \in DOMAIN commits
    BY <1>2 DEF WorkOK, Owned, Own, Roles
  <2>2. Below(main, x)
    <3>1. Below(main, x)' <=> \A y : y = main => Below(y, x)'
      BY DEF Below
    <3> QED
      BY <1>8, <2>1, <3>1, BelowStays
  <2>3. Keeps(Tree(main), Tree(x))
    BY <1>2, <2>2 DEF WorkOK, Descends
  <2> QED
    BY <1>1, <1>2, <2>1, <2>3 DEF Tree, ReleaseTypeOK
<1> QED
  BY <1>6, <1>7, <1>8

\* A commit on top of one that has main's artifacts, if main's tip is below it.
LEMMA OnTop ==
  ASSUME ReleaseInv, NEW s \in Slices, NEW role, NEW parent \in DOMAIN commits, NEW tree,
         NEW changes,
         Stored(s, role, <<parent>>, tree, changes), Grows, main' = main,
         Below(main, parent) => Keeps(Tree(main), Tree(parent)),
         Keeps(Tree(parent), tree)
  PROVE  \A x \in DOMAIN commits' \ DOMAIN commits :
           Below(main, x)' => Keeps(Tree(main)', Tree(x)')
<1> SUFFICES ASSUME NEW x \in DOMAIN commits' \ DOMAIN commits, Below(main, x)'
             PROVE  Keeps(Tree(main)', Tree(x)')
  OBVIOUS
<1>1. /\ DOMAIN commits' = DOMAIN commits \cup {x}
      /\ commits'[x].parents = <<parent>> /\ commits'[x].tree = tree
      /\ commits'[main] = commits[main] /\ main \in DOMAIN commits
  BY DEF Stored, ReleaseInv, ReleaseTypeOK
<1>2. ToSet(Parents(x))' = {parent}
  <2>1. Parents(x)' = <<parent>>
    BY <1>1 DEF Parents
  <2> QED
    BY <2>1 DEF ToSet
<1>3. Below(main, parent)
  <2>1. Below(main, x)' <=> \A y : y = main => Below(y, x)'
    BY DEF Below
  <2>2. \A y : y = main => Below(y, parent)
    BY <1>1, <1>2, <2>1, BelowNew
  <2> QED
    BY <2>2
<1>4. Tree(main)' = Tree(main) /\ Tree(x)' = tree
  BY <1>1 DEF Tree
<1> QED
  BY <1>3, <1>4 DEF Keeps, OfKind

\* A candidate is written on main's tip or on its slice's own head.
LEMMA CandidateWritten ==
  ASSUME ReleaseInv, NEW s \in Slices, WriteCandidate(s)
  PROVE  ReleaseInv'
<1>1. /\ main' = main /\ verified' = verified /\ approved' = approved
      /\ work[s].stage # "new" \/ work[s].head = None
  BY DEF WriteCandidate, ReleaseInv, WorkOK, Owned
<1>2. PICK parent \in {main, work[s].head} \ {None}, gate \in Gates[s] :
      \E base \in {main, parent}, dropped \in SUBSET Code(parent),
         added \in SUBSET (Edits[s] \ Tree(parent).files) :
        LET block == [kind |-> "work_done", slice |-> s, slice_kind |-> SliceKind[s],
                      base |-> base, declared_gate |-> gate, executed_gate |-> None,
                      candidate |-> None, receipt |-> None]
        IN  /\ dropped \cup added # {}
            /\ Store(s, "c", <<parent>>,
                     [files |-> (Tree(parent).files \ dropped) \cup added,
                      handoff |-> Append(Handoff(parent), block)],
                     [stage |-> "candidate", head |-> NextCommit(s),
                      candidates |-> work[s].candidates + 1,
                      fork |-> IF parent = work[s].head THEN work[s].fork ELSE main])
  BY Zenon DEF WriteCandidate
<1>3. PICK base \in {main, parent}, dropped \in SUBSET Code(parent),
           added \in SUBSET (Edits[s] \ Tree(parent).files) :
       LET block == [kind |-> "work_done", slice |-> s, slice_kind |-> SliceKind[s],
                     base |-> base, declared_gate |-> gate, executed_gate |-> None,
                     candidate |-> None, receipt |-> None]
       IN  /\ dropped \cup added # {}
           /\ Store(s, "c", <<parent>>,
                    [files |-> (Tree(parent).files \ dropped) \cup added,
                     handoff |-> Append(Handoff(parent), block)],
                    [stage |-> "candidate", head |-> NextCommit(s),
                     candidates |-> work[s].candidates + 1,
                     fork |-> IF parent = work[s].head THEN work[s].fork ELSE main])
  BY <1>2
<1> DEFINE block == [kind |-> "work_done", slice |-> s, slice_kind |-> SliceKind[s],
                     base |-> base, declared_gate |-> gate, executed_gate |-> None,
                     candidate |-> None, receipt |-> None]
           tree == [files |-> (Tree(parent).files \ dropped) \cup added,
                    handoff |-> Append(Handoff(parent), block)]
           changes == [stage |-> "candidate", head |-> NextCommit(s),
                       candidates |-> work[s].candidates + 1,
                       fork |-> IF parent = work[s].head THEN work[s].fork ELSE main]
<1>4. /\ Store(s, "c", <<parent>>, tree, changes)
      /\ block.kind = "work_done" /\ "kind" \in DOMAIN block
  BY <1>3
<1> HIDE DEF block
<1>5. /\ tree.files = (Tree(parent).files \ dropped) \cup added
      /\ tree.handoff = Append(Handoff(parent), block)
      /\ tree = [files |-> tree.files, handoff |-> tree.handoff]
      /\ DOMAIN changes = {"stage", "head", "candidates", "fork"}
      /\ changes.stage = "candidate" /\ changes.head = NextCommit(s)
      /\ changes.fork = IF parent = work[s].head THEN work[s].fork ELSE main
  OBVIOUS
<1> HIDE DEF tree, changes
<1>6. WorkOK(s) /\ ReleaseTypeOK /\ \A x \in DOMAIN commits : TreeOK(Tree(x), approved)
  BY DEF ReleaseInv
<1>7. parent \in DOMAIN commits /\ parent \in {main} \cup Own(s)
  BY <1>2, <1>6 DEF ReleaseTypeOK, WorkOK, Owned, Own
<1>8. Stored(s, "c", <<parent>>, tree, changes)
  <2>1. DOMAIN changes \subseteq Changeable
    BY <1>5 DEF Changeable
  <2> QED
    BY <1>4, <1>6, <2>1, StoreStores DEF Roles
<1>9. TreeOK(tree, approved) /\ WorkDone(tree.handoff) # {}
  <2>3. SectionOK(block, approved)
    BY <1>4 DEF SectionOK
  <2>4. HandoffOK(Handoff(parent), approved)
    BY <1>6, <1>7 DEF TreeOK, Handoff
  <2>5. /\ HandoffOK(tree.handoff, approved)
        /\ Len(Handoff(parent)) + 1 \in DOMAIN tree.handoff
        /\ tree.handoff[Len(Handoff(parent)) + 1] = block
    BY <1>5, <2>3, <2>4, AppendOK
  <2>6. \A edit \in added : FileOK(edit)
    <3>1. \A edit \in added : edit.kind = "edit"
      BY ReleaseAssumption
    <3> QED
      BY <3>1 DEF FileOK
  <2>7. \A f \in tree.files : FileOK(f)
    BY <1>5, <1>6, <1>7, <2>6 DEF TreeOK
  <2> QED
    BY <1>4, <1>5, <2>5, <2>7 DEF TreeOK, WorkDone
<1>10. /\ Grows /\ ReleaseTypeOK'
       /\ \A x \in DOMAIN commits' : TreeOK(Tree(x), approved)'
       /\ \A t \in Slices \ {s} : WorkOK(t)'
       /\ Tested(main)' /\ PublishedAsVerifiedAndApproved'
  <2>1. ToSet(<<parent>>) \subseteq {main} \cup Own(s)
    BY <1>7 DEF ToSet
  <2>2. /\ DOMAIN changes \subseteq Changeable /\ "stage" \in DOMAIN changes
        /\ changes.stage \in Stages /\ "c" \in Roles
    BY <1>5 DEF Changeable, Stages, Roles
  <2>3. TreeOK(tree, approved') /\ approved \subseteq approved'
    BY <1>1, <1>9
  <2> QED
    BY <1>1, <1>8, <2>1, <2>2, <2>3, NewCommit
<1>11. PICK new : new = NextCommit(s)
  OBVIOUS
<1>12. /\ new \notin DOMAIN commits /\ new \in {s} \X Nat /\ new # None
       /\ DOMAIN commits' = DOMAIN commits \cup {new}
       /\ \A x \in DOMAIN commits : commits'[x] = commits[x]
       /\ commits'[new].tree = tree
       /\ work'[s].c = new /\ work'[s].head = new /\ work'[s].fork = changes.fork
       /\ work'[s].stage = "candidate" /\ work'[s].receipt = work[s].receipt
       /\ work'[s].artifact = work[s].artifact
       /\ \A other \in Roles \ {"c"} : work'[s][other] = work[s][other]
  <2>1. new # None
    <3>1. new \in {s} \X Nat
      BY <1>8, <1>11 DEF Stored
    <3> QED
      BY <3>1, ReleaseAssumption
  <2>2. /\ new \notin DOMAIN commits /\ new \in {s} \X Nat
        /\ DOMAIN commits' = DOMAIN commits \cup {new}
        /\ \A x \in DOMAIN commits : commits'[x] = commits[x]
        /\ commits'[new].tree = tree /\ work'[s].c = new
        /\ \A f \in SliceFields \ {"c", "made"} :
             work'[s][f] = IF f \in DOMAIN changes THEN changes[f] ELSE work[s][f]
    BY <1>8, <1>11 DEF Stored
  <2> QED
    BY <1>11, <1>5, <2>1, <2>2 DEF SliceFields, Roles
<1>13. Own(s)' = Own(s) \cup {new}
  BY <1>12 DEF Own
<1>14. Owned(s)'
  <2>1. \A role \in Roles : /\ work'[s][role] \in Own(s)' \cup {None}
                            /\ work'[s].stage \in StagesWith[role] => work'[s][role] # None
    <3>1. \A role \in Roles \ {"c"} : "candidate" \notin StagesWith[role]
      BY DEF Roles, StagesWith
    <3> QED
      BY <1>6, <1>12, <1>13, <3>1 DEF WorkOK, Owned
  <2>2. work'[s].fork \in DOMAIN commits'
    BY <1>1, <1>2, <1>6, <1>12, <1>5 DEF WorkOK, Owned, ReleaseTypeOK
  <2>3. WorkDone(Handoff(work[s].c)') # {}
    BY <1>9, <1>12 DEF Handoff, Tree
  <2> QED
    BY <1>12, <1>13, <2>1, <2>2, <2>3 DEF Owned
<1>15. SliceRecorded(s)'
  BY <1>6, <1>10, <1>12, ReceiptStays, ArtifactStays DEF WorkOK, SliceRecorded
<1>16. Descends(s)'
  <2>1. Below(main, parent) => Keeps(Tree(main), Tree(parent))
    <3>1. CASE parent = main
      BY <3>1 DEF Keeps, OfKind
    <3>2. CASE parent # main
      BY <1>2, <1>6, <3>2 DEF WorkOK, Descends
    <3> QED
      BY <3>1, <3>2
  <2>2. Keeps(Tree(parent), tree)
    BY <1>5 DEF Keeps, OfKind, Code
  <2>3. \A x \in DOMAIN commits' \ DOMAIN commits :
          Below(main, x)' => Keeps(Tree(main)', Tree(x)')
    BY <1>1, <1>7, <1>8, <1>10, <2>1, <2>2, OnTop
  <2>4. ASSUME NEW x, x = work[s].a, x # None, Below(main, x)'
        PROVE  Keeps(Tree(main)', Tree(x)')
    <3>1. x \in DOMAIN commits
      BY <1>6, <2>4 DEF WorkOK, Owned, Own, Roles
    <3>2. Below(main, x)
      <4>1. Below(main, x)' <=> \A y : y = main => Below(y, x)'
        BY <1>1 DEF Below
      <4> QED
        BY <1>10, <2>4, <3>1, <4>1, BelowStays
    <3> QED
      BY <1>1, <1>6, <1>12, <2>4, <3>1, <3>2 DEF WorkOK, Descends, Tree, ReleaseTypeOK
  <2>5. work'[s].a = work[s].a
    BY <1>12 DEF Roles
  <2>6. ASSUME NEW x \in {work'[s].c, work'[s].a, work'[s].head} \ {None}, Below(main, x)'
        PROVE  Keeps(Tree(main)', Tree(x)')
    BY <1>12, <2>3, <2>4, <2>5, <2>6
  <2> QED
    BY <2>6 DEF Descends
<1>17. Unpushed(s)'
  BY <1>12 DEF Unpushed
<1> QED
  BY <1>6, <1>10, <1>14, <1>15, <1>16, <1>17 DEF ReleaseInv, WorkOK, ReleaseTypeOK

\* The stage a commit of each role is made in, and the one it leads to.
From ==
    [a |-> {"candidate", "verified"}, r |-> {"published"},
     m |-> {"reviewed", "merged", "post_merge", "q"}, q |-> {"merged", "post_merge"}]

To == [a |-> "published", r |-> "reviewed", m |-> "merged", q |-> "q"]

\* A commit other than a candidate keeps the invariant, if its tree is one that may be.
LEMMA CommitAdded ==
  ASSUME ReleaseInv, NEW s \in Slices, NEW role \in Roles \ {"c"}, work[s].stage \in From[role],
         NEW parents, NEW tree, NEW changes,
         DOMAIN changes \in {{"stage"}, {"stage", "head"}, {"stage", "first_parent"}},
         changes.stage = To[role],
         "head" \in DOMAIN changes => changes.head = NextCommit(s),
         Store(s, role, parents, tree, changes),
         TreeOK(tree, approved'), approved \subseteq approved',
         verified' = verified, main' = main,
         ToSet(parents) \subseteq {main} \cup Own(s),
         role = "a" \/ "head" \in DOMAIN changes =>
           \E parent \in DOMAIN commits :
             /\ parents = <<parent>>
             /\ Below(main, parent) => Keeps(Tree(main), Tree(parent))
             /\ Tree(parent).files \subseteq tree.files
  PROVE  ReleaseInv'
<1>1. WorkOK(s) /\ ReleaseTypeOK
  BY DEF ReleaseInv
<1>2. /\ DOMAIN changes \subseteq Changeable /\ "stage" \in DOMAIN changes
      /\ changes.stage \in Stages /\ role \in Roles
      /\ changes.stage \notin {"new", "verified", "post_merge"} /\ work[s].stage # "new"
  BY DEF Changeable, Stages, Roles, To, From
<1>3. Stored(s, role, parents, tree, changes)
  BY <1>1, <1>2, StoreStores
<1>4. /\ Grows /\ ReleaseTypeOK'
      /\ \A x \in DOMAIN commits' : TreeOK(Tree(x), approved)'
      /\ \A t \in Slices \ {s} : WorkOK(t)'
      /\ Tested(main)' /\ PublishedAsVerifiedAndApproved'
  BY <1>2, <1>3, NewCommit
<1>5. /\ Owned(s)' /\ SliceRecorded(s)'
      /\ \A x \in {work[s].c, work[s].a, work[s].head} \ {None} :
           Below(main, x)' => Keeps(Tree(main)', Tree(x)')
  <2>1. \A needed \in Roles \ {role} :
          changes.stage \in StagesWith[needed] => work[s].stage \in StagesWith[needed]
    BY DEF Roles, To, From, StagesWith, Stages
  <2> QED
    BY <1>2, <1>3, <1>4, <2>1, KeepsItsOwn
<1>6. PICK new : new = NextCommit(s)
  OBVIOUS
<1>7. /\ new \notin DOMAIN commits /\ DOMAIN commits' = DOMAIN commits \cup {new}
      /\ commits'[new].parents = parents
      /\ \A x \in DOMAIN commits : commits'[x] = commits[x]
      /\ work'[s].stage = changes.stage /\ work'[s].c = work[s].c
      /\ work'[s][role] = new
      /\ work'[s].a = IF role = "a" THEN new ELSE work[s].a
      /\ work'[s].head = IF "head" \in DOMAIN changes THEN new ELSE work[s].head
  <2>1. /\ new \notin DOMAIN commits /\ DOMAIN commits' = DOMAIN commits \cup {new}
        /\ commits'[new].parents = parents
        /\ \A x \in DOMAIN commits : commits'[x] = commits[x]
        /\ work'[s][role] = new
        /\ \A f \in SliceFields \ {role, "made"} :
             work'[s][f] = IF f \in DOMAIN changes THEN changes[f] ELSE work[s][f]
    BY <1>3, <1>6 DEF Stored
  <2> QED
    BY <1>2, <1>6, <2>1 DEF SliceFields, Roles
<1>8. Descends(s)'
  <2>1. ASSUME role = "a" \/ "head" \in DOMAIN changes, Below(main, new)'
        PROVE  Keeps(Tree(main)', Tree(new)')
    <3>1. PICK parent \in DOMAIN commits :
             /\ parents = <<parent>>
             /\ Below(main, parent) => Keeps(Tree(main), Tree(parent))
             /\ Tree(parent).files \subseteq tree.files
      BY <2>1
    <3>2. \A x \in DOMAIN commits' \ DOMAIN commits :
            Below(main, x)' => Keeps(Tree(main)', Tree(x)')
      <4>1. Keeps(Tree(parent), tree)
        BY <3>1 DEF Keeps, OfKind
      <4> QED
        BY <1>3, <1>4, <3>1, <4>1, OnTop
    <3> QED
      BY <1>7, <2>1, <3>2
  <2>2. ASSUME NEW x \in {work'[s].c, work'[s].a, work'[s].head} \ {None}, Below(main, x)'
        PROVE  Keeps(Tree(main)', Tree(x)')
    <3>1. CASE x = new /\ (role = "a" \/ "head" \in DOMAIN changes)
      BY <2>1, <2>2, <3>1
    <3>2. CASE x \in {work[s].c, work[s].a, work[s].head} \ {None}
      BY <1>5, <2>2, <3>2
    <3> QED
      BY <1>7, <2>2, <3>1, <3>2
  <2> QED
    BY <2>2 DEF Descends
<1>9. Unpushed(s)'
  <2> SUFFICES ASSUME work'[s].stage = "q"
               PROVE  /\ work'[s].q # main'
                      /\ \A x \in DOMAIN commits' : work'[s].q \notin ToSet(Parents(x))'
    BY DEF Unpushed
  <2>1. work'[s].q = new
    BY <1>7 DEF To, Roles
  <2>2. new # main
    BY <1>1, <1>7 DEF ReleaseTypeOK
  <2>3. ASSUME NEW x \in DOMAIN commits' PROVE new \notin ToSet(Parents(x))'
    <3>1. CASE x = new
      <4>1. Parents(x)' = parents
        BY <1>7, <3>1 DEF Parents
      <4>2. ToSet(parents) \subseteq DOMAIN commits
        BY <1>1 DEF ReleaseTypeOK, Own
      <4> QED
        BY <1>7, <4>1, <4>2 DEF ToSet
    <3>2. CASE x \in DOMAIN commits
      <4>1. Parents(x)' = Parents(x)
        BY <1>7, <3>2 DEF Parents
      <4>2. ToSet(Parents(x)) \subseteq DOMAIN commits
        BY <1>1, <3>2 DEF ReleaseTypeOK
      <4> QED
        BY <1>7, <4>1, <4>2 DEF ToSet
    <3> QED
      BY <1>7, <3>1, <3>2
  <2> QED
    BY <2>1, <2>2, <2>3
<1> QED
  BY <1>1, <1>4, <1>5, <1>8, <1>9 DEF ReleaseInv, WorkOK, ReleaseTypeOK

\* A receipt is added to a verified candidate, or to what went wrong in its place.
LEMMA ReceiptPublished ==
  ASSUME ReleaseInv, NEW s \in Slices, PublishReceipt(s)
  PROVE  ReleaseInv'
<1> DEFINE c == work[s].c
           receipt == work[s].receipt
           next == [stage |-> "published", head |-> NextCommit(s)]
<1>1. /\ main' = main /\ verified' = verified /\ approved' = approved
      /\ work[s].stage \in {"verified", "candidate"}
      /\ work[s].stage = "verified" \/ receipt # None
  BY DEF PublishReceipt
<1>2. PICK tree \in {PublishedTree(c, receipt)} \cup Slips(PublishedTree(c, receipt)) :
        Store(s, "a", <<c>>, tree, next)
  BY CommitsOne DEF PublishReceipt
<1>3. WorkOK(s) /\ ReleaseTypeOK /\ \A x \in DOMAIN commits : TreeOK(Tree(x), approved)
  BY DEF ReleaseInv
<1>4. ReceiptOK(receipt)
  BY <1>1, <1>3 DEF WorkOK, SliceRecorded
<1>5. c \in Own(s) /\ c # None /\ c \in DOMAIN commits /\ WorkDone(Handoff(c)) # {}
  BY <1>1, <1>3 DEF WorkOK, Owned, Roles, StagesWith, Stages, Own
<1>6. TreeOK(Tree(c), approved)
  BY <1>3, <1>5
<1>7. /\ TreeOK(PublishedTree(c, receipt), approved)
      /\ Tree(c).files \subseteq PublishedTree(c, receipt).files
  <2> DEFINE latest == LatestWorkDone(Handoff(c))
             block == [Published(c) EXCEPT !.executed_gate = receipt.gate, !.candidate = c,
                                           !.receipt = receipt.id]
             filed == [receipt EXCEPT !.under = c]
             handoff == [Handoff(c) EXCEPT ![latest] = block]
  <2>1. latest \in WorkDone(Handoff(c))
    BY <1>5, <1>6, LatestIsOne DEF TreeOK, Handoff
  <2>2. SectionOK(block, approved)
    <3>1. "kind" \in DOMAIN Published(c) /\ Published(c).kind = "work_done"
      BY <1>6, <2>1 DEF TreeOK, HandoffOK, SectionOK, WorkDone, Handoff, Published
    <3>2. "kind" \in DOMAIN block /\ block.kind = "work_done"
      BY <3>1
    <3> QED
      BY <3>2 DEF SectionOK
  <2>3. FileOK(filed)
    <3>1. /\ DOMAIN filed = DOMAIN receipt
          /\ \A f \in {"kind", "base", "candidate", "gate", "data"} : filed[f] = receipt[f]
      BY <1>4 DEF ReceiptOK
    <3> HIDE DEF filed
    <3>2. receipt_eligible(filed) <=> receipt_eligible(receipt)
      BY <3>1 DEF receipt_eligible
    <3>3. ReceiptOK(filed)
      BY <1>4, <3>1, <3>2 DEF ReceiptOK
    <3> QED
      BY <3>3 DEF FileOK, ReceiptOK
  <2> HIDE DEF block, filed, latest
  <2>4. HandoffOK(handoff, approved)
    BY <1>6, <2>2, ReplaceOK DEF TreeOK, Handoff
  <2>5. PublishedTree(c, receipt) = [files |-> Tree(c).files \cup {filed}, handoff |-> handoff]
    BY DEF PublishedTree, block, filed, latest
  <2> HIDE DEF handoff
  <2> QED
    BY <1>6, <2>3, <2>4, <2>5 DEF TreeOK
<1>8. TreeOK(tree, approved) /\ Tree(c).files \subseteq tree.files
  BY <1>2, <1>7, SlipsOK
<1>9. Below(main, c) => Keeps(Tree(main), Tree(c))
  BY <1>3, <1>5 DEF WorkOK, Descends
<1>10. /\ DOMAIN next = {"stage", "head"} /\ next.stage = To["a"] /\ next.head = NextCommit(s)
       /\ work[s].stage \in From["a"] /\ "a" \in Roles \ {"c"}
  BY <1>1 DEF To, From, Roles
<1>11. ToSet(<<c>>) \subseteq {main} \cup Own(s)
  BY <1>5 DEF ToSet
<1> HIDE DEF next, c
<1> QED
  BY <1>1, <1>2, <1>5, <1>8, <1>9, <1>10, <1>11, CommitAdded

\* A review is added on top of a receipt.
LEMMA ReviewPublished ==
  ASSUME ReleaseInv, NEW s \in Slices, PublishReview(s)
  PROVE  ReleaseInv'
<1> DEFINE a == work[s].a
           With(section) == [files |-> Tree(a).files, handoff |-> Append(Handoff(a), section)]
           earlier == {section \in ToSet(Handoff(a)) : section.kind \in {"review", "work_done"}}
           next == [stage |-> "reviewed", head |-> NextCommit(s)]
<1>1. main' = main /\ verified' = verified /\ work[s].stage = "published"
  BY DEF PublishReview
<1>2. PICK verdict \in {"approved", "changes_requested"} :
        /\ CommitOf(s, "r", <<a>>, With(ReviewSection(s, verdict)),
                    Slips(With(ReviewSection(s, verdict)))
                      \cup {With(section) : section \in earlier},
                    next)
        /\ approved' = IF verdict = "approved" THEN approved \cup {work[s].c} ELSE approved
  BY DEF PublishReview
<1> HIDE DEF With, earlier, next
<1>3. PICK tree \in {With(ReviewSection(s, verdict))} \cup Slips(With(ReviewSection(s, verdict)))
                      \cup {With(section) : section \in earlier} :
        Store(s, "r", <<a>>, tree, next)
  BY <1>2, CommitsOne
<1>4. WorkOK(s) /\ ReleaseTypeOK /\ \A x \in DOMAIN commits : TreeOK(Tree(x), approved)
  BY DEF ReleaseInv
<1>5. a \in Own(s) /\ a # None /\ a \in DOMAIN commits
  BY <1>1, <1>4 DEF WorkOK, Owned, Roles, StagesWith, Stages, Own
<1>6. approved \subseteq approved' /\ TreeOK(Tree(a), approved')
  BY <1>2, <1>4, <1>5, MoreApprovals
<1>7. ASSUME NEW section, SectionOK(section, approved')
      PROVE  TreeOK(With(section), approved') /\ With(section).files = Tree(a).files
  <2>1. HandoffOK(Append(Handoff(a), section), approved')
    BY <1>6, <1>7, AppendOK DEF TreeOK, Handoff
  <2> QED
    BY <1>6, <2>1 DEF TreeOK, With
<1>8. SectionOK(ReviewSection(s, verdict), approved')
  BY <1>2 DEF SectionOK, ReviewSection
<1>9. \A section \in earlier : SectionOK(section, approved')
  BY <1>6 DEF TreeOK, HandoffOK, Handoff, ToSet, earlier
<1>10. TreeOK(tree, approved') /\ Tree(a).files \subseteq tree.files
  <2>1. /\ TreeOK(With(ReviewSection(s, verdict)), approved')
        /\ Tree(a).files \subseteq With(ReviewSection(s, verdict)).files
    BY <1>7, <1>8
  <2>2. CASE tree \in Slips(With(ReviewSection(s, verdict)))
    BY <2>1, <2>2, SlipsOK
  <2>3. CASE tree \in {With(section) : section \in earlier}
    BY <1>7, <1>9, <2>3
  <2> QED
    BY <1>3, <2>1, <2>2, <2>3
<1>11. Below(main, a) => Keeps(Tree(main), Tree(a))
  BY <1>4, <1>5 DEF WorkOK, Descends
<1>12. /\ DOMAIN next = {"stage", "head"} /\ next.stage = To["r"] /\ next.head = NextCommit(s)
       /\ work[s].stage \in From["r"] /\ "r" \in Roles \ {"c"}
  BY <1>1 DEF To, From, Roles, next
<1>13. ToSet(<<a>>) \subseteq {main} \cup Own(s)
  BY <1>5 DEF ToSet
<1> HIDE DEF a
<1> QED
  BY <1>1, <1>3, <1>5, <1>6, <1>10, <1>11, <1>12, <1>13, CommitAdded

\* What a merge has is what one of its sides has.
LEMMA ThreeWayOK ==
  ASSUME NEW approvals, NEW base, TreeOK(base, approvals), NEW x, TreeOK(x, approvals),
         NEW y, TreeOK(y, approvals)
  PROVE  TreeOK(ThreeWay(base, x, y), approvals)
<1> DEFINE handoff == IF x.handoff = base.handoff THEN y.handoff
                      ELSE x.handoff \o Suffix(base.handoff, y.handoff)
           files == (x.files \cup y.files)
                      \ ((base.files \ x.files) \cup (base.files \ y.files))
<1>1. HandoffOK(handoff, approvals)
  <2>1. Len(base.handoff) \in Nat
    BY LenProperties DEF TreeOK, HandoffOK
  <2>2. HandoffOK(x.handoff \o Suffix(base.handoff, y.handoff), approvals)
    BY <2>1, JoinOK DEF TreeOK, Suffix
  <2> QED
    BY <2>2 DEF TreeOK
<1>2. \A f \in files : FileOK(f)
  BY DEF TreeOK
<1>3. ThreeWay(base, x, y) = [files |-> files, handoff |-> handoff]
  BY DEF ThreeWay
<1> HIDE DEF files, handoff
<1> QED
  BY <1>1, <1>2, <1>3 DEF TreeOK

\* A reviewed chain is merged with a parent its caller names.
LEMMA ReviewMerged ==
  ASSUME ReleaseInv, NEW s \in Slices, MergeReview(s)
  PROVE  ReleaseInv'
<1> DEFINE r == work[s].r
           merged == ThreeWay(Tree(work[s].fork), Tree(main), Tree(r))
           next == [stage |-> "merged", first_parent |-> main]
<1>1. /\ main' = main /\ verified' = verified /\ approved' = approved
      /\ work[s].stage \in From["m"]
  BY DEF MergeReview, From
<1>2. PICK tree \in {merged} \cup Slips(merged) \cup {Tree(r)} :
        Store(s, "m", <<main, r>>, tree, next)
  BY CommitsOne DEF MergeReview
<1>3. WorkOK(s) /\ ReleaseTypeOK /\ \A x \in DOMAIN commits : TreeOK(Tree(x), approved)
  BY DEF ReleaseInv
<1>4. r \in Own(s) /\ r \in DOMAIN commits /\ work[s].fork \in DOMAIN commits
  BY <1>1, <1>3 DEF WorkOK, Owned, Roles, StagesWith, Own, From
<1>5. TreeOK(merged, approved) /\ TreeOK(Tree(r), approved)
  BY <1>3, <1>4, ThreeWayOK DEF ReleaseTypeOK
<1> HIDE DEF merged
<1>6. TreeOK(tree, approved')
  BY <1>1, <1>2, <1>5, SlipsOK
<1>7. /\ DOMAIN next = {"stage", "first_parent"} /\ next.stage = To["m"]
      /\ "head" \notin DOMAIN next /\ "m" \in Roles \ {"c"}
  BY DEF To, Roles
<1>8. ToSet(<<main, r>>) \subseteq {main} \cup Own(s)
  BY <1>4 DEF ToSet
<1> HIDE DEF next, r
<1> QED
  BY <1>1, <1>2, <1>6, <1>7, <1>8, CommitAdded

\* A merge gets its artifact.
LEMMA ArtifactPublished ==
  ASSUME ReleaseInv, NEW s \in Slices, PublishArtifact(s)
  PROVE  ReleaseInv'
<1> DEFINE m == work[s].m
           artifact == work[s].artifact
           section == [kind |-> "merge_record", slice |-> s]
           meant == [files |-> Tree(m).files \cup {artifact},
                     handoff |-> Append(Handoff(m), section)]
           next == [stage |-> "q"]
<1>1. /\ main' = main /\ verified' = verified /\ approved' = approved
      /\ work[s].stage \in From["q"]
      /\ work[s].stage = "post_merge" \/ artifact # None
  BY DEF PublishArtifact, From
<1>2. PICK tree \in {meant} \cup Slips(meant) : Store(s, "q", <<m>>, tree, next)
  BY CommitsOne DEF PublishArtifact
<1>3. WorkOK(s) /\ ReleaseTypeOK /\ \A x \in DOMAIN commits : TreeOK(Tree(x), approved)
  BY DEF ReleaseInv
<1>4. m \in Own(s) /\ m \in DOMAIN commits
  BY <1>1, <1>3 DEF WorkOK, Owned, Roles, StagesWith, Own, From
<1>5. TreeOK(meant, approved)
  <2>1. SectionOK(section, approved)
    BY DEF SectionOK
  <2> HIDE DEF section
  <2>2. HandoffOK(Append(Handoff(m), section), approved)
    BY <1>3, <1>4, <2>1, AppendOK DEF TreeOK, Handoff
  <2>3. FileOK(artifact)
    BY <1>1, <1>3 DEF WorkOK, SliceRecorded, FileOK, ArtifactOK
  <2>4. \A f \in Tree(m).files \cup {artifact} : FileOK(f)
    BY <1>3, <1>4, <2>3 DEF TreeOK
  <2> QED
    BY <2>2, <2>4 DEF TreeOK
<1> HIDE DEF meant
<1>6. TreeOK(tree, approved')
  BY <1>1, <1>2, <1>5, SlipsOK
<1>7. /\ DOMAIN next = {"stage"} /\ next.stage = To["q"]
      /\ "head" \notin DOMAIN next /\ "q" \in Roles \ {"c"}
  BY DEF To, Roles
<1>8. ToSet(<<m>>) \subseteq {main} \cup Own(s)
  BY <1>4 DEF ToSet
<1> HIDE DEF next, m
<1> QED
  BY <1>1, <1>2, <1>6, <1>7, <1>8, CommitAdded

\* A verification adds no commit.
LEMMA CandidateVerified ==
  ASSUME ReleaseInv, NEW s \in Slices, VerifyCandidate(s)
  PROVE  ReleaseInv'
<1> DEFINE c == work[s].c
           block == Published(c)
           paths == DiffPaths(block.base, c)
           gate == block.declared_gate
           receipt == [kind |-> "receipt", under |-> c, id |-> c, candidate |-> c,
                       base |-> block.base, slice |-> s, gate |-> gate,
                       scope |-> Scope(paths),
                       data |-> PassingData("receipt", gate, paths)]
<1>1. /\ work[s].stage = "candidate" /\ main = block.base /\ Ancestor(main, c)
      /\ work' = [work EXCEPT ![s].stage = "verified", ![s].receipt = receipt]
      /\ verified' = IF receipt_eligible(receipt) THEN verified \cup {c} ELSE verified
      /\ commits' = commits /\ main' = main /\ approved' = approved
  BY DEF VerifyCandidate, enforce_base_authoritative
<1>2. WorkOK(s) /\ ReleaseTypeOK /\ Tested(main)
  BY DEF ReleaseInv
<1>3. c \in Own(s) /\ c \in DOMAIN commits /\ c # None
  BY <1>1, <1>2 DEF WorkOK, Owned, Roles, StagesWith, Stages, Own
<1>4. Keeps(Tree(main), Tree(c))
  <2>1. Below(main, c)
    BY <1>1, <1>2, AncestorsAreBelow DEF ReleaseTypeOK
  <2> QED
    BY <1>2, <1>3, <2>1 DEF WorkOK, Descends
<1>5. /\ {"kind", "base", "candidate", "gate", "data"} \subseteq DOMAIN receipt
      /\ receipt.kind = "receipt" /\ receipt.candidate = c /\ receipt.base = main
  BY <1>1
<1> HIDE DEF receipt
<1>6. /\ DOMAIN work' = Slices /\ \A t \in Slices \ {s} : work'[t] = work[t]
      /\ DOMAIN work'[s] = SliceFields
      /\ work'[s].stage = "verified" /\ work'[s].receipt = receipt
      /\ \A f \in SliceFields \ {"stage", "receipt"} : work'[s][f] = work[s][f]
  BY <1>1, <1>2 DEF ReleaseTypeOK, SliceFields
<1>7. verified \subseteq verified' /\ verified' \subseteq DOMAIN commits
  BY <1>1, <1>2, <1>3 DEF ReleaseTypeOK
<1>8. /\ Grows /\ ReleaseTypeOK'
      /\ \A x \in DOMAIN commits' : TreeOK(Tree(x), approved)'
      /\ \A t \in Slices \ {s} : WorkOK(t)'
      /\ Tested(main)' /\ PublishedAsVerifiedAndApproved'
  BY <1>1, <1>6, <1>7, SameCommits DEF SliceFields, Stages
<1>9. Owned(s)'
  BY <1>1, <1>2, <1>3, <1>6
     DEF WorkOK, Owned, Own, Handoff, Tree, Roles, SliceFields, StagesWith, Stages
<1>10. SliceRecorded(s)'
  <2>1. PICK f : f = receipt
    OBVIOUS
  <2>2. ReceiptOK(f)'
    <3>1. {"kind", "base", "candidate", "gate", "data"} \subseteq DOMAIN f
      BY <1>5, <2>1
    <3>2. /\ f.kind = "receipt" /\ f.base = main /\ f.candidate = c
      BY <1>5, <2>1
    <3>3. Tested(f.base)'
      BY <1>2, <1>8, <3>2, TestedStays DEF ReleaseTypeOK
    <3>4. Tree(f.base)' = Tree(main) /\ Tree(f.candidate)' = Tree(c)
      BY <1>1, <3>2 DEF Tree
    <3>5. receipt_eligible(f) => c \in verified'
      BY <1>1, <2>1
    <3> QED
      BY <1>1, <1>2, <1>3, <1>4, <3>1, <3>2, <3>3, <3>4, <3>5 DEF ReceiptOK, ReleaseTypeOK
  <2>3. work'[s].artifact = work[s].artifact
    BY <1>6 DEF SliceFields
  <2>4. work'[s].artifact # None => ArtifactOK(work[s].artifact)'
    BY <1>2, <1>8, <2>3, ArtifactStays DEF WorkOK, SliceRecorded
  <2> QED
    BY <1>6, <2>1, <2>2, <2>3, <2>4 DEF SliceRecorded
<1>11. Descends(s)'
  <2>1. work'[s].c = work[s].c /\ work'[s].a = work[s].a /\ work'[s].head = work[s].head
    BY <1>6 DEF SliceFields
  <2>2. Descends(s)
    BY <1>2 DEF WorkOK
  <2> QED
    BY <1>1, <2>1, <2>2 DEF Descends, Below, Parents, Tree
<1>12. Unpushed(s)'
  BY <1>6 DEF Unpushed
<1> QED
  BY <1>1, <1>2, <1>8, <1>9, <1>10, <1>11, <1>12 DEF ReleaseInv, WorkOK, ReleaseTypeOK

\* Nor does the verification of a merge.
LEMMA MergeVerified ==
  ASSUME ReleaseInv, NEW s \in Slices, VerifyMerge(s)
  PROVE  ReleaseInv'
<1> DEFINE w == work[s]
           block == Published(w.a)
           artifact == [kind |-> "artifact", merged_commit |-> w.m, candidate |-> w.c,
                        publication |-> w.a, review |-> w.r, base |-> block.base,
                        slice |-> Reviewed(w.r).slice, receipt |-> Reviewed(w.r).receipt,
                        data |-> PassingData("post_merge", "final", DiffPaths(block.base, w.c))]
<1>1. /\ work[s].stage = "merged"
      /\ work' = [work EXCEPT ![s].stage = "post_merge", ![s].artifact = artifact]
      /\ commits' = commits /\ main' = main /\ verified' = verified /\ approved' = approved
  BY DEF VerifyMerge
<1>2. WorkOK(s) /\ ReleaseTypeOK
  BY DEF ReleaseInv
<1>3. artifact.kind = "artifact" /\ artifact.merged_commit = work[s].m
  OBVIOUS
<1> HIDE DEF artifact
<1>4. /\ DOMAIN work' = Slices /\ \A t \in Slices \ {s} : work'[t] = work[t]
      /\ DOMAIN work'[s] = SliceFields
      /\ work'[s].stage = "post_merge" /\ work'[s].artifact = artifact
      /\ \A f \in SliceFields \ {"stage", "artifact"} : work'[s][f] = work[s][f]
  BY <1>1, <1>2 DEF ReleaseTypeOK, SliceFields
<1>5. /\ Grows /\ ReleaseTypeOK'
      /\ \A x \in DOMAIN commits' : TreeOK(Tree(x), approved)'
      /\ \A t \in Slices \ {s} : WorkOK(t)'
      /\ Tested(main)' /\ PublishedAsVerifiedAndApproved'
  BY <1>1, <1>2, <1>4, SameCommits DEF SliceFields, Stages, ReleaseTypeOK
<1>6. Owned(s)'
  <2>1. \A role \in Roles : work'[s][role] = work[s][role]
    BY <1>4 DEF Roles, SliceFields
  <2>2. \A role \in Roles : "post_merge" \in StagesWith[role] => "merged" \in StagesWith[role]
    BY DEF Roles, StagesWith, Stages
  <2>3. work'[s].head = work[s].head /\ work'[s].fork = work[s].fork /\ work'[s].c = work[s].c
    BY <1>4 DEF SliceFields
  <2> QED
    BY <1>1, <1>2, <1>4, <2>1, <2>2, <2>3 DEF WorkOK, Owned, Own, Handoff, Tree
<1>7. SliceRecorded(s)'
  <2>1. work[s].m \in DOMAIN commits
    BY <1>1, <1>2 DEF WorkOK, Owned, Own, Roles, StagesWith
  <2>2. work'[s].receipt = work[s].receipt
    BY <1>4 DEF SliceFields
  <2>3. work'[s].receipt # None => ReceiptOK(work[s].receipt)'
    BY <1>2, <1>5, <2>2, ReceiptStays DEF WorkOK, SliceRecorded
  <2>4. ArtifactOK(work[s].artifact)'
    BY <1>1, <1>3, <1>4, <2>1 DEF ArtifactOK
  <2> QED
    BY <1>4, <2>3, <2>4 DEF SliceRecorded
<1>8. Descends(s)'
  BY <1>1, <1>2, <1>4 DEF WorkOK, Descends, Below, Parents, Tree, SliceFields
<1>9. Unpushed(s)'
  BY <1>4 DEF Unpushed
<1> QED
  BY <1>1, <1>2, <1>5, <1>6, <1>7, <1>8, <1>9 DEF ReleaseInv, WorkOK, ReleaseTypeOK

-----------------------------------------------------------------------------
(***************************************************************************)
(* The push.                                                               *)
(***************************************************************************)
\* A prefix, element by element.
LEMMA PrefixMeans ==
  ASSUME NEW S, NEW s \in Seq(S), NEW t \in Seq(S)
  PROVE  IsPrefix(s, t) <=> Len(s) <= Len(t) /\ \A i \in 1..Len(s) : s[i] = t[i]
<1>1. /\ Len(s) \in Nat /\ DOMAIN s = 1..Len(s) /\ s \in [1..Len(s) -> S]
      /\ Len(t) \in Nat /\ DOMAIN t = 1..Len(t) /\ t \in [1..Len(t) -> S]
  BY LenProperties
<1>2. SubSeq(s, 1, Len(s)) = s
  BY SubSeqFull
<1>3. SUFFICES ASSUME Len(s) <= Len(t)
               PROVE  SubSeq(t, 1, Len(s)) = s <=> \A i \in 1..Len(s) : s[i] = t[i]
  BY <1>2 DEF IsPrefix
<1> DEFINE head == SubSeq(t, 1, Len(s))
<1>4. head \in Seq(S) /\ Len(head) = Len(s) /\ \A i \in 1..Len(s) : head[i] = t[i]
  <2>1. \A i \in 1..Len(s) : t[i] \in S
    BY <1>1, <1>3
  <2>2. /\ head \in Seq(S) /\ Len(head) = IF 1 <= Len(s) THEN Len(s) - 1 + 1 ELSE 0
        /\ \A i \in 1..Len(s) - 1 + 1 : head[i] = t[1 + i - 1]
    BY <1>1, <2>1, SubSeqProperties
  <2> HIDE DEF head
  <2> QED
    BY <1>1, <2>2
<1> HIDE DEF head
<1>5. ASSUME \A i \in 1..Len(s) : s[i] = t[i] PROVE head = s
  BY <1>4, <1>5, SeqEqual
<1> QED
  BY <1>4, <1>5 DEF head

\* What the newest block comes after is in every later handoff of the chain.
LEMMA HistoryKept ==
  ASSUME NEW approvals, NEW hc, HandoffOK(hc, approvals), NEW ha, HandoffOK(ha, approvals),
         NEW hr, HandoffOK(hr, approvals), NEW hq, HandoffOK(hq, approvals),
         WorkDone(hc) # {}, Len(ha) = Len(hc),
         \A i \in DOMAIN ha : ha[i] # hc[i] => i = LatestWorkDone(hc),
         IsPrefix(ha, hr), IsPrefix(hr, hq)
  PROVE  IsPrefix(SubSeq(hc, 1, LatestWorkDone(hc) - 1), hq)
<1> DEFINE S == ToSet(hc) \cup ToSet(ha) \cup ToSet(hr) \cup ToSet(hq)
<1>1. hc \in Seq(S) /\ ha \in Seq(S) /\ hr \in Seq(S) /\ hq \in Seq(S)
  BY SeqMonotonic DEF HandoffOK
<1> HIDE DEF S
<1>2. /\ Len(hc) \in Nat /\ DOMAIN hc = 1..Len(hc) /\ hc \in [1..Len(hc) -> S]
      /\ Len(ha) \in Nat /\ DOMAIN ha = 1..Len(ha) /\ Len(hr) \in Nat /\ Len(hq) \in Nat
  BY <1>1, LenProperties
<1>3. /\ Len(ha) <= Len(hr) /\ \A i \in 1..Len(ha) : ha[i] = hr[i]
      /\ Len(hr) <= Len(hq) /\ \A i \in 1..Len(hr) : hr[i] = hq[i]
  BY <1>1, PrefixMeans
<1>4. PICK latest : latest = LatestWorkDone(hc)
  OBVIOUS
<1>5. latest \in 1..Len(hc)
  BY <1>2, <1>4, LatestIsOne DEF WorkDone
<1> DEFINE head == SubSeq(hc, 1, latest - 1)
<1>6. head \in Seq(S) /\ Len(head) = latest - 1 /\ \A i \in 1..latest - 1 : head[i] = hc[i]
  <2>1. \A i \in 1..latest - 1 : hc[i] \in S
    BY <1>2, <1>5
  <2>2. /\ head \in Seq(S) /\ Len(head) = IF 1 <= latest - 1 THEN latest - 1 - 1 + 1 ELSE 0
        /\ \A i \in 1..latest - 1 - 1 + 1 : head[i] = hc[1 + i - 1]
    BY <1>5, <2>1, SubSeqProperties
  <2> HIDE DEF head
  <2> QED
    BY <1>5, <2>2
<1> HIDE DEF head
<1>7. \A i \in 1..latest - 1 : head[i] = hq[i]
  <2> SUFFICES ASSUME NEW i \in 1..latest - 1 PROVE head[i] = hq[i]
    OBVIOUS
  <2>1. i \in 1..Len(ha) /\ i \in 1..Len(hr) /\ i # latest
    BY <1>2, <1>3, <1>5
  <2> QED
    BY <1>2, <1>3, <1>4, <1>6, <2>1
<1>8. Len(head) <= Len(hq)
  BY <1>2, <1>3, <1>5, <1>6
<1> QED
  BY <1>1, <1>4, <1>6, <1>7, <1>8, PrefixMeans DEF head

\* What has been checked of the chain that is pushed.
LEMMA ChainChecked ==
  ASSUME ReleaseInv, NEW c \in DOMAIN commits, NEW a \in DOMAIN commits, NEW r \in DOMAIN commits,
         NEW m \in DOMAIN commits, NEW q \in DOMAIN commits, NEW first_parent,
         validate_published(c, a, r, m, q, first_parent)
  PROVE  /\ c \in verified \cap approved /\ Code(q) = Code(c) /\ Tested(q)
         /\ IsPrefix(SubSeq(Handoff(c), 1, LatestWorkDone(Handoff(c)) - 1), Handoff(q))
<1>1. ReleaseTypeOK /\ \A x \in DOMAIN commits : TreeOK(Tree(x), approved)
  BY DEF ReleaseInv
<1>2. /\ validate_c_to_a_transition(c, a) /\ validate_a_to_r_transition(a, r)
      /\ Reviewed(r).candidate = c
      /\ \E receipt \in ReceiptsAt(a, c, Reviewed(r).receipt) :
           /\ receipt.candidate = c /\ receipt.base = Published(a).base
           /\ Reviewed(r).verdict = "approved" => receipt_eligible(receipt)
      /\ Tree(m) = Tree(r) /\ validate_q(m, q)
      /\ MatrixTriggered(ArtifactOf(m, q).data)
           = migration_required(DiffPaths(Published(a).base, c))
      /\ Reviewed(r).verdict = "approved"
  BY DEF validate_published, validate_c_a_r_chain, validate_merge
<1>3. PICK receipt \in ReceiptsAt(a, c, Reviewed(r).receipt) :
        /\ receipt.candidate = c /\ receipt.base = Published(a).base /\ receipt_eligible(receipt)
  BY <1>2
<1>4. ReceiptOK(receipt)
  <2>1. receipt \in Tree(a).files /\ receipt.kind = "receipt"
    BY <1>3 DEF ReceiptsAt, OfKind
  <2> QED
    BY <1>1, <2>1 DEF TreeOK, FileOK
<1>5. PICK artifact \in OfKind("artifact", Added(m, q)) :
        /\ Added(m, q) = {artifact}
        /\ validate_post_merge_artifact(artifact.data)
        /\ artifact.merged_commit = m
  BY <1>2 DEF validate_q
<1>6. /\ artifact.kind = "artifact" /\ artifact \in Tree(q).files
      /\ MatrixTriggered(artifact.data) = migration_required(DiffPaths(Published(a).base, c))
      /\ migration_matrix_genuinely_passed(artifact.data)
  BY <1>2, <1>5 DEF OfKind, Added, ArtifactOf, validate_post_merge_artifact
<1>7. /\ Tree(c).files \subseteq Tree(q).files
      /\ Code(a) = Code(c) /\ Code(r) = Code(a) /\ Code(m) = Code(r) /\ Code(q) = Code(m)
  <2>1. /\ Tree(c).files \subseteq Tree(a).files
        /\ \A f \in Tree(a).files : f \in Tree(c).files \/ f.kind = "receipt"
    BY <1>2 DEF validate_c_to_a_transition, Added, Removed, OfKind
  <2>2. Tree(r).files = Tree(a).files
    BY <1>2 DEF validate_a_to_r_transition, Added, Removed
  <2>3. Tree(q).files = Tree(m).files \cup {artifact}
    BY <1>2, <1>5 DEF validate_q, Added, Removed
  <2>4. Code(a) = Code(c)
    BY <2>1 DEF Code, OfKind
  <2>5. Code(r) = Code(a) /\ Code(m) = Code(r)
    BY <1>2, <2>2 DEF Code
  <2>6. Code(q) = Code(m)
    BY <1>6, <2>3 DEF Code, OfKind
  <2> QED
    BY <1>2, <2>1, <2>2, <2>3, <2>4, <2>5, <2>6
<1>8. c \in verified
  BY <1>3, <1>4 DEF ReceiptOK
<1>9. c \in approved
  <2> DEFINE ha == Handoff(a)
             hr == Handoff(r)
             suffix == Suffix(ha, hr)
  <2>1. Len(suffix) = 1 /\ suffix[1].kind = "review"
    BY <1>2 DEF validate_a_to_r_transition
  <2>2. HandoffOK(ha, approved) /\ HandoffOK(hr, approved)
    BY <1>1 DEF TreeOK, Handoff
  <2>3. /\ Len(ha) \in Nat /\ Len(hr) \in Nat /\ DOMAIN hr = 1..Len(hr)
        /\ hr \in [1..Len(hr) -> ToSet(hr)]
    BY <2>2, LenProperties DEF HandoffOK
  <2>4. suffix = SubSeq(hr, Len(ha) + 1, Len(hr))
    BY DEF Suffix
  <2> HIDE DEF suffix, ha, hr
  <2>5. /\ Len(suffix) = IF Len(ha) + 1 <= Len(hr) THEN Len(hr) - (Len(ha) + 1) + 1 ELSE 0
        /\ \A i \in 1..Len(hr) - (Len(ha) + 1) + 1 : suffix[i] = hr[(Len(ha) + 1) + i - 1]
    <3>1. \A i \in (Len(ha) + 1)..Len(hr) : hr[i] \in ToSet(hr)
      BY <2>3
    <3>2. Len(ha) + 1 \in Int /\ Len(hr) \in Int
      BY <2>3
    <3> QED
      BY <2>4, <3>1, <3>2, SubSeqProperties
  <2>6. Len(hr) = Len(ha) + 1 /\ suffix[1] = hr[Len(hr)] /\ Len(hr) \in DOMAIN hr
    <3>1. Len(hr) = Len(ha) + 1
      <4>1. Len(ha) \in Nat /\ Len(hr) \in Nat
        BY <2>3
      <4>2. 1 = IF Len(ha) + 1 <= Len(hr) THEN Len(hr) - (Len(ha) + 1) + 1 ELSE 0
        BY <2>1, <2>5
      <4> QED
        BY <4>1, <4>2
    <3>2. 1 \in 1..Len(hr) - (Len(ha) + 1) + 1 /\ (Len(ha) + 1) + 1 - 1 = Len(hr)
      BY <2>3, <3>1
    <3>3. suffix[1] = hr[(Len(ha) + 1) + 1 - 1]
      BY <2>5, <3>2
    <3> QED
      BY <2>3, <3>1, <3>2, <3>3
  <2>7. hr[Len(hr)] = Reviewed(r)
    BY DEF hr, Reviewed
  <2>8. SectionOK(Reviewed(r), approved)
    BY <2>2, <2>6, <2>7 DEF HandoffOK
  <2> QED
    BY <1>2, <2>1, <2>6, <2>7, <2>8 DEF SectionOK
<1>10. IsPrefix(SubSeq(Handoff(c), 1, LatestWorkDone(Handoff(c)) - 1), Handoff(q))
  <2>1. /\ HandoffOK(Handoff(c), approved) /\ HandoffOK(Handoff(a), approved)
        /\ HandoffOK(Handoff(r), approved) /\ HandoffOK(Handoff(q), approved)
    BY <1>1 DEF TreeOK, Handoff
  <2>2. /\ WorkDone(Handoff(c)) # {} /\ Len(Handoff(a)) = Len(Handoff(c))
        /\ \A i \in DOMAIN Handoff(a) :
             Handoff(a)[i] # Handoff(c)[i] => i = LatestWorkDone(Handoff(c))
        /\ IsPrefix(Handoff(a), Handoff(r))
    BY <1>2 DEF validate_c_to_a_transition, validate_a_to_r_transition
  <2>3. IsPrefix(Handoff(r), Handoff(q))
    BY <1>2 DEF validate_q, validate_m_to_q_transition, Handoff
  <2> QED
    BY <2>1, <2>2, <2>3, HistoryKept
<1>11. Tested(q)
  <2> SUFFICES ASSUME NEW edit \in Code(q), edit.path.migration
               PROVE  \E evidence \in OfKind("artifact", Tree(q).files) :
                        /\ evidence.merged_commit \in DOMAIN commits
                        /\ edit \in Code(evidence.merged_commit)
                        /\ MatrixTriggered(evidence.data)
                        /\ migration_matrix_genuinely_passed(evidence.data)
    BY DEF Tested
  <2> DEFINE base == Published(a).base
  <2>1. Tested(base) /\ Keeps(Tree(base), Tree(c))
    BY <1>3, <1>4 DEF ReceiptOK
  <2>2. edit \in Tree(c).files /\ edit.kind = "edit" /\ edit \in Code(m)
    BY <1>7 DEF Code, OfKind
  <2>3. CASE edit \in Tree(base).files
    <3>1. edit \in Code(base)
      BY <2>2, <2>3 DEF Code, OfKind
    <3>2. PICK evidence \in OfKind("artifact", Tree(base).files) :
             /\ evidence.merged_commit \in DOMAIN commits
             /\ edit \in Code(evidence.merged_commit)
             /\ MatrixTriggered(evidence.data)
             /\ migration_matrix_genuinely_passed(evidence.data)
      BY <2>1, <3>1 DEF Tested
    <3>3. evidence \in OfKind("artifact", Tree(q).files)
      BY <1>7, <2>1, <3>2 DEF Keeps, OfKind
    <3> QED
      BY <3>2, <3>3
  <2>4. CASE edit \notin Tree(base).files
    <3>1. edit \in OfKind("edit", Added(base, c) \cup Removed(base, c))
      BY <2>2, <2>4 DEF OfKind, Added
    <3>2. migration_required(DiffPaths(base, c))
      BY <3>1 DEF DiffPaths, migration_required
    <3>3. artifact \in OfKind("artifact", Tree(q).files)
      BY <1>6 DEF OfKind
    <3> QED
      BY <1>5, <1>6, <2>2, <3>2, <3>3
  <2> QED
    BY <2>3, <2>4
<1> QED
  BY <1>7, <1>8, <1>9, <1>10, <1>11

\* A push makes a checked chain the new main.
LEMMA MainPushed ==
  ASSUME ReleaseInv, NEW s \in Slices, Push(s)
  PROVE  ReleaseInv'
<1> DEFINE w == work[s]
<1>1. /\ w.stage = "q" /\ validate_published(w.c, w.a, w.r, w.m, w.q, w.first_parent)
      /\ main' = w.q /\ work' = [work EXCEPT ![s].stage = "pushed"]
      /\ commits' = commits /\ verified' = verified /\ approved' = approved
  BY DEF Push
<1>2. WorkOK(s) /\ ReleaseTypeOK /\ \A x \in DOMAIN commits : TreeOK(Tree(x), approved)
  BY DEF ReleaseInv
<1>3. \A role \in Roles : w[role] \in Own(s)
  BY <1>1, <1>2 DEF WorkOK, Owned, Roles, StagesWith, Stages
<1>4. \A role \in Roles : w[role] \in DOMAIN commits
  BY <1>3 DEF Own
<1>5. PICK c, q : c = w.c /\ q = w.q
  OBVIOUS
<1>6. /\ c \in verified \cap approved /\ Code(q) = Code(c) /\ Tested(q)
      /\ IsPrefix(SubSeq(Handoff(c), 1, LatestWorkDone(Handoff(c)) - 1), Handoff(q))
  BY <1>1, <1>4, <1>5, ChainChecked DEF Roles
<1>7. q \in Own(s) /\ q \in DOMAIN commits /\ \A x \in DOMAIN commits : q \notin ToSet(Parents(x))
  BY <1>1, <1>2, <1>3, <1>5 DEF Roles, WorkOK, Unpushed, Own
<1>8. /\ DOMAIN work' = Slices /\ \A t \in Slices \ {s} : work'[t] = work[t]
      /\ DOMAIN work'[s] = SliceFields /\ work'[s].stage = "pushed"
      /\ \A f \in SliceFields \ {"stage"} : work'[s][f] = work[s][f]
  BY <1>1, <1>2 DEF ReleaseTypeOK, SliceFields
<1>9. Grows
  BY <1>1 DEF Grows
<1>10. ReleaseTypeOK'
  <2>1. \A t \in Slices : work'[t].made = work[t].made
    BY <1>8 DEF SliceFields
  <2>2. \A t \in Slices : DOMAIN work'[t] = SliceFields /\ work'[t].stage \in Stages
    BY <1>2, <1>8 DEF ReleaseTypeOK, Stages
  <2> QED
    BY <1>1, <1>2, <1>4, <1>8, <2>1, <2>2 DEF ReleaseTypeOK, Parents, Roles
<1>11. \A x \in DOMAIN commits' : TreeOK(Tree(x), approved)'
  <2> SUFFICES ASSUME NEW x \in DOMAIN commits' PROVE TreeOK(Tree(x), approved)'
    OBVIOUS
  <2>1. TreeOK(Tree(x), approved') /\ Tree(x)' = Tree(x)
    BY <1>1, <1>2 DEF Tree
  <2> QED
    BY <1>9, <2>1, TreeStays
<1>12. Tested(main)'
  <2>1. Tested(q)'
    BY <1>6, <1>7, <1>9, TestedStays
  <2>2. main' = q
    BY <1>1, <1>5
  <2>3. Tested(main)' <=> \A x : x = main' => Tested(x)'
    BY DEF Tested, Code, Tree
  <2> QED
    BY <2>1, <2>2, <2>3
<1>13. PublishedAsVerifiedAndApproved'
  <2>1. /\ Code(main)' = Code(q) /\ Code(c)' = Code(c)
        /\ Handoff(main)' = Handoff(q) /\ Handoff(c)' = Handoff(c)
    BY <1>1, <1>5 DEF Code, Handoff, Tree
  <2>2. IsPrefix(SubSeq(Handoff(c), 1, LatestWorkDone(Handoff(c)) - 1), Handoff(main))'
    BY <1>6, <2>1
  <2> QED
    BY <1>1, <1>6, <2>1, <2>2 DEF PublishedAsVerifiedAndApproved
\* Nothing else is built on q.
<1>14. ASSUME NEW x \in DOMAIN commits, x # q PROVE ~ Below(q, x)
  <2> DEFINE T == DOMAIN commits \ {q}
  <2>1. T \in SUBSET DOMAIN commits /\ x \in T /\ q \notin T
    BY <1>14
  <2>2. \A t \in T : ToSet(Parents(t)) \subseteq T
    BY <1>2, <1>7 DEF ReleaseTypeOK
  <2> HIDE DEF T
  <2> QED
    BY <2>1, <2>2 DEF Below
<1>15. ASSUME NEW x \in DOMAIN commits, Below(main, x)'
       PROVE  Keeps(Tree(main)', Tree(x)')
  <2>1. Below(q, x)
    BY <1>1, <1>5, <1>15 DEF Below, Parents
  <2>2. x = q
    BY <1>14, <2>1
  <2> QED
    BY <1>1, <1>5, <2>2 DEF Tree, Keeps, OfKind
<1>16. ASSUME NEW t \in Slices PROVE WorkOK(t)'
  <2>1. WorkOK(t) /\ \A f \in SliceFields \ {"stage"} : work'[t][f] = work[t][f]
    BY <1>8 DEF ReleaseInv
  <2>2. work'[t].stage = IF t = s THEN "pushed" ELSE work[t].stage
    BY <1>8
  <2>3. Owned(t)'
    <3>1. \A role \in Roles :
            work'[t].stage \in StagesWith[role] => work[t].stage \in StagesWith[role]
      BY <1>1, <2>2 DEF Roles, StagesWith, Stages
    <3>2. work'[t].stage # "new" => work[t].stage # "new"
      BY <1>1, <2>2
    <3>3. Own(t)' = Own(t) /\ Handoff(work[t].c)' = commits[work'[t].c].tree.handoff
      BY <1>1 DEF Own, Handoff, Tree
    <3>4. /\ work'[t].c = work[t].c /\ work'[t].head = work[t].head /\ work'[t].fork = work[t].fork
          /\ \A role \in Roles : work'[t][role] = work[t][role]
      BY <2>1 DEF SliceFields, Roles
    <3>5. work'[t].stage = "new" => work[t].stage = "new"
      BY <2>2
    <3> QED
      BY <1>1, <2>1, <3>1, <3>2, <3>3, <3>4, <3>5 DEF WorkOK, Owned, Handoff, Tree
  <2>4. SliceRecorded(t)'
    <3>1. work'[t].receipt = work[t].receipt /\ work'[t].artifact = work[t].artifact
      BY <2>1 DEF SliceFields
    <3> QED
      BY <1>9, <2>1, <2>2, <3>1, ReceiptStays, ArtifactStays DEF WorkOK, SliceRecorded
  <2>5. Unpushed(t)'
    <3>1. CASE t = s
      BY <1>8, <3>1 DEF Unpushed
    <3>2. CASE t # s
      <4>1. work'[t] = work[t]
        BY <1>8, <3>2
      <4>2. work[t].stage = "q" => work[t].q \in Own(t)
        BY <2>1 DEF WorkOK, Owned, Roles, StagesWith
      <4>3. work[t].stage = "q" => work[t].q # q
        BY <1>7, <3>2, <4>2 DEF Own
      <4> QED
        BY <1>1, <1>5, <2>1, <4>1, <4>3 DEF WorkOK, Unpushed, Parents
    <3> QED
      BY <3>1, <3>2
  <2>6. Descends(t)'
    <3>1. \A x \in {work[t].c, work[t].a, work[t].head} \ {None} : x \in DOMAIN commits
      BY <2>1 DEF WorkOK, Owned, Own, Roles
    <3>2. work'[t].c = work[t].c /\ work'[t].a = work[t].a /\ work'[t].head = work[t].head
      BY <2>1 DEF SliceFields
    <3> QED
      BY <1>15, <3>1, <3>2 DEF Descends
  <2> QED
    BY <2>3, <2>4, <2>5, <2>6 DEF WorkOK
<1> QED
  BY <1>10, <1>11, <1>12, <1>13, <1>16 DEF ReleaseInv

-----------------------------------------------------------------------------
(***************************************************************************)
(* The theorems.                                                           *)
(***************************************************************************)

\* Root alone, and slices with no commit.
LEMMA InitOK ==
  ASSUME ReleaseInit
  PROVE  ReleaseInv
<1>1. /\ commits = [c \in {Root} |-> [parents |-> <<>>,
                     tree |-> [files |-> {}, handoff |-> <<[kind |-> "history"]>>]]]
      /\ main = Root /\ verified = {} /\ DOMAIN work = Slices
      /\ \A s \in Slices : work[s] = NewWork
  BY DEF ReleaseInit
<1>2. /\ DOMAIN commits = {Root} /\ Parents(Root) = <<>> /\ Tree(Root).files = {}
      /\ Tree(Root) = [files |-> Tree(Root).files, handoff |-> Tree(Root).handoff]
      /\ Tree(Root).handoff = <<[kind |-> "history"]>>
  BY <1>1 DEF Parents, Tree
<1>3. /\ DOMAIN NewWork = SliceFields /\ NewWork.stage = "new" /\ NewWork.made = 0
      /\ NewWork.head = None /\ NewWork.receipt = None /\ NewWork.artifact = None
      /\ \A role \in Roles : NewWork[role] = None
  BY DEF NewWork, SliceFields, Roles
<1>4. ReleaseTypeOK
  <2>1. IsFiniteSet(DOMAIN commits)
    BY <1>2, FS_Singleton
  <2>2. ToSet(Parents(Root)) = {}
    BY <1>2 DEF ToSet
  <2>3. \A s \in Slices, n \in Nat : <<s, n>> \notin DOMAIN commits
    BY <1>2, ReleaseAssumption
  <2> QED
    BY <1>1, <1>2, <1>3, <2>1, <2>2, <2>3 DEF ReleaseTypeOK, Stages
<1>5. TreeOK(Tree(Root), approved)
  <2>1. PICK section : section = [kind |-> "history"]
    OBVIOUS
  <2>2. SectionOK(section, approved)
    BY <2>1 DEF SectionOK
  <2>3. HandoffOK(<<section>>, approved)
    <3>1. <<section>> \in Seq({section}) /\ <<section>> # <<>>
      OBVIOUS
    <3>2. DOMAIN <<section>> = {1} /\ <<section>>[1] = section
      OBVIOUS
    <3>3. <<section>> \in Seq(ToSet(<<section>>))
      BY <3>1, OverItsElements
    <3> QED
      BY <2>2, <3>1, <3>2, <3>3 DEF HandoffOK
  <2> QED
    BY <1>2, <2>1, <2>3 DEF TreeOK
<1>6. \A s \in Slices : WorkOK(s)
  BY <1>1, <1>3 DEF WorkOK, Owned, SliceRecorded, Unpushed, Descends, Roles, StagesWith, Stages
<1>7. Tested(main)
  BY <1>1, <1>2 DEF Tested, Code, OfKind
<1>8. PublishedAsVerifiedAndApproved
  BY <1>1 DEF PublishedAsVerifiedAndApproved
<1> QED
  BY <1>2, <1>4, <1>5, <1>6, <1>7, <1>8 DEF ReleaseInv

\* Each step, of any slice.
LEMMA StepOK ==
  ASSUME ReleaseInv, [ReleaseNext]_releaseVars
  PROVE  ReleaseInv'
<1>1. ASSUME NEW s \in Slices, SliceStep(s) PROVE ReleaseInv'
  <2>1. CASE WriteCandidate(s)
    BY <2>1, CandidateWritten
  <2>2. CASE VerifyCandidate(s)
    BY <2>2, CandidateVerified
  <2>3. CASE PublishReceipt(s)
    BY <2>3, ReceiptPublished
  <2>4. CASE PublishReview(s)
    BY <2>4, ReviewPublished
  <2>5. CASE MergeReview(s)
    BY <2>5, ReviewMerged
  <2>6. CASE VerifyMerge(s)
    BY <2>6, MergeVerified
  <2>7. CASE PublishArtifact(s)
    BY <2>7, ArtifactPublished
  <2>8. CASE Push(s)
    BY <2>8, MainPushed
  <2> QED
    BY <1>1, <2>1, <2>2, <2>3, <2>4, <2>5, <2>6, <2>7, <2>8 DEF SliceStep
<1>2. CASE UNCHANGED releaseVars
  <2>1. /\ commits' = commits /\ main' = main /\ work' = work
        /\ verified' = verified /\ approved' = approved
    BY <1>2 DEF releaseVars
  <2>2. Grows
    BY <2>1 DEF Grows
  <2>3. ReleaseTypeOK'
    BY <2>1 DEF ReleaseInv, ReleaseTypeOK, Parents
  <2>4. ASSUME NEW x \in DOMAIN commits' PROVE TreeOK(Tree(x), approved)'
    <3>1. TreeOK(Tree(x), approved') /\ Tree(x)' = Tree(x)
      BY <2>1 DEF ReleaseInv, Tree
    <3> QED
      BY <2>2, <3>1, TreeStays
  <2>5. Tested(main)'
    BY <2>1 DEF ReleaseInv, Tested, Code, Tree
  <2>6. PublishedAsVerifiedAndApproved'
    BY <2>1, <2>2, PublishedStays DEF ReleaseInv, ReleaseTypeOK
  <2>7. ASSUME NEW s \in Slices PROVE WorkOK(s)'
    <3>1. WorkOK(s)
      BY DEF ReleaseInv
    <3>2. SliceRecorded(s)'
      BY <2>1, <2>2, <3>1, ReceiptStays, ArtifactStays DEF WorkOK, SliceRecorded
    <3>3. Owned(s)'
      BY <2>1, <3>1 DEF WorkOK, Owned, Own, Handoff, Tree
    <3>4. Unpushed(s)' /\ Descends(s)'
      BY <2>1, <3>1 DEF WorkOK, Unpushed, Descends, Below, Parents, Tree
    <3> QED
      BY <3>2, <3>3, <3>4 DEF WorkOK
  <2> QED
    BY <2>3, <2>4, <2>5, <2>6, <2>7 DEF ReleaseInv
<1> QED
  BY <1>1, <1>2 DEF ReleaseNext

\* What is said of commits, trees, slices and main holds throughout.
THEOREM ReleaseInvariant == ReleaseSpec => []ReleaseInv
<1>1. ReleaseInit => ReleaseInv
  BY InitOK
<1>2. ReleaseInv /\ [ReleaseNext]_releaseVars => ReleaseInv'
  BY StepOK
<1> QED
  BY <1>1, <1>2, PTL DEF ReleaseSpec

\* What main holds was verified in full and approved as it is, whatever mistakes
\* are made on the branches (check_review.py:1-28).
THEOREM MainIsVerifiedAndApproved == ReleaseSpec => []PublishedAsVerifiedAndApproved
<1>1. ReleaseInv => PublishedAsVerifiedAndApproved
  BY DEF ReleaseInv
<1> QED
  BY <1>1, ReleaseInvariant, PTL

\* Every schema change in main went through the migration matrix, whatever main
\* did while it was on its branch (check_review.py:1084-1099).
THEOREM MigrationsWereTested == ReleaseSpec => []EveryMigrationWasTested
<1>1. ReleaseInv => EveryMigrationWasTested
  BY DEF ReleaseInv, Tested, EveryMigrationWasTested
<1> QED
  BY <1>1, ReleaseInvariant, PTL
===============================================================================
