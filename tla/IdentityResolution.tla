------------------------- MODULE IdentityResolution -------------------------
(***************************************************************************)
(* Identity resolution: concurrent persist_posting transactions over the   *)
(* tables raw_job_ingestions, jobs, job_occurrences, identity_conflicts.   *)
(*                                                                         *)
(* A step is one SQL statement: between two of them any other transaction  *)
(* may commit (READ COMMITTED).  A transaction's writes are flushed        *)
(* statements nobody else can see, so they take effect in Commit, from the *)
(* values the transaction read earlier; an exception, a cancellation or a  *)
(* crash at any point is Rollback.  Advisory and row locks are held to the *)
(* end of the transaction.                                                 *)
(*                                                                         *)
(* A raw row becomes terminal once, so a Job or occurrence is named by the *)
(* raw row whose transaction created it.                                   *)
(***************************************************************************)
EXTENDS NaturalKey, Naturals, Sequences, FiniteSets

CONSTANTS
    Procs,       \* tasks that run persist_posting, one call at a time
    Raws,        \* ids of raw rows (and of the rows created from them)
    Postings,    \* what providers may report
    Times,       \* observed_at values
    MaxDeletes   \* how many Jobs an administrator may delete

ASSUME ResolutionAssumption ==
    /\ Postings \subseteq DiscoveredJob
    /\ Times \subseteq Nat
    /\ None \notin Raws \cup Procs
    /\ MaxDeletes \in Nat

VARIABLES
    raw,         \* [Raws -> RawRow or None]
    job,         \* [Raws -> JobRow or None]
    occurrence,  \* [Raws -> OccurrenceRow or None]
    conflicts,   \* the identity_conflicts table, in insertion order
    deleted,     \* ids of Jobs an administrator has deleted
    held,        \* [Procs -> set of locks]
    ctx          \* [Procs -> local state of the call in progress]

tables == <<raw, job, occurrence, conflicts, deleted>>
vars   == <<raw, job, occurrence, conflicts, deleted, held, ctx>>

UpsertKind == {"INSERTED", "UPDATED", "QUARANTINED", "ATTACHED", "AMBIGUOUS"}

RawRow == [posting : Postings, status : {"fetched", "parse_error", "normalized",
                                         "identity_conflict"},
           occurrence : Raws \cup {None}]
JobRow == [first_seen_at : Nat, last_seen_at : Nat]
OccurrenceRow == [job : Raws, columns : IdentityColumns,
                  first_seen_at : Nat, last_seen_at : Nat]
ConflictRow == [type : {"evidence_mismatch", "ambiguous_match"}, raw : Raws,
                occurrence : Raws \cup {None}, candidates : SUBSET Raws]

\* NULL is no row.
ASSUME NullAssumption == None \notin RawRow /\ None \notin JobRow /\ None \notin OccurrenceRow

PC == {"idle", "raw_lock", "key_lock", "probe", "parent_lock", "load",
       "signal_lock", "discover", "candidate_lock", "recheck", "discover_all",
       "write", "invalid", "unstable"}

Context ==
    [pc : PC, raw : Raws \cup {None}, observed_at : Nat,
     occurrence : Raws \cup {None},  \* the occurrence Tier 1 probed
     job : Raws \cup {None},         \* the Job probed, or the sole candidate
     job_last : Nat, occ_last : Nat, \* last_seen_at as read under the row lock
     candidates : SUBSET Raws,       \* evidence of an ambiguity
     kind : UpsertKind \cup {None}]

Idle == [pc |-> "idle", raw |-> None, observed_at |-> 0, occurrence |-> None,
         job |-> None, job_last |-> 0, occ_last |-> 0, candidates |-> {},
         kind |-> None]

Locks == [tag : {"TENANT", "NO_TENANT", "URL", "CANONICAL_URL", "TENANT_REQUISITION",
                 "RAW_ROW", "JOB_ROW"},
          provider : Providers \cup {None}, source : Sources \cup {None},
          a : TextOrNone \cup Raws, b : TextOrNone \cup UrlOrNone]

\* Mutant: the reported time replaces the stored one.
Reported(a, b) == b

Max2(a, b) == IF a >= b THEN a ELSE b

TypeOK ==
    /\ raw \in [Raws -> RawRow \cup {None}]
    /\ job \in [Raws -> JobRow \cup {None}]
    /\ occurrence \in [Raws -> OccurrenceRow \cup {None}]
    /\ conflicts \in Seq(ConflictRow)
    /\ deleted \in SUBSET Raws
    /\ held \in [Procs -> SUBSET Locks]
    /\ ctx \in [Procs -> Context]

Init ==
    /\ raw = [r \in Raws |-> None]
    /\ job = [r \in Raws |-> None]
    /\ occurrence = [r \in Raws |-> None]
    /\ conflicts = <<>>
    /\ deleted = {}
    /\ held = [p \in Procs |-> {}]
    /\ ctx = [p \in Procs |-> Idle]

-----------------------------------------------------------------------------
(***************************************************************************)
(* Reading the committed tables.                                           *)
(***************************************************************************)
Stored == {o \in Raws : occurrence[o] # None}

Cols(r) == Columns(raw[r].posting)
Key(r)  == resolve_natural_key(Cols(r))

MyCols(p) == Cols(ctx[p].raw)
MyKey(p)  == Key(ctx[p].raw)

\* Occurrences the Tier-1 lookup of key k selects.
Matching(k) == {o \in Stored : existing_occurrence_conditions(k, occurrence[o].columns)}

\* Distinct job_ids matching the filter of the tier columns c use.  LIMIT 2
\* only tells no candidate, one and several apart.
Candidates(c) == {occurrence[o].job :
                    o \in {x \in Stored : MatchesSignal(c, occurrence[x].columns)}}

\* Mutant: one candidate already counts as several.
SeveralOffByOne(S) == S # {}

Several(S) == \E a, b \in S : a # b

-----------------------------------------------------------------------------
(***************************************************************************)
(* Steps of a call.                                                        *)
(***************************************************************************)
CanLock(p, l) == \A q \in Procs \ {p} : l \notin held[q]

Acquire(p, l) == /\ CanLock(p, l)
                 /\ held' = [held EXCEPT ![p] = @ \cup {l}]

At(p, label) == ctx[p].pc = label

\* The local state of p changes to c, or in its label alone.
Become(p, c) == ctx' = [ctx EXCEPT ![p] = c]
Goto(p, label) == Become(p, [ctx[p] EXCEPT !.pc = label])

\* Transaction A_i: the posting is stored before anything can fail.
Fetch(r, posting) ==
    /\ raw[r] = None
    /\ raw' = [raw EXCEPT ![r] = [posting |-> posting, status |-> "fetched",
                                  occurrence |-> None]]
    /\ UNCHANGED <<job, occurrence, conflicts, deleted, held, ctx>>

\* Transaction C_i: a posting without any natural key.
MarkParseError(r) ==
    /\ raw[r] # None
    /\ raw[r].status = "fetched"
    /\ Key(r) = None
    /\ raw' = [raw EXCEPT ![r].status = "parse_error"]
    /\ UNCHANGED <<job, occurrence, conflicts, deleted, held, ctx>>

\* A caller hands a raw row with its own posting to persist_posting; the row
\* may already have been processed, or be in another task's hands.
Call(p, r, t) ==
    /\ At(p, "idle")
    /\ raw[r] # None
    /\ Key(r) # None
    /\ Become(p, [Idle EXCEPT !.pc = "raw_lock", !.raw = r, !.observed_at = t])
    /\ UNCHANGED <<tables, held>>

\* Mutant: the state of the raw row is not validated.
LockRawUnvalidated(p) ==
    /\ At(p, "raw_lock")
    /\ Acquire(p, RawRowLock(ctx[p].raw))
    /\ Goto(p, "key_lock")
    /\ UNCHANGED tables

\* The raw row is locked and validated: only a fetched, unlinked row goes on.
LockRaw(p) ==
    /\ At(p, "raw_lock")
    /\ Acquire(p, RawRowLock(ctx[p].raw))
    /\ LET row == raw[ctx[p].raw]
       IN  Goto(p, IF row.status = "fetched" /\ row.occurrence = None
                   THEN "key_lock" ELSE "invalid")
    /\ UNCHANGED tables

\* Mutant: no advisory lock before the Tier-1 check.
LockKeyNever(p) ==
    /\ At(p, "key_lock")
    /\ Goto(p, "probe")
    /\ UNCHANGED <<tables, held>>

LockKey(p) ==
    /\ At(p, "key_lock")
    /\ Acquire(p, advisory_lock_key(MyKey(p)))
    /\ Goto(p, "probe")
    /\ UNCHANGED tables

\* Tier 1's unlocked scalar probe, and the tier that follows when it misses.
Probe(p) ==
    /\ At(p, "probe")
    /\ LET found == Matching(MyKey(p))
       IN  IF found # {}
           THEN \E o \in found :
                  Become(p, [ctx[p] EXCEPT !.pc = "parent_lock", !.occurrence = o,
                                                !.job = occurrence[o].job])
           ELSE IF UsesTier2(MyCols(p)) \/ UsesTier3(MyCols(p))
           THEN Goto(p, "signal_lock")
           ELSE Become(p, [ctx[p] EXCEPT !.pc = "write", !.kind = "INSERTED"])
    /\ UNCHANGED <<tables, held>>

(***************************************************************************)
(* SELECT ... FROM jobs WHERE id = ... FOR UPDATE: waits while another     *)
(* transaction holds the row, then either finds the Job gone or holds it   *)
(* and has read its latest committed version.                              *)
(***************************************************************************)
LockJob(p, next) ==
    LET j == ctx[p].job
    IN  /\ CanLock(p, JobRowLock(j))
        /\ IF job[j] = None
           THEN /\ Goto(p, "unstable")
                /\ UNCHANGED held
           ELSE /\ held' = [held EXCEPT ![p] = @ \cup {JobRowLock(j)}]
                /\ Become(p, [ctx[p] EXCEPT !.pc = next,
                                          !.job_last = job[j].last_seen_at])
        /\ UNCHANGED tables

LockParent(p) == At(p, "parent_lock") /\ LockJob(p, "load")

\* Mutant: conflicting evidence is not noticed.
LoadOccurrenceTrusting(p) ==
    /\ At(p, "load")
    /\ Become(p, [ctx[p] EXCEPT !.pc = "write", !.kind = "UPDATED",
                                  !.occ_last = occurrence[ctx[p].occurrence].last_seen_at])
    /\ UNCHANGED <<tables, held>>

\* The occurrence is loaded for the first time, under its parent's lock.
LoadOccurrence(p) ==
    /\ At(p, "load")
    /\ LET o  == ctx[p].occurrence
           mine == MyCols(p).canonical_url_normalized
       IN  IF o \in Matching(MyKey(p)) /\ occurrence[o].job = ctx[p].job
           THEN LET stored == occurrence[o].columns.canonical_url_normalized
                IN  Become(p, [ctx[p] EXCEPT !.pc = "write",
                              !.occ_last = occurrence[o].last_seen_at,
                              !.kind = IF None \notin {stored, mine} /\ stored # mine
                                       THEN "QUARANTINED" ELSE "UPDATED"])
           ELSE Goto(p, "unstable")
    /\ UNCHANGED <<tables, held>>

\* Mutant: Tier 2 does not take the canonical URL's lock.
LockSignalTier3Only(p) ==
    /\ At(p, "signal_lock")
    /\ IF UsesTier2(MyCols(p)) THEN UNCHANGED held ELSE Acquire(p, SignalLock(MyCols(p)))
    /\ Goto(p, "discover")
    /\ UNCHANGED tables

LockSignal(p) ==
    /\ At(p, "signal_lock")
    /\ Acquire(p, SignalLock(MyCols(p)))
    /\ Goto(p, "discover")
    /\ UNCHANGED tables

Discover(p) ==
    /\ At(p, "discover")
    /\ LET found == Candidates(MyCols(p))
       IN  IF found = {}
           THEN Become(p, [ctx[p] EXCEPT !.pc = "write", !.kind = "INSERTED"])
           ELSE IF Several(found)
           THEN Goto(p, "discover_all")
           ELSE \E j \in found :
                  Become(p, [ctx[p] EXCEPT !.pc = "candidate_lock", !.job = j])
    /\ UNCHANGED <<tables, held>>

\* Mutant: the candidate's row is read without FOR UPDATE.
LockCandidateUnlocked(p) ==
    /\ At(p, "candidate_lock")
    /\ IF job[ctx[p].job] = None
       THEN Goto(p, "unstable")
       ELSE Become(p, [ctx[p] EXCEPT !.pc = "recheck",
                                     !.job_last = job[ctx[p].job].last_seen_at])
    /\ UNCHANGED <<tables, held>>

LockCandidate(p) == At(p, "candidate_lock") /\ LockJob(p, "recheck")

\* The candidate query again, now under the candidate's row lock.
Recheck(p) ==
    /\ At(p, "recheck")
    /\ LET found == Candidates(MyCols(p))
       IN  IF Several(found)
           THEN Goto(p, "discover_all")
           ELSE IF found = {ctx[p].job}
           THEN Become(p, [ctx[p] EXCEPT !.pc = "write", !.kind = "ATTACHED"])
           ELSE Goto(p, "unstable")
    /\ UNCHANGED <<tables, held>>

\* Mutant: an off-by-one in the size of a genuine ambiguity.
DiscoverAllOffByOne(p) ==
    /\ At(p, "discover_all")
    /\ LET found == Candidates(MyCols(p))
       IN  IF Cardinality(found) <= 2
           THEN Goto(p, "unstable")
           ELSE Become(p, [ctx[p] EXCEPT !.pc = "write", !.kind = "AMBIGUOUS",
                                         !.candidates = found])
    /\ UNCHANGED <<tables, held>>

\* The unbounded requery: the evidence of an ambiguity.
DiscoverAll(p) ==
    /\ At(p, "discover_all")
    /\ LET found == Candidates(MyCols(p))
       IN  IF Several(found)
           THEN Become(p, [ctx[p] EXCEPT !.pc = "write", !.kind = "AMBIGUOUS",
                                         !.candidates = found])
           ELSE Goto(p, "unstable")
    /\ UNCHANGED <<tables, held>>

-----------------------------------------------------------------------------
(***************************************************************************)
(* The end of a transaction.                                               *)
(***************************************************************************)
\* Mutant: session-level advisory locks, which outlive the transaction.
EndSessionLocks(p) ==
    /\ held' = [held EXCEPT ![p] = {l \in @ : l.tag \notin {"RAW_ROW", "JOB_ROW"}}]
    /\ Become(p, Idle)

End(p) == /\ held' = [held EXCEPT ![p] = {}]
          /\ Become(p, Idle)

\* Mutant: the job id is stored as reported, not as canonicalised.
NewOccurrenceUntrimmed(p, j) ==
    [job |-> j,
     columns |-> [MyCols(p) EXCEPT !.source_job_id = raw[ctx[p].raw].posting.source_job_id],
     first_seen_at |-> ctx[p].observed_at, last_seen_at |-> ctx[p].observed_at]

NewOccurrence(p, j) ==
    [job |-> j, columns |-> MyCols(p), first_seen_at |-> ctx[p].observed_at,
     last_seen_at |-> ctx[p].observed_at]

\* The raw row's terminal update, linking it to occurrence o.
Settle(p, status, o) ==
    raw' = [raw EXCEPT ![ctx[p].raw].status = status, ![ctx[p].raw].occurrence = o]

\* Tier 1 found: observational columns only, with or without a quarantine.
CommitFound(p) ==
    LET c == ctx[p]
        quarantined == c.kind = "QUARANTINED"
    IN  /\ At(p, "write")
        /\ c.kind \in {"UPDATED", "QUARANTINED"}
        /\ occurrence' = [occurrence EXCEPT ![c.occurrence].last_seen_at =
                            Max2(c.occ_last, c.observed_at)]
        /\ job' = [job EXCEPT ![c.job].last_seen_at = Max2(c.job_last, c.observed_at)]
        /\ Settle(p, IF quarantined THEN "identity_conflict" ELSE "normalized", c.occurrence)
        /\ conflicts' = IF quarantined
                        THEN Append(conflicts, [type |-> "evidence_mismatch", raw |-> c.raw,
                                                occurrence |-> c.occurrence, candidates |-> {}])
                        ELSE conflicts
        /\ End(p)
        /\ UNCHANGED deleted

\* Tier 2 or 3 found one Job: a new occurrence of it.
CommitAttached(p) ==
    LET c == ctx[p]
    IN  /\ At(p, "write")
        /\ c.kind = "ATTACHED"
        /\ occurrence' = [occurrence EXCEPT ![c.raw] = NewOccurrence(p, c.job)]
        /\ job' = [job EXCEPT ![c.job].last_seen_at = Max2(c.job_last, c.observed_at)]
        /\ Settle(p, "normalized", c.raw)
        /\ End(p)
        /\ UNCHANGED <<conflicts, deleted>>

\* Tier 5: a new Job with its occurrence, with or without an ambiguity.
CommitNewJob(p) ==
    LET c == ctx[p]
        ambiguous == c.kind = "AMBIGUOUS"
    IN  /\ At(p, "write")
        /\ c.kind \in {"INSERTED", "AMBIGUOUS"}
        /\ job' = [job EXCEPT ![c.raw] = [first_seen_at |-> c.observed_at,
                                          last_seen_at |-> c.observed_at]]
        /\ occurrence' = [occurrence EXCEPT ![c.raw] = NewOccurrence(p, c.raw)]
        /\ Settle(p, IF ambiguous THEN "identity_conflict" ELSE "normalized", c.raw)
        /\ conflicts' = IF ambiguous
                        THEN Append(conflicts, [type |-> "ambiguous_match", raw |-> c.raw,
                                                occurrence |-> None,
                                                candidates |-> c.candidates])
                        ELSE conflicts
        /\ End(p)
        /\ UNCHANGED deleted

\* An exception, a cancellation or a crash: nothing the call wrote remains.
Rollback(p) ==
    /\ ~At(p, "idle")
    /\ End(p)
    /\ UNCHANGED tables

(***************************************************************************)
(* An administrator deletes a Job.  Nothing in the package does; the       *)
(* schema says what happens (occurrences cascade, the audit tables'        *)
(* references become NULL) and the code is written to survive it.          *)
(***************************************************************************)
DeleteJob(j) ==
    LET gone == {o \in Stored : occurrence[o].job = j}
    IN  /\ job[j] # None
        /\ Cardinality(deleted) < MaxDeletes
        /\ \A p \in Procs : JobRowLock(j) \notin held[p]
        /\ job' = [job EXCEPT ![j] = None]
        /\ occurrence' = [o \in Raws |-> IF o \in gone THEN None ELSE occurrence[o]]
        /\ raw' = [r \in Raws |-> IF raw[r] # None /\ raw[r].occurrence \in gone
                                  THEN [raw[r] EXCEPT !.occurrence = None] ELSE raw[r]]
        /\ conflicts' = [i \in DOMAIN conflicts |->
                           IF conflicts[i].occurrence \in gone
                           THEN [conflicts[i] EXCEPT !.occurrence = None] ELSE conflicts[i]]
        /\ deleted' = deleted \cup {j}
        /\ UNCHANGED <<held, ctx>>

-----------------------------------------------------------------------------
Commit(p) == CommitFound(p) \/ CommitAttached(p) \/ CommitNewJob(p)

\* The steps that may have to wait for another transaction to end.
LockStep(p) == \/ LockRaw(p) \/ LockKey(p) \/ LockParent(p)
               \/ LockSignal(p) \/ LockCandidate(p)

ReadStep(p) == \/ Probe(p) \/ LoadOccurrence(p) \/ Discover(p)
               \/ Recheck(p) \/ DiscoverAll(p)

Failed(p) == ctx[p].pc \in {"invalid", "unstable"}

Next ==
    \/ \E r \in Raws, q \in Postings : Fetch(r, q)
    \/ \E r \in Raws : MarkParseError(r)
    \/ \E p \in Procs, r \in Raws, t \in Times : Call(p, r, t)
    \/ \E p \in Procs : LockStep(p) \/ ReadStep(p) \/ Commit(p) \/ Rollback(p)
    \/ \E j \in Raws : DeleteJob(j)

Spec == Init /\ [][Next]_vars

\* A running task always takes its next step, and PostgreSQL grants a lock to
\* its waiters in the order they asked, so none of them waits for ever.
Fairness ==
    \A p \in Procs :
      /\ WF_vars(ReadStep(p) \/ Commit(p) \/ (Failed(p) /\ Rollback(p)))
      /\ SF_vars(LockStep(p))

FairSpec == Spec /\ Fairness

-----------------------------------------------------------------------------
(***************************************************************************)
(* Safety.                                                                 *)
(***************************************************************************)

\* The Tier-1 lookup of a stored row finds that row alone: the partial unique
\* indexes never have to reject an insert, whatever the tasks do.
NaturalKeyUnique ==
    \A o, e \in Stored :
      existing_occurrence_conditions(resolve_natural_key(occurrence[o].columns),
                                     occurrence[e].columns) => o = e

\* Two occurrences with one canonical URL belong to one Job: concurrent first
\* sightings of a URL under different natural keys never found two Jobs.
CanonicalUrlOneJob ==
    \A o, e \in Stored :
      LET url(x) == occurrence[x].columns.canonical_url_normalized
      IN  url(o) # None /\ url(o) = url(e) => occurrence[o].job = occurrence[e].job

\* An occurrence joins another's Job only on the evidence its posting is
\* entitled to use: the same canonical URL, or, without any, the same
\* requisition of the same tenant.
NoFalseMerge ==
    \A o \in Stored : occurrence[o].job # o =>
      \E e \in Stored \ {o} :
        LET c == occurrence[o].columns
            d == occurrence[e].columns
        IN  /\ occurrence[e].job = occurrence[o].job
            /\ IF c.canonical_url_normalized # None
               THEN d.canonical_url_normalized = c.canonical_url_normalized
               ELSE /\ c.source_tenant_id # None
                    /\ c.requisition_id_raw # None
                    /\ <<d.provider, d.source, d.source_tenant_id, d.requisition_id_raw>>
                         = <<c.provider, c.source, c.source_tenant_id, c.requisition_id_raw>>

\* A Job was last seen exactly when the latest of its occurrences was, although
\* its occurrences are updated under different advisory locks: no lost update.
LastSeenIsLatest ==
    \A j \in Raws : job[j] # None =>
      LET mine == {occurrence[o].last_seen_at : o \in {x \in Stored : occurrence[x].job = j}}
      IN  /\ job[j].last_seen_at \in mine
          /\ \A t \in mine : t <= job[j].last_seen_at

\* Each raw row in identity_conflict has exactly one conflict row, no other raw
\* row has any, even when one raw row is processed twice.
OneConflictPerRaw ==
    \A r \in Raws :
      Cardinality({i \in DOMAIN conflicts : conflicts[i].raw = r}) =
        IF raw[r] # None /\ raw[r].status = "identity_conflict" THEN 1 ELSE 0

\* A settled raw row points at the occurrence its own natural key names, and
\* only the deletion of a Job can undo the link.
RawLinksItsOccurrence ==
    \A r \in Raws : raw[r] # None /\ raw[r].status \in {"normalized", "identity_conflict"} =>
      IF raw[r].occurrence = None
      THEN deleted # {}
      ELSE /\ raw[r].occurrence \in Stored
           /\ raw[r].occurrence \in Matching(Key(r))

\* An ambiguity is recorded only against several other Jobs, only for a posting
\* without a canonical URL, and the posting joined none of them.
AmbiguityIsGenuine ==
    \A i \in DOMAIN conflicts : conflicts[i].type = "ambiguous_match" =>
      LET r == conflicts[i].raw
      IN  /\ \E a, b \in conflicts[i].candidates : a # b
          /\ r \notin conflicts[i].candidates
          /\ ~UsesTier2(Cols(r))
          /\ r \in Stored => occurrence[r].job = r

\* Candidate resolution fails closed, and only when a Job was deleted under it.
UnstableOnlyAfterDelete ==
    (\E p \in Procs : At(p, "unstable")) => deleted # {}

\* The lock a call is waiting for, if it is at a locking statement.
Wanted(p) ==
    CASE At(p, "raw_lock")    -> {RawRowLock(ctx[p].raw)}
      [] At(p, "key_lock")    -> {advisory_lock_key(MyKey(p))}
      [] At(p, "signal_lock") -> {SignalLock(MyCols(p))}
      [] ctx[p].pc \in {"parent_lock", "candidate_lock"} -> {JobRowLock(ctx[p].job)}
      [] OTHER -> {}

\* Transactions never wait for one another in a circle: raw row, natural key,
\* signal, Job row is one order for all of them.
NoWaitCycle ==
    ~ \E S \in (SUBSET Procs) \ {{}} : \A p \in S : \E q \in S \ {p} :
        Wanted(p) \cap held[q] # {}

-----------------------------------------------------------------------------
(***************************************************************************)
(* What a step may never do.                                               *)
(***************************************************************************)

\* An occurrence is never moved to another Job and its evidence and first
\* sighting are frozen.
OccurrencesAdvance ==
    \A o \in Stored : occurrence'[o] # None =>
      /\ occurrence'[o].job = occurrence[o].job
      /\ occurrence'[o].columns = occurrence[o].columns
      /\ occurrence'[o].first_seen_at = occurrence[o].first_seen_at
      /\ occurrence'[o].last_seen_at >= occurrence[o].last_seen_at

JobsAdvance ==
    \A j \in Raws : job[j] # None /\ job'[j] # None =>
      /\ job'[j].first_seen_at = job[j].first_seen_at
      /\ job'[j].last_seen_at >= job[j].last_seen_at

\* Re-sightings only ever advance last_seen_at, of an occurrence and of its Job,
\* in whatever order the calls that saw a posting commit.
ObservationsOnlyAdvance == [][OccurrencesAdvance /\ JobsAdvance]_vars

SettledStays ==
    \A r \in Raws : raw[r] # None /\ raw[r].status # "fetched" =>
      /\ raw'[r].status = raw[r].status
      /\ raw'[r].posting = raw[r].posting
      /\ raw'[r].occurrence \in {raw[r].occurrence, None}

\* A raw row is settled once, also when two calls process it: afterwards only its
\* link may become NULL.
RawSettledOnce == [][SettledStays]_vars

\* Every transaction takes effect in one step of the abstract ledger.
Ledger == INSTANCE IdentityLedger WITH
    home     <- [o \in Raws |-> IF occurrence[o] = None THEN None ELSE occurrence[o].job],
    evidence <- [o \in Raws |-> IF occurrence[o] = None THEN None ELSE occurrence[o].columns]

ImplementsLedger == Ledger!Spec

-----------------------------------------------------------------------------
(***************************************************************************)
(* Liveness, and a statement of the source that does not hold.             *)
(***************************************************************************)

\* Every call of persist_posting ends, however calls contend for locks.
EveryCallEnds == \A p \in Procs : ~At(p, "idle") ~> At(p, "idle")

\* The tier's advisory lock makes the evidence of an ambiguity stable: when the
\* new Job is written, the recorded candidates are still all the candidates.
AmbiguityEvidenceStable ==
    \A p \in Procs : At(p, "write") /\ ctx[p].kind = "AMBIGUOUS" =>
      ctx[p].candidates = Candidates(MyCols(p))
=============================================================================
