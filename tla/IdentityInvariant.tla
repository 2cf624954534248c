-------------------------- MODULE IdentityInvariant --------------------------
(***************************************************************************)
(* The inductive invariant of IdentityResolution: what a call in state c   *)
(* that holds the locks h knows, and keeps knowing while others run, at    *)
(* each point of persist_posting.                                          *)
(***************************************************************************)
EXTENDS IdentityResolution

\* From the raw row's validation on, the call owns the row.
Validated == PC \ {"idle", "raw_lock", "invalid"}

\* From the Tier-1 probe on, it holds the natural key's lock.
Keyed == Validated \ {"key_lock"}

\* The call is past a Tier-1 probe that found nothing.
Unmatched(c) ==
    \/ c.pc \in {"signal_lock", "discover", "candidate_lock", "recheck", "discover_all"}
    \/ c.pc = "write" /\ c.kind \in {"INSERTED", "ATTACHED", "AMBIGUOUS"}

\* It has locked the Job it will update.
OnLockedJob(c) ==
    \/ c.pc \in {"load", "recheck"}
    \/ c.pc = "write" /\ c.kind \in {"UPDATED", "QUARANTINED", "ATTACHED"}

\* A call in progress has a raw row with a natural key,
HasRaw(c) ==
    c.pc # "idle" => c.raw \in Raws /\ raw[c.raw] # None /\ Key(c.raw) # None

\* which no other call can settle,
OwnsRaw(c, h) ==
    c.pc \in Validated => /\ RawRowLock(c.raw) \in h
                          /\ raw[c.raw].status = "fetched"

\* and whose natural key no other call can add to the tables
OwnsKey(c, h) == c.pc \in Keyed => advisory_lock_key(Key(c.raw)) \in h

\* once the probe has not found it there.
KeyAbsent(c) == Unmatched(c) => Matching(Key(c.raw)) = {}

\* The Job it is about to update cannot be deleted, nor seen by another call;
OwnsJob(c, h) ==
    /\ c.pc \in {"parent_lock", "candidate_lock"} => c.job \in Raws
    /\ OnLockedJob(c) => /\ c.job \in Raws
                         /\ JobRowLock(c.job) \in h
                         /\ job[c.job] # None
                         /\ job[c.job].last_seen_at = c.job_last

\* nor can the occurrence that Tier 1 found, which is still that Job's.
OwnsOccurrence(c) ==
    c.pc = "write" /\ c.kind \in {"UPDATED", "QUARANTINED"} =>
      /\ c.occurrence \in Stored
      /\ occurrence[c.occurrence].job = c.job
      /\ occurrence[c.occurrence].last_seen_at = c.occ_last

\* From discovery on, a Tier-2 call holds its URL's lock:
OwnsUrl(c, h) ==
    Unmatched(c) /\ c.pc # "signal_lock" /\ UsesTier2(Cols(c.raw)) =>
      SignalLock(Cols(c.raw)) \in h

\* it never sees several Jobs, and the URL's Job stays what it has decided on.
UrlDecided(c) ==
    Unmatched(c) /\ UsesTier2(Cols(c.raw)) =>
      /\ c.pc # "discover_all"
      /\ c.pc = "write" =>
           /\ c.kind # "AMBIGUOUS"
           /\ c.kind = "INSERTED" => Candidates(Cols(c.raw)) = {}
           /\ c.kind = "ATTACHED" => Candidates(Cols(c.raw)) \subseteq {c.job}

CallInv(c, h) ==
    /\ HasRaw(c)
    /\ OwnsRaw(c, h)
    /\ OwnsKey(c, h)
    /\ KeyAbsent(c)
    /\ OwnsJob(c, h)
    /\ OwnsOccurrence(c)
    /\ OwnsUrl(c, h)
    /\ UrlDecided(c)

\* Two transactions never hold the same lock.
LocksExclusive ==
    \A p, q \in Procs : p # q => held[p] \cap held[q] = {}

\* A Job and an occurrence are named by a raw row that was settled,
StoredIsSettled ==
    \A r \in Raws : r \in Stored \/ job[r] # None =>
      raw[r] # None /\ raw[r].status \in {"normalized", "identity_conflict"}

\* and the occurrence has a natural key.
StoredHasKey ==
    \A o \in Stored : resolve_natural_key(occurrence[o].columns) # None

\* What the calls keep true of the tables.
TablesInv == StoredIsSettled /\ StoredHasKey /\ NaturalKeyUnique /\ CanonicalUrlOneJob

IInv == /\ TypeOK
        /\ TablesInv
        /\ LocksExclusive
        /\ \A p \in Procs : CallInv(ctx[p], held[p])
=============================================================================
