----------------------- MODULE IdentityResolutionProofs -----------------------
(***************************************************************************)
(* Proofs about IdentityResolution, for any number of tasks, rows,         *)
(* postings and deletions: the invariant of IdentityInvariant is           *)
(* inductive, and what the runs check follows, liveness apart.             *)
(***************************************************************************)
EXTENDS IdentityInvariant, SequenceTheorems, FiniteSetTheorems, TLAPS

-----------------------------------------------------------------------------
(***************************************************************************)
(* Lemmas about the pure identity helpers.                                 *)
(***************************************************************************)

\* The columns of a posting are the columns of a row.
LEMMA ColumnsType ==
    ASSUME NEW d \in DiscoveredJob
    PROVE  Columns(d) \in IdentityColumns
<1>1. \A v \in TextOrNone : canonicalize_nullable_text(v) \in TextOrNone
  BY TextAssumption DEF canonicalize_nullable_text, TextOrNone
<1>2. \A v \in UrlOrNone : normalize_url(v) \in UrlOrNone
  BY TextAssumption DEF normalize_url, UrlOrNone
<1> QED
  BY <1>1, <1>2 DEF Columns, DiscoveredJob, IdentityColumns, TextOrNone, UrlOrNone

\* The three forms a natural key can have.
LEMMA KeyForms ==
    ASSUME NEW c \in IdentityColumns, resolve_natural_key(c) # None
    PROVE  \/ /\ c.source_job_id # None /\ c.source_tenant_id # None
              /\ resolve_natural_key(c) =
                   [domain |-> "TENANT", provider |-> c.provider, source |-> c.source,
                    tenant_id |-> c.source_tenant_id, job_id |-> c.source_job_id,
                    url_normalized |-> c.source_url_normalized]
           \/ /\ c.source_job_id # None /\ c.source_tenant_id = None
              /\ resolve_natural_key(c) =
                   [domain |-> "NO_TENANT", provider |-> c.provider, source |-> c.source,
                    tenant_id |-> None, job_id |-> c.source_job_id,
                    url_normalized |-> c.source_url_normalized]
           \/ /\ c.source_job_id = None /\ c.source_url_normalized # None
              /\ resolve_natural_key(c) =
                   [domain |-> "URL", provider |-> c.provider, source |-> c.source,
                    tenant_id |-> None, job_id |-> None,
                    url_normalized |-> c.source_url_normalized]
  BY DEF resolve_natural_key

\* If the Tier-1 lookup of one row's key finds another row, the two rows' keys
\* have one advisory lock, and the lookup works the other way round too.
LEMMA MatchSharesLock ==
    ASSUME NEW c \in IdentityColumns, NEW d \in IdentityColumns,
           resolve_natural_key(c) # None, resolve_natural_key(d) # None,
           existing_occurrence_conditions(resolve_natural_key(c), d)
    PROVE  /\ advisory_lock_key(resolve_natural_key(c)) =
                advisory_lock_key(resolve_natural_key(d))
           /\ existing_occurrence_conditions(resolve_natural_key(d), c)
  BY KeyForms DEF existing_occurrence_conditions, advisory_lock_key, Lock

\* Every lock a transaction asks for is a lock.
LEMMA LockTypes ==
    /\ \A r \in Raws : RawRowLock(r) \in Locks /\ JobRowLock(r) \in Locks
    /\ \A c \in IdentityColumns : resolve_natural_key(c) # None =>
         advisory_lock_key(resolve_natural_key(c)) \in Locks
    /\ \A c \in IdentityColumns : SignalLock(c) \in Locks
<1>1. \A r \in Raws : RawRowLock(r) \in Locks /\ JobRowLock(r) \in Locks
  BY DEF RawRowLock, JobRowLock, Lock, Locks, TextOrNone, UrlOrNone
<1>2. ASSUME NEW c \in IdentityColumns, resolve_natural_key(c) # None
      PROVE  advisory_lock_key(resolve_natural_key(c)) \in Locks
  BY <1>2, KeyForms DEF advisory_lock_key, Lock, Locks, IdentityColumns, TextOrNone, UrlOrNone
<1>3. ASSUME NEW c \in IdentityColumns
      PROVE  SignalLock(c) \in Locks
  BY DEF SignalLock, canonical_url_advisory_lock_key, tenant_requisition_advisory_lock_key,
     Lock, Locks, IdentityColumns, TextOrNone, UrlOrNone
<1> QED
  BY <1>1, <1>2, <1>3

\* Row locks tell rows apart.
LEMMA RowLocksInjective ==
    ASSUME NEW r, NEW s
    PROVE  /\ RawRowLock(r) = RawRowLock(s) => r = s
           /\ JobRowLock(r) = JobRowLock(s) => r = s
  BY DEF RawRowLock, JobRowLock, Lock

-----------------------------------------------------------------------------
(***************************************************************************)
(* Typing.                                                                 *)
(***************************************************************************)

\* Rows of the tables have the columns their types say.
LEMMA RowTypes ==
    ASSUME TypeOK
    PROVE  /\ \A r \in Raws : raw[r] # None =>
                raw[r] \in RawRow /\ Cols(r) \in IdentityColumns
           /\ \A j \in Raws : job[j] # None => job[j] \in JobRow
           /\ \A o \in Stored : /\ occurrence[o] \in OccurrenceRow
                                /\ occurrence[o].job \in Raws
                                /\ occurrence[o].columns \in IdentityColumns
<1>1. \A r \in Raws : raw[r] # None => raw[r] \in RawRow
  BY DEF TypeOK
<1>2. \A r \in Raws : raw[r] # None => Cols(r) \in IdentityColumns
  BY <1>1, ColumnsType, ResolutionAssumption DEF Cols, RawRow
<1>3. \A o \in Stored : occurrence[o] \in OccurrenceRow
  BY DEF TypeOK, Stored
<1> QED
  BY <1>1, <1>2, <1>3 DEF TypeOK, OccurrenceRow

-----------------------------------------------------------------------------
(***************************************************************************)
(* Steps of a call that take a lock or read, and change no table.          *)
(***************************************************************************)

\* Call p goes to state c and holds the locks h, none of them another's.
LocalStep(p, c, h) ==
    /\ Become(p, c)
    /\ held' = [held EXCEPT ![p] = h]
    /\ \A q \in Procs \ {p} : h \cap held[q] = {}

\* Changing the label of a call's state.
LEMMA Relabel ==
    ASSUME NEW c \in Context, NEW label \in PC
    PROVE  LET d == [c EXCEPT !.pc = label]
           IN  /\ d \in Context
               /\ d.pc = label
               /\ d.raw = c.raw
               /\ d.job = c.job
               /\ d.kind = c.kind
               /\ d.occurrence = c.occurrence
  BY DEF Context

\* What a call that took one more lock may now hold.
LEMMA AcquireIsLocal ==
    ASSUME TypeOK, LocksExclusive, NEW p \in Procs, NEW l, NEW c, CanLock(p, l),
           held' = [held EXCEPT ![p] = @ \cup {l}], Become(p, c)
    PROVE  LocalStep(p, c, held[p] \cup {l})
  BY DEF TypeOK, LocksExclusive, CanLock, LocalStep

LEMMA ReadIsLocal ==
    ASSUME TypeOK, LocksExclusive, NEW p \in Procs, NEW c, UNCHANGED held, Become(p, c)
    PROVE  LocalStep(p, c, held[p])
  BY DEF TypeOK, LocksExclusive, LocalStep

\* A local step into a state whose knowledge is justified keeps the invariant.
LEMMA LocalPreserves ==
    ASSUME IInv, NEW p \in Procs, NEW c \in Context, NEW h \in SUBSET Locks,
           LocalStep(p, c, h), CallInv(c, h), UNCHANGED tables
    PROVE  IInv'
<1>1. ctx \in [Procs -> Context] /\ held \in [Procs -> SUBSET Locks]
  BY DEF IInv, TypeOK
<1>2. ctx' \in [Procs -> Context] /\ held' \in [Procs -> SUBSET Locks]
  BY <1>1 DEF LocalStep, Become
<1>3. /\ ctx'[p] = c /\ held'[p] = h
      /\ \A q \in Procs \ {p} : ctx'[q] = ctx[q] /\ held'[q] = held[q]
  BY <1>1 DEF LocalStep, Become
<1>4. TypeOK'
  BY <1>2 DEF IInv, TypeOK, tables
<1>5. TablesInv'
  BY DEF IInv, TablesInv, tables, StoredIsSettled, StoredHasKey, NaturalKeyUnique,
     CanonicalUrlOneJob, Stored
<1>6. LocksExclusive'
  BY <1>3 DEF IInv, LocksExclusive, LocalStep
<1>7. ASSUME NEW q \in Procs
      PROVE  CallInv(ctx[q], held[q])'
  <2>1. PICK d \in Context, g \in SUBSET Locks :
           CallInv(d, g) /\ ctx'[q] = d /\ held'[q] = g
    <3>1. CASE q = p
      BY <1>3, <3>1
    <3>2. CASE q # p
      BY <1>1, <1>3, <3>2 DEF IInv
    <3> QED
      BY <3>1, <3>2
  <2>2. HasRaw(ctx[q])' /\ OwnsRaw(ctx[q], held[q])' /\ OwnsKey(ctx[q], held[q])'
    BY <2>1 DEF CallInv, HasRaw, OwnsRaw, OwnsKey, tables, Key, Cols
  <2>3. KeyAbsent(ctx[q])'
    BY <2>1 DEF CallInv, KeyAbsent, tables, Key, Cols, Matching, Stored, Unmatched
  <2>4. OwnsJob(ctx[q], held[q])'
    BY <2>1 DEF CallInv, OwnsJob, tables, OnLockedJob
  <2>5. OwnsOccurrence(ctx[q])'
    BY <2>1 DEF CallInv, OwnsOccurrence, tables, Stored
  <2>6. OwnsUrl(ctx[q], held[q])'
    BY <2>1 DEF CallInv, OwnsUrl, tables, Cols, Unmatched
  <2>7. UrlDecided(ctx[q])'
    BY <2>1 DEF CallInv, UrlDecided, tables, Cols, Candidates, Stored, Unmatched
  <2> QED
    BY <2>2, <2>3, <2>4, <2>5, <2>6, <2>7 DEF CallInv
<1> QED
  BY <1>4, <1>5, <1>6, <1>7 DEF IInv

\* What the invariant says of one call, and of the locks it may ask for.
LEMMA CallFacts ==
    ASSUME IInv, NEW p \in Procs
    PROVE  /\ ctx[p] \in Context
           /\ held[p] \in SUBSET Locks
           /\ CallInv(ctx[p], held[p])
           /\ ctx[p].pc # "idle" => /\ Cols(ctx[p].raw) \in IdentityColumns
                                    /\ RawRowLock(ctx[p].raw) \in Locks
                                    /\ advisory_lock_key(Key(ctx[p].raw)) \in Locks
                                    /\ SignalLock(Cols(ctx[p].raw)) \in Locks
<1>1. ctx[p] \in Context /\ held[p] \in SUBSET Locks /\ CallInv(ctx[p], held[p])
  BY DEF IInv, TypeOK
<1>2. ASSUME ctx[p].pc # "idle"
      PROVE  /\ ctx[p].raw \in Raws
             /\ Cols(ctx[p].raw) \in IdentityColumns
             /\ Key(ctx[p].raw) # None
  BY <1>1, <1>2, RowTypes DEF CallInv, HasRaw, IInv
<1> QED
  BY <1>1, <1>2, LockTypes DEF Key

\* The raw row of a call is locked and validated.
LEMMA LockRawStep ==
    ASSUME IInv, NEW p \in Procs, LockRaw(p)
    PROVE  IInv'
<1> DEFINE r == ctx[p].raw
           label == IF raw[r].status = "fetched" /\ raw[r].occurrence = None
                    THEN "key_lock" ELSE "invalid"
           c == [ctx[p] EXCEPT !.pc = label]
           h == held[p] \cup {RawRowLock(r)}
<1>1. ctx[p].pc = "raw_lock"
  BY DEF LockRaw, At
<1>2. label \in PC
  BY DEF PC
<1>3. c \in Context /\ c.pc = label /\ c.raw = r
  BY <1>2, CallFacts, Relabel, ZenonT(30)
<1>4. h \in SUBSET Locks
  BY <1>1, CallFacts
<1>5. LocalStep(p, c, h) /\ UNCHANGED tables
  BY AcquireIsLocal DEF LockRaw, Acquire, Goto, IInv
<1>6. CallInv(c, h)
  <2> HIDE DEF c
  <2>1. CallInv(ctx[p], held[p])
    BY CallFacts
  <2> QED
    BY <1>1, <1>3, <2>1 DEF CallInv, HasRaw, OwnsRaw, OwnsKey, KeyAbsent, OwnsJob,
       OwnsOccurrence, OwnsUrl, UrlDecided, Validated, Keyed, Unmatched, OnLockedJob
<1> QED
  BY <1>3, <1>4, <1>5, <1>6, LocalPreserves

\* The natural key's advisory lock is taken.
LEMMA LockKeyStep ==
    ASSUME IInv, NEW p \in Procs, LockKey(p)
    PROVE  IInv'
<1> DEFINE c == [ctx[p] EXCEPT !.pc = "probe"]
           h == held[p] \cup {advisory_lock_key(MyKey(p))}
<1>1. ctx[p].pc = "key_lock"
  BY DEF LockKey, At
<1>2. c \in Context /\ c.pc = "probe" /\ c.raw = ctx[p].raw
  <2>1. ctx[p] \in Context
    BY CallFacts
  <2> QED
    BY <2>1, Relabel, ZenonT(30) DEF PC
<1>3. h \in SUBSET Locks
  BY <1>1, CallFacts DEF MyKey
<1>4. LocalStep(p, c, h) /\ UNCHANGED tables
  BY AcquireIsLocal DEF LockKey, Acquire, Goto, IInv
<1>5. CallInv(c, h)
  <2> HIDE DEF c
  <2>1. CallInv(ctx[p], held[p])
    BY CallFacts
  <2> QED
    BY <1>1, <1>2, <2>1 DEF CallInv, HasRaw, OwnsRaw, OwnsKey, KeyAbsent, OwnsJob,
       OwnsOccurrence, OwnsUrl, UrlDecided, Validated, Keyed, Unmatched, OnLockedJob, PC, MyKey
<1> QED
  BY <1>2, <1>3, <1>4, <1>5, LocalPreserves

\* The lock of the tier's signal is taken.
LEMMA LockSignalStep ==
    ASSUME IInv, NEW p \in Procs, LockSignal(p)
    PROVE  IInv'
<1> DEFINE c == [ctx[p] EXCEPT !.pc = "discover"]
           h == held[p] \cup {SignalLock(MyCols(p))}
<1>1. ctx[p].pc = "signal_lock"
  BY DEF LockSignal, At
<1>2. c \in Context /\ c.pc = "discover" /\ c.raw = ctx[p].raw
  <2>1. ctx[p] \in Context
    BY CallFacts
  <2> QED
    BY <2>1, Relabel, ZenonT(30) DEF PC
<1>3. h \in SUBSET Locks
  BY <1>1, CallFacts DEF MyCols
<1>4. LocalStep(p, c, h) /\ UNCHANGED tables
  BY AcquireIsLocal DEF LockSignal, Acquire, Goto, IInv
<1>5. CallInv(c, h)
  <2> HIDE DEF c
  <2>1. CallInv(ctx[p], held[p])
    BY CallFacts
  <2> QED
    BY <1>1, <1>2, <2>1 DEF CallInv, HasRaw, OwnsRaw, OwnsKey, KeyAbsent, OwnsJob,
       OwnsOccurrence, OwnsUrl, UrlDecided, Validated, Keyed, Unmatched, OnLockedJob, PC, MyCols
<1> QED
  BY <1>2, <1>3, <1>4, <1>5, LocalPreserves

\* A call that gives up, or ends without writing, may go anywhere harmless.
LEMMA UnstableStep ==
    ASSUME IInv, NEW p \in Procs, ctx[p].pc \in Keyed, Goto(p, "unstable"),
           UNCHANGED <<tables, held>>
    PROVE  IInv'
<1> DEFINE c == [ctx[p] EXCEPT !.pc = "unstable"]
<1>1. c \in Context /\ c.pc = "unstable" /\ c.raw = ctx[p].raw
  <2>1. ctx[p] \in Context
    BY CallFacts
  <2> QED
    BY <2>1, Relabel, ZenonT(30) DEF PC
<1>2. LocalStep(p, c, held[p])
  BY ReadIsLocal DEF Goto, IInv
<1>3. CallInv(c, held[p])
  <2> HIDE DEF c
  <2>1. CallInv(ctx[p], held[p])
    BY CallFacts
  <2> QED
    BY <1>1, <2>1 DEF CallInv, HasRaw, OwnsRaw, OwnsKey, KeyAbsent, OwnsJob,
       OwnsOccurrence, OwnsUrl, UrlDecided, Validated, Keyed, Unmatched, OnLockedJob, PC
<1> QED
  BY <1>1, <1>2, <1>3, CallFacts, LocalPreserves

\* A Job's row is locked, or found to be gone.
LEMMA LockJobStep ==
    ASSUME IInv, NEW p \in Procs, NEW next,
           \/ ctx[p].pc = "parent_lock" /\ next = "load"
           \/ ctx[p].pc = "candidate_lock" /\ next = "recheck",
           LockJob(p, next)
    PROVE  IInv'
<1> DEFINE j == ctx[p].job
           c == [ctx[p] EXCEPT !.pc = next, !.job_last = job[j].last_seen_at]
           h == held[p] \cup {JobRowLock(j)}
<1>1. CASE job[j] = None
  <2>1. ctx[p].pc \in Keyed
    BY DEF Keyed, Validated, PC
  <2>2. Goto(p, "unstable") /\ UNCHANGED <<tables, held>>
    BY <1>1 DEF LockJob
  <2> QED
    BY <2>1, <2>2, UnstableStep
<1>2. CASE job[j] # None
  <2>1. j \in Raws
    BY CallFacts DEF CallInv, OwnsJob
  <2>2. job[j].last_seen_at \in Nat
    BY <1>2, <2>1, RowTypes DEF JobRow, IInv
  <2>3. /\ c \in Context
        /\ c.pc = next /\ c.raw = ctx[p].raw /\ c.job = j /\ c.job_last = job[j].last_seen_at
    BY <2>2, CallFacts DEF Context, PC
  <2>4. h \in SUBSET Locks
    BY <2>1, CallFacts, LockTypes
  <2>5. LocalStep(p, c, h) /\ UNCHANGED tables
    BY <1>2, AcquireIsLocal DEF LockJob, IInv
  <2>6. CallInv(c, h)
    <3> HIDE DEF c
    <3>1. CallInv(ctx[p], held[p])
      BY CallFacts
    <3> QED
      BY <1>2, <2>1, <2>3, <3>1 DEF CallInv, HasRaw, OwnsRaw, OwnsKey, KeyAbsent, OwnsJob,
         OwnsOccurrence, OwnsUrl, UrlDecided, Validated, Keyed, Unmatched, OnLockedJob, PC
  <2> QED
    BY <2>3, <2>4, <2>5, <2>6, LocalPreserves
<1> QED
  BY <1>1, <1>2

\* A read that takes call p to a state its locks and the tables justify.
LEMMA ReadPreserves ==
    ASSUME IInv, NEW p \in Procs, NEW c \in Context, Become(p, c),
           UNCHANGED <<tables, held>>, CallInv(c, held[p])
    PROVE  IInv'
<1>1. LocalStep(p, c, held[p])
  BY ReadIsLocal DEF IInv
<1> QED
  BY <1>1, CallFacts, LocalPreserves

\* A canonical URL never has several candidates.
LEMMA UrlHasOneCandidate ==
    ASSUME CanonicalUrlOneJob, NEW c, UsesTier2(c)
    PROVE  ~Several(Candidates(c))
  BY DEF CanonicalUrlOneJob, Several, Candidates, MatchesSignal, UsesTier2

\* Tier 1's probe, and the tier that follows.
LEMMA ProbeStep ==
    ASSUME IInv, NEW p \in Procs, Probe(p)
    PROVE  IInv'
<1> DEFINE found == Matching(MyKey(p))
<1>1. ctx[p].pc = "probe" /\ UNCHANGED <<tables, held>>
  BY DEF Probe, At
<1>2. ctx[p] \in Context /\ CallInv(ctx[p], held[p])
  BY CallFacts
<1> USE DEF CallInv, HasRaw, OwnsRaw, OwnsKey, KeyAbsent, OwnsJob, OwnsOccurrence, OwnsUrl,
      UrlDecided, Validated, Keyed, Unmatched, OnLockedJob, PC, MyKey, MyCols
<1>3. CASE found # {}
  <2>1. PICK o \in found :
          Become(p, [ctx[p] EXCEPT !.pc = "parent_lock", !.occurrence = o,
                                   !.job = occurrence[o].job])
    BY <1>3 DEF Probe
  <2> DEFINE c == [ctx[p] EXCEPT !.pc = "parent_lock", !.occurrence = o,
                                 !.job = occurrence[o].job]
  <2>2. o \in Raws /\ occurrence[o].job \in Raws
    BY RowTypes DEF Matching, Stored, IInv
  <2>3. c \in Context /\ c.pc = "parent_lock" /\ c.raw = ctx[p].raw /\ c.job \in Raws
    BY <1>2, <2>2 DEF Context
  <2>4. CallInv(c, held[p])
    <3> HIDE DEF c
    <3> QED
      BY <1>1, <1>2, <2>3
  <2> QED
    BY <1>1, <2>1, <2>3, <2>4, ReadPreserves
<1>4. CASE found = {} /\ Goto(p, "signal_lock")
  <2> DEFINE c == [ctx[p] EXCEPT !.pc = "signal_lock"]
  <2>1. c \in Context /\ c.pc = "signal_lock" /\ c.raw = ctx[p].raw
    BY <1>2, Relabel, ZenonT(30)
  <2>2. CallInv(c, held[p])
    <3> HIDE DEF c
    <3> QED
      BY <1>1, <1>2, <1>4, <2>1
  <2> QED
    BY <1>1, <1>4, <2>1, <2>2, ReadPreserves DEF Goto
<1>5. CASE /\ found = {}
           /\ ~UsesTier2(MyCols(p))
           /\ Become(p, [ctx[p] EXCEPT !.pc = "write", !.kind = "INSERTED"])
  <2> DEFINE c == [ctx[p] EXCEPT !.pc = "write", !.kind = "INSERTED"]
  <2>1. /\ c \in Context
        /\ c.pc = "write" /\ c.kind = "INSERTED" /\ c.raw = ctx[p].raw
    BY <1>2 DEF Context, UpsertKind
  <2>2. CallInv(c, held[p])
    <3> HIDE DEF c
    <3> QED
      BY <1>1, <1>2, <1>5, <2>1
  <2> QED
    BY <1>1, <1>5, <2>1, <2>2, ReadPreserves
<1> QED
  BY <1>3, <1>4, <1>5 DEF Probe

\* The occurrence is loaded under its Job's lock.
LEMMA LoadOccurrenceStep ==
    ASSUME IInv, NEW p \in Procs, LoadOccurrence(p)
    PROVE  IInv'
<1>1. ctx[p].pc = "load" /\ UNCHANGED <<tables, held>>
  BY DEF LoadOccurrence, At
<1>2. ctx[p] \in Context /\ CallInv(ctx[p], held[p])
  BY CallFacts
<1> DEFINE o == ctx[p].occurrence
           mine == MyCols(p).canonical_url_normalized
           stored == occurrence[o].columns.canonical_url_normalized
           kind == IF None \notin {stored, mine} /\ stored # mine
                   THEN "QUARANTINED" ELSE "UPDATED"
           c == [ctx[p] EXCEPT !.pc = "write", !.occ_last = occurrence[o].last_seen_at,
                               !.kind = kind]
<1>3. CASE ~(o \in Matching(MyKey(p)) /\ occurrence[o].job = ctx[p].job)
  <2>1. ctx[p].pc \in Keyed
    BY <1>1 DEF Keyed, Validated, PC
  <2> QED
    BY <1>1, <1>3, <2>1, UnstableStep DEF LoadOccurrence
<1>4. CASE o \in Matching(MyKey(p)) /\ occurrence[o].job = ctx[p].job
  <2>1. Become(p, c)
    BY <1>4 DEF LoadOccurrence
  <2>2. o \in Stored /\ occurrence[o].last_seen_at \in Nat
    BY <1>4, RowTypes DEF Matching, OccurrenceRow, IInv
  <2> HIDE DEF kind
  <2>3. kind \in {"UPDATED", "QUARANTINED"}
    BY DEF kind
  <2>4. /\ c \in Context
        /\ c.pc = "write" /\ c.kind = kind
        /\ c.raw = ctx[p].raw /\ c.job = ctx[p].job /\ c.job_last = ctx[p].job_last
        /\ c.occurrence = o /\ c.occ_last = occurrence[o].last_seen_at
    BY <1>2, <2>2, <2>3 DEF Context, PC, UpsertKind
  <2>5. CallInv(c, held[p])
    <3> HIDE DEF c
    <3> QED
      BY <1>1, <1>2, <1>4, <2>2, <2>3, <2>4
      DEF CallInv, HasRaw, OwnsRaw, OwnsKey, KeyAbsent, OwnsJob, OwnsOccurrence, OwnsUrl,
          UrlDecided, Validated, Keyed, Unmatched, OnLockedJob, PC
  <2> QED
    BY <1>1, <2>1, <2>4, <2>5, ReadPreserves
<1> QED
  BY <1>3, <1>4

\* The candidates are counted.
LEMMA DiscoverStep ==
    ASSUME IInv, NEW p \in Procs, Discover(p)
    PROVE  IInv'
<1> DEFINE found == Candidates(MyCols(p))
<1>1. ctx[p].pc = "discover" /\ UNCHANGED <<tables, held>>
  BY DEF Discover, At
<1>2. ctx[p] \in Context /\ CallInv(ctx[p], held[p])
  BY CallFacts
<1> USE DEF CallInv, HasRaw, OwnsRaw, OwnsKey, KeyAbsent, OwnsJob, OwnsOccurrence, OwnsUrl,
      UrlDecided, Validated, Keyed, Unmatched, OnLockedJob, PC, MyKey, MyCols
<1>3. CASE found = {} /\ Become(p, [ctx[p] EXCEPT !.pc = "write", !.kind = "INSERTED"])
  <2> DEFINE c == [ctx[p] EXCEPT !.pc = "write", !.kind = "INSERTED"]
  <2>1. /\ c \in Context
        /\ c.pc = "write" /\ c.kind = "INSERTED" /\ c.raw = ctx[p].raw
    BY <1>2 DEF Context, UpsertKind
  <2>2. CallInv(c, held[p])
    <3> HIDE DEF c
    <3> QED
      BY <1>1, <1>2, <1>3, <2>1
  <2> QED
    BY <1>1, <1>3, <2>1, <2>2, ReadPreserves
<1>4. CASE Several(found) /\ Goto(p, "discover_all")
  <2> DEFINE c == [ctx[p] EXCEPT !.pc = "discover_all"]
  <2>1. c \in Context /\ c.pc = "discover_all" /\ c.raw = ctx[p].raw
    BY <1>2, Relabel, ZenonT(30)
  <2>2. ~UsesTier2(MyCols(p))
    BY <1>4, UrlHasOneCandidate DEF IInv, TablesInv
  <2>3. CallInv(c, held[p])
    <3> HIDE DEF c
    <3> QED
      BY <1>1, <1>2, <2>1, <2>2
  <2> QED
    BY <1>1, <1>4, <2>1, <2>3, ReadPreserves DEF Goto
<1>5. ASSUME NEW j \in found,
             Become(p, [ctx[p] EXCEPT !.pc = "candidate_lock", !.job = j])
      PROVE  IInv'
  <2> DEFINE c == [ctx[p] EXCEPT !.pc = "candidate_lock", !.job = j]
  <2>1. j \in Raws
    BY RowTypes DEF Candidates, IInv
  <2>2. c \in Context /\ c.pc = "candidate_lock" /\ c.raw = ctx[p].raw /\ c.job = j
    BY <1>2, <2>1 DEF Context
  <2>3. CallInv(c, held[p])
    <3> HIDE DEF c
    <3> QED
      BY <1>1, <1>2, <2>1, <2>2
  <2> QED
    BY <1>1, <1>5, <2>2, <2>3, ReadPreserves
<1> QED
  BY <1>3, <1>4, <1>5 DEF Discover

\* The candidates are counted again under the candidate's lock.
LEMMA RecheckStep ==
    ASSUME IInv, NEW p \in Procs, Recheck(p)
    PROVE  IInv'
<1> DEFINE found == Candidates(MyCols(p))
<1>1. ctx[p].pc = "recheck" /\ UNCHANGED <<tables, held>>
  BY DEF Recheck, At
<1>2. ctx[p] \in Context /\ CallInv(ctx[p], held[p])
  BY CallFacts
<1> USE DEF CallInv, HasRaw, OwnsRaw, OwnsKey, KeyAbsent, OwnsJob, OwnsOccurrence, OwnsUrl,
      UrlDecided, Validated, Keyed, Unmatched, OnLockedJob, PC, MyKey, MyCols
<1>3. CASE Several(found) /\ Goto(p, "discover_all")
  <2> DEFINE c == [ctx[p] EXCEPT !.pc = "discover_all"]
  <2>1. c \in Context /\ c.pc = "discover_all" /\ c.raw = ctx[p].raw
    BY <1>2, Relabel, ZenonT(30)
  <2>2. ~UsesTier2(MyCols(p))
    BY <1>3, UrlHasOneCandidate DEF IInv, TablesInv
  <2>3. CallInv(c, held[p])
    <3> HIDE DEF c
    <3> QED
      BY <1>1, <1>2, <2>1, <2>2
  <2> QED
    BY <1>1, <1>3, <2>1, <2>3, ReadPreserves DEF Goto
<1>4. CASE found = {ctx[p].job} /\ Become(p, [ctx[p] EXCEPT !.pc = "write", !.kind = "ATTACHED"])
  <2> DEFINE c == [ctx[p] EXCEPT !.pc = "write", !.kind = "ATTACHED"]
  <2>1. /\ c \in Context
        /\ c.pc = "write" /\ c.kind = "ATTACHED" /\ c.raw = ctx[p].raw
        /\ c.job = ctx[p].job /\ c.job_last = ctx[p].job_last
    BY <1>2 DEF Context, UpsertKind
  <2>2. CallInv(c, held[p])
    <3> HIDE DEF c
    <3> QED
      BY <1>1, <1>2, <1>4, <2>1
  <2> QED
    BY <1>1, <1>4, <2>1, <2>2, ReadPreserves
<1>5. CASE Goto(p, "unstable")
  BY <1>1, <1>5, UnstableStep
<1> QED
  BY <1>3, <1>4, <1>5 DEF Recheck

\* All candidates are recorded.
LEMMA DiscoverAllStep ==
    ASSUME IInv, NEW p \in Procs, DiscoverAll(p)
    PROVE  IInv'
<1> DEFINE found == Candidates(MyCols(p))
           c == [ctx[p] EXCEPT !.pc = "write", !.kind = "AMBIGUOUS", !.candidates = found]
<1>1. ctx[p].pc = "discover_all" /\ UNCHANGED <<tables, held>>
  BY DEF DiscoverAll, At
<1>2. ctx[p] \in Context /\ CallInv(ctx[p], held[p])
  BY CallFacts
<1> USE DEF CallInv, HasRaw, OwnsRaw, OwnsKey, KeyAbsent, OwnsJob, OwnsOccurrence, OwnsUrl,
      UrlDecided, Validated, Keyed, Unmatched, OnLockedJob, PC, MyKey, MyCols
<1>3. CASE Become(p, c)
  <2>1. found \subseteq Raws
    BY RowTypes DEF Candidates, IInv
  <2>2. /\ c \in Context
        /\ c.pc = "write" /\ c.kind = "AMBIGUOUS" /\ c.raw = ctx[p].raw
    <3> HIDE DEF found
    <3> QED
      BY <1>2, <2>1 DEF Context, UpsertKind
  <2>3. CallInv(c, held[p])
    <3> HIDE DEF c
    <3> QED
      BY <1>1, <1>2, <2>2
  <2> QED
    BY <1>1, <1>3, <2>2, <2>3, ReadPreserves
<1>4. CASE Goto(p, "unstable")
  BY <1>1, <1>4, UnstableStep
<1> QED
  BY <1>3, <1>4 DEF DiscoverAll

\* A call starts, and a call rolls back.
LEMMA CallStep ==
    ASSUME IInv, NEW p \in Procs, NEW r \in Raws, NEW t \in Times, Call(p, r, t)
    PROVE  IInv'
<1> DEFINE c == [Idle EXCEPT !.pc = "raw_lock", !.raw = r, !.observed_at = t]
<1>1. /\ c \in Context
      /\ c.pc = "raw_lock" /\ c.raw = r
  BY ResolutionAssumption DEF Idle, Context, PC
<1>2. CallInv(c, held[p])
  <2> HIDE DEF c
  <2> QED
    BY <1>1 DEF Call, CallInv, HasRaw, OwnsRaw, OwnsKey, KeyAbsent, OwnsJob, OwnsOccurrence,
       OwnsUrl, UrlDecided, Validated, Keyed, Unmatched, OnLockedJob, PC
<1> QED
  BY <1>1, <1>2, ReadPreserves DEF Call

LEMMA IdleCall == Idle \in Context /\ \A h : CallInv(Idle, h)
  BY DEF Idle, Context, PC, CallInv, HasRaw, OwnsRaw, OwnsKey, KeyAbsent, OwnsJob,
     OwnsOccurrence, OwnsUrl, UrlDecided, Validated, Keyed, Unmatched, OnLockedJob

LEMMA RollbackStep ==
    ASSUME IInv, NEW p \in Procs, Rollback(p)
    PROVE  IInv'
<1>1. LocalStep(p, Idle, {}) /\ UNCHANGED tables
  BY DEF Rollback, End, LocalStep
<1> QED
  BY <1>1, IdleCall, LocalPreserves

-----------------------------------------------------------------------------
(***************************************************************************)
(* Steps that change the tables.                                           *)
(***************************************************************************)

\* What the tables' new version must respect for call q, which does not move,
\* to know what it knew.
Respects(q) ==
    /\ \A r \in Raws : raw[r] # None => raw'[r] # None /\ raw'[r].posting = raw[r].posting
    /\ ctx[q].pc \in Validated => raw'[ctx[q].raw].status = raw[ctx[q].raw].status
    /\ \A j \in Raws : JobRowLock(j) \in held[q] /\ job[j] # None => job'[j] = job[j]
    /\ \A o \in Stored : JobRowLock(occurrence[o].job) \in held[q] =>
         occurrence'[o] = occurrence[o]
    /\ Unmatched(ctx[q]) => \A o \in Raws : occurrence'[o] # None =>
         \/ /\ o \in Stored
            /\ occurrence'[o].job = occurrence[o].job
            /\ occurrence'[o].columns = occurrence[o].columns
         \/ /\ ~existing_occurrence_conditions(Key(ctx[q].raw), occurrence'[o].columns)
            /\ ctx[q].pc = "write" /\ UsesTier2(Cols(ctx[q].raw)) =>
                 ~MatchesSignal(Cols(ctx[q].raw), occurrence'[o].columns)

LEMMA RespectedCall ==
    ASSUME IInv, NEW q \in Procs, ctx'[q] = ctx[q], held'[q] = held[q], Respects(q)
    PROVE  CallInv(ctx[q], held[q])'
<1> DEFINE c == ctx[q]
           h == held[q]
<1>1. CallInv(c, h)
  BY CallFacts
<1>2. c.pc # "idle" => /\ c.raw \in Raws /\ raw[c.raw] # None /\ raw'[c.raw] # None
                       /\ raw'[c.raw].posting = raw[c.raw].posting
  BY <1>1 DEF CallInv, HasRaw, Respects
<1>3. c.pc # "idle" => Columns(raw'[c.raw].posting) = Columns(raw[c.raw].posting)
  BY <1>2
<1>4. HasRaw(ctx[q])'
  BY <1>1, <1>2, <1>3 DEF CallInv, HasRaw, Key, Cols
<1>5. OwnsRaw(ctx[q], held[q])'
  BY <1>1 DEF CallInv, OwnsRaw, Respects
<1>6. OwnsKey(ctx[q], held[q])'
  BY <1>1, <1>3 DEF CallInv, OwnsKey, Keyed, Validated, Key, Cols
<1>7. Unmatched(c) => c.pc # "idle"
  BY DEF Unmatched
<1>8. KeyAbsent(ctx[q])'
  <2>1. SUFFICES ASSUME Unmatched(c) PROVE Matching(Key(ctx[q].raw))' = {}
    BY DEF KeyAbsent, Unmatched
  <2>2. Matching(Key(c.raw)) = {}
    BY <1>1, <2>1 DEF CallInv, KeyAbsent
  <2> QED
    BY <1>3, <1>7, <2>1, <2>2 DEF Respects, Matching, Stored, Key, Cols
<1>9. OwnsJob(ctx[q], held[q])'
  BY <1>1 DEF CallInv, OwnsJob, OnLockedJob, Respects
<1>10. OwnsOccurrence(ctx[q])'
  BY <1>1 DEF CallInv, OwnsOccurrence, OwnsJob, OnLockedJob, Respects, Stored
<1>11. OwnsUrl(ctx[q], held[q])'
  BY <1>1, <1>3, <1>7 DEF CallInv, OwnsUrl, Unmatched, Cols
<1>12. UrlDecided(ctx[q])'
  <2>1. SUFFICES ASSUME Unmatched(c), UsesTier2(Cols(c.raw))
                 PROVE  /\ c.pc # "discover_all"
                        /\ c.pc = "write" =>
                             /\ c.kind # "AMBIGUOUS"
                             /\ c.kind = "INSERTED" => Candidates(Cols(ctx[q].raw))' = {}
                             /\ c.kind = "ATTACHED" =>
                                  Candidates(Cols(ctx[q].raw))' \subseteq {c.job}
    BY <1>3, <1>7 DEF UrlDecided, Unmatched, Cols
  <2>2. /\ c.pc # "discover_all"
        /\ c.pc = "write" =>
             /\ c.kind # "AMBIGUOUS"
             /\ c.kind = "INSERTED" => Candidates(Cols(c.raw)) = {}
             /\ c.kind = "ATTACHED" => Candidates(Cols(c.raw)) \subseteq {c.job}
    BY <1>1, <2>1 DEF CallInv, UrlDecided
  <2>3. c.pc = "write" => Candidates(Cols(ctx[q].raw))' \subseteq Candidates(Cols(c.raw))
    BY <1>3, <1>7, <2>1 DEF Respects, Candidates, Stored, Cols
  <2> QED
    BY <2>2, <2>3
<1> QED
  BY <1>4, <1>5, <1>6, <1>8, <1>9, <1>10, <1>11, <1>12 DEF CallInv

\* The invariant holds initially.
LEMMA InitIInv == Init => IInv
<1> SUFFICES ASSUME Init PROVE IInv
  OBVIOUS
<1>1. Stored = {}
  BY DEF Init, Stored
<1>2. TypeOK
  BY IdleCall DEF Init, TypeOK
<1>3. TablesInv
  BY <1>1 DEF Init, TablesInv, StoredIsSettled, StoredHasKey, NaturalKeyUnique,
     CanonicalUrlOneJob
<1>4. LocksExclusive
  BY DEF Init, LocksExclusive
<1>5. \A p \in Procs : CallInv(ctx[p], held[p])
  BY IdleCall DEF Init
<1> QED
  BY <1>2, <1>3, <1>4, <1>5 DEF IInv

\* A raw row is stored.
LEMMA FetchStep ==
    ASSUME IInv, NEW r \in Raws, NEW d \in Postings, Fetch(r, d)
    PROVE  IInv'
<1>1. raw \in [Raws -> RawRow \cup {None}]
  BY DEF IInv, TypeOK
<1> DEFINE row == [posting |-> d, status |-> "fetched", occurrence |-> None]
<1>2. row \in RawRow /\ row # None
  BY NullAssumption DEF RawRow
<1>3. raw[r] = None /\ raw' = [raw EXCEPT ![r] = row]
  BY DEF Fetch
<1>4. UNCHANGED <<job, occurrence, conflicts, deleted, held, ctx>>
  BY DEF Fetch
<1> HIDE DEF row
<1>5. TypeOK'
  BY <1>1, <1>2, <1>3, <1>4 DEF IInv, TypeOK
<1>6. TablesInv'
  BY <1>1, <1>3, <1>4 DEF IInv, TablesInv, StoredIsSettled, StoredHasKey, NaturalKeyUnique,
     CanonicalUrlOneJob, Stored
<1>7. LocksExclusive'
  BY <1>4 DEF IInv, LocksExclusive
<1>8. ASSUME NEW q \in Procs PROVE CallInv(ctx[q], held[q])'
  <2>1. Validated \subseteq PC \ {"idle"}
    BY DEF Validated
  <2>2. ctx[q].pc # "idle" => ctx[q].raw \in Raws /\ raw[ctx[q].raw] # None
    BY CallFacts DEF CallInv, HasRaw
  <2>3. Respects(q)
    BY <1>1, <1>3, <1>4, <2>1, <2>2 DEF Respects, Stored
  <2> QED
    BY <1>4, <2>3, RespectedCall
<1> QED
  BY <1>5, <1>6, <1>7, <1>8 DEF IInv

\* A raw row without a natural key is settled: no call has it.
LEMMA MarkParseErrorStep ==
    ASSUME IInv, NEW r \in Raws, MarkParseError(r)
    PROVE  IInv'
<1>1. raw \in [Raws -> RawRow \cup {None}]
  BY DEF IInv, TypeOK
<1> DEFINE row == [raw[r] EXCEPT !.status = "parse_error"]
<1>2. raw[r] \in RawRow
  BY <1>1 DEF MarkParseError
<1>3. row \in RawRow /\ row # None /\ row.posting = raw[r].posting
  BY <1>2, NullAssumption DEF RawRow
<1>4. raw[r].status = "fetched" /\ Key(r) = None /\ raw' = [raw EXCEPT ![r] = row]
  BY DEF MarkParseError
<1>5. UNCHANGED <<job, occurrence, conflicts, deleted, held, ctx>>
  BY DEF MarkParseError
<1> HIDE DEF row
<1>6. TypeOK'
  BY <1>1, <1>3, <1>4, <1>5 DEF IInv, TypeOK
<1>7. TablesInv'
  <2>1. r \notin Stored /\ job[r] = None
    BY <1>4 DEF IInv, TablesInv, StoredIsSettled
  <2> QED
    BY <1>1, <1>4, <1>5, <2>1 DEF IInv, TablesInv, StoredIsSettled, StoredHasKey,
       NaturalKeyUnique, CanonicalUrlOneJob, Stored
<1>8. LocksExclusive'
  BY <1>5 DEF IInv, LocksExclusive
<1>9. ASSUME NEW q \in Procs PROVE CallInv(ctx[q], held[q])'
  <2>1. Validated \subseteq PC \ {"idle"}
    BY DEF Validated
  <2>2. ctx[q].pc # "idle" => ctx[q].raw \in Raws /\ ctx[q].raw # r
    BY <1>4, CallFacts DEF CallInv, HasRaw
  <2>3. Respects(q)
    BY <1>1, <1>3, <1>4, <1>5, <2>1, <2>2 DEF Respects, Stored
  <2> QED
    BY <1>5, <2>3, RespectedCall
<1> QED
  BY <1>6, <1>7, <1>8, <1>9 DEF IInv

\* A Job is deleted with its occurrences, though not under a call that holds it.
LEMMA DeleteJobStep ==
    ASSUME IInv, NEW j \in Raws, DeleteJob(j)
    PROVE  IInv'
<1> DEFINE gone == {o \in Stored : occurrence[o].job = j}
           new(r) == IF raw[r] # None /\ raw[r].occurrence \in gone
                     THEN [raw[r] EXCEPT !.occurrence = None] ELSE raw[r]
           row(i) == IF conflicts[i].occurrence \in gone
                     THEN [conflicts[i] EXCEPT !.occurrence = None] ELSE conflicts[i]
<1>1. /\ raw \in [Raws -> RawRow \cup {None}]
      /\ job \in [Raws -> JobRow \cup {None}]
      /\ occurrence \in [Raws -> OccurrenceRow \cup {None}]
      /\ conflicts \in Seq(ConflictRow)
  BY DEF IInv, TypeOK
<1>2. /\ job' = [job EXCEPT ![j] = None]
      /\ occurrence' = [o \in Raws |-> IF o \in gone THEN None ELSE occurrence[o]]
      /\ raw' = [r \in Raws |-> new(r)]
      /\ conflicts' = [i \in DOMAIN conflicts |-> row(i)]
      /\ deleted' = deleted \cup {j}
      /\ UNCHANGED <<held, ctx>>
  BY DEF DeleteJob
<1>3. ASSUME NEW r \in Raws, raw[r] # None
      PROVE  /\ new(r) \in RawRow /\ new(r) # None
             /\ new(r).posting = raw[r].posting
             /\ new(r).status = raw[r].status
  <2>1. raw[r] \in RawRow
    BY <1>1, <1>3
  <2> QED
    BY <2>1, NullAssumption DEF RawRow
<1>4. \A r \in Raws : raw[r] = None => new(r) = None
  OBVIOUS
<1>5. \A i \in DOMAIN conflicts : row(i) \in ConflictRow
  <2>1. \A i \in DOMAIN conflicts : conflicts[i] \in ConflictRow
    BY <1>1
  <2> QED
    BY <2>1 DEF ConflictRow
<1>6. \A o \in Stored' : /\ o \in Stored
                          /\ occurrence'[o] = occurrence[o]
                          /\ occurrence[o].job # j
  BY <1>2 DEF Stored
<1> HIDE DEF new, row, gone
<1>7. TypeOK'
  <2>1. raw' \in [Raws -> RawRow \cup {None}]
    BY <1>2, <1>3, <1>4
  <2>2. job' \in [Raws -> JobRow \cup {None}] /\ occurrence' \in [Raws -> OccurrenceRow \cup {None}]
    BY <1>1, <1>2
  <2>3. conflicts' \in Seq(ConflictRow)
    <3>1. PICK n \in Nat : conflicts \in [1..n -> ConflictRow]
      BY <1>1, SeqDef
    <3>2. conflicts' \in [1..n -> ConflictRow]
      BY <1>2, <1>5, <3>1
    <3> QED
      BY <3>2, SeqDef
  <2> QED
    BY <1>2, <2>1, <2>2, <2>3 DEF IInv, TypeOK
<1>8. TablesInv'
  <2>1. StoredIsSettled'
    <3>1. ASSUME NEW o \in Raws, o \in Stored' \/ job'[o] # None
          PROVE  raw'[o] # None /\ raw'[o].status \in {"normalized", "identity_conflict"}
      <4>1. raw[o] # None /\ raw[o].status \in {"normalized", "identity_conflict"}
        BY <1>1, <1>2, <1>6, <3>1 DEF IInv, TablesInv, StoredIsSettled
      <4> QED
        BY <1>2, <1>3, <4>1
    <3> QED
      BY <3>1 DEF StoredIsSettled
  <2>2. StoredHasKey' /\ NaturalKeyUnique' /\ CanonicalUrlOneJob'
    BY <1>6 DEF IInv, TablesInv, StoredHasKey, NaturalKeyUnique, CanonicalUrlOneJob
  <2> QED
    BY <2>1, <2>2 DEF TablesInv
<1>9. LocksExclusive'
  BY <1>2 DEF IInv, LocksExclusive
<1>10. ASSUME NEW q \in Procs PROVE CallInv(ctx[q], held[q])'
  <2>1. Validated \subseteq PC \ {"idle"}
    BY DEF Validated
  <2>2. ctx[q].pc # "idle" => ctx[q].raw \in Raws /\ raw[ctx[q].raw] # None
    BY CallFacts DEF CallInv, HasRaw
  <2>3. JobRowLock(j) \notin held[q]
    BY DEF DeleteJob
  <2>4. \A r \in Raws : raw[r] # None => raw'[r] # None /\ raw'[r].posting = raw[r].posting
    BY <1>2, <1>3
  <2>5. ctx[q].pc \in Validated => raw'[ctx[q].raw].status = raw[ctx[q].raw].status
    BY <1>2, <1>3, <2>1, <2>2
  <2>6. \A k \in Raws : JobRowLock(k) \in held[q] /\ job[k] # None => job'[k] = job[k]
    BY <1>1, <1>2, <2>3
  <2>7. \A o \in Stored : JobRowLock(occurrence[o].job) \in held[q] =>
          occurrence'[o] = occurrence[o]
    BY <1>2, <2>3 DEF gone, Stored
  <2>8. \A o \in Raws : occurrence'[o] # None => o \in Stored /\ occurrence'[o] = occurrence[o]
    BY <1>6 DEF Stored
  <2>9. Respects(q)
    BY <2>4, <2>5, <2>6, <2>7, <2>8 DEF Respects
  <2> QED
    BY <1>2, <2>9, RespectedCall
<1> QED
  BY <1>7, <1>8, <1>9, <1>10 DEF IInv

-----------------------------------------------------------------------------
(***************************************************************************)
(* Commits.                                                                *)
(***************************************************************************)

\* A transaction ends: its own call knows nothing any more, and what the other
\* calls know only depends on the tables.
LEMMA EndPreserves ==
    ASSUME IInv, NEW p \in Procs, End(p),
           /\ raw' \in [Raws -> RawRow \cup {None}]
           /\ job' \in [Raws -> JobRow \cup {None}]
           /\ occurrence' \in [Raws -> OccurrenceRow \cup {None}]
           /\ conflicts' \in Seq(ConflictRow)
           /\ deleted' \in SUBSET Raws,
           TablesInv',
           \A q \in Procs \ {p} : Respects(q)
    PROVE  IInv'
<1>1. ctx \in [Procs -> Context] /\ held \in [Procs -> SUBSET Locks]
  BY DEF IInv, TypeOK
<1>2. /\ ctx' \in [Procs -> Context] /\ held' \in [Procs -> SUBSET Locks]
      /\ ctx'[p] = Idle /\ held'[p] = {}
      /\ \A q \in Procs \ {p} : ctx'[q] = ctx[q] /\ held'[q] = held[q]
  BY <1>1, IdleCall DEF End, Become
<1>3. TypeOK'
  BY <1>2 DEF TypeOK
<1>4. LocksExclusive'
  BY <1>2 DEF IInv, LocksExclusive
<1>5. ASSUME NEW q \in Procs PROVE CallInv(ctx[q], held[q])'
  <2>1. CASE q = p
    BY <1>2, <2>1 DEF Idle, CallInv, HasRaw, OwnsRaw, OwnsKey, KeyAbsent, OwnsJob,
       OwnsOccurrence, OwnsUrl, UrlDecided, Validated, Keyed, Unmatched, OnLockedJob
  <2>2. CASE q # p
    BY <1>2, <2>2, RespectedCall
  <2> QED
    BY <2>1, <2>2
<1> QED
  BY <1>3, <1>4, <1>5 DEF IInv

\* What the locks of two different calls have in common: nothing.
LEMMA OtherCalls ==
    ASSUME IInv, NEW p \in Procs, NEW q \in Procs, p # q, NEW l, l \in held[p]
    PROVE  l \notin held[q]
  BY DEF IInv, LocksExclusive

\* A call about to write: its raw row, still to be settled.
LEMMA WriteFacts ==
    ASSUME IInv, NEW p \in Procs, At(p, "write")
    PROVE  LET r == ctx[p].raw
           IN  /\ r \in Raws /\ raw[r] # None /\ raw[r] \in RawRow
               /\ raw[r].status = "fetched"
               /\ r \notin Stored
               /\ Cols(r) \in IdentityColumns
               /\ Key(r) # None
               /\ ctx[p].observed_at \in Nat
               /\ RawRowLock(r) \in held[p]
               /\ advisory_lock_key(Key(r)) \in held[p]
<1>1. CallInv(ctx[p], held[p]) /\ ctx[p] \in Context
  BY CallFacts
<1>2. ctx[p].pc \in Validated /\ ctx[p].pc \in Keyed /\ ctx[p].pc # "idle"
  BY DEF At, Validated, Keyed, PC
<1> QED
  BY <1>1, <1>2, RowTypes DEF CallInv, HasRaw, OwnsRaw, OwnsKey, IInv, TablesInv,
     StoredIsSettled, Context

\* The raw row's terminal update, as every other call sees it.
LEMMA SettleRow ==
    ASSUME IInv, NEW p \in Procs, At(p, "write"),
           NEW status \in {"normalized", "identity_conflict"}, NEW o \in Raws,
           Settle(p, status, o)
    PROVE  /\ raw' \in [Raws -> RawRow \cup {None}]
           /\ \A r \in Raws : raw[r] # None => /\ raw'[r] # None
                                              /\ raw'[r].posting = raw[r].posting
           /\ raw'[ctx[p].raw].status = status
           /\ \A r \in Raws : r # ctx[p].raw => raw'[r] = raw[r]
           /\ \A q \in Procs \ {p} : ctx[q].pc \in Validated =>
                /\ ctx[q].raw \in Raws
                /\ raw'[ctx[q].raw] = raw[ctx[q].raw]
<1> DEFINE r == ctx[p].raw
           row == [[raw[r] EXCEPT !.status = status] EXCEPT !.occurrence = o]
<1>1. raw \in [Raws -> RawRow \cup {None}]
  BY DEF IInv, TypeOK
<1>2. r \in Raws /\ raw[r] \in RawRow /\ RawRowLock(r) \in held[p]
  BY WriteFacts
<1>3. row \in RawRow /\ row # None /\ row.posting = raw[r].posting /\ row.status = status
  BY <1>2, NullAssumption DEF RawRow
<1>4. raw' = [raw EXCEPT ![r] = row]
  BY <1>1, <1>2 DEF Settle
<1> HIDE DEF row
<1>5. ASSUME NEW q \in Procs \ {p}, ctx[q].pc \in Validated
      PROVE  ctx[q].raw \in Raws /\ ctx[q].raw # r
  <2>1. ctx[q].raw \in Raws /\ RawRowLock(ctx[q].raw) \in held[q]
    BY <1>5, CallFacts DEF CallInv, HasRaw, OwnsRaw, Validated
  <2> QED
    BY <1>2, <2>1, OtherCalls
<1> QED
  BY <1>1, <1>2, <1>3, <1>4, <1>5

\* Observations of a Job that is there.
LEMMA SeenJob ==
    ASSUME IInv, NEW p \in Procs, At(p, "write"),
           NEW j \in Raws, job[j] # None, NEW t \in Nat, JobRowLock(j) \in held[p],
           job' = [job EXCEPT ![j].last_seen_at = Max2(t, ctx[p].observed_at)]
    PROVE  /\ job' \in [Raws -> JobRow \cup {None}]
           /\ \A k \in Raws : job'[k] = None <=> job[k] = None
           /\ \A q \in Procs \ {p}, k \in Raws : JobRowLock(k) \in held[q] => job'[k] = job[k]
<1> DEFINE row == [job[j] EXCEPT !.last_seen_at = Max2(t, ctx[p].observed_at)]
<1>1. job \in [Raws -> JobRow \cup {None}]
  BY DEF IInv, TypeOK
<1>2. Max2(t, ctx[p].observed_at) \in Nat
  BY WriteFacts DEF Max2
<1>3. row \in JobRow /\ row # None
  BY <1>1, <1>2, NullAssumption DEF JobRow
<1>4. \A q \in Procs \ {p} : JobRowLock(j) \notin held[q]
  BY OtherCalls
<1> QED
  BY <1>1, <1>3, <1>4

\* A known posting is seen again.
LEMMA CommitFoundStep ==
    ASSUME IInv, NEW p \in Procs, CommitFound(p)
    PROVE  IInv'
<1> DEFINE o == ctx[p].occurrence
           j == ctx[p].job
           t == Max2(ctx[p].occ_last, ctx[p].observed_at)
           row == [occurrence[o] EXCEPT !.last_seen_at = t]
           status == IF ctx[p].kind = "QUARANTINED" THEN "identity_conflict" ELSE "normalized"
<1>1. At(p, "write") /\ ctx[p].kind \in {"UPDATED", "QUARANTINED"}
  BY DEF CommitFound
<1>2. /\ o \in Stored /\ occurrence[o].job = j /\ ctx[p].raw \in Raws
      /\ j \in Raws /\ job[j] # None /\ JobRowLock(j) \in held[p]
  BY <1>1, CallFacts, WriteFacts DEF CallInv, OwnsJob, OwnsOccurrence, OnLockedJob, At
<1>3. ctx[p].occ_last \in Nat /\ ctx[p].job_last \in Nat /\ t \in Nat
  BY <1>1, CallFacts, WriteFacts DEF Context, Max2
<1>4. o \in Raws /\ occurrence \in [Raws -> OccurrenceRow \cup {None}]
  BY <1>2 DEF Stored, IInv, TypeOK
<1>5. /\ row \in OccurrenceRow /\ row # None
      /\ row.job = occurrence[o].job /\ row.columns = occurrence[o].columns
  BY <1>2, <1>3, RowTypes, NullAssumption DEF OccurrenceRow, IInv
<1>6. occurrence' = [occurrence EXCEPT ![o] = row]
  BY <1>4 DEF CommitFound
<1> HIDE DEF row
<1>7. /\ occurrence' \in [Raws -> OccurrenceRow \cup {None}]
      /\ Stored' = Stored
      /\ \A e \in Stored : /\ occurrence'[e].job = occurrence[e].job
                            /\ occurrence'[e].columns = occurrence[e].columns
  BY <1>2, <1>4, <1>5, <1>6 DEF Stored
<1>8. /\ job' \in [Raws -> JobRow \cup {None}]
      /\ \A k \in Raws : job'[k] = None <=> job[k] = None
      /\ \A q \in Procs \ {p}, k \in Raws : JobRowLock(k) \in held[q] => job'[k] = job[k]
  BY <1>1, <1>2, <1>3, SeenJob DEF CommitFound
<1>9. Settle(p, status, o) /\ status \in {"normalized", "identity_conflict"}
  BY DEF CommitFound
<1> HIDE DEF status
<1>10. /\ raw' \in [Raws -> RawRow \cup {None}]
       /\ \A r \in Raws : raw[r] # None => raw'[r] # None /\ raw'[r].posting = raw[r].posting
       /\ \A r \in Raws : r # ctx[p].raw => raw'[r] = raw[r]
       /\ \A q \in Procs \ {p} : ctx[q].pc \in Validated =>
             raw'[ctx[q].raw] = raw[ctx[q].raw]
  BY <1>1, <1>4, <1>9, SettleRow
<1>11. conflicts' \in Seq(ConflictRow) /\ deleted' \in SUBSET Raws
  <2> DEFINE new == [type |-> "evidence_mismatch", raw |-> ctx[p].raw,
                     occurrence |-> o, candidates |-> {}]
  <2>1. new \in ConflictRow
    BY <1>2, <1>4 DEF ConflictRow
  <2>2. conflicts' = conflicts \/ conflicts' = Append(conflicts, new)
    BY DEF CommitFound
  <2> HIDE DEF new
  <2>3. conflicts \in Seq(ConflictRow)
    BY DEF IInv, TypeOK
  <2>4. Append(conflicts, new) \in Seq(ConflictRow)
    BY <2>1, <2>3, AppendProperties
  <2> QED
    BY <2>2, <2>3, <2>4 DEF CommitFound, IInv, TypeOK
<1>12. TablesInv'
  <2>1. StoredIsSettled'
    BY <1>1, <1>7, <1>8, <1>10, WriteFacts DEF IInv, TablesInv, StoredIsSettled, Stored
  <2>2. StoredHasKey' /\ NaturalKeyUnique' /\ CanonicalUrlOneJob'
    BY <1>7 DEF IInv, TablesInv, StoredHasKey, NaturalKeyUnique, CanonicalUrlOneJob
  <2> QED
    BY <2>1, <2>2 DEF TablesInv
<1>13. \A e \in Stored \ {o} : occurrence'[e] = occurrence[e]
  BY <1>4, <1>6 DEF Stored
<1>14. ASSUME NEW q \in Procs \ {p} PROVE Respects(q)
  <2>1. \A e \in Raws : occurrence'[e] # None => e \in Stored
    BY <1>7 DEF Stored
  <2>2. \A e \in Stored : JobRowLock(occurrence[e].job) \in held[q] => e # o
    BY <1>2, OtherCalls
  <2> QED
    BY <1>7, <1>8, <1>10, <1>13, <2>1, <2>2 DEF Respects
<1> QED
  BY <1>7, <1>8, <1>10, <1>11, <1>12, <1>14, EndPreserves DEF CommitFound

\* An unmatched posting adds an occurrence of Job j.  Nobody else can have
\* stored its natural key, or decided on its URL, in the meantime.
LEMMA AddOccurrence ==
    ASSUME IInv, NEW p \in Procs, At(p, "write"), Unmatched(ctx[p]),
           NEW j \in Raws, NEW status \in {"normalized", "identity_conflict"},
           UsesTier2(MyCols(p)) => Candidates(MyCols(p)) \subseteq {j},
           occurrence' = [occurrence EXCEPT ![ctx[p].raw] = NewOccurrence(p, j)],
           Settle(p, status, ctx[p].raw),
           \A k \in Raws \ {ctx[p].raw} : job'[k] = None <=> job[k] = None,
           \A q \in Procs \ {p}, k \in Raws :
             JobRowLock(k) \in held[q] /\ job[k] # None => job'[k] = job[k]
    PROVE  /\ occurrence' \in [Raws -> OccurrenceRow \cup {None}]
           /\ raw' \in [Raws -> RawRow \cup {None}]
           /\ TablesInv'
           /\ \A q \in Procs \ {p} : Respects(q)
<1> DEFINE r == ctx[p].raw
           mine == Cols(r)
           row == NewOccurrence(p, j)
<1>1. /\ r \in Raws /\ r \notin Stored
      /\ mine \in IdentityColumns /\ Key(r) # None
      /\ ctx[p].observed_at \in Nat
      /\ advisory_lock_key(Key(r)) \in held[p]
  BY WriteFacts
<1>2. occurrence \in [Raws -> OccurrenceRow \cup {None}]
  BY DEF IInv, TypeOK
<1>3. row \in OccurrenceRow /\ row # None /\ row.job = j /\ row.columns = mine
  BY <1>1, NullAssumption DEF NewOccurrence, MyCols, OccurrenceRow
<1> HIDE DEF row
<1>4. /\ occurrence' \in [Raws -> OccurrenceRow \cup {None}]
      /\ occurrence'[r] = row
      /\ \A o \in Raws : o # r => occurrence'[o] = occurrence[o]
  BY <1>1, <1>2, <1>3 DEF row
<1>5. Stored' = Stored \cup {r}
  BY <1>1, <1>3, <1>4 DEF Stored
<1>6. \A o \in Stored : o # r /\ o \in Raws /\ occurrence'[o] = occurrence[o]
  BY <1>1, <1>4 DEF Stored
<1>7. /\ raw' \in [Raws -> RawRow \cup {None}]
      /\ \A x \in Raws : raw[x] # None => raw'[x] # None /\ raw'[x].posting = raw[x].posting
      /\ raw'[r].status = status
      /\ \A x \in Raws : x # r => raw'[x] = raw[x]
      /\ \A q \in Procs \ {p} : ctx[q].pc \in Validated => raw'[ctx[q].raw] = raw[ctx[q].raw]
  BY <1>1, SettleRow
<1>8. \A o \in Stored : /\ occurrence[o].columns \in IdentityColumns
                        /\ resolve_natural_key(occurrence[o].columns) # None
  BY RowTypes DEF IInv, TablesInv, StoredHasKey
<1>9. \A o \in Stored : ~existing_occurrence_conditions(Key(r), occurrence[o].columns)
  BY CallFacts DEF CallInv, KeyAbsent, Matching
<1>10. \A o \in Stored :
         ~existing_occurrence_conditions(resolve_natural_key(occurrence[o].columns), mine)
  BY <1>1, <1>8, <1>9, MatchSharesLock DEF Key
<1>11. TablesInv'
  <2>1. StoredIsSettled'
    <3>1. \A o \in Raws : o \in Stored \/ job[o] # None =>
            raw[o] # None /\ raw[o].status \in {"normalized", "identity_conflict"}
      BY DEF IInv, TablesInv, StoredIsSettled
    <3>2. raw[r] # None
      BY WriteFacts
    <3> QED
      BY <1>1, <1>5, <1>6, <1>7, <3>1, <3>2 DEF StoredIsSettled
  <2>2. StoredHasKey'
    BY <1>1, <1>3, <1>4, <1>5, <1>6, <1>8 DEF StoredHasKey, Key
  <2>3. NaturalKeyUnique'
    <3>1. SUFFICES ASSUME NEW o \in Stored', NEW e \in Stored',
                          existing_occurrence_conditions(
                            resolve_natural_key(occurrence'[o].columns), occurrence'[e].columns)
                   PROVE  o = e
      BY DEF NaturalKeyUnique
    <3>2. CASE o \in Stored /\ e \in Stored
      BY <1>6, <3>1, <3>2 DEF IInv, TablesInv, NaturalKeyUnique
    <3>3. CASE o = r /\ e \in Stored
      BY <1>3, <1>4, <1>6, <1>9, <3>1, <3>3 DEF Key
    <3>4. CASE o \in Stored /\ e = r
      BY <1>3, <1>4, <1>6, <1>10, <3>1, <3>4
    <3> QED
      BY <1>5, <3>2, <3>3, <3>4
  <2>4. CanonicalUrlOneJob'
    <3>1. \A e \in Stored : mine.canonical_url_normalized # None
                            /\ mine.canonical_url_normalized =
                                 occurrence[e].columns.canonical_url_normalized
                            => occurrence[e].job = j
      BY DEF MyCols, Candidates, UsesTier2, MatchesSignal
    <3>2. SUFFICES ASSUME NEW o \in Stored', NEW e \in Stored',
                          occurrence'[o].columns.canonical_url_normalized # None,
                          occurrence'[o].columns.canonical_url_normalized =
                            occurrence'[e].columns.canonical_url_normalized
                   PROVE  occurrence'[o].job = occurrence'[e].job
      BY DEF CanonicalUrlOneJob
    <3>3. CASE o \in Stored /\ e \in Stored
      BY <1>6, <3>2, <3>3 DEF IInv, TablesInv, CanonicalUrlOneJob
    <3>4. CASE o = r /\ e \in Stored
      BY <1>3, <1>4, <1>6, <3>1, <3>2, <3>4
    <3>5. CASE o \in Stored /\ e = r
      BY <1>3, <1>4, <1>6, <3>1, <3>2, <3>5
    <3> QED
      BY <1>5, <3>3, <3>4, <3>5
  <2> QED
    BY <2>1, <2>2, <2>3, <2>4 DEF TablesInv
<1>12. ASSUME NEW q \in Procs \ {p} PROVE Respects(q)
  <2> DEFINE c == ctx[q]
  <2>1. CallInv(c, held[q])
    BY CallFacts
  <2>2. Unmatched(c) => ~existing_occurrence_conditions(Key(c.raw), mine)
    <3>1. SUFFICES ASSUME Unmatched(c) PROVE ~existing_occurrence_conditions(Key(c.raw), mine)
      OBVIOUS
    <3>2. /\ Cols(c.raw) \in IdentityColumns /\ Key(c.raw) # None
          /\ advisory_lock_key(Key(c.raw)) \in held[q]
      BY <2>1, <3>1, CallFacts DEF CallInv, HasRaw, OwnsKey, Unmatched, Keyed, Validated, PC
    <3>3. advisory_lock_key(Key(c.raw)) # advisory_lock_key(Key(r))
      BY <1>1, <3>2, OtherCalls
    <3> QED
      BY <1>1, <3>2, <3>3, MatchSharesLock DEF Key
  <2>3. Unmatched(c) /\ c.pc = "write" /\ UsesTier2(Cols(c.raw)) =>
          ~MatchesSignal(Cols(c.raw), mine)
    <3>1. SUFFICES ASSUME Unmatched(c), c.pc = "write", UsesTier2(Cols(c.raw)),
                          MatchesSignal(Cols(c.raw), mine)
                   PROVE  FALSE
      OBVIOUS
    <3>2. SignalLock(Cols(c.raw)) \in held[q]
      BY <2>1, <3>1 DEF CallInv, OwnsUrl
    <3>3. UsesTier2(mine) /\ SignalLock(Cols(c.raw)) = SignalLock(mine)
      BY <3>1 DEF MatchesSignal, UsesTier2, SignalLock
    <3>4. SignalLock(mine) \in held[p]
      BY <3>3, CallFacts DEF CallInv, OwnsUrl, At
    <3> QED
      BY <3>2, <3>3, <3>4, OtherCalls
  <2>4. \A o \in Stored : occurrence'[o] # None /\ occurrence'[o] = occurrence[o]
    BY <1>6 DEF Stored
  <2>5. \A o \in Raws : occurrence'[o] # None => \/ o \in Stored
                                                 \/ occurrence'[o].columns = mine
    BY <1>3, <1>4, <1>5 DEF Stored
  <2> QED
    BY <1>7, <2>2, <2>3, <2>4, <2>5 DEF Respects
<1> QED
  BY <1>4, <1>7, <1>11, <1>12

\* A posting joins the sole candidate of its tier.
LEMMA CommitAttachedStep ==
    ASSUME IInv, NEW p \in Procs, CommitAttached(p)
    PROVE  IInv'
<1> DEFINE j == ctx[p].job
<1>1. At(p, "write") /\ ctx[p].kind = "ATTACHED" /\ Unmatched(ctx[p])
  BY DEF CommitAttached, Unmatched, At
<1>2. /\ j \in Raws /\ job[j] # None /\ JobRowLock(j) \in held[p]
      /\ ctx[p].job_last \in Nat
  BY <1>1, CallFacts DEF CallInv, OwnsJob, OnLockedJob, At, Context
<1>3. UsesTier2(MyCols(p)) => Candidates(MyCols(p)) \subseteq {j}
  BY <1>1, CallFacts DEF CallInv, UrlDecided, At, MyCols
<1>4. /\ job' \in [Raws -> JobRow \cup {None}]
      /\ \A k \in Raws : job'[k] = None <=> job[k] = None
      /\ \A q \in Procs \ {p}, k \in Raws : JobRowLock(k) \in held[q] => job'[k] = job[k]
  BY <1>1, <1>2, SeenJob DEF CommitAttached
<1>5. /\ occurrence' = [occurrence EXCEPT ![ctx[p].raw] = NewOccurrence(p, j)]
      /\ Settle(p, "normalized", ctx[p].raw)
      /\ End(p)
      /\ UNCHANGED <<conflicts, deleted>>
  BY DEF CommitAttached
<1>6. /\ occurrence' \in [Raws -> OccurrenceRow \cup {None}]
      /\ raw' \in [Raws -> RawRow \cup {None}]
      /\ TablesInv'
      /\ \A q \in Procs \ {p} : Respects(q)
  BY <1>1, <1>2, <1>3, <1>4, <1>5, AddOccurrence, ZenonT(30)
<1>7. conflicts' \in Seq(ConflictRow) /\ deleted' \in SUBSET Raws
  BY <1>5 DEF IInv, TypeOK
<1> QED
  BY <1>4, <1>5, <1>6, <1>7, EndPreserves

\* A posting founds a Job of its own.
LEMMA CommitNewJobStep ==
    ASSUME IInv, NEW p \in Procs, CommitNewJob(p)
    PROVE  IInv'
<1> DEFINE r == ctx[p].raw
           status == IF ctx[p].kind = "AMBIGUOUS" THEN "identity_conflict" ELSE "normalized"
           row == [first_seen_at |-> ctx[p].observed_at, last_seen_at |-> ctx[p].observed_at]
           new == [type |-> "ambiguous_match", raw |-> r, occurrence |-> None,
                   candidates |-> ctx[p].candidates]
<1>1. At(p, "write") /\ ctx[p].kind \in {"INSERTED", "AMBIGUOUS"} /\ Unmatched(ctx[p])
  BY DEF CommitNewJob, Unmatched, At
<1>2. r \in Raws /\ ctx[p].observed_at \in Nat
  BY <1>1, WriteFacts
<1>3. row \in JobRow /\ row # None /\ new \in ConflictRow
  BY <1>2, CallFacts, NullAssumption DEF JobRow, ConflictRow, Context
<1>4. /\ job' = [job EXCEPT ![r] = row]
      /\ occurrence' = [occurrence EXCEPT ![r] = NewOccurrence(p, r)]
      /\ Settle(p, status, r)
      /\ conflicts' = conflicts \/ conflicts' = Append(conflicts, new)
      /\ End(p)
      /\ deleted' = deleted
  BY DEF CommitNewJob
<1>5. status \in {"normalized", "identity_conflict"}
  OBVIOUS
<1> HIDE DEF row, new, status
<1>6. UsesTier2(MyCols(p)) => Candidates(MyCols(p)) \subseteq {r}
  BY <1>1, CallFacts DEF CallInv, UrlDecided, At, MyCols
<1>7. /\ job' \in [Raws -> JobRow \cup {None}]
      /\ \A k \in Raws \ {r} : job'[k] = job[k]
      /\ job[r] = None
  BY <1>1, <1>2, <1>3, <1>4, WriteFacts DEF IInv, TypeOK, TablesInv, StoredIsSettled
<1>8. /\ occurrence' \in [Raws -> OccurrenceRow \cup {None}]
      /\ raw' \in [Raws -> RawRow \cup {None}]
      /\ TablesInv'
      /\ \A q \in Procs \ {p} : Respects(q)
  <2>1. /\ \A k \in Raws \ {ctx[p].raw} : job'[k] = None <=> job[k] = None
        /\ \A q \in Procs \ {p}, k \in Raws :
             JobRowLock(k) \in held[q] /\ job[k] # None => job'[k] = job[k]
    BY <1>7
  <2>2. Settle(p, status, ctx[p].raw)
    BY <1>4
  <2> HIDE DEF r
  <2>3. /\ r \in Raws
        /\ occurrence' = [occurrence EXCEPT ![ctx[p].raw] = NewOccurrence(p, r)]
        /\ UsesTier2(MyCols(p)) => Candidates(MyCols(p)) \subseteq {r}
    BY <1>2, <1>4, <1>6 DEF r
  <2> QED
    BY <1>1, <1>5, <2>1, <2>2, <2>3, AddOccurrence, ZenonT(30)
<1>9. conflicts' \in Seq(ConflictRow) /\ deleted' \in SUBSET Raws
  <2>1. conflicts \in Seq(ConflictRow) /\ deleted \in SUBSET Raws
    BY DEF IInv, TypeOK
  <2>2. Append(conflicts, new) \in Seq(ConflictRow)
    BY <1>3, <2>1, AppendProperties
  <2> QED
    BY <1>4, <2>1, <2>2
<1> QED
  BY <1>4, <1>7, <1>8, <1>9, EndPreserves

-----------------------------------------------------------------------------
(***************************************************************************)
(* The theorems.                                                           *)
(***************************************************************************)

\* No step of any transaction breaks the invariant.
LEMMA StepIInv == IInv /\ [Next]_vars => IInv'
<1> SUFFICES ASSUME IInv, [Next]_vars PROVE IInv'
  OBVIOUS
<1>1. ASSUME NEW r \in Raws, NEW d \in Postings, Fetch(r, d) PROVE IInv'
  BY <1>1, FetchStep
<1>2. ASSUME NEW r \in Raws, MarkParseError(r) PROVE IInv'
  BY <1>2, MarkParseErrorStep
<1>3. ASSUME NEW p \in Procs, NEW r \in Raws, NEW t \in Times, Call(p, r, t) PROVE IInv'
  BY <1>3, CallStep
<1>4. ASSUME NEW p \in Procs, LockStep(p) PROVE IInv'
  <2>1. CASE LockRaw(p)
    BY <2>1, LockRawStep
  <2>2. CASE LockKey(p)
    BY <2>2, LockKeyStep
  <2>3. CASE LockParent(p)
    BY <2>3, LockJobStep DEF LockParent, At
  <2>4. CASE LockSignal(p)
    BY <2>4, LockSignalStep
  <2>5. CASE LockCandidate(p)
    BY <2>5, LockJobStep DEF LockCandidate, At
  <2> QED
    BY <1>4, <2>1, <2>2, <2>3, <2>4, <2>5 DEF LockStep
<1>5. ASSUME NEW p \in Procs, ReadStep(p) PROVE IInv'
  BY <1>5, ProbeStep, LoadOccurrenceStep, DiscoverStep, RecheckStep, DiscoverAllStep DEF ReadStep
<1>6. ASSUME NEW p \in Procs, Commit(p) PROVE IInv'
  BY <1>6, CommitFoundStep, CommitAttachedStep, CommitNewJobStep DEF Commit
<1>7. ASSUME NEW p \in Procs, Rollback(p) PROVE IInv'
  BY <1>7, RollbackStep
<1>8. ASSUME NEW j \in Raws, DeleteJob(j) PROVE IInv'
  BY <1>8, DeleteJobStep
<1>9. CASE UNCHANGED vars
  <2> USE <1>9 DEF vars
  <2>1. TypeOK' /\ LocksExclusive'
    BY DEF IInv, TypeOK, LocksExclusive
  <2>2. TablesInv'
    BY DEF IInv, TablesInv, StoredIsSettled, StoredHasKey, NaturalKeyUnique,
       CanonicalUrlOneJob, Stored
  <2>3. ASSUME NEW q \in Procs PROVE CallInv(ctx[q], held[q])'
    <3>1. Respects(q)
      <4>1. \A o \in Stored : occurrence[o] # None
        BY DEF Stored
      <4>2. \A o \in Raws : occurrence[o] # None => o \in Stored
        BY DEF Stored
      <4> QED
        BY <4>1, <4>2 DEF Respects
    <3> QED
      BY <3>1, RespectedCall
  <2> QED
    BY <2>1, <2>2, <2>3 DEF IInv
<1> QED
  BY <1>1, <1>2, <1>3, <1>4, <1>5, <1>6, <1>7, <1>8, <1>9 DEF Next

\* However many transactions run, and wherever they interleave or fail, what
\* each call knows at each point of persist_posting stays true.
THEOREM Invariance == Spec => []IInv
<1>1. Init => IInv
  BY InitIInv
<1>2. IInv /\ [Next]_vars => IInv'
  BY StepIInv
<1> QED
  BY <1>1, <1>2, PTL DEF Spec

\* Every row of every table keeps the columns the schema gives it, and every
\* call a state persist_posting can be in.
THEOREM TypeCorrect == Spec => []TypeOK
<1>1. IInv => TypeOK
  BY DEF IInv
<1> QED
  BY <1>1, Invariance, PTL

\* The Tier-1 lookup never finds two rows, and no insert meets the partial
\* unique indexes: the natural key's advisory lock is enough.
THEOREM NaturalKeysAreUnique == Spec => []NaturalKeyUnique
<1>1. IInv => NaturalKeyUnique
  BY DEF IInv, TablesInv
<1> QED
  BY <1>1, Invariance, PTL

\* The canonical URL's advisory lock is enough for all occurrences of one URL
\* to belong to one Job, under different natural keys and despite deletions.
THEOREM CanonicalUrlsFoundOneJob == Spec => []CanonicalUrlOneJob
<1>1. IInv => CanonicalUrlOneJob
  BY DEF IInv, TablesInv
<1> QED
  BY <1>1, Invariance, PTL

\* A step that leaves raw rows alone settles none again.
LEMMA SettledStaysStep == IInv /\ [Next]_vars => SettledStays
<1> SUFFICES ASSUME IInv, [Next]_vars PROVE SettledStays
  OBVIOUS
<1>1. raw \in [Raws -> RawRow \cup {None}]
  BY DEF IInv, TypeOK
<1>2. ASSUME UNCHANGED raw PROVE SettledStays
  BY <1>2 DEF SettledStays
<1>3. ASSUME NEW r \in Raws, NEW d \in Postings, Fetch(r, d) PROVE SettledStays
  BY <1>1, <1>3 DEF Fetch, SettledStays
<1>4. ASSUME NEW r \in Raws, MarkParseError(r) PROVE SettledStays
  BY <1>1, <1>4 DEF MarkParseError, SettledStays
<1>5. ASSUME NEW p \in Procs, NEW status, NEW o, At(p, "write"), Settle(p, status, o)
      PROVE  SettledStays
  <2>1. ctx[p].raw \in Raws /\ raw[ctx[p].raw].status = "fetched"
    BY <1>5, WriteFacts
  <2>2. \A r \in Raws : r # ctx[p].raw => raw'[r] = raw[r]
    BY <1>1, <1>5 DEF Settle
  <2> QED
    BY <2>1, <2>2 DEF SettledStays
<1>6. ASSUME NEW p \in Procs, Commit(p) PROVE SettledStays
  BY <1>5, <1>6 DEF Commit, CommitFound, CommitAttached, CommitNewJob
<1>7. ASSUME NEW j \in Raws, DeleteJob(j) PROVE SettledStays
  <2>1. ASSUME NEW r \in Raws, raw[r] # None
        PROVE  \/ raw'[r] = raw[r]
               \/ raw'[r] = [raw[r] EXCEPT !.occurrence = None]
    BY <1>7 DEF DeleteJob
  <2>2. \A r \in Raws : raw[r] # None => raw[r] \in RawRow
    BY <1>1
  <2>3. \A r \in Raws : raw[r] # None =>
          /\ raw'[r].status = raw[r].status
          /\ raw'[r].posting = raw[r].posting
          /\ raw'[r].occurrence \in {raw[r].occurrence, None}
    BY <2>1, <2>2, ZenonT(30) DEF RawRow
  <2> QED
    BY <2>3 DEF SettledStays
<1>8. ASSUME NEW p \in Procs, NEW r \in Raws, NEW t \in Times, Call(p, r, t)
      PROVE  SettledStays
  BY <1>2, <1>8 DEF Call, tables
<1>9. ASSUME NEW p \in Procs, LockStep(p) \/ ReadStep(p) \/ Rollback(p) PROVE SettledStays
  <2>1. UNCHANGED raw
    BY <1>9 DEF LockStep, LockRaw, LockKey, LockParent, LockSignal, LockCandidate, LockJob,
       ReadStep, Probe, LoadOccurrence, Discover, Recheck, DiscoverAll, Rollback, tables
  <2> QED
    BY <1>2, <2>1
<1>10. CASE UNCHANGED vars
  BY <1>2, <1>10 DEF vars
<1> QED
  BY <1>3, <1>4, <1>6, <1>7, <1>8, <1>9, <1>10 DEF Next

\* A raw row is settled once, however often and by however many tasks it is
\* processed: its status and posting never change again, its link only to NULL.
THEOREM RawRowsSettleOnce == Spec => RawSettledOnce
<1>1. IInv /\ [Next]_vars => [SettledStays]_vars
  BY SettledStaysStep
<1> QED
  BY <1>1, Invariance, PTL DEF Spec, RawSettledOnce

\* Under the Job's row lock the values read are the values replaced.
LEMMA AdvanceStep == IInv /\ [Next]_vars => OccurrencesAdvance /\ JobsAdvance
<1> SUFFICES ASSUME IInv, [Next]_vars PROVE OccurrencesAdvance /\ JobsAdvance
  OBVIOUS
<1>1. /\ job \in [Raws -> JobRow \cup {None}]
      /\ occurrence \in [Raws -> OccurrenceRow \cup {None}]
  BY DEF IInv, TypeOK
<1>2. /\ \A j \in Raws : job[j] # None => job[j] \in JobRow
      /\ \A o \in Stored : occurrence[o] \in OccurrenceRow /\ o \in Raws
  BY RowTypes DEF IInv, Stored
<1>3. ASSUME UNCHANGED occurrence PROVE OccurrencesAdvance
  BY <1>2, <1>3 DEF OccurrencesAdvance, OccurrenceRow
<1>4. ASSUME UNCHANGED job PROVE JobsAdvance
  BY <1>2, <1>4 DEF JobsAdvance, JobRow
<1>5. \A a, b \in Nat : Max2(a, b) \in Nat /\ Max2(a, b) >= a
  BY DEF Max2
<1>6. ASSUME NEW p \in Procs, At(p, "write"), OnLockedJob(ctx[p]),
             job' = [job EXCEPT ![ctx[p].job].last_seen_at =
                       Max2(ctx[p].job_last, ctx[p].observed_at)]
      PROVE  JobsAdvance
  <2> DEFINE j == ctx[p].job
             t == Max2(job[j].last_seen_at, ctx[p].observed_at)
  <2>1. /\ j \in Raws /\ job[j] \in JobRow /\ job[j].last_seen_at = ctx[p].job_last
        /\ ctx[p].observed_at \in Nat
    BY <1>2, <1>6, CallFacts, WriteFacts DEF CallInv, OwnsJob
  <2>2. t \in Nat /\ t >= job[j].last_seen_at
    BY <1>5, <2>1 DEF JobRow
  <2>3. job' = [job EXCEPT ![j] = [job[j] EXCEPT !.last_seen_at = t]]
    BY <1>1, <1>6, <2>1
  <2> HIDE DEF t
  <2>4. \A k \in Raws : k # j => job'[k] = job[k]
    BY <1>1, <2>3
  <2>5. job'[j].first_seen_at = job[j].first_seen_at /\ job'[j].last_seen_at = t
    BY <1>1, <2>1, <2>3 DEF JobRow
  <2>6. \A k \in Raws : job[k] # None => job[k].last_seen_at >= job[k].last_seen_at
    BY <1>2 DEF JobRow
  <2> QED
    BY <2>2, <2>4, <2>5, <2>6 DEF JobsAdvance
<1>7. ASSUME NEW p \in Procs, NEW j, At(p, "write"),
             occurrence' = [occurrence EXCEPT ![ctx[p].raw] = NewOccurrence(p, j)]
      PROVE  OccurrencesAdvance
  <2>1. \A o \in Stored : occurrence'[o] = occurrence[o]
    BY <1>1, <1>2, <1>7, WriteFacts
  <2> QED
    BY <1>2, <2>1 DEF OccurrencesAdvance, OccurrenceRow
<1>8. ASSUME NEW p \in Procs, CommitFound(p) PROVE OccurrencesAdvance /\ JobsAdvance
  <2> DEFINE o == ctx[p].occurrence
             t == Max2(occurrence[o].last_seen_at, ctx[p].observed_at)
  <2>1. At(p, "write") /\ ctx[p].kind \in {"UPDATED", "QUARANTINED"}
    BY <1>8 DEF CommitFound
  <2>2. JobsAdvance
    BY <1>6, <1>8, <2>1 DEF CommitFound, OnLockedJob, At
  <2>3. /\ o \in Stored /\ occurrence[o] \in OccurrenceRow /\ o \in Raws
        /\ occurrence[o].last_seen_at = ctx[p].occ_last
        /\ ctx[p].observed_at \in Nat
    BY <1>2, <2>1, CallFacts, WriteFacts DEF CallInv, OwnsOccurrence, At
  <2>4. t \in Nat /\ t >= occurrence[o].last_seen_at
    BY <1>5, <2>3 DEF OccurrenceRow
  <2>5. occurrence' = [occurrence EXCEPT ![o] = [occurrence[o] EXCEPT !.last_seen_at = t]]
    BY <1>1, <1>8, <2>3 DEF CommitFound
  <2> HIDE DEF t
  <2>6. \A e \in Stored : e # o => occurrence'[e] = occurrence[e]
    BY <1>1, <1>2, <2>5
  <2>7. /\ occurrence'[o].job = occurrence[o].job
        /\ occurrence'[o].columns = occurrence[o].columns
        /\ occurrence'[o].first_seen_at = occurrence[o].first_seen_at
        /\ occurrence'[o].last_seen_at = t
    BY <1>1, <2>3, <2>5 DEF OccurrenceRow
  <2>8. \A e \in Stored : occurrence[e].last_seen_at >= occurrence[e].last_seen_at
    BY <1>2 DEF OccurrenceRow
  <2>9. OccurrencesAdvance
    BY <2>4, <2>6, <2>7, <2>8 DEF OccurrencesAdvance
  <2> QED
    BY <2>2, <2>9
<1>9. ASSUME NEW p \in Procs, CommitAttached(p) PROVE OccurrencesAdvance /\ JobsAdvance
  BY <1>6, <1>7, <1>9 DEF CommitAttached, OnLockedJob, At
<1>10. ASSUME NEW p \in Procs, CommitNewJob(p) PROVE OccurrencesAdvance /\ JobsAdvance
  <2>1. job[ctx[p].raw] = None
    BY <1>10, WriteFacts DEF CommitNewJob, IInv, TablesInv, StoredIsSettled
  <2>2. \A k \in Raws : job[k] # None => job'[k] = job[k]
    BY <1>1, <1>10, <2>1 DEF CommitNewJob
  <2>3. JobsAdvance
    BY <1>2, <2>2 DEF JobsAdvance, JobRow
  <2>4. OccurrencesAdvance
    BY <1>7, <1>10 DEF CommitNewJob
  <2> QED
    BY <2>3, <2>4
<1>11. ASSUME NEW j \in Raws, DeleteJob(j) PROVE OccurrencesAdvance /\ JobsAdvance
  <2>1. \A o \in Stored : occurrence'[o] # None => occurrence'[o] = occurrence[o]
    BY <1>2, <1>11 DEF DeleteJob
  <2>2. \A k \in Raws : job'[k] # None => job'[k] = job[k]
    BY <1>1, <1>11 DEF DeleteJob
  <2>3. OccurrencesAdvance
    BY <1>2, <2>1 DEF OccurrencesAdvance, OccurrenceRow
  <2>4. JobsAdvance
    BY <1>2, <2>2 DEF JobsAdvance, JobRow
  <2> QED
    BY <2>3, <2>4
<1>12. ASSUME UNCHANGED <<job, occurrence>> PROVE OccurrencesAdvance /\ JobsAdvance
  BY <1>3, <1>4, <1>12
<1>13. ASSUME NEW p \in Procs, LockStep(p) \/ ReadStep(p) \/ Rollback(p)
       PROVE  UNCHANGED <<job, occurrence>>
  BY <1>13 DEF LockStep, LockRaw, LockKey, LockParent, LockSignal, LockCandidate, LockJob,
     ReadStep, Probe, LoadOccurrence, Discover, Recheck, DiscoverAll, Rollback, tables
<1>14. ASSUME \/ \E r \in Raws, d \in Postings : Fetch(r, d)
              \/ \E r \in Raws : MarkParseError(r)
              \/ \E p \in Procs, r \in Raws, t \in Times : Call(p, r, t)
              \/ UNCHANGED vars
       PROVE  UNCHANGED <<job, occurrence>>
  BY <1>14 DEF Fetch, MarkParseError, Call, tables, vars
<1> QED
  BY <1>8, <1>9, <1>10, <1>11, <1>12, <1>13, <1>14 DEF Next, Commit

\* No observation is lost: an occurrence keeps its Job, its evidence and its
\* first sighting, and no commit moves a last sighting back, although calls
\* read it in one statement and write it in another.
THEOREM ObservationsAdvance == Spec => ObservationsOnlyAdvance
<1>1. IInv /\ [Next]_vars => [OccurrencesAdvance /\ JobsAdvance]_vars
  BY AdvanceStep
<1> QED
  BY <1>1, Invariance, PTL DEF Spec, ObservationsOnlyAdvance

-----------------------------------------------------------------------------
(***************************************************************************)
(* The rest of what persist_posting promises, on top of IInv: what a call  *)
(* has found is still so when it commits, it fails closed only after a     *)
(* deletion, and no two calls wait for one another.                        *)
(***************************************************************************)
Settled(r) == raw[r] # None /\ raw[r].status \in {"normalized", "identity_conflict"}

\* What Tier 1 found is an occurrence of the call's own natural key, and
\* evidence of two different URLs, and nothing else, quarantines the posting.
FoundMatches(c) ==
    c.pc = "write" /\ c.kind \in {"UPDATED", "QUARANTINED"} =>
      /\ c.occurrence \in Matching(Key(c.raw))
      /\ LET mine == Cols(c.raw).canonical_url_normalized
             stored == occurrence[c.occurrence].columns.canonical_url_normalized
         IN  c.kind = "QUARANTINED" <=> None \notin {stored, mine} /\ stored # mine

\* Only a posting with a signal gets past Tier 1's miss.
TierUsed(c) ==
    \/ c.pc \in {"signal_lock", "discover", "candidate_lock", "recheck", "discover_all"}
    \/ c.pc = "write" /\ c.kind \in {"ATTACHED", "AMBIGUOUS"}
    => UsesTier2(Cols(c.raw)) \/ UsesTier3(Cols(c.raw))

\* The Job attached to carries the signal to the end.
AttachedSupported(c) ==
    c.pc = "write" /\ c.kind = "ATTACHED" => c.job \in Candidates(Cols(c.raw))

\* The evidence of an ambiguity names several Jobs, none of them its own.
AmbiguityCollected(c) ==
    c.pc = "write" /\ c.kind = "AMBIGUOUS" =>
      /\ Several(c.candidates)
      /\ \A k \in c.candidates : k \in Raws /\ Settled(k)

\* As long as nothing was deleted, what was found is found again.
StableUnlessDeleted(c) ==
    deleted = {} =>
      /\ c.pc # "unstable"
      /\ c.pc \in {"parent_lock", "load"} => /\ c.occurrence \in Matching(Key(c.raw))
                                             /\ occurrence[c.occurrence].job = c.job
      /\ c.pc \in {"candidate_lock", "recheck"} => c.job \in Candidates(Cols(c.raw))
      /\ c.pc = "discover_all" => Several(Candidates(Cols(c.raw)))

RawTags == {"RAW_ROW"}
KeyTags == {"TENANT", "NO_TENANT", "URL"}
SignalTags == {"CANONICAL_URL", "TENANT_REQUISITION"}
Tags(h) == {l.tag : l \in h}

\* Locks are taken in the order raw row, natural key, signal, Job.
LockOrder(c, h) ==
    /\ c.pc \in {"idle", "raw_lock"} => h = {}
    /\ c.pc = "key_lock" => Tags(h) \subseteq RawTags
    /\ c.pc \in {"probe", "signal_lock", "parent_lock"} => Tags(h) \subseteq RawTags \cup KeyTags
    /\ c.pc \in {"discover", "candidate_lock"} =>
         Tags(h) \subseteq RawTags \cup KeyTags \cup SignalTags

Knows(c, h) ==
    /\ FoundMatches(c)
    /\ TierUsed(c)
    /\ AttachedSupported(c)
    /\ AmbiguityCollected(c)
    /\ StableUnlessDeleted(c)
    /\ LockOrder(c, h)

StoredHasJob == \A o \in Stored : job[occurrence[o].job] # None

KInv == StoredHasJob /\ \A p \in Procs : Knows(ctx[p], held[p])

-----------------------------------------------------------------------------
(***************************************************************************)
(* What a step may change in the tables.                                   *)
(***************************************************************************)

\* Only a deletion takes rows away, and none that a call has locked.
Frame ==
    /\ \A r \in Raws : raw[r] # None => raw'[r] # None /\ raw'[r].posting = raw[r].posting
    /\ \A r \in Raws : Settled(r) => Settled(r)'
    /\ \A o \in Stored : o \in Stored' => /\ occurrence'[o].job = occurrence[o].job
                                          /\ occurrence'[o].columns = occurrence[o].columns
    /\ \A o \in Stored : o \notin Stored' =>
          /\ deleted' # {}
          /\ \A q \in Procs : JobRowLock(occurrence[o].job) \notin held[q]
    /\ deleted \subseteq deleted'

\* A call that moves without touching a table, one that ends, or the world.
LEMMA StepKinds ==
    ASSUME IInv, [Next]_vars
    PROVE  \/ UNCHANGED tables
           \/ \E r \in Raws, d \in Postings : Fetch(r, d)
           \/ \E r \in Raws : MarkParseError(r)
           \/ \E p \in Procs : Commit(p)
           \/ \E j \in Raws : DeleteJob(j)
<1>1. ASSUME NEW p \in Procs, LockStep(p) \/ ReadStep(p) \/ Rollback(p) PROVE UNCHANGED tables
  BY <1>1 DEF LockStep, LockRaw, LockKey, LockParent, LockSignal, LockCandidate, LockJob,
     ReadStep, Probe, LoadOccurrence, Discover, Recheck, DiscoverAll, Rollback
<1>2. ASSUME NEW p \in Procs, NEW r \in Raws, NEW t \in Times, Call(p, r, t)
      PROVE UNCHANGED tables
  BY <1>2 DEF Call
<1>3. CASE UNCHANGED vars BY <1>3 DEF vars, tables
<1> QED BY <1>1, <1>2, <1>3 DEF Next

\* What each commit does to the occurrences.
LEMMA CommitOccurrences ==
    ASSUME IInv, NEW p \in Procs, Commit(p)
    PROVE  /\ \A o \in Stored : occurrence'[o] # None
           /\ UNCHANGED deleted
<1>1. occurrence \in [Raws -> OccurrenceRow \cup {None}] BY DEF IInv, TypeOK
<1>2. ASSUME NEW j, At(p, "write"),
             occurrence' = [occurrence EXCEPT ![ctx[p].raw] = NewOccurrence(p, j)]
      PROVE  \A o \in Stored : occurrence'[o] # None
  BY <1>1, <1>2, WriteFacts DEF Stored
<1>3. CASE CommitFound(p)
  <2>1. At(p, "write") /\ ctx[p].kind \in {"UPDATED", "QUARANTINED"} BY <1>3 DEF CommitFound
  <2>2. ctx[p].occurrence \in Stored
    BY <2>1, CallFacts DEF CallInv, OwnsOccurrence, At
  <2> DEFINE o == ctx[p].occurrence
             seen == Max2(ctx[p].occ_last, ctx[p].observed_at)
             row == [occurrence[o] EXCEPT !.last_seen_at = seen]
  <2>3. occurrence' = [occurrence EXCEPT ![o] = row]
    BY <1>1, <1>3, <2>2 DEF CommitFound, Stored
  <2>4. ctx[p].occ_last \in Nat /\ ctx[p].observed_at \in Nat
    BY CallFacts DEF Context
  <2>5. occurrence[o] \in OccurrenceRow BY <1>1, <2>2 DEF Stored
  <2>6. row # None BY <2>4, <2>5, NullAssumption DEF OccurrenceRow, Max2
  <2> HIDE DEF row
  <2>7. \A e \in Stored : occurrence'[e] # None BY <1>1, <2>2, <2>3, <2>6 DEF Stored
  <2> QED BY <1>3, <2>7 DEF CommitFound
<1>4. CASE CommitAttached(p) BY <1>2, <1>4 DEF CommitAttached
<1>5. CASE CommitNewJob(p) BY <1>2, <1>5 DEF CommitNewJob
<1> QED BY <1>3, <1>4, <1>5 DEF Commit

\* Postings stay.
LEMMA PostingsStay ==
    ASSUME IInv, [Next]_vars
    PROVE  \A r \in Raws : raw[r] # None => raw'[r] # None /\ raw'[r].posting = raw[r].posting
<1> DEFINE Stay == \A r \in Raws : raw[r] # None => raw'[r] # None
                                                    /\ raw'[r].posting = raw[r].posting
<1>1. raw \in [Raws -> RawRow \cup {None}] BY DEF IInv, TypeOK
<1>2. CASE UNCHANGED tables BY <1>2 DEF tables
<1>3. ASSUME NEW r \in Raws, NEW d \in Postings, Fetch(r, d) PROVE Stay
  BY <1>1, <1>3 DEF Fetch
<1>4. ASSUME NEW r \in Raws, MarkParseError(r) PROVE Stay
  <2> DEFINE row == [raw[r] EXCEPT !.status = "parse_error"]
  <2>1. raw[r] \in RawRow /\ raw' = [raw EXCEPT ![r] = row]
    BY <1>1, <1>4 DEF MarkParseError
  <2>2. row \in RawRow /\ row.posting = raw[r].posting BY <2>1 DEF RawRow
  <2> HIDE DEF row
  <2> QED BY <1>1, <2>1, <2>2, NullAssumption
<1>5. ASSUME NEW p \in Procs, Commit(p) PROVE Stay
  <2>1. ASSUME NEW status \in {"normalized", "identity_conflict"}, NEW o \in Raws,
               At(p, "write"), Settle(p, status, o)
        PROVE  Stay
    BY <2>1, SettleRow
  <2>2. ctx[p].pc = "write" => ctx[p].raw \in Raws
    BY WriteFacts DEF At
  <2>3. ctx[p].pc = "write" /\ ctx[p].kind \in {"UPDATED", "QUARANTINED"} =>
          ctx[p].occurrence \in Raws
    BY CallFacts DEF CallInv, OwnsOccurrence, Stored
  <2> QED
    BY <1>5, <2>1, <2>2, <2>3 DEF Commit, CommitFound, CommitAttached, CommitNewJob, At
<1>6. ASSUME NEW j \in Raws, DeleteJob(j) PROVE Stay
  <2>1. ASSUME NEW r \in Raws, raw[r] # None
        PROVE  \/ raw'[r] = raw[r]
               \/ raw'[r] = [raw[r] EXCEPT !.occurrence = None]
    BY <1>6 DEF DeleteJob
  <2>2. ASSUME NEW row \in RawRow
        PROVE  LET new == [row EXCEPT !.occurrence = None]
               IN  new \in RawRow /\ new.posting = row.posting
    BY DEF RawRow
  <2>3. ASSUME NEW r \in Raws, raw[r] # None
        PROVE  raw'[r] # None /\ raw'[r].posting = raw[r].posting
    <3>1. raw[r] \in RawRow BY <1>1, <2>3
    <3>2. CASE raw'[r] = raw[r] BY <2>3, <3>2
    <3>3. CASE raw'[r] = [raw[r] EXCEPT !.occurrence = None]
      <4>1. raw'[r] \in RawRow /\ raw'[r].posting = raw[r].posting BY <2>2, <3>1, <3>3
      <4> QED BY <4>1, NullAssumption
    <3> QED BY <2>1, <2>3, <3>2, <3>3
  <2> QED BY <2>3
<1> QED BY <1>2, <1>3, <1>4, <1>5, <1>6, StepKinds

LEMMA FrameStep ==
    ASSUME IInv, [Next]_vars
    PROVE  Frame
<1>1. OccurrencesAdvance /\ SettledStays BY AdvanceStep, SettledStaysStep
<1>2. \A r \in Raws : raw[r] # None => raw'[r] # None /\ raw'[r].posting = raw[r].posting
  BY PostingsStay
<1>3. \A r \in Raws : Settled(r) => Settled(r)' BY <1>1, <1>2 DEF Settled, SettledStays
<1>4. \A o \in Stored : o \in Stored' => /\ occurrence'[o].job = occurrence[o].job
                                         /\ occurrence'[o].columns = occurrence[o].columns
  BY <1>1 DEF OccurrencesAdvance, Stored
<1> DEFINE Taken == /\ \A o \in Stored : o \notin Stored' =>
                          /\ deleted' # {}
                          /\ \A q \in Procs : JobRowLock(occurrence[o].job) \notin held[q]
                    /\ deleted \subseteq deleted'
<1>5. Taken
  <2>1. CASE UNCHANGED <<occurrence, deleted>> BY <2>1 DEF Stored
  <2>2. ASSUME NEW p \in Procs, Commit(p) PROVE Taken
    BY <2>2, CommitOccurrences DEF Stored
  <2>3. ASSUME NEW j \in Raws, DeleteJob(j) PROVE Taken
    BY <2>3 DEF DeleteJob, Stored
  <2>4. ASSUME \/ UNCHANGED tables
               \/ \E r \in Raws, d \in Postings : Fetch(r, d)
               \/ \E r \in Raws : MarkParseError(r)
        PROVE  UNCHANGED <<occurrence, deleted>>
    BY <2>4 DEF tables, Fetch, MarkParseError
  <2> QED BY <2>1, <2>2, <2>3, <2>4, StepKinds
<1> QED BY <1>2, <1>3, <1>4, <1>5 DEF Frame

-----------------------------------------------------------------------------
(***************************************************************************)
(* What a call knows.                                                      *)
(***************************************************************************)

\* A call that does not move knows what it knew.
LEMMA UnmovedKnows ==
    ASSUME IInv, IInv', Frame, NEW q \in Procs, Knows(ctx[q], held[q]),
           ctx'[q] = ctx[q], held'[q] = held[q]
    PROVE  Knows(ctx[q], held[q])'
<1> DEFINE c == ctx[q]
           cols == Cols(c.raw)
<1>1. CallInv(c, held[q]) /\ CallInv(c, held[q])'
  BY CallFacts DEF IInv
<1>2. c.pc # "idle" => /\ c.raw \in Raws /\ raw[c.raw] # None
                       /\ Cols(ctx[q].raw)' = cols /\ Key(ctx[q].raw)' = Key(c.raw)
  BY <1>1 DEF CallInv, HasRaw, Frame, Cols, Key
<1>3. \A o \in Raws : o \in Matching(Key(c.raw)) /\ o \in Stored' /\ c.pc # "idle" =>
                            o \in Matching(Key(ctx[q].raw))'
  BY <1>2 DEF Matching, Frame, Stored
<1>4. \A o \in Stored : o \in Stored' /\ c.pc # "idle" /\ MatchesSignal(cols, occurrence[o].columns)
                          => occurrence[o].job \in Candidates(Cols(ctx[q].raw))'
  BY <1>2 DEF Candidates, Frame, Stored
<1>5. FoundMatches(ctx[q])'
  <2> SUFFICES ASSUME c.pc = "write", c.kind \in {"UPDATED", "QUARANTINED"}
               PROVE  FoundMatches(ctx[q])'
    BY DEF FoundMatches
  <2>1. c.occurrence \in Stored /\ c.occurrence \in Stored'
    BY <1>1 DEF CallInv, OwnsOccurrence
  <2>2. occurrence'[c.occurrence].columns = occurrence[c.occurrence].columns
    BY <2>1 DEF Frame
  <2>3. c.occurrence \in Matching(Key(ctx[q].raw))'
    BY <1>3, <2>1 DEF Knows, FoundMatches, Stored
  <2> QED BY <1>2, <2>2, <2>3 DEF Knows, FoundMatches
<1>6. TierUsed(ctx[q])' BY <1>2 DEF Knows, TierUsed
<1>7. AttachedSupported(ctx[q])'
  <2> SUFFICES ASSUME c.pc = "write", c.kind = "ATTACHED"
               PROVE  c.job \in Candidates(Cols(ctx[q].raw))'
    BY DEF AttachedSupported
  <2>1. PICK o \in Stored : MatchesSignal(cols, occurrence[o].columns) /\ occurrence[o].job = c.job
    BY DEF Knows, AttachedSupported, Candidates
  <2>2. JobRowLock(c.job) \in held[q]
    BY <1>1 DEF CallInv, OwnsJob, OnLockedJob
  <2> QED BY <1>4, <2>1, <2>2 DEF Frame
<1>8. AmbiguityCollected(ctx[q])' BY DEF Knows, AmbiguityCollected, Frame, Several
<1>9. StableUnlessDeleted(ctx[q])'
  <2> SUFFICES ASSUME deleted' = {} PROVE StableUnlessDeleted(ctx[q])'
    BY DEF StableUnlessDeleted
  <2>1. deleted = {} /\ \A o \in Stored : o \in Stored' BY DEF Frame
  <2>2. c.pc \in {"parent_lock", "load"} =>
            /\ c.occurrence \in Matching(Key(ctx[q].raw))'
            /\ occurrence'[c.occurrence].job = c.job
    BY <1>3, <2>1 DEF Knows, StableUnlessDeleted, Matching, Stored, Frame
  <2>3. c.pc # "idle" => Candidates(cols) \subseteq Candidates(Cols(ctx[q].raw))'
    BY <1>4, <2>1 DEF Candidates
  <2> QED BY <2>1, <2>2, <2>3 DEF Knows, StableUnlessDeleted, Several
<1>10. LockOrder(ctx[q], held[q])' BY DEF Knows, LockOrder, Tags
<1> QED BY <1>5, <1>6, <1>7, <1>8, <1>9, <1>10 DEF Knows

\* A call that moves without touching a table.
LEMMA MovedKnows ==
    ASSUME TypeOK, NEW p \in Procs, NEW c, NEW h,
           UNCHANGED tables, Become(p, c), held' = [held EXCEPT ![p] = h], Knows(c, h)
    PROVE  Knows(ctx[p], held[p])'
<1>1. ctx'[p] = c /\ held'[p] = h BY DEF Become, TypeOK
<1>2. /\ \A k : Matching(k)' = Matching(k)
      /\ \A d : Candidates(d)' = Candidates(d)
  BY DEF tables, Matching, Candidates, Stored
<1>3. FoundMatches(ctx[p])'
  BY <1>1, <1>2 DEF Knows, FoundMatches, tables, Cols, Key
<1>4. TierUsed(ctx[p])' BY <1>1 DEF Knows, TierUsed, tables, Cols
<1>5. AttachedSupported(ctx[p])' BY <1>1, <1>2 DEF Knows, AttachedSupported, tables, Cols
<1>6. AmbiguityCollected(ctx[p])'
  BY <1>1 DEF Knows, AmbiguityCollected, tables, Several, Settled
<1>7. StableUnlessDeleted(ctx[p])'
  BY <1>1, <1>2 DEF Knows, StableUnlessDeleted, tables, Cols, Key, Several
<1>8. LockOrder(ctx[p], held[p])' BY <1>1 DEF Knows, LockOrder, Tags
<1> QED BY <1>3, <1>4, <1>5, <1>6, <1>7, <1>8 DEF Knows

LEMMA StillHeld ==
    ASSUME TypeOK, UNCHANGED held, NEW p \in Procs
    PROVE  held' = [held EXCEPT ![p] = held[p]]
BY DEF TypeOK

\* Which lock has which tag.
LEMMA LockTags ==
    /\ \A r : RawRowLock(r).tag \in RawTags
    /\ \A c \in IdentityColumns : resolve_natural_key(c) # None =>
         advisory_lock_key(resolve_natural_key(c)).tag \in KeyTags
    /\ \A c \in IdentityColumns : SignalLock(c).tag \in SignalTags
<1>1. ASSUME NEW c \in IdentityColumns, resolve_natural_key(c) # None
      PROVE  advisory_lock_key(resolve_natural_key(c)).tag \in KeyTags
  BY <1>1, KeyForms DEF advisory_lock_key, Lock, KeyTags
<1>2. ASSUME NEW c \in IdentityColumns PROVE SignalLock(c).tag \in SignalTags
  BY DEF SignalLock, canonical_url_advisory_lock_key, tenant_requisition_advisory_lock_key,
         Lock, SignalTags
<1>3. \A r : RawRowLock(r).tag \in RawTags BY DEF RawRowLock, Lock, RawTags
<1> QED BY <1>1, <1>2, <1>3

\* An idle call knows nothing.
LEMMA IdleKnows == Knows(Idle, {})
BY DEF Idle, Knows, FoundMatches, TierUsed, AttachedSupported, AmbiguityCollected,
       StableUnlessDeleted, LockOrder

LEMMA LockRawKnows ==
    ASSUME IInv, KInv, NEW p \in Procs, LockRaw(p)
    PROVE  Knows(ctx[p], held[p])'
<1> DEFINE label == IF raw[ctx[p].raw].status = "fetched" /\ raw[ctx[p].raw].occurrence = None
                    THEN "key_lock" ELSE "invalid"
           c == [ctx[p] EXCEPT !.pc = label]
           h == held[p] \cup {RawRowLock(ctx[p].raw)}
<1>1. ctx[p].pc = "raw_lock" /\ held[p] = {}
  BY DEF LockRaw, At, KInv, Knows, LockOrder
<1>2. Become(p, c) /\ held' = [held EXCEPT ![p] = h] /\ UNCHANGED tables
  BY DEF LockRaw, Acquire, Goto
<1>3. c.pc \in {"key_lock", "invalid"}
  BY CallFacts DEF Context
<1> HIDE DEF c
<1>4. Tags(h) \subseteq RawTags BY <1>1, LockTags DEF Tags
<1>5. Knows(c, h)
  BY <1>3, <1>4 DEF Knows, FoundMatches, TierUsed, AttachedSupported, AmbiguityCollected,
       StableUnlessDeleted, LockOrder
<1> QED BY <1>2, <1>5, MovedKnows DEF IInv

LEMMA LockKeyKnows ==
    ASSUME IInv, KInv, NEW p \in Procs, LockKey(p)
    PROVE  Knows(ctx[p], held[p])'
<1> DEFINE c == [ctx[p] EXCEPT !.pc = "probe"]
           h == held[p] \cup {advisory_lock_key(MyKey(p))}
<1>1. ctx[p].pc = "key_lock" /\ Tags(held[p]) \subseteq RawTags
  BY DEF LockKey, At, KInv, Knows, LockOrder
<1>2. Become(p, c) /\ held' = [held EXCEPT ![p] = h] /\ UNCHANGED tables
  BY DEF LockKey, Acquire, Goto
<1>3. c.pc = "probe" BY CallFacts DEF Context
<1> HIDE DEF c
<1>4. Cols(ctx[p].raw) \in IdentityColumns /\ Key(ctx[p].raw) # None
  BY <1>1, CallFacts DEF CallInv, HasRaw
<1>5. Tags(h) \subseteq RawTags \cup KeyTags
  BY <1>1, <1>4, LockTags DEF Tags, MyKey, Key
<1>6. Knows(c, h)
  BY <1>3, <1>5 DEF Knows, FoundMatches, TierUsed, AttachedSupported, AmbiguityCollected,
       StableUnlessDeleted, LockOrder
<1> QED BY <1>2, <1>6, MovedKnows DEF IInv

LEMMA LockSignalKnows ==
    ASSUME IInv, KInv, NEW p \in Procs, LockSignal(p)
    PROVE  Knows(ctx[p], held[p])'
<1> DEFINE c == [ctx[p] EXCEPT !.pc = "discover"]
           h == held[p] \cup {SignalLock(MyCols(p))}
<1>1. /\ ctx[p].pc = "signal_lock" /\ Tags(held[p]) \subseteq RawTags \cup KeyTags
      /\ UsesTier2(Cols(ctx[p].raw)) \/ UsesTier3(Cols(ctx[p].raw))
  BY DEF LockSignal, At, KInv, Knows, LockOrder, TierUsed
<1>2. Become(p, c) /\ held' = [held EXCEPT ![p] = h] /\ UNCHANGED tables
  BY DEF LockSignal, Acquire, Goto
<1>3. c.pc = "discover" /\ c.raw = ctx[p].raw BY CallFacts DEF Context
<1> HIDE DEF c
<1>4. Cols(ctx[p].raw) \in IdentityColumns
  BY <1>1, CallFacts
<1>5. Tags(h) \subseteq RawTags \cup KeyTags \cup SignalTags
  BY <1>1, <1>4, LockTags DEF Tags, MyCols
<1>6. Knows(c, h)
  BY <1>1, <1>3, <1>5 DEF Knows, FoundMatches, TierUsed, AttachedSupported, AmbiguityCollected,
       StableUnlessDeleted, LockOrder
<1> QED BY <1>2, <1>6, MovedKnows DEF IInv

\* The Job's row is there unless it was deleted.
LEMMA LockJobKnows ==
    ASSUME IInv, KInv, NEW p \in Procs, NEW next,
           \/ ctx[p].pc = "parent_lock" /\ next = "load"
           \/ ctx[p].pc = "candidate_lock" /\ next = "recheck",
           LockJob(p, next)
    PROVE  Knows(ctx[p], held[p])'
<1> DEFINE j == ctx[p].job
<1>1. UNCHANGED tables BY DEF LockJob
<1>2. ctx[p] \in Context /\ Knows(ctx[p], held[p]) BY CallFacts DEF KInv
<1>3. CASE job[j] = None
  <2> DEFINE c == [ctx[p] EXCEPT !.pc = "unstable"]
  <2>1. Become(p, c) /\ UNCHANGED held BY <1>3 DEF LockJob, Goto
  <2>2. c.pc = "unstable" BY <1>2 DEF Context
  <2> HIDE DEF c
  <2>3. deleted # {}
    <3> SUFFICES ASSUME deleted = {} PROVE FALSE OBVIOUS
    <3>1. \E o \in Stored : occurrence[o].job = j
      BY <1>2 DEF Knows, StableUnlessDeleted, Matching, Candidates
    <3> QED BY <1>3, <3>1 DEF KInv, StoredHasJob
  <2>4. Knows(c, held[p])
    BY <2>2, <2>3 DEF Knows, FoundMatches, TierUsed, AttachedSupported, AmbiguityCollected,
         StableUnlessDeleted, LockOrder
  <2> QED BY <1>1, <2>1, <2>4, MovedKnows, StillHeld DEF IInv
<1>4. CASE job[j] # None
  <2> DEFINE c == [ctx[p] EXCEPT !.pc = next, !.job_last = job[j].last_seen_at]
             h == held[p] \cup {JobRowLock(j)}
  <2>1. Become(p, c) /\ held' = [held EXCEPT ![p] = h] BY <1>4 DEF LockJob
  <2>2. c.pc = next /\ c.raw = ctx[p].raw /\ c.job = j /\ c.occurrence = ctx[p].occurrence
    BY <1>2 DEF Context
  <2> HIDE DEF c
  <2>3. Knows(c, h)
    BY <1>2, <2>2 DEF Knows, FoundMatches, TierUsed, AttachedSupported, AmbiguityCollected,
         StableUnlessDeleted, LockOrder
  <2> QED BY <1>1, <2>1, <2>3, MovedKnows DEF IInv
<1> QED BY <1>3, <1>4

LEMMA ProbeKnows ==
    ASSUME IInv, KInv, NEW p \in Procs, Probe(p)
    PROVE  Knows(ctx[p], held[p])'
<1> DEFINE found == Matching(MyKey(p))
<1>1. ctx[p].pc = "probe" /\ UNCHANGED <<tables, held>> BY DEF Probe, At
<1>2. ctx[p] \in Context /\ Knows(ctx[p], held[p]) BY CallFacts DEF KInv
<1>3. CASE found # {}
  <2>1. PICK o \in found :
          Become(p, [ctx[p] EXCEPT !.pc = "parent_lock", !.occurrence = o,
                                   !.job = occurrence[o].job])
    BY <1>3 DEF Probe
  <2> DEFINE c == [ctx[p] EXCEPT !.pc = "parent_lock", !.occurrence = o,
                                 !.job = occurrence[o].job]
  <2>2. /\ c.pc = "parent_lock" /\ c.raw = ctx[p].raw /\ c.occurrence = o
        /\ c.job = occurrence[o].job
    BY <1>2 DEF Context
  <2> HIDE DEF c
  <2>3. Knows(c, held[p])
    BY <1>1, <1>2, <2>1, <2>2 DEF Knows, FoundMatches, TierUsed, AttachedSupported,
         AmbiguityCollected, StableUnlessDeleted, LockOrder, MyKey
  <2> QED BY <1>1, <2>1, <2>3, MovedKnows, StillHeld DEF IInv, c
<1>4. CASE /\ UsesTier2(MyCols(p)) \/ UsesTier3(MyCols(p))
           /\ Goto(p, "signal_lock")
  <2> DEFINE c == [ctx[p] EXCEPT !.pc = "signal_lock"]
  <2>1. c.pc = "signal_lock" /\ c.raw = ctx[p].raw /\ Become(p, c)
    BY <1>2, <1>4 DEF Context, Goto
  <2> HIDE DEF c
  <2>2. Knows(c, held[p])
    BY <1>1, <1>2, <1>4, <2>1 DEF Knows, FoundMatches, TierUsed, AttachedSupported,
         AmbiguityCollected, StableUnlessDeleted, LockOrder, MyCols
  <2> QED BY <1>1, <2>1, <2>2, MovedKnows, StillHeld DEF IInv
<1>5. CASE Become(p, [ctx[p] EXCEPT !.pc = "write", !.kind = "INSERTED"])
  <2> DEFINE c == [ctx[p] EXCEPT !.pc = "write", !.kind = "INSERTED"]
  <2>1. c.pc = "write" /\ c.kind = "INSERTED" /\ Become(p, c)
    BY <1>2, <1>5 DEF Context
  <2> HIDE DEF c
  <2>2. Knows(c, held[p])
    BY <2>1 DEF Knows, FoundMatches, TierUsed, AttachedSupported, AmbiguityCollected,
         StableUnlessDeleted, LockOrder
  <2> QED BY <1>1, <2>1, <2>2, MovedKnows, StillHeld DEF IInv
<1> QED BY <1>3, <1>4, <1>5 DEF Probe

LEMMA LoadOccurrenceKnows ==
    ASSUME IInv, KInv, NEW p \in Procs, LoadOccurrence(p)
    PROVE  Knows(ctx[p], held[p])'
<1> DEFINE o == ctx[p].occurrence
           mine == MyCols(p).canonical_url_normalized
           stored == occurrence[o].columns.canonical_url_normalized
           kind == IF None \notin {stored, mine} /\ stored # mine
                   THEN "QUARANTINED" ELSE "UPDATED"
<1>1. ctx[p].pc = "load" /\ UNCHANGED <<tables, held>> BY DEF LoadOccurrence, At
<1>2. ctx[p] \in Context /\ Knows(ctx[p], held[p]) BY CallFacts DEF KInv
<1>3. CASE o \in Matching(MyKey(p)) /\ occurrence[o].job = ctx[p].job
  <2> DEFINE c == [ctx[p] EXCEPT !.pc = "write", !.occ_last = occurrence[o].last_seen_at,
                                 !.kind = kind]
  <2>1. Become(p, c) BY <1>3 DEF LoadOccurrence
  <2>2. c.pc = "write" /\ c.raw = ctx[p].raw /\ c.occurrence = o /\ c.kind = kind
    BY <1>2 DEF Context
  <2> HIDE DEF c
  <2>3. kind \in {"QUARANTINED", "UPDATED"} OBVIOUS
  <2>4. kind = "QUARANTINED" <=> None \notin {stored, mine} /\ stored # mine OBVIOUS
  <2> HIDE DEF kind
  <2>5. Knows(c, held[p])
    BY <1>1, <1>2, <1>3, <2>2, <2>3, <2>4
       DEF Knows, FoundMatches, TierUsed, AttachedSupported, AmbiguityCollected,
           StableUnlessDeleted, LockOrder, MyKey, MyCols
  <2> QED BY <1>1, <2>1, <2>5, MovedKnows, StillHeld DEF IInv
<1>4. CASE ~(o \in Matching(MyKey(p)) /\ occurrence[o].job = ctx[p].job)
  <2> DEFINE c == [ctx[p] EXCEPT !.pc = "unstable"]
  <2>1. Become(p, c) BY <1>4 DEF LoadOccurrence, Goto
  <2>2. c.pc = "unstable" BY <1>2 DEF Context
  <2> HIDE DEF c
  <2>3. deleted # {} BY <1>1, <1>2, <1>4 DEF Knows, StableUnlessDeleted, MyKey
  <2>4. Knows(c, held[p])
    BY <2>2, <2>3 DEF Knows, FoundMatches, TierUsed, AttachedSupported, AmbiguityCollected,
         StableUnlessDeleted, LockOrder
  <2> QED BY <1>1, <2>1, <2>4, MovedKnows, StillHeld DEF IInv
<1> QED BY <1>3, <1>4

LEMMA DiscoverKnows ==
    ASSUME IInv, KInv, NEW p \in Procs, Discover(p)
    PROVE  Knows(ctx[p], held[p])'
<1> DEFINE found == Candidates(MyCols(p))
<1>1. ctx[p].pc = "discover" /\ UNCHANGED <<tables, held>> BY DEF Discover, At
<1>2. ctx[p] \in Context /\ Knows(ctx[p], held[p]) BY CallFacts DEF KInv
<1>3. CASE Become(p, [ctx[p] EXCEPT !.pc = "write", !.kind = "INSERTED"])
  <2> DEFINE c == [ctx[p] EXCEPT !.pc = "write", !.kind = "INSERTED"]
  <2>1. c.pc = "write" /\ c.kind = "INSERTED" /\ Become(p, c)
    BY <1>2, <1>3 DEF Context
  <2> HIDE DEF c
  <2>2. Knows(c, held[p])
    BY <2>1 DEF Knows, FoundMatches, TierUsed, AttachedSupported, AmbiguityCollected,
         StableUnlessDeleted, LockOrder
  <2> QED BY <1>1, <2>1, <2>2, MovedKnows, StillHeld DEF IInv
<1>4. CASE Several(found) /\ Goto(p, "discover_all")
  <2> DEFINE c == [ctx[p] EXCEPT !.pc = "discover_all"]
  <2>1. c.pc = "discover_all" /\ c.raw = ctx[p].raw /\ Become(p, c)
    BY <1>2, <1>4 DEF Context, Goto
  <2> HIDE DEF c
  <2>2. Knows(c, held[p])
    BY <1>1, <1>2, <1>4, <2>1 DEF Knows, FoundMatches, TierUsed, AttachedSupported,
         AmbiguityCollected, StableUnlessDeleted, LockOrder, MyCols
  <2> QED BY <1>1, <2>1, <2>2, MovedKnows, StillHeld DEF IInv
<1>5. ASSUME NEW j \in found, Become(p, [ctx[p] EXCEPT !.pc = "candidate_lock", !.job = j])
      PROVE  Knows(ctx[p], held[p])'
  <2> DEFINE c == [ctx[p] EXCEPT !.pc = "candidate_lock", !.job = j]
  <2>1. c.pc = "candidate_lock" /\ c.raw = ctx[p].raw /\ c.job = j /\ Become(p, c)
    BY <1>2, <1>5 DEF Context
  <2> HIDE DEF c
  <2>2. Knows(c, held[p])
    BY <1>1, <1>2, <1>5, <2>1 DEF Knows, FoundMatches, TierUsed, AttachedSupported,
         AmbiguityCollected, StableUnlessDeleted, LockOrder, MyCols
  <2> QED BY <1>1, <2>1, <2>2, MovedKnows, StillHeld DEF IInv
<1> QED BY <1>3, <1>4, <1>5 DEF Discover

LEMMA RecheckKnows ==
    ASSUME IInv, KInv, NEW p \in Procs, Recheck(p)
    PROVE  Knows(ctx[p], held[p])'
<1> DEFINE found == Candidates(MyCols(p))
<1>1. ctx[p].pc = "recheck" /\ UNCHANGED <<tables, held>> BY DEF Recheck, At
<1>2. ctx[p] \in Context /\ Knows(ctx[p], held[p]) BY CallFacts DEF KInv
<1>3. CASE Several(found) /\ Goto(p, "discover_all")
  <2> DEFINE c == [ctx[p] EXCEPT !.pc = "discover_all"]
  <2>1. c.pc = "discover_all" /\ c.raw = ctx[p].raw /\ Become(p, c)
    BY <1>2, <1>3 DEF Context, Goto
  <2> HIDE DEF c
  <2>2. Knows(c, held[p])
    BY <1>1, <1>2, <1>3, <2>1 DEF Knows, FoundMatches, TierUsed, AttachedSupported,
         AmbiguityCollected, StableUnlessDeleted, LockOrder, MyCols
  <2> QED BY <1>1, <2>1, <2>2, MovedKnows, StillHeld DEF IInv
<1>4. CASE /\ found = {ctx[p].job}
           /\ Become(p, [ctx[p] EXCEPT !.pc = "write", !.kind = "ATTACHED"])
  <2> DEFINE c == [ctx[p] EXCEPT !.pc = "write", !.kind = "ATTACHED"]
  <2>1. /\ c.pc = "write" /\ c.kind = "ATTACHED" /\ c.raw = ctx[p].raw /\ c.job = ctx[p].job
        /\ Become(p, c)
    BY <1>2, <1>4 DEF Context
  <2> HIDE DEF c
  <2>2. Knows(c, held[p])
    BY <1>1, <1>2, <1>4, <2>1 DEF Knows, FoundMatches, TierUsed, AttachedSupported,
         AmbiguityCollected, StableUnlessDeleted, LockOrder, MyCols
  <2> QED BY <1>1, <2>1, <2>2, MovedKnows, StillHeld DEF IInv
<1>5. CASE ~Several(found) /\ found # {ctx[p].job} /\ Goto(p, "unstable")
  <2> DEFINE c == [ctx[p] EXCEPT !.pc = "unstable"]
  <2>1. c.pc = "unstable" /\ Become(p, c) BY <1>2, <1>5 DEF Context, Goto
  <2> HIDE DEF c
  <2>2. deleted # {}
    BY <1>1, <1>2, <1>5 DEF Knows, StableUnlessDeleted, MyCols, Several
  <2>3. Knows(c, held[p])
    BY <2>1, <2>2 DEF Knows, FoundMatches, TierUsed, AttachedSupported, AmbiguityCollected,
         StableUnlessDeleted, LockOrder
  <2> QED BY <1>1, <2>1, <2>3, MovedKnows, StillHeld DEF IInv
<1> QED BY <1>3, <1>4, <1>5 DEF Recheck

LEMMA DiscoverAllKnows ==
    ASSUME IInv, KInv, NEW p \in Procs, DiscoverAll(p)
    PROVE  Knows(ctx[p], held[p])'
<1> DEFINE found == Candidates(MyCols(p))
<1>1. ctx[p].pc = "discover_all" /\ UNCHANGED <<tables, held>> BY DEF DiscoverAll, At
<1>2. ctx[p] \in Context /\ Knows(ctx[p], held[p]) BY CallFacts DEF KInv
<1>3. CASE /\ Several(found)
           /\ Become(p, [ctx[p] EXCEPT !.pc = "write", !.kind = "AMBIGUOUS",
                                       !.candidates = found])
  <2> DEFINE c == [ctx[p] EXCEPT !.pc = "write", !.kind = "AMBIGUOUS", !.candidates = found]
  <2>1. /\ c.pc = "write" /\ c.kind = "AMBIGUOUS" /\ c.raw = ctx[p].raw /\ c.candidates = found
        /\ Become(p, c)
    BY <1>2, <1>3 DEF Context
  <2> HIDE DEF c
  <2>2. \A k \in found : k \in Raws /\ Settled(k)
    <3>1. ASSUME NEW o \in Stored PROVE occurrence[o].job \in Raws /\ Settled(occurrence[o].job)
      BY RowTypes DEF IInv, TablesInv, StoredIsSettled, Settled, KInv, StoredHasJob
    <3> QED BY <3>1 DEF Candidates
  <2>3. Knows(c, held[p])
    BY <1>1, <1>2, <1>3, <2>1, <2>2 DEF Knows, FoundMatches, TierUsed, AttachedSupported,
         AmbiguityCollected, StableUnlessDeleted, LockOrder, MyCols
  <2> QED BY <1>1, <2>1, <2>3, MovedKnows, StillHeld DEF IInv
<1>4. CASE ~Several(found) /\ Goto(p, "unstable")
  <2> DEFINE c == [ctx[p] EXCEPT !.pc = "unstable"]
  <2>1. c.pc = "unstable" /\ Become(p, c) BY <1>2, <1>4 DEF Context, Goto
  <2> HIDE DEF c
  <2>2. deleted # {} BY <1>1, <1>2, <1>4 DEF Knows, StableUnlessDeleted, MyCols
  <2>3. Knows(c, held[p])
    BY <2>1, <2>2 DEF Knows, FoundMatches, TierUsed, AttachedSupported, AmbiguityCollected,
         StableUnlessDeleted, LockOrder
  <2> QED BY <1>1, <2>1, <2>3, MovedKnows, StillHeld DEF IInv
<1> QED BY <1>3, <1>4 DEF DiscoverAll

LEMMA CallKnows ==
    ASSUME IInv, KInv, NEW p \in Procs, NEW r \in Raws, NEW t \in Times, Call(p, r, t)
    PROVE  Knows(ctx[p], held[p])'
<1> DEFINE c == [Idle EXCEPT !.pc = "raw_lock", !.raw = r, !.observed_at = t]
<1>1. held[p] = {} BY DEF Call, At, KInv, Knows, LockOrder
<1>2. c.pc = "raw_lock" BY DEF Idle
<1>3. Become(p, c) /\ UNCHANGED <<tables, held>> BY DEF Call
<1> HIDE DEF c
<1>4. Knows(c, held[p])
  BY <1>1, <1>2 DEF Knows, FoundMatches, TierUsed, AttachedSupported, AmbiguityCollected,
       StableUnlessDeleted, LockOrder
<1> QED BY <1>3, <1>4, MovedKnows, StillHeld DEF IInv

\* A call that ends knows nothing, whatever it wrote.
LEMMA EndKnows ==
    ASSUME IInv, NEW p \in Procs, End(p)
    PROVE  Knows(ctx[p], held[p])'
<1>1. ctx'[p] = Idle /\ held'[p] = {} BY DEF End, Become, IInv, TypeOK
<1> QED
  BY <1>1 DEF Idle, Knows, FoundMatches, TierUsed, AttachedSupported, AmbiguityCollected,
       StableUnlessDeleted, LockOrder

\* A step of one call leaves the others where they were.
LEMMA OthersUnmoved ==
    ASSUME IInv, NEW p \in Procs, NEW q \in Procs \ {p},
           \/ LockStep(p) \/ ReadStep(p) \/ Commit(p) \/ Rollback(p)
           \/ \E r \in Raws, t \in Times : Call(p, r, t)
    PROVE  ctx'[q] = ctx[q] /\ held'[q] = held[q]
<1> USE DEF Become, Goto, Acquire, End
<1>1. /\ ctx \in [Procs -> Context]
      /\ held \in [Procs -> SUBSET Locks]
  BY DEF IInv, TypeOK
<1>2. CASE LockStep(p)
  BY <1>1, <1>2 DEF LockStep, LockRaw, LockKey, LockParent, LockSignal, LockCandidate, LockJob
<1>3. CASE ReadStep(p)
  BY <1>1, <1>3 DEF ReadStep, Probe, LoadOccurrence, Discover, Recheck, DiscoverAll
<1>4. CASE Commit(p) \/ Rollback(p)
  BY <1>1, <1>4 DEF Commit, CommitFound, CommitAttached, CommitNewJob, Rollback
<1>5. CASE \E r \in Raws, t \in Times : Call(p, r, t)
  BY <1>1, <1>5 DEF Call
<1> QED BY <1>2, <1>3, <1>4, <1>5

LEMMA KnowsStep ==
    ASSUME IInv, KInv, [Next]_vars, NEW q \in Procs
    PROVE  Knows(ctx[q], held[q])'
<1>1. IInv' /\ Frame BY StepIInv, FrameStep
<1>2. ASSUME ctx'[q] = ctx[q], held'[q] = held[q] PROVE Knows(ctx[q], held[q])'
  BY <1>1, <1>2, UnmovedKnows DEF KInv
<1>3. CASE LockStep(q)
  <2>1. CASE LockParent(q) \/ LockCandidate(q)
    BY <2>1, LockJobKnows DEF LockParent, LockCandidate, At
  <2> QED BY <1>3, <2>1, LockRawKnows, LockKeyKnows, LockSignalKnows DEF LockStep
<1>4. CASE ReadStep(q)
  BY <1>4, ProbeKnows, LoadOccurrenceKnows, DiscoverKnows, RecheckKnows, DiscoverAllKnows
     DEF ReadStep
<1>5. CASE Commit(q) \/ Rollback(q)
  BY <1>5, EndKnows DEF Commit, CommitFound, CommitAttached, CommitNewJob, Rollback
<1>6. CASE \E r \in Raws, t \in Times : Call(q, r, t) BY <1>6, CallKnows
<1>7. ASSUME NEW p \in Procs, p # q,
             \/ LockStep(p) \/ ReadStep(p) \/ Commit(p) \/ Rollback(p)
             \/ \E r \in Raws, t \in Times : Call(p, r, t)
      PROVE  Knows(ctx[q], held[q])'
  BY <1>2, <1>7, OthersUnmoved
<1>8. CASE \/ \E r \in Raws, d \in Postings : Fetch(r, d)
           \/ \E r \in Raws : MarkParseError(r)
           \/ \E j \in Raws : DeleteJob(j)
           \/ UNCHANGED vars
  BY <1>2, <1>8 DEF Fetch, MarkParseError, DeleteJob, vars
<1> QED BY <1>3, <1>4, <1>5, <1>6, <1>7, <1>8 DEF Next

-----------------------------------------------------------------------------
(***************************************************************************)
(* What each step that writes does to the tables.                          *)
(***************************************************************************)

\* The raw row of a call that commits.
LEMMA SettledRow ==
    ASSUME IInv, NEW p \in Procs, At(p, "write"),
           NEW status \in {"normalized", "identity_conflict"}, NEW o \in Raws,
           Settle(p, status, o)
    PROVE  LET r == ctx[p].raw
           IN  /\ raw'[r] # None /\ raw'[r].posting = raw[r].posting
               /\ raw'[r].status = status /\ raw'[r].occurrence = o
               /\ \A x \in Raws : x # r => raw'[x] = raw[x]
<1> DEFINE r == ctx[p].raw
           row == [[raw[r] EXCEPT !.status = status] EXCEPT !.occurrence = o]
<1>1. raw \in [Raws -> RawRow \cup {None}] /\ r \in Raws /\ raw[r] \in RawRow
  BY WriteFacts DEF IInv, TypeOK
<1>2. /\ row \in RawRow /\ row # None
      /\ row.posting = raw[r].posting /\ row.status = status /\ row.occurrence = o
  BY <1>1, NullAssumption DEF RawRow
<1>3. raw' = [raw EXCEPT ![r] = row] BY <1>1 DEF Settle
<1> HIDE DEF row
<1> QED BY <1>1, <1>2, <1>3

\* The Job that a call that commits has seen again.
LEMMA SeenAgain ==
    ASSUME IInv, NEW p \in Procs, At(p, "write"), OnLockedJob(ctx[p]),
           job' = [job EXCEPT ![ctx[p].job].last_seen_at =
                     Max2(ctx[p].job_last, ctx[p].observed_at)]
    PROVE  LET j == ctx[p].job
           IN  /\ j \in Raws /\ job[j] # None /\ job'[j] # None
               /\ job'[j].last_seen_at = Max2(job[j].last_seen_at, ctx[p].observed_at)
               /\ \A k \in Raws : k # j => job'[k] = job[k]
<1> DEFINE j == ctx[p].job
           t == Max2(job[j].last_seen_at, ctx[p].observed_at)
           row == [job[j] EXCEPT !.last_seen_at = t]
<1>1. /\ j \in Raws /\ job[j] # None /\ job[j].last_seen_at = ctx[p].job_last
      /\ ctx[p].observed_at \in Nat /\ ctx[p].job_last \in Nat
  BY CallFacts, WriteFacts DEF CallInv, OwnsJob, Context
<1>2. job \in [Raws -> JobRow \cup {None}] BY DEF IInv, TypeOK
<1>3. t \in Nat BY <1>1 DEF Max2
<1> HIDE DEF t
<1>4. row \in JobRow /\ row # None /\ row.last_seen_at = t
  BY <1>1, <1>2, <1>3, NullAssumption DEF JobRow
<1>5. job' = [job EXCEPT ![j] = row] BY <1>1, <1>2 DEF t
<1> HIDE DEF row
<1> QED BY <1>1, <1>2, <1>4, <1>5 DEF t

\* A known posting is seen again.
LEMMA FoundEffect ==
    ASSUME IInv, NEW p \in Procs, CommitFound(p)
    PROVE  LET o == ctx[p].occurrence
               j == ctx[p].job
               r == ctx[p].raw
               t == ctx[p].observed_at
           IN  /\ o \in Stored /\ occurrence[o].job = j
               /\ Stored' = Stored
               /\ \A e \in Stored : e # o => occurrence'[e] = occurrence[e]
               /\ occurrence'[o].job = j
               /\ occurrence'[o].columns = occurrence[o].columns
               /\ occurrence'[o].last_seen_at = Max2(occurrence[o].last_seen_at, t)
               /\ j \in Raws /\ job[j] # None /\ job'[j] # None
               /\ job'[j].last_seen_at = Max2(job[j].last_seen_at, t)
               /\ \A k \in Raws : k # j => job'[k] = job[k]
               /\ raw'[r] # None /\ raw'[r].posting = raw[r].posting
               /\ raw'[r].occurrence = o
               /\ raw'[r].status = IF ctx[p].kind = "QUARANTINED" THEN "identity_conflict"
                                   ELSE "normalized"
               /\ \A x \in Raws : x # r => raw'[x] = raw[x]
<1> DEFINE o == ctx[p].occurrence
           t == Max2(occurrence[o].last_seen_at, ctx[p].observed_at)
           row == [occurrence[o] EXCEPT !.last_seen_at = t]
           status == IF ctx[p].kind = "QUARANTINED" THEN "identity_conflict" ELSE "normalized"
<1>1. At(p, "write") /\ ctx[p].kind \in {"UPDATED", "QUARANTINED"} BY DEF CommitFound
<1>2. /\ o \in Stored /\ occurrence[o].job = ctx[p].job
      /\ occurrence[o].last_seen_at = ctx[p].occ_last
      /\ ctx[p].occ_last \in Nat /\ ctx[p].observed_at \in Nat
  BY <1>1, CallFacts, WriteFacts DEF CallInv, OwnsOccurrence, At, Context
<1>3. occurrence \in [Raws -> OccurrenceRow \cup {None}] /\ o \in Raws
  BY <1>2 DEF IInv, TypeOK, Stored
<1>4. t \in Nat BY <1>2 DEF Max2
<1>5. occurrence' = [occurrence EXCEPT ![o] = row] BY <1>2, <1>3 DEF CommitFound
<1> HIDE DEF t
<1>6. /\ row # None /\ row.job = occurrence[o].job /\ row.columns = occurrence[o].columns
      /\ row.last_seen_at = t
  BY <1>2, <1>4, RowTypes, NullAssumption DEF OccurrenceRow, IInv
<1> HIDE DEF row
<1>7. /\ Stored' = Stored /\ occurrence'[o] = row
      /\ \A e \in Stored : e # o => occurrence'[e] = occurrence[e]
  BY <1>2, <1>3, <1>5, <1>6 DEF Stored
<1>8. LET j == ctx[p].job
      IN  /\ j \in Raws /\ job[j] # None /\ job'[j] # None
          /\ job'[j].last_seen_at = Max2(job[j].last_seen_at, ctx[p].observed_at)
          /\ \A k \in Raws : k # j => job'[k] = job[k]
  BY <1>1, SeenAgain DEF CommitFound, OnLockedJob, At
<1>9. Settle(p, status, o) /\ status \in {"normalized", "identity_conflict"}
  BY DEF CommitFound
<1> HIDE DEF status
<1>10. LET r == ctx[p].raw
       IN  /\ raw'[r] # None /\ raw'[r].posting = raw[r].posting
           /\ raw'[r].status = status /\ raw'[r].occurrence = o
           /\ \A x \in Raws : x # r => raw'[x] = raw[x]
  BY <1>1, <1>3, <1>9, SettledRow
<1> QED BY <1>2, <1>6, <1>7, <1>8, <1>10 DEF t, status

\* An unknown posting becomes an occurrence of Job j.
AddedTo(p, j) ==
    LET r == ctx[p].raw
    IN  /\ r \in Raws /\ r \notin Stored /\ job[r] = None
        /\ raw[r] # None /\ raw[r].status = "fetched"
        /\ Stored' = Stored \cup {r}
        /\ occurrence'[r].job = j
        /\ occurrence'[r].columns = Cols(r)
        /\ occurrence'[r].last_seen_at = ctx[p].observed_at
        /\ \A e \in Stored : occurrence'[e] = occurrence[e]
        /\ raw'[r] # None /\ raw'[r].posting = raw[r].posting
        /\ raw'[r].occurrence = r
        /\ raw'[r].status = IF ctx[p].kind = "AMBIGUOUS" THEN "identity_conflict"
                            ELSE "normalized"
        /\ \A x \in Raws : x # r => raw'[x] = raw[x]

LEMMA AddedEffect ==
    ASSUME IInv, NEW p \in Procs, At(p, "write"), NEW j \in Raws,
           occurrence' = [occurrence EXCEPT ![ctx[p].raw] = NewOccurrence(p, j)],
           Settle(p, IF ctx[p].kind = "AMBIGUOUS" THEN "identity_conflict" ELSE "normalized",
                  ctx[p].raw)
    PROVE  AddedTo(p, j)
<1> DEFINE r == ctx[p].raw
           row == NewOccurrence(p, j)
           status == IF ctx[p].kind = "AMBIGUOUS" THEN "identity_conflict" ELSE "normalized"
<1>1. /\ r \in Raws /\ r \notin Stored /\ raw[r] # None /\ raw[r].status = "fetched"
      /\ Cols(r) \in IdentityColumns /\ ctx[p].observed_at \in Nat
  BY WriteFacts
<1>2. job[r] = None BY <1>1 DEF IInv, TablesInv, StoredIsSettled
<1>3. occurrence \in [Raws -> OccurrenceRow \cup {None}] BY DEF IInv, TypeOK
<1>4. /\ row # None /\ row.job = j /\ row.columns = Cols(r)
      /\ row.last_seen_at = ctx[p].observed_at
  BY <1>1, NullAssumption DEF NewOccurrence, MyCols, OccurrenceRow
<1> HIDE DEF row
<1>5. /\ Stored' = Stored \cup {r} /\ occurrence'[r] = row
      /\ \A e \in Stored : occurrence'[e] = occurrence[e]
  BY <1>1, <1>3, <1>4 DEF Stored, row
<1>6. Settle(p, status, r) /\ status \in {"normalized", "identity_conflict"} OBVIOUS
<1> HIDE DEF status
<1>7. /\ raw'[r] # None /\ raw'[r].posting = raw[r].posting
      /\ raw'[r].status = status /\ raw'[r].occurrence = r
      /\ \A x \in Raws : x # r => raw'[x] = raw[x]
  BY <1>1, <1>6, SettledRow
<1> QED BY <1>1, <1>2, <1>4, <1>5, <1>7 DEF AddedTo, status

LEMMA AttachedEffect ==
    ASSUME IInv, NEW p \in Procs, CommitAttached(p)
    PROVE  LET j == ctx[p].job
           IN  /\ AddedTo(p, j)
               /\ ctx[p].kind = "ATTACHED" /\ ctx[p].pc = "write"
               /\ j \in Raws /\ job[j] # None /\ job'[j] # None
               /\ job'[j].last_seen_at = Max2(job[j].last_seen_at, ctx[p].observed_at)
               /\ \A k \in Raws : k # j => job'[k] = job[k]
<1>1. At(p, "write") /\ ctx[p].kind = "ATTACHED" BY DEF CommitAttached
<1>2. LET j == ctx[p].job
      IN  /\ j \in Raws /\ job[j] # None /\ job'[j] # None
          /\ job'[j].last_seen_at = Max2(job[j].last_seen_at, ctx[p].observed_at)
          /\ \A k \in Raws : k # j => job'[k] = job[k]
  BY <1>1, SeenAgain DEF CommitAttached, OnLockedJob, At
<1>3. AddedTo(p, ctx[p].job) BY <1>1, <1>2, AddedEffect DEF CommitAttached
<1> QED BY <1>1, <1>2, <1>3 DEF At

LEMMA NewJobEffect ==
    ASSUME IInv, NEW p \in Procs, CommitNewJob(p)
    PROVE  LET r == ctx[p].raw
           IN  /\ AddedTo(p, r)
               /\ ctx[p].kind \in {"INSERTED", "AMBIGUOUS"} /\ ctx[p].pc = "write"
               /\ job'[r] # None /\ job'[r].last_seen_at = ctx[p].observed_at
               /\ \A k \in Raws : k # r => job'[k] = job[k]
<1> DEFINE r == ctx[p].raw
           row == [first_seen_at |-> ctx[p].observed_at, last_seen_at |-> ctx[p].observed_at]
<1>1. At(p, "write") /\ ctx[p].kind \in {"INSERTED", "AMBIGUOUS"} BY DEF CommitNewJob
<1>2. r \in Raws /\ ctx[p].observed_at \in Nat BY <1>1, WriteFacts
<1>3. AddedTo(p, r) BY <1>1, <1>2, AddedEffect DEF CommitNewJob
<1>4. job \in [Raws -> JobRow \cup {None}] BY DEF IInv, TypeOK
<1>5. row # None /\ row.last_seen_at = ctx[p].observed_at
  BY <1>2, NullAssumption DEF JobRow
<1>6. job' = [job EXCEPT ![r] = row] BY DEF CommitNewJob
<1> HIDE DEF row
<1> QED BY <1>1, <1>2, <1>3, <1>4, <1>5, <1>6 DEF At

\* A Job is deleted with its occurrences.
LEMMA DeleteEffect ==
    ASSUME IInv, NEW j \in Raws, DeleteJob(j)
    PROVE  /\ job[j] # None /\ job'[j] = None
           /\ \A k \in Raws : k # j => job'[k] = job[k]
           /\ \A o \in Raws : o \in Stored' <=> o \in Stored /\ occurrence[o].job # j
           /\ \A o \in Stored' : occurrence'[o] = occurrence[o]
           /\ \A r \in Raws :
                \/ /\ raw'[r] = raw[r]
                   /\ raw[r] = None \/ \/ raw[r].occurrence \notin Stored
                                       \/ occurrence[raw[r].occurrence].job # j
                \/ /\ raw[r] # None /\ raw'[r] # None
                   /\ raw[r].occurrence \in Stored
                   /\ occurrence[raw[r].occurrence].job = j
                   /\ raw'[r].posting = raw[r].posting /\ raw'[r].status = raw[r].status
                   /\ raw'[r].occurrence = None
           /\ DOMAIN conflicts' = DOMAIN conflicts
           /\ \A i \in DOMAIN conflicts : /\ conflicts'[i].raw = conflicts[i].raw
                                          /\ conflicts'[i].type = conflicts[i].type
                                          /\ conflicts'[i].candidates = conflicts[i].candidates
           /\ deleted' # {}
<1> DEFINE gone == {o \in Stored : occurrence[o].job = j}
           row(r) == [raw[r] EXCEPT !.occurrence = None]
           entry(i) == [conflicts[i] EXCEPT !.occurrence = None]
<1>1. /\ raw \in [Raws -> RawRow \cup {None}]
      /\ job \in [Raws -> JobRow \cup {None}]
      /\ occurrence \in [Raws -> OccurrenceRow \cup {None}]
      /\ conflicts \in Seq(ConflictRow)
  BY DEF IInv, TypeOK
<1>2. /\ job[j] # None
      /\ job' = [job EXCEPT ![j] = None]
      /\ occurrence' = [o \in Raws |-> IF o \in gone THEN None ELSE occurrence[o]]
      /\ raw' = [r \in Raws |-> IF raw[r] # None /\ raw[r].occurrence \in gone
                                THEN row(r) ELSE raw[r]]
      /\ conflicts' = [i \in DOMAIN conflicts |->
                         IF conflicts[i].occurrence \in gone THEN entry(i) ELSE conflicts[i]]
      /\ deleted' = deleted \cup {j}
  BY DEF DeleteJob
<1>3. \A r \in Raws : raw[r] # None =>
        /\ row(r) # None /\ row(r).occurrence = None
        /\ row(r).posting = raw[r].posting /\ row(r).status = raw[r].status
  <2>1. ASSUME NEW x \in RawRow
        PROVE  LET y == [x EXCEPT !.occurrence = None]
               IN  /\ y \in RawRow /\ y.occurrence = None
                   /\ y.posting = x.posting /\ y.status = x.status
    BY DEF RawRow
  <2>2. ASSUME NEW r \in Raws, raw[r] # None
        PROVE  /\ row(r) # None /\ row(r).occurrence = None
               /\ row(r).posting = raw[r].posting /\ row(r).status = raw[r].status
    <3>1. raw[r] \in RawRow BY <1>1, <2>2
    <3>2. /\ row(r) \in RawRow /\ row(r).occurrence = None
          /\ row(r).posting = raw[r].posting /\ row(r).status = raw[r].status
      BY <2>1, <3>1
    <3> QED BY <3>2, NullAssumption
  <2> QED BY <2>2
<1>4. \A i \in DOMAIN conflicts : /\ entry(i).raw = conflicts[i].raw
                                  /\ entry(i).type = conflicts[i].type
                                  /\ entry(i).candidates = conflicts[i].candidates
  <2>1. \A i \in DOMAIN conflicts : conflicts[i] \in ConflictRow BY <1>1
  <2> QED BY <2>1 DEF ConflictRow
<1> HIDE DEF row, entry
<1>5. /\ job'[j] = None /\ \A k \in Raws : k # j => job'[k] = job[k]
      /\ deleted' # {}
  BY <1>1, <1>2
<1>6. /\ \A o \in Raws : o \in Stored' <=> o \in Stored /\ occurrence[o].job # j
      /\ \A o \in Stored' : occurrence'[o] = occurrence[o]
  BY <1>1, <1>2 DEF Stored
<1>7. \A r \in Raws : raw'[r] = IF raw[r] # None /\ raw[r].occurrence \in gone
                                THEN row(r) ELSE raw[r]
  BY <1>2
<1>8. /\ DOMAIN conflicts' = DOMAIN conflicts
      /\ \A i \in DOMAIN conflicts :
           conflicts'[i] = IF conflicts[i].occurrence \in gone THEN entry(i) ELSE conflicts[i]
  BY <1>2
<1>9. ASSUME NEW r \in Raws
      PROVE  \/ /\ raw'[r] = raw[r]
                /\ raw[r] = None \/ \/ raw[r].occurrence \notin Stored
                                    \/ occurrence[raw[r].occurrence].job # j
             \/ /\ raw[r] # None /\ raw'[r] # None
                /\ raw[r].occurrence \in Stored
                /\ occurrence[raw[r].occurrence].job = j
                /\ raw'[r].posting = raw[r].posting /\ raw'[r].status = raw[r].status
                /\ raw'[r].occurrence = None
  BY <1>3, <1>7
<1> QED BY <1>2, <1>4, <1>5, <1>6, <1>8, <1>9

\* A step that is no commit and no deletion leaves Jobs and occurrences alone.
LEMMA OtherSteps ==
    ASSUME IInv, [Next]_vars,
           ~ \E p \in Procs : Commit(p), ~ \E j \in Raws : DeleteJob(j)
    PROVE  /\ UNCHANGED <<job, occurrence, conflicts, deleted>>
           /\ \A r \in Raws : \/ raw'[r] = raw[r]
                              \/ ~Settled(r) /\ ~Settled(r)'
<1>1. CASE UNCHANGED tables BY <1>1 DEF tables
<1>2. ASSUME NEW r \in Raws, NEW d \in Postings, Fetch(r, d)
      PROVE  /\ UNCHANGED <<job, occurrence, conflicts, deleted>>
             /\ \A x \in Raws : raw'[x] = raw[x] \/ (~Settled(x) /\ ~Settled(x)')
  BY <1>2 DEF Fetch, IInv, TypeOK, Settled
<1>3. ASSUME NEW r \in Raws, MarkParseError(r)
      PROVE  /\ UNCHANGED <<job, occurrence, conflicts, deleted>>
             /\ \A x \in Raws : raw'[x] = raw[x] \/ (~Settled(x) /\ ~Settled(x)')
  <2> DEFINE row == [raw[r] EXCEPT !.status = "parse_error"]
  <2>1. raw[r] \in RawRow /\ raw[r].status = "fetched"
    BY <1>3 DEF MarkParseError, IInv, TypeOK
  <2>2. row.status = "parse_error" BY <2>1 DEF RawRow
  <2>3. raw' = [raw EXCEPT ![r] = row] BY <1>3 DEF MarkParseError
  <2>4. ~Settled(r) BY <2>1 DEF Settled
  <2> HIDE DEF row
  <2>5. ~Settled(r)' BY <2>2, <2>3 DEF Settled, IInv, TypeOK
  <2> QED BY <1>3, <2>3, <2>4, <2>5 DEF MarkParseError, IInv, TypeOK
<1> QED BY <1>1, <1>2, <1>3, StepKinds

LEMMA StoredHasJobStep ==
    ASSUME IInv, StoredHasJob, [Next]_vars
    PROVE  StoredHasJob'
<1>1. \A o \in Stored : occurrence[o].job \in Raws BY RowTypes DEF IInv
<1>2. ASSUME NEW p \in Procs, CommitFound(p) PROVE StoredHasJob'
  BY <1>1, <1>2, FoundEffect DEF StoredHasJob
<1>3. ASSUME NEW p \in Procs, CommitAttached(p) PROVE StoredHasJob'
  BY <1>1, <1>3, AttachedEffect DEF StoredHasJob, AddedTo
<1>4. ASSUME NEW p \in Procs, CommitNewJob(p) PROVE StoredHasJob'
  BY <1>1, <1>4, NewJobEffect DEF StoredHasJob, AddedTo
<1>5. ASSUME NEW j \in Raws, DeleteJob(j) PROVE StoredHasJob'
  <2>1. \A o \in Stored' : o \in Stored /\ occurrence[o].job # j /\ occurrence'[o] = occurrence[o]
    BY <1>5, DeleteEffect DEF Stored
  <2> QED BY <1>1, <1>5, <2>1, DeleteEffect DEF StoredHasJob
<1>6. CASE UNCHANGED <<job, occurrence>> BY <1>6 DEF StoredHasJob, Stored
<1> QED BY <1>2, <1>3, <1>4, <1>5, <1>6, OtherSteps DEF Commit

\* What each call has found, and the locks it took, stay as it found them,
\* whatever other calls and deletions do between its statements.
THEOREM KnowledgeInvariance == Spec => []KInv
<1>1. Init => KInv
  <2>1. Init => Stored = {} BY DEF Init, Stored
  <2> QED BY <2>1, IdleKnows DEF Init, KInv, StoredHasJob
<1>2. IInv /\ KInv /\ [Next]_vars => KInv'
  <2> SUFFICES ASSUME IInv, KInv, [Next]_vars PROVE KInv' OBVIOUS
  <2>1. StoredHasJob' BY StoredHasJobStep DEF KInv
  <2>2. \A q \in Procs : Knows(ctx[q], held[q])' BY KnowsStep
  <2> QED BY <2>1, <2>2 DEF KInv
<1> QED BY <1>1, <1>2, Invariance, PTL DEF Spec

\* A call that finds its posting's Job gone or its candidates changed fails
\* closed; without a deletion that never happens, however calls interleave.
THEOREM FailsClosedOnlyAfterDelete == Spec => []UnstableOnlyAfterDelete
<1>1. KInv => UnstableOnlyAfterDelete
  BY DEF KInv, Knows, StableUnlessDeleted, UnstableOnlyAfterDelete, At
<1> QED BY <1>1, KnowledgeInvariance, PTL

-----------------------------------------------------------------------------
(***************************************************************************)
(* Waiting.  Every call takes its locks in the order raw row, natural key, *)
(* signal, Job: what it holds comes before what it waits for, so that a    *)
(* call someone waits for waits, if at all, for something later.           *)
(***************************************************************************)

\* What a call may be waiting for, and what it then holds.
LEMMA WaitsInOrder ==
    ASSUME IInv, KInv, NEW p \in Procs, Wanted(p) # {}
    PROVE  \/ Tags(Wanted(p)) \subseteq RawTags /\ held[p] = {}
           \/ Tags(Wanted(p)) \subseteq KeyTags /\ Tags(held[p]) \subseteq RawTags
           \/ /\ Tags(Wanted(p)) \subseteq SignalTags
              /\ Tags(held[p]) \subseteq RawTags \cup KeyTags
           \/ /\ Tags(Wanted(p)) \subseteq {"JOB_ROW"}
              /\ Tags(held[p]) \subseteq RawTags \cup KeyTags \cup SignalTags
<1>1. LockOrder(ctx[p], held[p]) BY DEF KInv, Knows
<1>2. CASE At(p, "raw_lock")
  <2>1. Wanted(p) = {RawRowLock(ctx[p].raw)} BY <1>2 DEF Wanted, At
  <2> QED BY <1>1, <1>2, <2>1, LockTags DEF LockOrder, At, Tags
<1>3. CASE At(p, "key_lock")
  <2>1. Wanted(p) = {advisory_lock_key(MyKey(p))} BY <1>3 DEF Wanted, At
  <2>2. Cols(ctx[p].raw) \in IdentityColumns /\ Key(ctx[p].raw) # None
    BY <1>3, CallFacts DEF CallInv, HasRaw, At
  <2> QED BY <1>1, <1>3, <2>1, <2>2, LockTags DEF LockOrder, At, Tags, MyKey, Key
<1>4. CASE At(p, "signal_lock")
  <2>1. Wanted(p) = {SignalLock(MyCols(p))} BY <1>4 DEF Wanted, At
  <2>2. Cols(ctx[p].raw) \in IdentityColumns BY <1>4, CallFacts DEF At
  <2> QED BY <1>1, <1>4, <2>1, <2>2, LockTags DEF LockOrder, At, Tags, MyCols
<1>5. CASE ctx[p].pc \in {"parent_lock", "candidate_lock"}
  <2>1. Wanted(p) = {JobRowLock(ctx[p].job)} BY <1>5 DEF Wanted, At
  <2> QED BY <1>1, <1>5, <2>1 DEF LockOrder, Tags, JobRowLock, Lock
<1>6. CASE ctx[p].pc \notin {"raw_lock", "key_lock", "signal_lock", "parent_lock", "candidate_lock"}
  BY <1>6 DEF Wanted, At
<1> QED BY <1>2, <1>3, <1>4, <1>5, <1>6 DEF At

LEMMA OrderBreaksCycles == IInv /\ KInv => NoWaitCycle
<1> SUFFICES ASSUME IInv, KInv, NEW S \in SUBSET Procs, S # {},
                    \A p \in S : \E q \in S \ {p} : Wanted(p) \cap held[q] # {}
             PROVE  FALSE
  BY DEF NoWaitCycle
<1> DEFINE wants(p) == Tags(Wanted(p))
           holds(p) == Tags(held[p])
<1>1. \A p \in S : Wanted(p) # {}
  OBVIOUS
<1>2. \A p \in S : \E q \in S : wants(p) \cap holds(q) # {}
  <2> SUFFICES ASSUME NEW p \in S PROVE \E q \in S : wants(p) \cap holds(q) # {} OBVIOUS
  <2>1. PICK q \in S : \E l \in Wanted(p) : l \in held[q] OBVIOUS
  <2>2. PICK l \in Wanted(p) : l \in held[q] BY <2>1
  <2>3. l.tag \in wants(p) /\ l.tag \in holds(q) BY <2>2 DEF Tags
  <2> HIDE DEF wants, holds
  <2> QED BY <2>3
<1>3. \A p \in S : \/ wants(p) \subseteq RawTags /\ held[p] = {}
                   \/ wants(p) \subseteq KeyTags /\ holds(p) \subseteq RawTags
                   \/ /\ wants(p) \subseteq SignalTags
                      /\ holds(p) \subseteq RawTags \cup KeyTags
                   \/ /\ wants(p) \subseteq {"JOB_ROW"}
                      /\ holds(p) \subseteq RawTags \cup KeyTags \cup SignalTags
  BY <1>1, WaitsInOrder
<1>4. \A p \in S : held[p] = {} => holds(p) = {} BY DEF Tags
<1> HIDE DEF wants, holds
<1>5. \A p \in S : holds(p) \subseteq RawTags \cup KeyTags \cup SignalTags BY <1>3, <1>4
<1>6. \A p \in S : ~(wants(p) \subseteq {"JOB_ROW"})
  BY <1>2, <1>5 DEF RawTags, KeyTags, SignalTags
<1>7. \A p \in S : holds(p) \subseteq RawTags \cup KeyTags BY <1>3, <1>4, <1>6
<1>8. \A p \in S : ~(wants(p) \subseteq SignalTags)
  BY <1>2, <1>7 DEF RawTags, KeyTags, SignalTags
<1>9. \A p \in S : holds(p) \subseteq RawTags BY <1>3, <1>4, <1>6, <1>8
<1>10. \A p \in S : ~(wants(p) \subseteq KeyTags) BY <1>2, <1>9 DEF RawTags, KeyTags
<1>11. \A p \in S : holds(p) = {} BY <1>3, <1>4, <1>6, <1>8, <1>10
<1> QED BY <1>2, <1>11

\* No set of calls, of any size, wait for one another: PostgreSQL's deadlock
\* detector never has to abort a posting.
THEOREM CallsNeverDeadlock == Spec => []NoWaitCycle
BY OrderBreaksCycles, Invariance, KnowledgeInvariance, PTL

-----------------------------------------------------------------------------
(***************************************************************************)
(* What the tables tell of the past: links, conflicts, merges, sightings.  *)
(***************************************************************************)

\* One conflict row for a raw row in identity_conflict, none for any other.
ConflictsAreNamed ==
    /\ \A i, j \in DOMAIN conflicts : conflicts[i].raw = conflicts[j].raw => i = j
    /\ \A r \in Raws : (raw[r] # None /\ raw[r].status = "identity_conflict") <=>
                         \E i \in DOMAIN conflicts : conflicts[i].raw = r

\* Some occurrence of a Job was seen last when the Job was, and none later.
JobsSeenLast ==
    \A j \in Raws : job[j] # None =>
      /\ \E o \in Stored : /\ occurrence[o].job = j
                           /\ occurrence[o].last_seen_at = job[j].last_seen_at
      /\ \A o \in Stored : occurrence[o].job = j =>
           occurrence[o].last_seen_at <= job[j].last_seen_at

HInv == /\ RawLinksItsOccurrence
        /\ ConflictsAreNamed
        /\ AmbiguityIsGenuine
        /\ NoFalseMerge
        /\ JobsSeenLast

\* A natural key selects a row stored under it.
LEMMA KeyFindsItself ==
    ASSUME NEW c \in IdentityColumns, resolve_natural_key(c) # None
    PROVE  existing_occurrence_conditions(resolve_natural_key(c), c)
BY KeyForms DEF existing_occurrence_conditions

LEMMA LinksStep ==
    ASSUME IInv, KInv, RawLinksItsOccurrence, [Next]_vars
    PROVE  RawLinksItsOccurrence'
<1> DEFINE Linked(r) == IF raw[r].occurrence = None THEN deleted # {}
                        ELSE raw[r].occurrence \in Matching(Key(r))
           Goal == \A r \in Raws : Settled(r)' => Linked(r)'
<1>1. \A r \in Raws : Settled(r) => Linked(r)
  BY DEF RawLinksItsOccurrence, Settled
<1>2. SUFFICES Goal
  BY DEF RawLinksItsOccurrence, Settled, Matching
<1>3. Frame BY FrameStep
<1>4. \A r \in Raws : Settled(r) => Key(r)' = Key(r) BY <1>3 DEF Frame, Settled, Key, Cols
<1>5. ASSUME NEW r \in Raws, Settled(r), Settled(r)', raw'[r].occurrence = raw[r].occurrence,
             raw[r].occurrence \in Stored => raw[r].occurrence \in Stored'
      PROVE  Linked(r)'
  <2>1. CASE raw[r].occurrence = None BY <1>1, <1>3, <1>5, <2>1 DEF Frame
  <2>2. CASE raw[r].occurrence # None
    <3>1. raw[r].occurrence \in Matching(Key(r)) BY <1>1, <1>5, <2>2
    <3>2. raw[r].occurrence \in Matching(Key(r))'
      BY <1>3, <1>4, <1>5, <3>1 DEF Matching, Frame
    <3> QED BY <1>5, <2>2, <3>2
  <2> QED BY <2>1, <2>2
<1>6. None \notin Raws BY ResolutionAssumption
<1>7. ASSUME NEW p \in Procs, CommitFound(p) PROVE Goal
  <2>1. PICK x \in Raws, o \in Raws : x = ctx[p].raw /\ o = ctx[p].occurrence
    BY <1>7, WriteFacts, FoundEffect DEF CommitFound, Stored
  <2>2. ctx[p].pc = "write" /\ ctx[p].kind \in {"UPDATED", "QUARANTINED"}
    BY <1>7 DEF CommitFound, At
  <2>3. o \in Matching(Key(x)) BY <2>1, <2>2 DEF KInv, Knows, FoundMatches
  <2>4. /\ o \in Stored /\ Stored' = Stored /\ occurrence'[o].columns = occurrence[o].columns
        /\ raw'[x].posting = raw[x].posting /\ raw'[x].occurrence = o
        /\ \A r \in Raws : r # x => raw'[r] = raw[r]
    BY <1>7, <2>1, FoundEffect
  <2>5. o \in Matching(Key(x))' BY <2>3, <2>4 DEF Matching, Key, Cols
  <2>6. Linked(x)' BY <1>6, <2>4, <2>5
  <2>7. \A r \in Raws : r # x /\ Settled(r)' => Settled(r) /\ raw'[r].occurrence = raw[r].occurrence
    BY <2>4 DEF Settled
  <2> QED BY <1>5, <2>4, <2>6, <2>7
<1>8. ASSUME NEW p \in Procs, NEW j \in Raws, AddedTo(p, j), At(p, "write") PROVE Goal
  <2>1. PICK x \in Raws : x = ctx[p].raw BY <1>8 DEF AddedTo
  <2>2. /\ Stored' = Stored \cup {x} /\ occurrence'[x].columns = Cols(x)
        /\ raw'[x].posting = raw[x].posting /\ raw'[x].occurrence = x
        /\ \A r \in Raws : r # x => raw'[r] = raw[r]
    BY <1>8, <2>1 DEF AddedTo
  <2>3. existing_occurrence_conditions(Key(x), Cols(x))
    BY <1>8, <2>1, WriteFacts, KeyFindsItself DEF Key
  <2>4. x \in Matching(Key(x))' BY <2>2, <2>3 DEF Matching, Key, Cols
  <2>5. Linked(x)' BY <1>6, <2>2, <2>4
  <2>6. \A r \in Raws : r # x /\ Settled(r)' => Settled(r) /\ raw'[r].occurrence = raw[r].occurrence
    BY <2>2 DEF Settled
  <2> QED BY <1>5, <2>2, <2>5, <2>6
<1>9. ASSUME NEW p \in Procs, CommitAttached(p) \/ CommitNewJob(p) PROVE Goal
  <2>1. At(p, "write") BY <1>9 DEF CommitAttached, CommitNewJob
  <2>2. ctx[p].raw \in Raws BY <2>1, WriteFacts
  <2> QED BY <1>8, <1>9, <2>1, <2>2, AttachedEffect, NewJobEffect
<1>10. ASSUME NEW j \in Raws, DeleteJob(j) PROVE Goal
  <2>1. SUFFICES ASSUME NEW r \in Raws, Settled(r)' PROVE Linked(r)' OBVIOUS
  <2>2. Settled(r) BY <1>10, <2>1, DeleteEffect DEF Settled
  <2>3. CASE raw'[r].occurrence = None BY <1>10, <2>3, DeleteEffect
  <2>4. CASE raw'[r].occurrence # None
    <3>1. /\ raw'[r] = raw[r] /\ raw[r] # None
          /\ \/ raw[r].occurrence \notin Stored
             \/ occurrence[raw[r].occurrence].job # j
      BY <1>10, <2>2, <2>4, DeleteEffect DEF Settled
    <3>2. raw[r].occurrence \in Stored => raw[r].occurrence \in Stored'
      BY <1>10, <3>1, DeleteEffect DEF Stored
    <3> QED BY <1>5, <2>1, <2>2, <3>1, <3>2
  <2> QED BY <2>3, <2>4
<1>11. ASSUME UNCHANGED occurrence,
              \A r \in Raws : raw'[r] = raw[r] \/ (~Settled(r) /\ ~Settled(r)')
       PROVE  Goal
  BY <1>5, <1>11 DEF Settled, Stored
<1> QED BY <1>7, <1>9, <1>10, <1>11, OtherSteps DEF Commit

\* What a commit does to the conflicts.
LEMMA ConflictEffect ==
    ASSUME IInv, NEW p \in Procs, Commit(p)
    PROVE  LET r == ctx[p].raw
           IN  /\ r \in Raws /\ raw[r] # None /\ raw[r].status = "fetched"
               /\ raw'[r] # None /\ raw'[r].posting = raw[r].posting
               /\ \A x \in Raws : x # r => raw'[x] = raw[x]
               /\ \/ raw'[r].status = "normalized" /\ conflicts' = conflicts
                  \/ /\ raw'[r].status = "identity_conflict"
                     /\ \E n : /\ n \notin DOMAIN conflicts
                               /\ DOMAIN conflicts' = DOMAIN conflicts \cup {n}
                               /\ \A i \in DOMAIN conflicts : conflicts'[i] = conflicts[i]
                               /\ conflicts'[n].raw = r
                               /\ conflicts'[n].type = "ambiguous_match" =>
                                    /\ CommitNewJob(p) /\ ctx[p].kind = "AMBIGUOUS"
                                    /\ conflicts'[n].candidates = ctx[p].candidates
<1> DEFINE r == ctx[p].raw
           Added(x) == \E n : /\ n \notin DOMAIN conflicts
                              /\ DOMAIN conflicts' = DOMAIN conflicts \cup {n}
                              /\ \A i \in DOMAIN conflicts : conflicts'[i] = conflicts[i]
                              /\ conflicts'[n] = x
<1>1. At(p, "write") BY DEF Commit, CommitFound, CommitAttached, CommitNewJob
<1>2. r \in Raws /\ raw[r] # None /\ raw[r].status = "fetched" BY <1>1, WriteFacts
<1>3. conflicts \in Seq(ConflictRow) BY DEF IInv, TypeOK
<1>4. ASSUME NEW x, conflicts' = Append(conflicts, x) PROVE Added(x)
  <2> DEFINE n == Len(conflicts) + 1
  <2>1. Len(conflicts) \in Nat /\ DOMAIN conflicts = 1..Len(conflicts) BY <1>3
  <2>2. n \notin DOMAIN conflicts /\ 1..n = DOMAIN conflicts \cup {n} BY <2>1
  <2>3. /\ DOMAIN conflicts' = 1..n
        /\ \A i \in DOMAIN conflicts : conflicts'[i] = conflicts[i]
        /\ conflicts'[n] = x
    BY <1>3, <1>4, <2>1
  <2> QED BY <2>2, <2>3
<1>5. CASE CommitFound(p)
  <2> DEFINE x == [type |-> "evidence_mismatch", raw |-> r,
                   occurrence |-> ctx[p].occurrence, candidates |-> {}]
  <2>1. conflicts' = IF ctx[p].kind = "QUARANTINED" THEN Append(conflicts, x) ELSE conflicts
    BY <1>5 DEF CommitFound
  <2>2. x.raw = r /\ x.type # "ambiguous_match" OBVIOUS
  <2> HIDE DEF x
  <2>3. /\ raw'[r] # None /\ raw'[r].posting = raw[r].posting
        /\ \A y \in Raws : y # r => raw'[y] = raw[y]
        /\ raw'[r].status = IF ctx[p].kind = "QUARANTINED" THEN "identity_conflict"
                            ELSE "normalized"
    BY <1>5, FoundEffect
  <2>4. ctx[p].kind = "QUARANTINED" => Added(x) BY <1>4, <2>1
  <2> QED BY <1>2, <2>1, <2>2, <2>3, <2>4
<1>6. CASE CommitAttached(p)
  <2>1. conflicts' = conflicts /\ ctx[p].kind # "AMBIGUOUS" BY <1>6 DEF CommitAttached
  <2> QED BY <1>2, <1>6, <2>1, AttachedEffect DEF AddedTo
<1>7. CASE CommitNewJob(p)
  <2> DEFINE x == [type |-> "ambiguous_match", raw |-> r, occurrence |-> None,
                   candidates |-> ctx[p].candidates]
  <2>1. conflicts' = IF ctx[p].kind = "AMBIGUOUS" THEN Append(conflicts, x) ELSE conflicts
    BY <1>7 DEF CommitNewJob
  <2>2. x.raw = r /\ x.candidates = ctx[p].candidates OBVIOUS
  <2> HIDE DEF x
  <2> QED BY <1>2, <1>4, <1>7, <2>1, <2>2, NewJobEffect DEF AddedTo
<1> QED BY <1>5, <1>6, <1>7 DEF Commit

LEMMA ConflictsStep ==
    ASSUME IInv, ConflictsAreNamed, [Next]_vars
    PROVE  ConflictsAreNamed'
<1>1. ASSUME NEW p \in Procs, Commit(p) PROVE ConflictsAreNamed'
  <2> DEFINE r == ctx[p].raw
  <2>1. /\ r \in Raws /\ raw[r].status = "fetched" /\ raw'[r] # None
        /\ \A x \in Raws : x # r => raw'[x] = raw[x]
    BY <1>1, ConflictEffect
  <2>2. \A i \in DOMAIN conflicts : conflicts[i].raw # r BY <2>1 DEF ConflictsAreNamed
  <2>3. CASE raw'[r].status = "normalized" /\ conflicts' = conflicts
    BY <2>1, <2>2, <2>3 DEF ConflictsAreNamed
  <2>4. ASSUME raw'[r].status = "identity_conflict", NEW n, n \notin DOMAIN conflicts,
               DOMAIN conflicts' = DOMAIN conflicts \cup {n}, conflicts'[n].raw = r,
               \A i \in DOMAIN conflicts : conflicts'[i] = conflicts[i]
        PROVE  ConflictsAreNamed'
    <3>1. \A i, j \in DOMAIN conflicts' : conflicts'[i].raw = conflicts'[j].raw => i = j
      BY <2>2, <2>4 DEF ConflictsAreNamed
    <3>2. ASSUME NEW x \in Raws
          PROVE  (raw'[x] # None /\ raw'[x].status = "identity_conflict") <=>
                   \E i \in DOMAIN conflicts' : conflicts'[i].raw = x
      BY <2>1, <2>2, <2>4 DEF ConflictsAreNamed
    <3> QED BY <3>1, <3>2 DEF ConflictsAreNamed
  <2> QED BY <1>1, <2>3, <2>4, ConflictEffect
<1>2. ASSUME NEW j \in Raws, DeleteJob(j) PROVE ConflictsAreNamed'
  <2>1. /\ DOMAIN conflicts' = DOMAIN conflicts
        /\ \A i \in DOMAIN conflicts : conflicts'[i].raw = conflicts[i].raw
    BY <1>2, DeleteEffect
  <2>2. ASSUME NEW r \in Raws
        PROVE  \/ raw'[r] = raw[r]
               \/ raw[r] # None /\ raw'[r] # None /\ raw'[r].status = raw[r].status
    BY <1>2, DeleteEffect
  <2> QED BY <2>1, <2>2 DEF ConflictsAreNamed
<1>3. ASSUME UNCHANGED conflicts,
             \A r \in Raws : raw'[r] = raw[r] \/ (~Settled(r) /\ ~Settled(r)')
      PROVE  ConflictsAreNamed'
  BY <1>3 DEF ConflictsAreNamed, Settled
<1> QED BY <1>1, <1>2, <1>3, OtherSteps

LEMMA AmbiguityStep ==
    ASSUME IInv, KInv, ConflictsAreNamed, AmbiguityIsGenuine, [Next]_vars
    PROVE  AmbiguityIsGenuine'
<1> DEFINE Genuine(i) ==
             LET r == conflicts[i].raw
             IN  conflicts[i].type = "ambiguous_match" =>
                   /\ Several(conflicts[i].candidates)
                   /\ r \notin conflicts[i].candidates
                   /\ ~UsesTier2(Cols(r))
                   /\ r \in Stored => occurrence[r].job = r
           Goal == \A i \in DOMAIN conflicts' : Genuine(i)'
<1>1. \A i \in DOMAIN conflicts : Genuine(i) BY DEF AmbiguityIsGenuine, Several
<1>2. SUFFICES Goal BY DEF AmbiguityIsGenuine, Several
<1>3. \A i \in DOMAIN conflicts : conflicts[i].raw \in Raws
  <2>1. \A i \in DOMAIN conflicts : conflicts[i] \in ConflictRow BY DEF IInv, TypeOK
  <2> QED BY <2>1 DEF ConflictRow
<1>4. \A i \in DOMAIN conflicts : Settled(conflicts[i].raw)
  BY <1>3 DEF ConflictsAreNamed, Settled
<1>5. Frame BY FrameStep
<1>6. ASSUME NEW i \in DOMAIN conflicts,
             /\ conflicts'[i].raw = conflicts[i].raw
             /\ conflicts'[i].type = conflicts[i].type
             /\ conflicts'[i].candidates = conflicts[i].candidates,
             conflicts[i].raw \in Stored' => conflicts[i].raw \in Stored
      PROVE  Genuine(i)'
  <2>1. PICK r \in Raws : r = conflicts[i].raw BY <1>3
  <2>2. Cols(r)' = Cols(r) BY <1>4, <1>5, <2>1 DEF Frame, Cols, Settled
  <2>3. r \in Stored' => occurrence'[r].job = occurrence[r].job BY <1>5, <1>6, <2>1 DEF Frame
  <2>4. SUFFICES ASSUME conflicts[i].type = "ambiguous_match"
                 PROVE  /\ Several(conflicts[i].candidates) /\ r \notin conflicts[i].candidates
                        /\ ~UsesTier2(Cols(r)')
                        /\ r \in Stored' => occurrence'[r].job = r
    BY <1>6, <2>1, <2>2 DEF Several
  <2>5. /\ Several(conflicts[i].candidates) /\ r \notin conflicts[i].candidates
        /\ ~UsesTier2(Cols(r))
        /\ r \in Stored => occurrence[r].job = r
    BY <1>1, <2>1, <2>4
  <2> QED BY <1>6, <2>1, <2>2, <2>3, <2>5
<1>7. ASSUME NEW p \in Procs, Commit(p) PROVE Goal
  <2>1. PICK x \in Raws : x = ctx[p].raw BY <1>7, ConflictEffect
  <2>2. Stored' \subseteq Stored \cup {x}
    <3>1. CASE CommitFound(p) BY <3>1, FoundEffect
    <3>2. CASE CommitAttached(p) BY <2>1, <3>2, AttachedEffect DEF AddedTo
    <3>3. CASE CommitNewJob(p) BY <2>1, <3>3, NewJobEffect DEF AddedTo
    <3> QED BY <1>7, <3>1, <3>2, <3>3 DEF Commit
  <2>3. ~Settled(x)
    <3>1. raw[x].status = "fetched" BY <1>7, <2>1, ConflictEffect
    <3> QED BY <3>1 DEF Settled
  <2>4. \A i \in DOMAIN conflicts : conflicts[i].raw \in Stored' => conflicts[i].raw \in Stored
    BY <1>4, <2>2, <2>3
  <2>5. CASE conflicts' = conflicts BY <1>6, <2>4, <2>5
  <2>6. ASSUME NEW n, DOMAIN conflicts' = DOMAIN conflicts \cup {n},
               \A i \in DOMAIN conflicts : conflicts'[i] = conflicts[i],
               conflicts'[n].raw = x,
               conflicts'[n].type = "ambiguous_match" =>
                 /\ CommitNewJob(p) /\ ctx[p].kind = "AMBIGUOUS"
                 /\ conflicts'[n].candidates = ctx[p].candidates
        PROVE  Goal
    <3>1. \A i \in DOMAIN conflicts : Genuine(i)' BY <1>6, <2>4, <2>6
    <3>2. Genuine(n)'
      <4>1. SUFFICES ASSUME conflicts'[n].type = "ambiguous_match"
                     PROVE  /\ Several(ctx[p].candidates) /\ x \notin ctx[p].candidates
                            /\ ~UsesTier2(Cols(x)') /\ occurrence'[x].job = x
        BY <2>6 DEF Several
      <4>2. CommitNewJob(p) /\ ctx[p].kind = "AMBIGUOUS" BY <2>6, <4>1
      <4>3. AddedTo(p, x) /\ ctx[p].pc = "write" BY <2>1, <4>2, NewJobEffect
      <4>4. /\ Several(ctx[p].candidates)
            /\ \A k \in ctx[p].candidates : Settled(k)
        BY <4>2, <4>3 DEF KInv, Knows, AmbiguityCollected
      <4>5. ~UsesTier2(Cols(x))
        BY <2>1, <4>2, <4>3, CallFacts DEF CallInv, UrlDecided, Unmatched
      <4>6. Cols(x)' = Cols(x) BY <2>1, <4>3 DEF AddedTo, Cols
      <4> QED BY <2>1, <2>3, <4>3, <4>4, <4>5, <4>6 DEF AddedTo
    <3> QED BY <2>6, <3>1, <3>2
  <2> QED BY <1>7, <2>1, <2>5, <2>6, ConflictEffect
<1>8. ASSUME NEW j \in Raws, DeleteJob(j) PROVE Goal
  <2>1. Stored' \subseteq Stored BY <1>8, DeleteEffect DEF Stored
  <2>2. /\ DOMAIN conflicts' = DOMAIN conflicts
        /\ \A i \in DOMAIN conflicts : /\ conflicts'[i].raw = conflicts[i].raw
                                       /\ conflicts'[i].type = conflicts[i].type
                                       /\ conflicts'[i].candidates = conflicts[i].candidates
    BY <1>8, DeleteEffect
  <2> QED BY <1>6, <2>1, <2>2
<1>9. CASE UNCHANGED <<occurrence, conflicts>>
  BY <1>6, <1>9 DEF Stored
<1> QED BY <1>7, <1>8, <1>9, OtherSteps

LEMMA MergeStep ==
    ASSUME IInv, KInv, NoFalseMerge, [Next]_vars
    PROVE  NoFalseMerge'
<1> DEFINE Evidence(c, d) ==
             IF c.canonical_url_normalized # None
             THEN d.canonical_url_normalized = c.canonical_url_normalized
             ELSE /\ c.source_tenant_id # None
                  /\ c.requisition_id_raw # None
                  /\ <<d.provider, d.source, d.source_tenant_id, d.requisition_id_raw>>
                       = <<c.provider, c.source, c.source_tenant_id, c.requisition_id_raw>>
           Backed(o) == occurrence[o].job # o =>
             \E e \in Stored \ {o} : /\ occurrence[e].job = occurrence[o].job
                                     /\ Evidence(occurrence[o].columns, occurrence[e].columns)
           Goal == \A o \in Stored' : Backed(o)'
<1>1. \A o \in Stored : Backed(o) BY DEF NoFalseMerge
<1>2. SUFFICES Goal BY DEF NoFalseMerge
<1> HIDE DEF Evidence
<1>3. Frame BY FrameStep
<1>4. ASSUME NEW o \in Stored, o \in Stored',
             \A e \in Stored : occurrence[e].job = occurrence[o].job => e \in Stored'
      PROVE  Backed(o)'
  BY <1>1, <1>3, <1>4 DEF Frame
<1>5. ASSUME NEW p \in Procs, NEW j \in Raws, AddedTo(p, j),
             j # ctx[p].raw => CommitAttached(p) /\ j = ctx[p].job
      PROVE  Goal
  <2>1. PICK x \in Raws : x = ctx[p].raw BY <1>5 DEF AddedTo
  <2>2. /\ Stored' = Stored \cup {x} /\ x \notin Stored
        /\ occurrence'[x].job = j /\ occurrence'[x].columns = Cols(x)
        /\ \A e \in Stored : occurrence'[e] = occurrence[e]
    BY <1>5, <2>1 DEF AddedTo
  <2>3. CASE j = x BY <1>4, <2>2, <2>3
  <2>4. CASE j # x
    <3>1. ctx[p].pc = "write" /\ ctx[p].kind = "ATTACHED" /\ j = ctx[p].job
      BY <1>5, <2>1, <2>4, AttachedEffect
    <3>2. PICK e \in Stored : MatchesSignal(Cols(x), occurrence[e].columns) /\ occurrence[e].job = j
      BY <2>1, <3>1 DEF KInv, Knows, AttachedSupported, Candidates
    <3>3. UsesTier2(Cols(x)) \/ UsesTier3(Cols(x))
      BY <2>1, <3>1 DEF KInv, Knows, TierUsed
    <3>4. Evidence(Cols(x), occurrence[e].columns)
      BY <3>2, <3>3 DEF Evidence, MatchesSignal, UsesTier2, UsesTier3, SameRequisition
    <3>5. Backed(x)' BY <2>2, <3>2, <3>4
    <3> QED BY <1>4, <2>2, <3>5
  <2> QED BY <2>3, <2>4
<1>6. ASSUME NEW p \in Procs, Commit(p) PROVE Goal
  <2>1. CASE CommitFound(p) BY <1>4, <2>1, FoundEffect
  <2>2. CASE CommitAttached(p) BY <1>5, <2>2, AttachedEffect
  <2>3. CASE CommitNewJob(p) BY <1>5, <2>3, NewJobEffect DEF AddedTo
  <2> QED BY <1>6, <2>1, <2>2, <2>3 DEF Commit
<1>7. ASSUME NEW j \in Raws, DeleteJob(j) PROVE Goal
  BY <1>4, <1>7, DeleteEffect DEF Stored
<1>8. CASE UNCHANGED occurrence BY <1>4, <1>8 DEF Stored
<1> QED BY <1>6, <1>7, <1>8, OtherSteps

LEMMA SeenLastStep ==
    ASSUME IInv, KInv, JobsSeenLast, [Next]_vars
    PROVE  JobsSeenLast'
<1>1. /\ \A j \in Raws : job[j] # None => job[j].last_seen_at \in Nat
      /\ \A o \in Stored : occurrence[o].last_seen_at \in Nat /\ occurrence[o].job \in Raws
  BY RowTypes DEF IInv, JobRow, OccurrenceRow
<1>2. ASSUME NEW p \in Procs, CommitFound(p) PROVE JobsSeenLast'
  <2> DEFINE o == ctx[p].occurrence
             j == ctx[p].job
             t == ctx[p].observed_at
  <2>1. t \in Nat BY <1>2, WriteFacts DEF CommitFound
  <2>2. /\ o \in Stored /\ occurrence[o].job = j /\ Stored' = Stored
        /\ \A e \in Stored : e # o => occurrence'[e] = occurrence[e]
        /\ occurrence'[o].job = j
        /\ occurrence'[o].last_seen_at = Max2(occurrence[o].last_seen_at, t)
        /\ j \in Raws /\ job[j] # None
        /\ job'[j].last_seen_at = Max2(job[j].last_seen_at, t)
        /\ \A k \in Raws : k # j => job'[k] = job[k]
    BY <1>2, FoundEffect
  <2> HIDE DEF o, j, t
  <2>3. /\ \E e \in Stored : /\ occurrence[e].job = j
                             /\ occurrence[e].last_seen_at = job[j].last_seen_at
        /\ \A e \in Stored : occurrence[e].job = j =>
             occurrence[e].last_seen_at <= job[j].last_seen_at
    BY <2>2 DEF JobsSeenLast
  <2>4. /\ \E e \in Stored : /\ occurrence'[e].job = j
                             /\ occurrence'[e].last_seen_at = job'[j].last_seen_at
        /\ \A e \in Stored : occurrence'[e].job = j =>
             occurrence'[e].last_seen_at <= job'[j].last_seen_at
    BY <1>1, <2>1, <2>2, <2>3 DEF Max2
  <2>5. ASSUME NEW k \in Raws, k # j, job'[k] # None
        PROVE  /\ \E e \in Stored : /\ occurrence'[e].job = k
                                    /\ occurrence'[e].last_seen_at = job'[k].last_seen_at
               /\ \A e \in Stored : occurrence'[e].job = k =>
                    occurrence'[e].last_seen_at <= job'[k].last_seen_at
    BY <2>2, <2>5 DEF JobsSeenLast
  <2> QED BY <2>2, <2>4, <2>5 DEF JobsSeenLast
<1>3. ASSUME NEW p \in Procs, CommitAttached(p) PROVE JobsSeenLast'
  <2> DEFINE r == ctx[p].raw
             j == ctx[p].job
             t == ctx[p].observed_at
  <2>1. t \in Nat BY <1>3, WriteFacts DEF CommitAttached
  <2>2. /\ r \notin Stored /\ Stored' = Stored \cup {r}
        /\ occurrence'[r].job = j /\ occurrence'[r].last_seen_at = t
        /\ \A e \in Stored : occurrence'[e] = occurrence[e]
        /\ j \in Raws /\ job[j] # None
        /\ job'[j].last_seen_at = Max2(job[j].last_seen_at, t)
        /\ \A k \in Raws : k # j => job'[k] = job[k]
    BY <1>3, AttachedEffect DEF AddedTo
  <2> HIDE DEF r, j, t
  <2>3. /\ \E e \in Stored : /\ occurrence[e].job = j
                             /\ occurrence[e].last_seen_at = job[j].last_seen_at
        /\ \A e \in Stored : occurrence[e].job = j =>
             occurrence[e].last_seen_at <= job[j].last_seen_at
    BY <2>2 DEF JobsSeenLast
  <2>4. /\ \E e \in Stored' : /\ occurrence'[e].job = j
                              /\ occurrence'[e].last_seen_at = job'[j].last_seen_at
        /\ \A e \in Stored' : occurrence'[e].job = j =>
             occurrence'[e].last_seen_at <= job'[j].last_seen_at
    BY <1>1, <2>1, <2>2, <2>3 DEF Max2
  <2>5. ASSUME NEW k \in Raws, k # j, job'[k] # None
        PROVE  /\ \E e \in Stored' : /\ occurrence'[e].job = k
                                     /\ occurrence'[e].last_seen_at = job'[k].last_seen_at
               /\ \A e \in Stored' : occurrence'[e].job = k =>
                    occurrence'[e].last_seen_at <= job'[k].last_seen_at
    BY <2>2, <2>5 DEF JobsSeenLast
  <2> QED BY <2>4, <2>5 DEF JobsSeenLast
<1>4. ASSUME NEW p \in Procs, CommitNewJob(p) PROVE JobsSeenLast'
  <2> DEFINE r == ctx[p].raw
             t == ctx[p].observed_at
  <2>1. t \in Nat BY <1>4, WriteFacts DEF CommitNewJob
  <2>2. /\ r \in Raws /\ r \notin Stored /\ job[r] = None /\ Stored' = Stored \cup {r}
        /\ occurrence'[r].job = r /\ occurrence'[r].last_seen_at = t
        /\ \A e \in Stored : occurrence'[e] = occurrence[e]
        /\ job'[r].last_seen_at = t
        /\ \A k \in Raws : k # r => job'[k] = job[k]
    BY <1>4, NewJobEffect DEF AddedTo
  <2> HIDE DEF r, t
  <2>3. \A e \in Stored : occurrence[e].job # r BY <2>2 DEF KInv, StoredHasJob
  <2>4. /\ \E e \in Stored' : /\ occurrence'[e].job = r
                              /\ occurrence'[e].last_seen_at = job'[r].last_seen_at
        /\ \A e \in Stored' : occurrence'[e].job = r =>
             occurrence'[e].last_seen_at <= job'[r].last_seen_at
    BY <2>1, <2>2, <2>3
  <2>5. ASSUME NEW k \in Raws, k # r, job'[k] # None
        PROVE  /\ \E e \in Stored' : /\ occurrence'[e].job = k
                                     /\ occurrence'[e].last_seen_at = job'[k].last_seen_at
               /\ \A e \in Stored' : occurrence'[e].job = k =>
                    occurrence'[e].last_seen_at <= job'[k].last_seen_at
    BY <2>2, <2>5 DEF JobsSeenLast
  <2> QED BY <2>4, <2>5 DEF JobsSeenLast
<1>5. ASSUME NEW j \in Raws, DeleteJob(j) PROVE JobsSeenLast'
  <2>1. /\ job'[j] = None /\ \A k \in Raws : k # j => job'[k] = job[k]
        /\ \A o \in Stored : occurrence[o].job # j => o \in Stored'
        /\ \A o \in Stored' : o \in Stored /\ occurrence'[o] = occurrence[o]
    BY <1>5, DeleteEffect DEF Stored
  <2>2. ASSUME NEW k \in Raws, job'[k] # None
        PROVE  /\ \E e \in Stored' : /\ occurrence'[e].job = k
                                     /\ occurrence'[e].last_seen_at = job'[k].last_seen_at
               /\ \A e \in Stored' : occurrence'[e].job = k =>
                    occurrence'[e].last_seen_at <= job'[k].last_seen_at
    BY <2>1, <2>2 DEF JobsSeenLast
  <2> QED BY <2>2 DEF JobsSeenLast
<1>6. CASE UNCHANGED <<job, occurrence>> BY <1>6 DEF JobsSeenLast, Stored
<1> QED BY <1>2, <1>3, <1>4, <1>5, <1>6, OtherSteps DEF Commit

\* The history of the tables is an invariant.
LEMMA HistoryInvariance == Spec => []HInv
<1>1. Init => HInv
  <2> SUFFICES ASSUME Init PROVE HInv OBVIOUS
  <2>1. /\ Stored = {} /\ DOMAIN conflicts = {}
        /\ \A r \in Raws : raw[r] = None /\ job[r] = None
    BY DEF Init, Stored
  <2> QED
    BY <2>1 DEF HInv, RawLinksItsOccurrence, ConflictsAreNamed, AmbiguityIsGenuine, NoFalseMerge,
       JobsSeenLast
<1>2. IInv /\ KInv /\ HInv /\ [Next]_vars => HInv'
  <2> SUFFICES ASSUME IInv, KInv, HInv, [Next]_vars PROVE HInv' OBVIOUS
  <2>1. RawLinksItsOccurrence' BY LinksStep DEF HInv
  <2>2. ConflictsAreNamed' BY ConflictsStep DEF HInv
  <2>3. AmbiguityIsGenuine' BY AmbiguityStep DEF HInv
  <2>4. NoFalseMerge' BY MergeStep DEF HInv
  <2>5. JobsSeenLast' BY SeenLastStep DEF HInv
  <2> QED BY <2>1, <2>2, <2>3, <2>4, <2>5 DEF HInv
<1> QED BY <1>1, <1>2, Invariance, KnowledgeInvariance, PTL DEF Spec

\* A settled raw row points at the occurrence its own natural key selects, and
\* only a deletion can have undone the link.
THEOREM LinksAreRight == Spec => []RawLinksItsOccurrence
<1>1. HInv => RawLinksItsOccurrence BY DEF HInv
<1> QED BY <1>1, HistoryInvariance, PTL

\* However often a posting is processed, a quarantine writes one conflict row,
\* and no row is quarantined without one.
THEOREM ConflictsAreOnePerRaw == Spec => []OneConflictPerRaw
<1>1. HInv => OneConflictPerRaw
  <2> SUFFICES ASSUME HInv, NEW r \in Raws
               PROVE  Cardinality({i \in DOMAIN conflicts : conflicts[i].raw = r}) =
                        IF raw[r] # None /\ raw[r].status = "identity_conflict" THEN 1 ELSE 0
    BY DEF OneConflictPerRaw
  <2> DEFINE mine == {i \in DOMAIN conflicts : conflicts[i].raw = r}
  <2>1. CASE raw[r] # None /\ raw[r].status = "identity_conflict"
    <3>1. PICK i \in DOMAIN conflicts : conflicts[i].raw = r
      BY <2>1 DEF HInv, ConflictsAreNamed
    <3>2. mine = {i} BY <3>1 DEF HInv, ConflictsAreNamed
    <3> QED BY <2>1, <3>2, FS_Singleton
  <2>2. CASE ~(raw[r] # None /\ raw[r].status = "identity_conflict")
    <3>1. mine = {} BY <2>2 DEF HInv, ConflictsAreNamed
    <3> QED BY <2>2, <3>1, FS_EmptySet
  <2> QED BY <2>1, <2>2
<1> QED BY <1>1, HistoryInvariance, PTL

\* An ambiguity names several other Jobs, is recorded only for a posting
\* without a canonical URL, and joins its posting to none of them.
THEOREM AmbiguitiesAreGenuine == Spec => []AmbiguityIsGenuine
<1>1. HInv => AmbiguityIsGenuine BY DEF HInv
<1> QED BY <1>1, HistoryInvariance, PTL

\* No posting joins a Job without the evidence its tier asks for, although the
\* evidence is read in one statement and the occurrence written in another.
THEOREM MergesAreSupported == Spec => []NoFalseMerge
<1>1. HInv => NoFalseMerge BY DEF HInv
<1> QED BY <1>1, HistoryInvariance, PTL

\* A Job was last seen when the latest of its occurrences was: no update of
\* either is lost, in whatever order the calls that saw them commit.
THEOREM JobsAreSeenLast == Spec => []LastSeenIsLatest
<1>1. HInv => LastSeenIsLatest
  BY DEF HInv, JobsSeenLast, LastSeenIsLatest
<1> QED BY <1>1, HistoryInvariance, PTL

-----------------------------------------------------------------------------
(***************************************************************************)
(* Refinement: each transaction takes effect in one step of the ledger.    *)
(***************************************************************************)
HomeOf == [o \in Raws |-> IF occurrence[o] = None THEN None ELSE occurrence[o].job]
EvidenceOf == [o \in Raws |-> IF occurrence[o] = None THEN None ELSE occurrence[o].columns]

\* The ledger reads the tables as identity resolution does.
LEMMA LedgerReads ==
    ASSUME IInv
    PROVE  /\ \A d : Ledger!Columns(d) = Columns(d)
           /\ \A c : /\ Ledger!resolve_natural_key(c) = resolve_natural_key(c)
                     /\ Ledger!UsesTier2(c) = UsesTier2(c)
                     /\ Ledger!UsesTier3(c) = UsesTier3(c)
           /\ Ledger!Stored = Stored
           /\ \A r : /\ Ledger!Cols(r) = Cols(r)
                     /\ Ledger!Known(r) = Matching(Key(r))
                     /\ Ledger!Carriers(r) = Candidates(Cols(r))
<1>1. \A d : Ledger!Columns(d) = Columns(d)
  BY DEF Ledger!Columns, Columns, Ledger!canonicalize_nullable_text, canonicalize_nullable_text,
         Ledger!normalize_url, normalize_url
<1>2. \A c : /\ Ledger!resolve_natural_key(c) = resolve_natural_key(c)
             /\ Ledger!UsesTier2(c) = UsesTier2(c)
             /\ Ledger!UsesTier3(c) = UsesTier3(c)
  BY DEF Ledger!resolve_natural_key, resolve_natural_key, Ledger!UsesTier2, UsesTier2,
         Ledger!UsesTier3, UsesTier3
<1>3. Ledger!Stored = Stored
  BY RowTypes, ResolutionAssumption DEF Ledger!Stored, Stored, IInv
<1>4. \A r : Ledger!Cols(r) = Cols(r) BY <1>1 DEF Ledger!Cols, Cols
<1>5. \A k, c : Ledger!existing_occurrence_conditions(k, c) = existing_occurrence_conditions(k, c)
  BY DEF Ledger!existing_occurrence_conditions, existing_occurrence_conditions
<1>6. \A c, d : Ledger!MatchesSignal(c, d) = MatchesSignal(c, d)
  BY <1>2 DEF Ledger!MatchesSignal, MatchesSignal, Ledger!SameRequisition, SameRequisition
<1>7. \A o \in Stored : /\ HomeOf[o] = occurrence[o].job
                        /\ EvidenceOf[o] = occurrence[o].columns
  BY DEF Stored, HomeOf, EvidenceOf
<1>8. \A r : Ledger!Known(r) = Matching(Key(r))
  BY <1>2, <1>3, <1>4, <1>5, <1>7 DEF Ledger!Known, Matching, Key, EvidenceOf
<1>9. ASSUME NEW r PROVE Ledger!Carriers(r) = Candidates(Cols(r))
  <2>1. Ledger!Carriers(r) =
          {HomeOf[o] : o \in {x \in Stored : MatchesSignal(Cols(r), EvidenceOf[x])}}
    BY <1>3, <1>4, <1>6 DEF Ledger!Carriers, HomeOf, EvidenceOf
  <2>2. {x \in Stored : MatchesSignal(Cols(r), EvidenceOf[x])} =
          {x \in Stored : MatchesSignal(Cols(r), occurrence[x].columns)}
    BY <1>7
  <2> QED BY <1>7, <2>1, <2>2 DEF Candidates
<1> QED BY <1>1, <1>2, <1>3, <1>4, <1>8, <1>9

LEMMA FetchIsReceive ==
    ASSUME NEW r \in Raws, NEW d \in Postings, Fetch(r, d)
    PROVE  Ledger!Receive(r, d)
BY DEF Fetch, Ledger!Receive

LEMMA ParseErrorIsReject ==
    ASSUME IInv, NEW r \in Raws, MarkParseError(r)
    PROVE  Ledger!Reject(r)
BY LedgerReads DEF MarkParseError, Ledger!Reject, Ledger!Pending, Key

LEMMA FoundIsRediscover ==
    ASSUME IInv, KInv, NEW p \in Procs, CommitFound(p)
    PROVE  \E r \in Raws : Ledger!Resolve(r)
<1>1. At(p, "write") /\ ctx[p].kind \in {"UPDATED", "QUARANTINED"} BY DEF CommitFound
<1>2. PICK r \in Raws, o \in Raws : r = ctx[p].raw /\ o = ctx[p].occurrence
  BY <1>1, WriteFacts, FoundEffect DEF Stored
<1> DEFINE mine == Cols(r).canonical_url_normalized
           stored == EvidenceOf[o].canonical_url_normalized
           status == IF None \notin {mine, stored} /\ mine # stored
                     THEN "identity_conflict" ELSE "normalized"
<1>3. raw[r] # None /\ raw[r].status = "fetched" /\ Key(r) # None
  BY <1>1, <1>2, WriteFacts
<1>4. o \in Matching(Key(r)) BY <1>1, <1>2 DEF KInv, Knows, FoundMatches, At
<1>5. EvidenceOf[o] = occurrence[o].columns BY <1>4 DEF EvidenceOf, Matching, Stored
<1>6. ctx[p].kind = "QUARANTINED" <=> None \notin {stored, mine} /\ stored # mine
  BY <1>1, <1>2, <1>5 DEF KInv, Knows, FoundMatches, At
<1>7. /\ Stored' = Stored
      /\ \A e \in Stored : /\ occurrence'[e].job = occurrence[e].job
                           /\ occurrence'[e].columns = occurrence[e].columns
  BY FoundEffect
<1>8. HomeOf' = HomeOf /\ EvidenceOf' = EvidenceOf
  BY <1>7 DEF HomeOf, EvidenceOf, Stored
<1>9. Ledger!Settle(r, status, o) BY <1>2, <1>6 DEF CommitFound, Settle, Ledger!Settle
<1>10. o \in Ledger!Known(r) /\ Ledger!Cols(r) = Cols(r) BY <1>4, LedgerReads
<1>11. Ledger!Rediscover(r)
  BY <1>8, <1>9, <1>10 DEF Ledger!Rediscover, HomeOf, EvidenceOf
<1> QED BY <1>3, <1>11, LedgerReads DEF Ledger!Resolve, Ledger!Pending, Key

\* What adding an occurrence of Job j does to the ledger.
LEMMA AddedInLedger ==
    ASSUME IInv, NEW p \in Procs, NEW r \in Raws, r = ctx[p].raw, NEW j \in Raws, AddedTo(p, j)
    PROVE  Ledger!AddOccurrence(r, j)
<1>1. /\ Stored' = Stored \cup {r} /\ r \notin Stored
      /\ occurrence'[r].job = j /\ occurrence'[r].columns = Cols(r)
      /\ \A e \in Stored : occurrence'[e] = occurrence[e]
  BY DEF AddedTo
<1>2. HomeOf' = [HomeOf EXCEPT ![r] = j] BY <1>1 DEF HomeOf, Stored
<1>3. EvidenceOf' = [EvidenceOf EXCEPT ![r] = Cols(r)] BY <1>1 DEF EvidenceOf, Stored
<1> QED BY <1>2, <1>3, LedgerReads DEF Ledger!AddOccurrence, HomeOf, EvidenceOf

LEMMA AttachedIsJoin ==
    ASSUME IInv, KInv, NEW p \in Procs, CommitAttached(p)
    PROVE  \E r \in Raws : Ledger!Resolve(r)
<1>1. At(p, "write") /\ ctx[p].kind = "ATTACHED" /\ Unmatched(ctx[p])
  BY DEF CommitAttached, Unmatched, At
<1>2. PICK r \in Raws, j \in Raws : r = ctx[p].raw /\ j = ctx[p].job
  BY <1>1, WriteFacts, AttachedEffect
<1>3. /\ raw[r] # None /\ raw[r].status = "fetched" /\ Key(r) # None
      /\ Matching(Key(r)) = {}
  BY <1>1, <1>2, WriteFacts, CallFacts DEF CallInv, KeyAbsent
<1>4. /\ UsesTier2(Cols(r)) \/ UsesTier3(Cols(r))
      /\ j \in Candidates(Cols(r))
      /\ UsesTier2(Cols(r)) => Candidates(Cols(r)) = {j}
  BY <1>1, <1>2, CallFacts DEF KInv, Knows, TierUsed, AttachedSupported, CallInv, UrlDecided, At
<1>5. AddedTo(p, j) BY <1>2, AttachedEffect
<1>6. Ledger!AddOccurrence(r, j) BY <1>2, <1>5, AddedInLedger
<1>7. Ledger!Settle(r, "normalized", r) BY <1>2 DEF CommitAttached, Settle, Ledger!Settle
<1>8. /\ Ledger!Known(r) = {} /\ Ledger!Carriers(r) = Candidates(Cols(r))
      /\ Ledger!UsesTier2(Ledger!Cols(r)) = UsesTier2(Cols(r))
      /\ Ledger!UsesTier3(Ledger!Cols(r)) = UsesTier3(Cols(r))
  BY <1>3, LedgerReads
<1>9. Ledger!Join(r) BY <1>4, <1>6, <1>7, <1>8 DEF Ledger!Join
<1> QED BY <1>3, <1>9, LedgerReads DEF Ledger!Resolve, Ledger!Pending, Key

LEMMA NewJobIsFound ==
    ASSUME IInv, KInv, NEW p \in Procs, CommitNewJob(p)
    PROVE  \E r \in Raws : Ledger!Resolve(r)
<1>1. At(p, "write") /\ ctx[p].kind \in {"INSERTED", "AMBIGUOUS"} /\ Unmatched(ctx[p])
  BY DEF CommitNewJob, Unmatched, At
<1>2. PICK r \in Raws : r = ctx[p].raw BY <1>1, WriteFacts
<1> DEFINE status == IF ctx[p].kind = "AMBIGUOUS" THEN "identity_conflict" ELSE "normalized"
<1>3. /\ raw[r] # None /\ raw[r].status = "fetched" /\ Key(r) # None
      /\ Matching(Key(r)) = {}
  BY <1>1, <1>2, WriteFacts, CallFacts DEF CallInv, KeyAbsent
<1>4. /\ UsesTier2(Cols(r)) => Candidates(Cols(r)) = {} /\ ctx[p].kind # "AMBIGUOUS"
      /\ ctx[p].kind = "AMBIGUOUS" => UsesTier3(Cols(r))
  BY <1>1, <1>2, CallFacts DEF KInv, Knows, TierUsed, CallInv, UrlDecided, At
<1>5. AddedTo(p, r) BY <1>2, NewJobEffect
<1>6. Ledger!AddOccurrence(r, r) BY <1>2, <1>5, AddedInLedger
<1>7. Ledger!Settle(r, status, r) BY <1>2 DEF CommitNewJob, Settle, Ledger!Settle
<1>8. /\ status \in {"normalized", "identity_conflict"}
      /\ status = "identity_conflict" => UsesTier3(Cols(r))
  BY <1>4
<1> HIDE DEF status
<1>9. Ledger!Found(r) BY <1>3, <1>4, <1>6, <1>7, <1>8, LedgerReads DEF Ledger!Found
<1> QED BY <1>3, <1>9, LedgerReads DEF Ledger!Resolve, Ledger!Pending, Key

\* Deleting a Job without occurrences, which never happens, would change nothing.
LEMMA DeleteIsDelete ==
    ASSUME IInv, NEW j \in Raws, DeleteJob(j)
    PROVE  Ledger!Delete(j) \/ UNCHANGED Ledger!vars
<1> DEFINE gone == {o \in Stored : occurrence[o].job = j}
<1>1. /\ occurrence' = [o \in Raws |-> IF o \in gone THEN None ELSE occurrence[o]]
      /\ raw' = [r \in Raws |-> IF raw[r] # None /\ raw[r].occurrence \in gone
                                THEN [raw[r] EXCEPT !.occurrence = None] ELSE raw[r]]
  BY DEF DeleteJob
<1>2. gone = {o \in Stored : HomeOf[o] = j} BY DEF HomeOf, Stored
<1>3. gone \subseteq Raws BY DEF Stored
<1>4. Ledger!Stored = Stored BY LedgerReads
<1> HIDE DEF gone
<1>5. HomeOf' = [o \in Raws |-> IF o \in gone THEN None ELSE HomeOf[o]]
  BY <1>1 DEF HomeOf
<1>6. EvidenceOf' = [o \in Raws |-> IF o \in gone THEN None ELSE EvidenceOf[o]]
  BY <1>1 DEF EvidenceOf
<1>7. CASE gone # {}
  BY <1>1, <1>2, <1>4, <1>5, <1>6, <1>7 DEF Ledger!Delete, HomeOf, EvidenceOf
<1>8. CASE gone = {}
  <2>1. raw' = raw
    BY <1>1, <1>8 DEF IInv, TypeOK
  <2>2. HomeOf' = HomeOf /\ EvidenceOf' = EvidenceOf
    BY <1>5, <1>6, <1>8 DEF HomeOf, EvidenceOf
  <2> QED BY <2>1, <2>2 DEF Ledger!vars, HomeOf, EvidenceOf
<1> QED BY <1>7, <1>8

LEMMA LedgerStep ==
    ASSUME IInv, KInv, [Next]_vars
    PROVE  [Ledger!Next]_(Ledger!vars)
<1>1. CASE UNCHANGED tables
  BY <1>1 DEF tables, Ledger!vars
<1>2. ASSUME NEW r \in Raws, NEW d \in Postings, Fetch(r, d) PROVE Ledger!Next
  BY <1>2, FetchIsReceive DEF Ledger!Next
<1>3. ASSUME NEW r \in Raws, MarkParseError(r) PROVE Ledger!Next
  BY <1>3, ParseErrorIsReject DEF Ledger!Next
<1>4. ASSUME NEW p \in Procs, Commit(p) PROVE Ledger!Next
  BY <1>4, FoundIsRediscover, AttachedIsJoin, NewJobIsFound DEF Commit, Ledger!Next
<1>5. ASSUME NEW j \in Raws, DeleteJob(j) PROVE Ledger!Next \/ UNCHANGED Ledger!vars
  BY <1>5, DeleteIsDelete DEF Ledger!Next
<1> QED BY <1>1, <1>2, <1>3, <1>4, <1>5, StepKinds

\* Concurrent persist_posting transactions settle postings as if one at a time,
\* each seeing every earlier one, with the weaker promise for requisitions.
THEOREM TransactionsImplementLedger == Spec => ImplementsLedger
<1>1. Init => Ledger!Init
  BY DEF Init, Ledger!Init
<1>2. IInv /\ KInv /\ [Next]_vars => [Ledger!Next]_(Ledger!vars)
  BY LedgerStep
<1> QED BY <1>1, <1>2, Invariance, KnowledgeInvariance, PTL
        DEF Spec, ImplementsLedger, Ledger!Spec
=============================================================================
