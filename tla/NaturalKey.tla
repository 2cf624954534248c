----------------------------- MODULE NaturalKey -----------------------------
(***************************************************************************)
(* The pure identity helpers of the ingestion package: how a discovered    *)
(* posting becomes the columns of a job_occurrences row, which of the      *)
(* three natural-key forms names it, which stored row that key finds, and  *)
(* which transaction-level locks serialise work on it.                     *)
(*                                                                         *)
(* Text is abstract.  Trim gives the canonical form of a raw text (None    *)
(* for one that holds only covered whitespace) and NormalizeUrl the        *)
(* canonical form of a raw URL (None for one that is not usable as an      *)
(* identity): every other fact about strings is left out.  Providers and   *)
(* sources are slugs the schema already holds in canonical form.           *)
(***************************************************************************)

CONSTANTS
    None,          \* SQL NULL / Python None
    Providers,     \* canonical provider slugs
    Sources,       \* canonical source slugs
    Texts,         \* raw identifier texts, as a provider reports them
    Urls,          \* raw URLs, as a provider reports them
    Trim,          \* [Texts -> Texts or None]: strip of covered whitespace
    NormalizeUrl   \* [Urls -> Urls or None]: normalize_url of a given URL

ASSUME TextAssumption ==
    /\ None \notin Providers \cup Sources \cup Texts \cup Urls
    /\ Trim \in [Texts -> Texts \cup {None}]
    /\ NormalizeUrl \in [Urls -> Urls \cup {None}]

TextOrNone == Texts \cup {None}
UrlOrNone  == Urls \cup {None}

\* A DiscoveredJob, reduced to the fields identity resolution reads.
DiscoveredJob ==
    [provider : Providers, source : Sources, source_tenant_id : TextOrNone,
     source_job_id : TextOrNone, requisition_id_raw : TextOrNone,
     source_url : Urls, canonical_url : UrlOrNone]

canonicalize_nullable_text(value) == IF value = None THEN None ELSE Trim[value]

normalize_url(value) == IF value = None THEN None ELSE NormalizeUrl[value]

-----------------------------------------------------------------------------
(***************************************************************************)
(* The identity columns of the job_occurrences row a posting would be      *)
(* stored as: the ORM validators trim the identifiers, and persistence     *)
(* supplies the two normalised URLs.                                       *)
(***************************************************************************)
IdentityColumns ==
    [provider : Providers, source : Sources, source_tenant_id : TextOrNone,
     source_job_id : TextOrNone, requisition_id_raw : TextOrNone,
     source_url_normalized : UrlOrNone, canonical_url_normalized : UrlOrNone]

Columns(job) ==
    [provider                 |-> job.provider,
     source                   |-> job.source,
     source_tenant_id         |-> canonicalize_nullable_text(job.source_tenant_id),
     source_job_id            |-> canonicalize_nullable_text(job.source_job_id),
     requisition_id_raw       |-> canonicalize_nullable_text(job.requisition_id_raw),
     source_url_normalized    |-> normalize_url(job.source_url),
     canonical_url_normalized |-> normalize_url(job.canonical_url)]

NaturalKeyRecord ==
    [domain : {"TENANT", "NO_TENANT", "URL"}, provider : Providers,
     source : Sources, tenant_id : TextOrNone, job_id : TextOrNone,
     url_normalized : UrlOrNone]

\* The natural key of a posting whose canonical columns are c, or None.
resolve_natural_key(c) ==
    LET key(domain, tenant, id) ==
            [domain |-> domain, provider |-> c.provider, source |-> c.source,
             tenant_id |-> tenant, job_id |-> id,
             url_normalized |-> c.source_url_normalized]
    IN  IF c.source_job_id # None /\ c.source_tenant_id # None
        THEN key("TENANT", c.source_tenant_id, c.source_job_id)
        ELSE IF c.source_job_id # None
        THEN key("NO_TENANT", None, c.source_job_id)
        ELSE IF c.source_url_normalized # None
        THEN key("URL", None, None)
        ELSE None

resolve_identity(job) == resolve_natural_key(Columns(job))

\* The Tier-1 lookup: does natural key k select the stored row with columns c?
existing_occurrence_conditions(k, c) ==
    /\ c.provider = k.provider
    /\ c.source = k.source
    /\ k.domain = "TENANT" => /\ c.source_tenant_id = k.tenant_id
                              /\ c.source_job_id = k.job_id
    /\ k.domain = "NO_TENANT" => /\ c.source_tenant_id = None
                                 /\ c.source_job_id = k.job_id
    /\ k.domain = "URL" => /\ c.source_job_id = None
                           /\ c.source_url_normalized = k.url_normalized

-----------------------------------------------------------------------------
(***************************************************************************)
(* Locks.  An advisory key is a hash of a tag and length-prefixed          *)
(* components; two keys are equal only if tag and components are, so a     *)
(* lock is named by them.                                                  *)
(***************************************************************************)
Lock(tag, provider, source, a, b) ==
    [tag |-> tag, provider |-> provider, source |-> source, a |-> a, b |-> b]

advisory_lock_key(k) ==
    Lock(k.domain, k.provider, k.source, k.tenant_id,
         IF k.domain = "URL" THEN k.url_normalized ELSE k.job_id)

canonical_url_advisory_lock_key(url) == Lock("CANONICAL_URL", None, None, None, url)

\* Mutant: what a reuse of the TENANT tag for the Tier-3 lock would do.
RequisitionLockWithTenantTag(provider, source, tenant, requisition) ==
    Lock("TENANT", provider, source, tenant, requisition)

tenant_requisition_advisory_lock_key(provider, source, tenant, requisition) ==
    Lock("TENANT_REQUISITION", provider, source, tenant, requisition)

\* Row locks taken with SELECT ... FOR UPDATE.
RawRowLock(r) == Lock("RAW_ROW", None, None, r, None)
JobRowLock(j) == Lock("JOB_ROW", None, None, j, None)

-----------------------------------------------------------------------------
(***************************************************************************)
(* Tier 2 applies to a posting with a usable canonical URL, Tier 3 only to *)
(* one without, that names both its tenant and a requisition.              *)
(***************************************************************************)
UsesTier2(c) == c.canonical_url_normalized # None

UsesTier3(c) == /\ c.canonical_url_normalized = None
                /\ c.source_tenant_id # None
                /\ c.requisition_id_raw # None

SignalLock(c) ==
    IF UsesTier2(c)
    THEN canonical_url_advisory_lock_key(c.canonical_url_normalized)
    ELSE tenant_requisition_advisory_lock_key(
             c.provider, c.source, c.source_tenant_id, c.requisition_id_raw)

SameRequisition(c, d) ==
    /\ d.provider = c.provider
    /\ d.source = c.source
    /\ d.source_tenant_id = c.source_tenant_id
    /\ d.requisition_id_raw = c.requisition_id_raw

\* Mutant: a posting with a canonical URL that falls through to Tier 3.
MatchesEitherSignal(c, d) ==
    \/ UsesTier2(c) /\ d.canonical_url_normalized = c.canonical_url_normalized
    \/ SameRequisition(c, d)

\* The filter clause of the tier posting c uses: does stored row d match it?
MatchesSignal(c, d) ==
    IF UsesTier2(c)
    THEN d.canonical_url_normalized = c.canonical_url_normalized
    ELSE SameRequisition(c, d)
=============================================================================
