------------------------------- MODULE Planner -------------------------------
(***************************************************************************)
(* What one saved search asks of one provider (discovery/query_planner.py) *)
(* and how the provider is found (providers/registry.py).  Pure functions: *)
(* an exception is the value Rejected.  The order of the sources and the   *)
(* wording of the errors are left out.                                     *)
(***************************************************************************)
EXTENDS Naturals, Sequences, FiniteSets, SequencesExt

CONSTANTS
    None,
    Slugs,      \* the names of the canonical form
    Rejected,   \* a refusal, by exception
    NotAList,   \* any JSON value that is not a list
    Infinite    \* a radius too large for a float

ASSUME PlannerAssumption == None # TRUE

\* The four flags of a source, each for the fields it alone decides.
DedicatedCapability ==
    [salary_floor |-> "supports_salary_filter",
     locations |-> "supports_location_filter",
     radius_miles |-> "supports_location_filter",
     remote_ok |-> "supports_remote_filter",
     posted_within_hours |-> "supports_posted_within_filter"]

GenericFields == {"titles", "excluded_titles", "employment_types", "seniority",
                  "company_filter", "excluded_companies"}

QueryFields == GenericFields \cup DOMAIN DedicatedCapability

ListValued == GenericFields \cup {"locations"}

OrEmpty(list) == IF list = None THEN <<>> ELSE list

field_values(search, titles, locations) ==
    [titles |-> titles,
     excluded_titles |-> OrEmpty(search.excluded_titles),
     locations |-> locations,
     radius_miles |-> search.radius_miles,
     salary_floor |-> search.salary_floor,
     employment_types |-> OrEmpty(search.employment_types),
     seniority |-> OrEmpty(search.seniority),
     posted_within_hours |-> search.recency_limit_hours,
     company_filter |-> OrEmpty(search.preferred_companies),
     excluded_companies |-> OrEmpty(search.excluded_companies),
     remote_ok |-> IF search.remote_rules = "remote_only" THEN TRUE ELSE None]

Populated(values) ==
    {f \in QueryFields : values[f] # IF f \in ListValued THEN <<>> ELSE None}

\* Mutant: the list of supported fields is believed for every field.
SupportedByList(source, field) == field \in source.supported_query_fields

\* A field with a flag is decided by the flag, whatever the list holds.
Supported(source, field) ==
    IF field \in DOMAIN DedicatedCapability
    THEN source[DedicatedCapability[field]]
    ELSE field \in source.supported_query_fields

WellFormed(capabilities) ==
    /\ capabilities.provider \in Slugs
    /\ \A key \in DOMAIN capabilities.sources :
           key \in Slugs /\ capabilities.sources[key].source = key

\* The sources asked: all that are advertised unless the search lists some.
resolved_sources(search, capabilities) ==
    LET enabled == IF search.enabled_sources = None THEN <<>> ELSE search.enabled_sources
        listed == enabled[capabilities.provider]
    IN IF capabilities.provider \notin DOMAIN enabled
       THEN DOMAIN capabilities.sources
       ELSE IF \/ listed = NotAList
               \/ ~IsInjective(listed)
               \/ ~(ToSet(listed) \subseteq DOMAIN capabilities.sources)
            THEN Rejected
            ELSE ToSet(listed)

\* None for a selection that is legitimately empty.
plan(search, capabilities, titles, locations) ==
    LET sources == resolved_sources(search, capabilities)
        values == field_values(search, titles, locations)
    IN IF ~WellFormed(capabilities) \/ sources = Rejected
       THEN Rejected
       ELSE IF sources = {}
       THEN None
       ELSE IF search.radius_miles = Infinite
       THEN Rejected
       ELSE [sources |-> sources,
             values |-> values,
             local_enforcement |->
                 [s \in sources |-> {f \in Populated(values) :
                                        ~Supported(capabilities.sources[s], f)}]]

-----------------------------------------------------------------------------
\* A provider is an object whose name and capabilities may change any time; the
\* registry keeps a copy of what it saw, or refuses to be constructed.
ProviderRegistry(providers) ==
    IF \/ \E i \in DOMAIN providers :
              \/ providers[i].name \notin Slugs
              \/ providers[i].capabilities = None
              \/ providers[i].capabilities.provider # providers[i].name
       \/ \E i, j \in DOMAIN providers : i # j /\ providers[i].name = providers[j].name
    THEN Rejected
    ELSE [n \in {providers[i].name : i \in DOMAIN providers} |->
            providers[CHOOSE i \in DOMAIN providers : providers[i].name = n].capabilities]

\* The copy, provided that the object still has the name; now is its name now.
get(registry, name, now) ==
    IF name \notin DOMAIN registry \/ now # name THEN Rejected ELSE registry[name]
=============================================================================
