------------------------------ MODULE Services ------------------------------
(***************************************************************************)
(* The application services (services/*.py) over their tables, called by   *)
(* sessions that overlap, and the orchestrator that reads a saved search   *)
(* while they write it.  One table is looked at per behaviour.             *)
(*                                                                         *)
(* PostgreSQL at READ COMMITTED and the SQLAlchemy session are external:   *)
(* a session keeps the objects it loaded, does not refresh them when it    *)
(* selects their rows again, and flushes only the attributes that differ   *)
(* from what it loaded, into whatever the row has become by then.  A row   *)
(* written is locked until its transaction ends.                           *)
(***************************************************************************)
EXTENDS Planner, Functions

CONSTANTS
    Sessions, Users, Ids, Times,
    Creations,       \* of each table, the values rows are created with
    Requests,        \* of each table, the values updates ask for, by attribute
    ProviderLists,   \* what a composition root may register
    Titles, Locations,   \* what the search's child rows may hold
    MaxCalls         \* bound on the service calls of a session

ASSUME TimesAssumption == None \notin Times

VARIABLES table, rows, objects, writes, failed, calls, run

tableVars == <<table, rows, objects, writes, failed, calls>>
servicesVars == <<tableVars, run>>

PRE_APPLICATION_STATUSES == {"interested", "not_interested"}
POST_APPLICATION_STATUSES ==
    {"applied", "recruiter_contacted", "screening", "interviewing", "offer",
     "rejected_by_employer", "withdrawn_by_user"}

-----------------------------------------------------------------------------
(***************************************************************************)
(* Tables.  A row is its owner and its attributes.                         *)
(***************************************************************************)
Ordered(low, high) ==
    /\ low # None => low >= 0
    /\ high # None => high >= 0
    /\ low # None /\ high # None => low <= high

status_applied_at_consistency(v) ==
    IF v.applied_at = None THEN v.status \in PRE_APPLICATION_STATUSES
                           ELSE v.status \in POST_APPLICATION_STATUSES

\* The CHECKs of the table looked at, on a whole row.
CheckConstraint(v) ==
    CASE table = "user_jobs" -> status_applied_at_consistency(v)
      [] table = "saved_searches" -> Ordered(v.salary_floor, v.preferred_salary)
      [] table = "candidate_profiles" ->
            Ordered(v.salary_expectation_min, v.salary_expectation_max)

\* What session s reads: its own write or the committed row.
Visible(s, id) == IF writes[s][id] # None THEN writes[s][id] ELSE rows[id]

Owns(row, user) == row # None /\ row.owner = user

WrittenByOthers(s, id) == \E t \in Sessions \ {s} : writes[t][id] # None

\* Mutant: the search is read without FOR SHARE.
SharedNever(id) == FALSE

\* The orchestrator holds the row FOR SHARE.
Shared(id) == run # None /\ run.phase = "locked" /\ run.id = id

-----------------------------------------------------------------------------
(***************************************************************************)
(* Sessions.                                                               *)
(***************************************************************************)
Usable(s) == ~failed[s] /\ calls[s] < MaxCalls

Object(row) == [owner |-> row.owner, loaded |-> row.values, now |-> row.values]

\* A SELECT of id adds an object only if the session has none of it yet.
Selected(s, id) ==
    IF objects[s][id] # None THEN objects[s][id] ELSE Object(Visible(s, id))

Called(s) == calls' = [calls EXCEPT ![s] = @ + 1]

\* The database refuses: nothing but a rollback is possible from here.
Refuse(s) == failed' = [failed EXCEPT ![s] = TRUE] /\ UNCHANGED <<objects, writes>>

\* Write the attributes of object that changed into the row id has by now.
Flush(s, id, object) ==
    LET dirty == {a \in DOMAIN object.now : object.now[a] # object.loaded[a]}
        row == Visible(s, id)
        values == [a \in DOMAIN object.now |->
                     IF a \in dirty THEN object.now[a] ELSE row.values[a]]
        flushed == [object EXCEPT !.loaded = object.now]
    IN IF dirty = {}
       THEN /\ objects' = [objects EXCEPT ![s][id] = object]
            /\ UNCHANGED <<writes, failed>>
       ELSE /\ ~WrittenByOthers(s, id) /\ ~Shared(id)
            /\ IF row = None \/ ~CheckConstraint(values)
               THEN Refuse(s)
               ELSE /\ writes' = [writes EXCEPT ![s][id] =
                                    [owner |-> row.owner, values |-> values]]
                    /\ objects' = [objects EXCEPT ![s][id] = flushed]
                    /\ UNCHANGED failed

Commit(s) ==
    /\ ~failed[s]
    /\ \E id \in Ids : writes[s][id] # None
    /\ rows' = [id \in Ids |-> Visible(s, id)]
    /\ writes' = [writes EXCEPT ![s] = [id \in Ids |-> None]]
    /\ UNCHANGED <<table, objects, failed, calls, run>>

\* By the caller, or because its process ends; objects expire.
Rollback(s) ==
    /\ failed[s] \/ \E id \in Ids : objects[s][id] # None
    /\ writes' = [writes EXCEPT ![s] = [id \in Ids |-> None]]
    /\ objects' = [objects EXCEPT ![s] = [id \in Ids |-> None]]
    /\ failed' = [failed EXCEPT ![s] = FALSE]
    /\ UNCHANGED <<table, rows, calls, run>>

\* Deletes the account and, by cascade, what it owns, once nobody is writing it.
DeleteUser(user) ==
    /\ \E id \in Ids : Owns(rows[id], user)
    /\ \A id \in Ids, s \in Sessions : ~Owns(writes[s][id], user)
    /\ \A id \in Ids : Owns(rows[id], user) => ~Shared(id)
    /\ rows' = [id \in Ids |-> IF Owns(rows[id], user) THEN None ELSE rows[id]]
    /\ UNCHANGED <<table, objects, writes, failed, calls, run>>

-----------------------------------------------------------------------------
(***************************************************************************)
(* user_jobs.  The caller loads the row; nothing locks it.                 *)
(***************************************************************************)
LoadUserJob(s, id) ==
    /\ Usable(s)
    /\ objects[s][id] = None /\ Visible(s, id) # None
    /\ objects' = [objects EXCEPT ![s][id] = Selected(s, id)]
    /\ Called(s)
    /\ UNCHANGED <<table, rows, writes, failed, run>>

\* Mutant: only who was interested applies for the first time.
AppliedAtOfInterested(old, new_status, changed_at) ==
    CASE new_status \in PRE_APPLICATION_STATUSES -> None
      [] new_status \in POST_APPLICATION_STATUSES /\ old.status = "interested" -> changed_at
      [] OTHER -> old.applied_at

\* Set on the first application, kept from then on, cleared on the way back.
AppliedAt(old, new_status, changed_at) ==
    CASE new_status \in PRE_APPLICATION_STATUSES -> None
      [] new_status \in POST_APPLICATION_STATUSES
             /\ old.status \in PRE_APPLICATION_STATUSES -> changed_at
      [] OTHER -> old.applied_at

set_status(s, id, new_status, changed_at) ==
    LET object == objects[s][id]
        new == [status |-> new_status,
                applied_at |-> AppliedAt(object.now, new_status, changed_at),
                status_changed_at |-> changed_at]
    IN /\ Usable(s)
       /\ object # None
       /\ object.now.status # new_status
       /\ Flush(s, id, [object EXCEPT !.now = new])
       /\ Called(s)
       /\ UNCHANGED <<table, rows, run>>

-----------------------------------------------------------------------------
(***************************************************************************)
(* saved_searches and candidate_profiles.  A request that is refused       *)
(* before any row is read (an unknown attribute, an enumerated value that  *)
(* is none) changes nothing and is no step.                                *)
(***************************************************************************)
\* Mutant: the UNIQUE is replaced by a look at what has been committed.
UniqueByLooking(s, user) == TRUE

\* An insert waits for another of the same unique value to be decided.
UniqueDecided(s, user) ==
    \A t \in Sessions \ {s}, id \in Ids : ~Owns(writes[t][id], user)

\* The row flushed at once, and not yet committed.
Insert(s, id, row, refused) ==
    /\ rows[id] = None
    /\ \A t \in Sessions : writes[t][id] = None /\ objects[t][id] = None
    /\ IF refused \/ ~CheckConstraint(row.values)
       THEN Refuse(s)
       ELSE /\ writes' = [writes EXCEPT ![s][id] = row]
            /\ objects' = [objects EXCEPT ![s][id] = Object(row)]
            /\ UNCHANGED failed
    /\ Called(s)
    /\ UNCHANGED <<table, rows, run>>

\* setattr of each field asked for, on the object the session already had.
SetFields(s, id, request) ==
    LET object == Selected(s, id)
        new == [a \in DOMAIN object.now |->
                  IF a \in DOMAIN request THEN request[a] ELSE object.now[a]]
    IN /\ Flush(s, id, [object EXCEPT !.now = new])
       /\ Called(s)
       /\ UNCHANGED <<table, rows, run>>

Fetch(s, id) ==
    /\ objects' = [objects EXCEPT ![s][id] = Selected(s, id)]
    /\ Called(s)
    /\ UNCHANGED <<table, rows, writes, failed, run>>

\* A user has any number of searches; a new one is active by the column's default.
create_saved_search(s, user, id, values) ==
    /\ Usable(s)
    /\ LET row == [owner |-> user,
                   values |-> [a \in DOMAIN values \cup {"is_active"} |->
                                 IF a = "is_active" THEN TRUE ELSE values[a]]]
       IN Insert(s, id, row, FALSE)

\* Selected by id and owner: a search that is another user's is none.
get_saved_search(s, user, id) ==
    /\ Usable(s)
    /\ Owns(Visible(s, id), user)
    /\ Fetch(s, id)

update_saved_search(s, user, id, request) ==
    /\ Usable(s)
    /\ Owns(Visible(s, id), user)
    /\ SetFields(s, id, request)

\* The UNIQUE on the owner, and nothing before it, refuses a second profile.
create_candidate_profile(s, user, id, values) ==
    /\ Usable(s)
    /\ UniqueDecided(s, user)
    /\ Insert(s, id, [owner |-> user, values |-> values],
              \E i \in Ids : Owns(Visible(s, i), user))

\* The user's profile, whichever row that is.
get_candidate_profile(s, user) ==
    /\ Usable(s)
    /\ \E id \in Ids : Owns(Visible(s, id), user) /\ Fetch(s, id)

update_candidate_profile(s, user, request) ==
    /\ Usable(s)
    /\ \E id \in Ids : Owns(Visible(s, id), user) /\ SetFields(s, id, request)

-----------------------------------------------------------------------------
(***************************************************************************)
(* The orchestrator's part: the row it locks, the run it creates, and what *)
(* it asks of a provider afterwards from the row as it was read.           *)
(***************************************************************************)
LockSearch(id) ==
    /\ run = None
    /\ rows[id] # None
    /\ rows[id].values.is_active
    /\ \A s \in Sessions : writes[s][id] = None
    /\ run' = [phase |-> "locked", id |-> id, search |-> rows[id].values,
               provider |-> None, query |-> None]
    /\ UNCHANGED tableVars

CreateRun ==
    /\ run # None /\ run.phase = "locked"
    /\ run' = [run EXCEPT !.phase = "created"]
    /\ UNCHANGED tableVars

\* One provider of the loop that is asked.  Of one that is not (the registry
\* refuses it because its name is not what it was, the plan is refused, or skips
\* it) nothing is kept here, and the next one is planned from the same search.
PlanProvider ==
    /\ run # None /\ run.phase = "created" /\ run.query = None
    /\ \E providers \in ProviderLists, titles \in Titles, locations \in Locations :
          /\ ProviderRegistry(providers) # Rejected
          /\ \E i \in DOMAIN providers, now \in Slugs :
                LET capabilities == get(ProviderRegistry(providers), providers[i].name, now)
                    query == plan(run.search, capabilities, titles, locations)
                IN /\ capabilities # Rejected
                   /\ query \notin {None, Rejected}
                   /\ run' = [run EXCEPT !.provider = capabilities, !.query = query]
    /\ UNCHANGED tableVars

-----------------------------------------------------------------------------
NoObjects == [s \in Sessions |-> [id \in Ids |-> None]]

Init ==
    /\ table \in {"user_jobs", "saved_searches", "candidate_profiles"}
    /\ rows \in [Ids -> {None} \cup [owner : Users, values : Creations[table]]]
    /\ \A id \in Ids : rows[id] # None => /\ table = "user_jobs"
                                          /\ CheckConstraint(rows[id].values)
    /\ objects = NoObjects
    /\ writes = NoObjects
    /\ failed = [s \in Sessions |-> FALSE]
    /\ calls = [s \in Sessions |-> 0]
    /\ run = None

UserJobStep(s) ==
    \E id \in Ids :
        \/ LoadUserJob(s, id)
        \/ \E new_status \in PRE_APPLICATION_STATUSES \cup POST_APPLICATION_STATUSES,
              changed_at \in Times : set_status(s, id, new_status, changed_at)

SavedSearchStep(s) ==
    \E user \in Users, id \in Ids :
        \/ \E values \in Creations[table] : create_saved_search(s, user, id, values)
        \/ \E request \in Requests[table] : update_saved_search(s, user, id, request)
        \/ get_saved_search(s, user, id)

CandidateProfileStep(s) ==
    \E user \in Users :
        \/ \E id \in Ids, values \in Creations[table] :
              create_candidate_profile(s, user, id, values)
        \/ \E request \in Requests[table] : update_candidate_profile(s, user, request)
        \/ get_candidate_profile(s, user)

ServiceStep(s) ==
    \/ Commit(s) \/ Rollback(s)
    \/ table = "user_jobs" /\ UserJobStep(s)
    \/ table = "saved_searches" /\ SavedSearchStep(s)
    \/ table = "candidate_profiles" /\ CandidateProfileStep(s)

RunStep ==
    \/ \E id \in Ids : LockSearch(id)
    \/ CreateRun
    \/ PlanProvider

Next ==
    \/ \E s \in Sessions : ServiceStep(s)
    \/ \E user \in Users : DeleteUser(user)
    \/ table = "saved_searches" /\ RunStep

Spec == Init /\ [][Next]_servicesVars

-----------------------------------------------------------------------------
\* The database refuses a change of status only to a session that decided from
\* an object the row has left behind: another session's commit, or a deletion,
\* came between its read and its flush.  No sequence of changes made from the
\* row as it is ends in a date that does not go with the status, which is what
\* the CHECK would refuse (services/user_jobs.py:37-53).
OnlyStaleChangeRefused ==
    [][table = "user_jobs" =>
         \A s \in Sessions :
            ~failed[s] /\ failed'[s] =>
                \E id \in Ids :
                    /\ objects[s][id] # None
                    /\ \/ Visible(s, id) = None
                       \/ Visible(s, id).values # objects[s][id].loaded]_servicesVars

\* Two sessions that create a profile for one user at once end with one of
\* them (services/candidate_profiles.py:44-50).
OneProfilePerUser ==
    table = "candidate_profiles" =>
        \A i, j \in Ids : rows[i] # None /\ rows[j] # None /\ rows[i].owner = rows[j].owner
                            => i = j

\* A run is created for a search that still exists, is still active and is as
\* the run will use it: no update, no deactivation and no deletion comes
\* between the read and the commit (ingestion/orchestrator.py:416-424).
RunStartsFromCommittedSearch ==
    [][(run # None /\ run.phase = "locked" /\ run'.phase = "created")
         => rows[run.id] # None /\ rows[run.id].values = run.search]_servicesVars

\* Each criterion of the search, in the words of a query.
Wanted(search) ==
    {w \in {<<"salary_floor", search.salary_floor>>,
            <<"radius_miles", search.radius_miles>>,
            <<"posted_within_hours", search.recency_limit_hours>>} : w[2] # None}
    \cup {w \in {<<"excluded_titles", search.excluded_titles>>,
                  <<"employment_types", search.employment_types>>,
                  <<"seniority", search.seniority>>,
                  <<"company_filter", search.preferred_companies>>,
                  <<"excluded_companies", search.excluded_companies>>} :
            w[2] # None /\ w[2] # <<>>}
    \cup {w \in {<<"remote_ok", TRUE>>} : search.remote_rules = "remote_only"}

\* Of every source a planned query asks, each criterion of the search reaches
\* it with its value and is either one the source's own flag or list says it
\* applies, or one noted for local enforcement (query_planner.py:192-203).
NoCriterionLost ==
    run # None /\ run.query # None =>
        \A source \in run.query.sources, wanted \in Wanted(run.search) :
            LET field == wanted[1]
                advertised == run.provider.sources[source]
            IN /\ source \in DOMAIN run.provider.sources
               /\ run.query.values[field] = wanted[2]
               /\ \/ field \in run.query.local_enforcement[source]
                  \/ field = "salary_floor" /\ advertised.supports_salary_filter
                  \/ field = "radius_miles" /\ advertised.supports_location_filter
                  \/ field = "remote_ok" /\ advertised.supports_remote_filter
                  \/ field = "posted_within_hours" /\ advertised.supports_posted_within_filter
                  \/ field \in GenericFields /\ field \in advertised.supported_query_fields
=============================================================================
