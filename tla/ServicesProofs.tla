---------------------------- MODULE ServicesProofs ----------------------------
(***************************************************************************)
(* For any sessions, users, rows, requests and constants of the planner:   *)
(* only a stale change of status is refused, a user ends with one profile, *)
(* a run starts from the search as it is committed, and each criterion of  *)
(* the search reaches the sources that it asks.                            *)
(***************************************************************************)
EXTENDS Services, TLAPS

Tables ==
    /\ rows = [id \in Ids |-> rows[id]]
    /\ writes = [s \in Sessions |-> [id \in Ids |-> writes[s][id]]]

\* No row that breaks a CHECK is committed, or waits to be.
RowsChecked ==
    /\ \A id \in Ids : rows[id] # None => CheckConstraint(rows[id].values)
    /\ \A s \in Sessions, id \in Ids :
          writes[s][id] # None => CheckConstraint(writes[s][id].values)

\* A row written stays locked.
OneWriter ==
    \A s, t \in Sessions, id \in Ids :
        writes[s][id] # None /\ writes[t][id] # None => s = t

\* Nobody gives a row to another user.
OwnersKept ==
    \A s \in Sessions, id \in Ids :
        writes[s][id] # None /\ rows[id] # None => writes[s][id].owner = rows[id].owner

\* Of two profiles, committed or not, the owners differ.
OwnersDiffer ==
    table = "candidate_profiles" =>
        /\ \A i, j \in Ids : rows[i] # None /\ rows[j] # None /\ rows[i].owner = rows[j].owner
                                => i = j
        /\ \A s \in Sessions, i, j \in Ids :
              writes[s][i] # None /\ rows[j] # None /\ writes[s][i].owner = rows[j].owner
                                => i = j
        /\ \A s, t \in Sessions, i, j \in Ids :
              writes[s][i] # None /\ writes[t][j] # None /\ writes[s][i].owner = writes[t][j].owner
                                => i = j

\* The row behind FOR SHARE stays as it was read.
SearchHeld ==
    run # None =>
        /\ run = [phase |-> run.phase, id |-> run.id, search |-> run.search,
                  provider |-> run.provider, query |-> run.query]
        /\ run.phase = "locked" =>
              /\ run.id \in Ids
              /\ rows[run.id] # None
              /\ rows[run.id].values = run.search
              /\ \A s \in Sessions : writes[s][run.id] = None

SInv == Tables /\ RowsChecked /\ OneWriter /\ OwnersKept /\ OwnersDiffer /\ SearchHeld

-----------------------------------------------------------------------------
\* Nothing of it depends on the objects a session keeps.
LEMMA TablesUnchanged ==
    ASSUME SInv, UNCHANGED <<table, rows, writes, run>>
    PROVE  SInv'
<1>1. Tables' BY DEF SInv, Tables
<1>2. RowsChecked' BY DEF SInv, RowsChecked, CheckConstraint
<1>3. OneWriter' BY DEF SInv, OneWriter
<1>4. OwnersKept' BY DEF SInv, OwnersKept
<1>5. OwnersDiffer' BY DEF SInv, OwnersDiffer
<1>6. SearchHeld' BY DEF SInv, SearchHeld
<1>7. QED BY <1>1, <1>2, <1>3, <1>4, <1>5, <1>6 DEF SInv

\* A session writes one row, which it may: the row passes the CHECKs, nobody
\* else has it locked, and its owner is its own alone.
LEMMA RowWritten ==
    ASSUME SInv,
           NEW s \in Sessions, NEW id \in Ids, NEW row,
           writes' = [writes EXCEPT ![s][id] = row],
           UNCHANGED <<table, rows, run>>,
           CheckConstraint(row.values),
           \A t \in Sessions \ {s} : writes[t][id] = None,
           ~Shared(id),
           rows[id] # None => row.owner = rows[id].owner,
           table = "candidate_profiles" =>
               \A j \in Ids \ {id} :
                   /\ rows[j] # None => rows[j].owner # row.owner
                   /\ \A t \in Sessions : writes[t][j] # None => writes[t][j].owner # row.owner
    PROVE  SInv'
<1> DEFINE After(t, j) == IF t = s /\ j = id THEN row ELSE writes[t][j]
<1>1. /\ \A t \in Sessions, j \in Ids : writes'[t][j] = After(t, j)
      /\ writes' = [t \in Sessions |-> [j \in Ids |-> writes'[t][j]]]
  <2>1. writes = [t \in Sessions |-> [j \in Ids |-> writes[t][j]]] BY DEF SInv, Tables
  <2>2. QED BY <2>1
<1> HIDE DEF After
<1>2. Tables' BY <1>1 DEF SInv, Tables
<1>3. RowsChecked'
  <2>1. ASSUME NEW t \in Sessions, NEW j \in Ids, After(t, j) # None
        PROVE  CheckConstraint(After(t, j).values)
    BY <2>1 DEF SInv, RowsChecked, After
  <2>2. \A v : CheckConstraint(v)' <=> CheckConstraint(v) BY DEF CheckConstraint
  <2>3. QED BY <1>1, <2>1, <2>2 DEF SInv, RowsChecked
<1>4. OneWriter'
  <2>1. ASSUME NEW t \in Sessions, NEW u \in Sessions, NEW j \in Ids,
               After(t, j) # None, After(u, j) # None
        PROVE  t = u
    BY <2>1 DEF SInv, OneWriter, After
  <2>2. QED BY <1>1, <2>1 DEF OneWriter
<1>5. OwnersKept'
  <2>1. ASSUME NEW t \in Sessions, NEW j \in Ids, After(t, j) # None, rows[j] # None
        PROVE  After(t, j).owner = rows[j].owner
    BY <2>1 DEF SInv, OwnersKept, After
  <2>2. QED BY <1>1, <2>1 DEF OwnersKept
<1>6. OwnersDiffer'
  <2> SUFFICES ASSUME table = "candidate_profiles" PROVE OwnersDiffer'
    BY DEF OwnersDiffer
  <2>1. ASSUME NEW t \in Sessions, NEW i \in Ids, NEW j \in Ids,
               After(t, i) # None, rows[j] # None, After(t, i).owner = rows[j].owner
        PROVE  i = j
    BY <2>1 DEF SInv, OwnersDiffer, After
  <2>2. ASSUME NEW t \in Sessions, NEW u \in Sessions, NEW i \in Ids, NEW j \in Ids,
               After(t, i) # None, After(u, j) # None, After(t, i).owner = After(u, j).owner
        PROVE  i = j
    BY <2>2 DEF SInv, OwnersDiffer, After
  <2>3. QED BY <1>1, <2>1, <2>2 DEF SInv, OwnersDiffer
<1>7. SearchHeld'
  BY <1>1 DEF SInv, SearchHeld, Shared, After
<1>8. QED BY <1>2, <1>3, <1>4, <1>5, <1>6, <1>7 DEF SInv

\* Every object is written as the row has become by then.
LEMMA FlushKeeps ==
    ASSUME SInv, NEW s \in Sessions, NEW id \in Ids, NEW object,
           Flush(s, id, object), UNCHANGED <<table, rows, run>>
    PROVE  SInv'
<1>1. CASE UNCHANGED writes BY <1>1, TablesUnchanged
<1>2. CASE ~UNCHANGED writes
  <2>1. PICK values : /\ writes' = [writes EXCEPT ![s][id] =
                                      [owner |-> Visible(s, id).owner, values |-> values]]
                      /\ CheckConstraint(values)
                      /\ Visible(s, id) # None
                      /\ ~WrittenByOthers(s, id) /\ ~Shared(id)
    BY <1>2 DEF Flush, Refuse
  <2> DEFINE row == [owner |-> Visible(s, id).owner, values |-> values]
  <2>2. \A t \in Sessions \ {s} : writes[t][id] = None BY <2>1 DEF WrittenByOthers
  <2>3. rows[id] # None => row.owner = rows[id].owner
    BY DEF Visible, SInv, OwnersKept
  <2>4. ASSUME table = "candidate_profiles", NEW j \in Ids \ {id}
        PROVE  /\ rows[j] # None => rows[j].owner # row.owner
               /\ \A t \in Sessions : writes[t][j] # None => writes[t][j].owner # row.owner
    BY <2>1, <2>4 DEF Visible, SInv, OwnersDiffer
  <2>5. CheckConstraint(row.values) BY <2>1
  <2> HIDE DEF row
  <2>6. writes' = [writes EXCEPT ![s][id] = row] BY <2>1 DEF row
  <2>7. QED BY <2>1, <2>2, <2>3, <2>4, <2>5, <2>6, RowWritten
<1>3. QED BY <1>1, <1>2

\* A new row has an id of its own; whether its owner may have it is its caller's.
LEMMA InsertKeeps ==
    ASSUME SInv, NEW s \in Sessions, NEW id \in Ids, NEW row, NEW refused,
           Insert(s, id, row, refused),
           table = "candidate_profiles" /\ ~refused =>
               /\ \A j \in Ids : ~Owns(Visible(s, j), row.owner)
               /\ UniqueDecided(s, row.owner)
    PROVE  SInv'
<1>1. CASE UNCHANGED writes BY <1>1, TablesUnchanged DEF Insert
<1>2. CASE ~UNCHANGED writes
  <2>1. /\ writes' = [writes EXCEPT ![s][id] = row]
        /\ CheckConstraint(row.values)
        /\ rows[id] = None
        /\ \A t \in Sessions : writes[t][id] = None
        /\ ~refused
        /\ UNCHANGED <<table, rows, run>>
    BY <1>2 DEF Insert, Refuse
  <2>2. ~Shared(id) BY <2>1 DEF Shared, SInv, SearchHeld
  <2>3. ASSUME table = "candidate_profiles", NEW j \in Ids \ {id}
        PROVE  /\ rows[j] # None => rows[j].owner # row.owner
               /\ \A t \in Sessions : writes[t][j] # None => writes[t][j].owner # row.owner
    BY <2>1, <2>3 DEF Visible, Owns, UniqueDecided, SInv, OwnersKept
  <2>4. QED BY <2>1, <2>2, <2>3, RowWritten
<1>3. QED BY <1>1, <1>2

\* What a session has written becomes what everybody reads.
LEMMA CommitKeeps ==
    ASSUME SInv, NEW s \in Sessions, Commit(s)
    PROVE  SInv'
<1>1. /\ \A j \in Ids : rows'[j] = Visible(s, j)
      /\ rows' = [j \in Ids |-> rows'[j]]
      /\ \A t \in Sessions, j \in Ids : writes'[t][j] = IF t = s THEN None ELSE writes[t][j]
      /\ writes' = [t \in Sessions |-> [j \in Ids |-> writes'[t][j]]]
      /\ UNCHANGED <<table, run>>
  BY DEF Commit, SInv, Tables
<1>2. Tables' BY <1>1 DEF Tables
<1>3. RowsChecked'
  <2>1. \A j \in Ids : Visible(s, j) # None => CheckConstraint(Visible(s, j).values)
    BY DEF SInv, RowsChecked, Visible
  <2>2. \A v : CheckConstraint(v)' <=> CheckConstraint(v) BY <1>1 DEF CheckConstraint
  <2>3. QED BY <1>1, <2>1, <2>2 DEF SInv, RowsChecked
<1>4. OneWriter' BY <1>1 DEF SInv, OneWriter
<1>5. OwnersKept' BY <1>1 DEF SInv, OwnersKept, OneWriter, Visible
<1>6. OwnersDiffer'
  <2> SUFFICES ASSUME table = "candidate_profiles" PROVE OwnersDiffer'
    BY <1>1 DEF OwnersDiffer
  <2>1. ASSUME NEW i \in Ids, NEW j \in Ids, Visible(s, i) # None, Visible(s, j) # None,
               Visible(s, i).owner = Visible(s, j).owner
        PROVE  i = j
    BY <2>1 DEF Visible, SInv, OwnersDiffer
  <2>2. ASSUME NEW t \in Sessions, NEW i \in Ids, NEW j \in Ids,
               writes[t][i] # None, Visible(s, j) # None, writes[t][i].owner = Visible(s, j).owner
        PROVE  i = j
    BY <2>2 DEF Visible, SInv, OwnersDiffer
  <2>3. ASSUME NEW t \in Sessions, NEW u \in Sessions, NEW i \in Ids, NEW j \in Ids,
               writes[t][i] # None, writes[u][j] # None, writes[t][i].owner = writes[u][j].owner
        PROVE  i = j
    BY <2>3 DEF SInv, OwnersDiffer
  <2>4. QED BY <1>1, <2>1, <2>2, <2>3 DEF OwnersDiffer
<1>7. SearchHeld' BY <1>1 DEF SInv, SearchHeld, Visible
<1>8. QED BY <1>2, <1>3, <1>4, <1>5, <1>6, <1>7 DEF SInv

\* What a session had written goes, and its locks.
LEMMA RollbackKeeps ==
    ASSUME SInv, NEW s \in Sessions, Rollback(s)
    PROVE  SInv'
<1>1. /\ \A t \in Sessions, j \in Ids : writes'[t][j] = IF t = s THEN None ELSE writes[t][j]
      /\ writes' = [t \in Sessions |-> [j \in Ids |-> writes'[t][j]]]
      /\ UNCHANGED <<table, rows, run>>
  BY DEF Rollback, SInv, Tables
<1>2. Tables' BY <1>1 DEF SInv, Tables
<1>3. RowsChecked' BY <1>1 DEF SInv, RowsChecked, CheckConstraint
<1>4. OneWriter' BY <1>1 DEF SInv, OneWriter
<1>5. OwnersKept' BY <1>1 DEF SInv, OwnersKept
<1>6. OwnersDiffer' BY <1>1 DEF SInv, OwnersDiffer
<1>7. SearchHeld' BY <1>1 DEF SInv, SearchHeld
<1>8. QED BY <1>2, <1>3, <1>4, <1>5, <1>6, <1>7 DEF SInv

\* The cascade waits for a row held FOR SHARE as for one being written.
LEMMA DeleteKeeps ==
    ASSUME SInv, NEW user \in Users, DeleteUser(user)
    PROVE  SInv'
<1>1. /\ \A j \in Ids : rows'[j] = IF Owns(rows[j], user) THEN None ELSE rows[j]
      /\ rows' = [j \in Ids |-> rows'[j]]
      /\ \A j \in Ids : Owns(rows[j], user) => ~Shared(j)
      /\ UNCHANGED <<table, writes, run>>
  BY DEF DeleteUser
<1>2. Tables' BY <1>1 DEF SInv, Tables
<1>3. RowsChecked' BY <1>1 DEF SInv, RowsChecked, CheckConstraint
<1>4. OneWriter' BY <1>1 DEF SInv, OneWriter
<1>5. OwnersKept' BY <1>1 DEF SInv, OwnersKept
<1>6. OwnersDiffer' BY <1>1 DEF SInv, OwnersDiffer
<1>7. SearchHeld' BY <1>1 DEF SInv, SearchHeld, Shared
<1>8. QED BY <1>2, <1>3, <1>4, <1>5, <1>6, <1>7 DEF SInv

\* The run reads the search; its own row is written by nobody else.
LEMMA RunKeeps ==
    ASSUME SInv, RunStep
    PROVE  SInv'
<1>1. UNCHANGED <<table, rows, writes>>
  BY DEF RunStep, LockSearch, CreateRun, PlanProvider, tableVars
<1>2. SearchHeld'
  <2>1. ASSUME NEW id \in Ids, LockSearch(id) PROVE SearchHeld'
    BY <1>1, <2>1 DEF LockSearch, SearchHeld
  <2>2. CASE CreateRun BY <1>1, <2>2 DEF CreateRun, SInv, SearchHeld
  <2>3. CASE PlanProvider
    <3>1. /\ run # None /\ run.phase = "created"
          /\ \E capabilities, query :
                run' = [run EXCEPT !.provider = capabilities, !.query = query]
      BY <2>3 DEF PlanProvider
    <3>2. QED BY <1>1, <3>1 DEF SInv, SearchHeld
  <2>4. QED BY <2>1, <2>2, <2>3 DEF RunStep
<1>3. Tables' BY <1>1 DEF SInv, Tables
<1>4. RowsChecked' BY <1>1 DEF SInv, RowsChecked, CheckConstraint
<1>5. OneWriter' BY <1>1 DEF SInv, OneWriter
<1>6. OwnersKept' BY <1>1 DEF SInv, OwnersKept
<1>7. OwnersDiffer' BY <1>1 DEF SInv, OwnersDiffer
<1>8. QED BY <1>2, <1>3, <1>4, <1>5, <1>6, <1>7 DEF SInv

-----------------------------------------------------------------------------
\* Nothing is pending and what is committed passes the CHECKs.
LEMMA InitKeeps == Init => SInv
<1> SUFFICES ASSUME Init PROVE SInv OBVIOUS
<1>1. \A s \in Sessions, id \in Ids : writes[s][id] = None
  BY DEF Init, NoObjects
<1>2. writes = [s \in Sessions |-> [id \in Ids |-> writes[s][id]]]
  BY DEF Init, NoObjects
<1>3. rows = [id \in Ids |-> rows[id]] BY DEF Init
<1>4. \A id \in Ids : rows[id] # None => table = "user_jobs" /\ CheckConstraint(rows[id].values)
  BY DEF Init
<1>5. run = None BY DEF Init
<1>6. QED
  BY <1>1, <1>2, <1>3, <1>4, <1>5
     DEF SInv, Tables, RowsChecked, OneWriter, OwnersKept, OwnersDiffer, SearchHeld

\* The steps of each service.
LEMMA UserJobKeeps ==
    ASSUME SInv, NEW s \in Sessions, UserJobStep(s)
    PROVE  SInv'
<1>1. PICK id \in Ids :
         \/ LoadUserJob(s, id)
         \/ \E new_status \in PRE_APPLICATION_STATUSES \cup POST_APPLICATION_STATUSES,
               changed_at \in Times : set_status(s, id, new_status, changed_at)
  BY DEF UserJobStep
<1>2. CASE LoadUserJob(s, id) BY <1>2, TablesUnchanged DEF LoadUserJob
<1>3. ASSUME NEW new_status, NEW changed_at, set_status(s, id, new_status, changed_at)
      PROVE  SInv'
  <2>1. /\ \E object : Flush(s, id, object)
        /\ UNCHANGED <<table, rows, run>>
    BY <1>3 DEF set_status
  <2>2. QED BY <2>1, FlushKeeps
<1>4. QED BY <1>1, <1>2, <1>3

LEMMA SetFieldsKeeps ==
    ASSUME SInv, NEW s \in Sessions, NEW id \in Ids, NEW request, SetFields(s, id, request)
    PROVE  SInv'
<1>1. /\ \E object : Flush(s, id, object)
      /\ UNCHANGED <<table, rows, run>>
  BY DEF SetFields
<1>2. QED BY <1>1, FlushKeeps

LEMMA SavedSearchKeeps ==
    ASSUME SInv, table = "saved_searches", NEW s \in Sessions, SavedSearchStep(s)
    PROVE  SInv'
<1>1. PICK user \in Users, id \in Ids :
         \/ \E values \in Creations[table] : create_saved_search(s, user, id, values)
         \/ \E request \in Requests[table] : update_saved_search(s, user, id, request)
         \/ get_saved_search(s, user, id)
  BY DEF SavedSearchStep
<1>2. ASSUME NEW values, create_saved_search(s, user, id, values) PROVE SInv'
  <2>1. \E row : Insert(s, id, row, FALSE) BY <1>2 DEF create_saved_search
  <2>2. QED BY <2>1, InsertKeeps
<1>3. ASSUME NEW request, update_saved_search(s, user, id, request) PROVE SInv'
  BY <1>3, SetFieldsKeeps DEF update_saved_search
<1>4. CASE get_saved_search(s, user, id)
  BY <1>4, TablesUnchanged DEF get_saved_search, Fetch
<1>5. QED BY <1>1, <1>2, <1>3, <1>4

LEMMA CandidateProfileKeeps ==
    ASSUME SInv, NEW s \in Sessions, CandidateProfileStep(s)
    PROVE  SInv'
<1>1. PICK user \in Users :
         \/ \E id \in Ids, values \in Creations[table] :
               create_candidate_profile(s, user, id, values)
         \/ \E request \in Requests[table] : update_candidate_profile(s, user, request)
         \/ get_candidate_profile(s, user)
  BY DEF CandidateProfileStep
<1>2. ASSUME NEW id \in Ids, NEW values, create_candidate_profile(s, user, id, values)
      PROVE  SInv'
  <2> DEFINE row == [owner |-> user, values |-> values]
             refused == \E i \in Ids : Owns(Visible(s, i), user)
  <2>1. /\ Insert(s, id, row, refused)
        /\ UniqueDecided(s, user)
    BY <1>2 DEF create_candidate_profile
  <2>2. row.owner = user OBVIOUS
  <2>3. ~refused => \A j \in Ids : ~Owns(Visible(s, j), user) OBVIOUS
  <2> HIDE DEF row, refused
  <2>4. QED BY <2>1, <2>2, <2>3, InsertKeeps
<1>3. ASSUME NEW request, update_candidate_profile(s, user, request) PROVE SInv'
  BY <1>3, SetFieldsKeeps DEF update_candidate_profile
<1>4. CASE get_candidate_profile(s, user)
  BY <1>4, TablesUnchanged DEF get_candidate_profile, Fetch
<1>5. QED BY <1>1, <1>2, <1>3, <1>4

\* Every step keeps the invariant.
LEMMA NextKeeps == SInv /\ [Next]_servicesVars => SInv'
<1> SUFFICES ASSUME SInv, [Next]_servicesVars PROVE SInv' OBVIOUS
<1>1. ASSUME NEW s \in Sessions, ServiceStep(s) PROVE SInv'
  BY <1>1, CommitKeeps, RollbackKeeps, UserJobKeeps, SavedSearchKeeps, CandidateProfileKeeps
     DEF ServiceStep
<1>2. ASSUME NEW user \in Users, DeleteUser(user) PROVE SInv' BY <1>2, DeleteKeeps
<1>3. CASE RunStep BY <1>3, RunKeeps
<1>4. CASE UNCHANGED servicesVars BY <1>4, TablesUnchanged DEF servicesVars, tableVars
<1>5. QED BY <1>1, <1>2, <1>3, <1>4 DEF Next

\* The inductive invariant: what PostgreSQL holds for the sessions, committed or
\* pending, stays consistent through every call, commit, rollback, deletion and
\* run (services/*.py, ingestion/orchestrator.py:408-424).
THEOREM ServicesInvariance == Spec => []SInv
<1>1. QED BY InitKeeps, NextKeeps, PTL DEF Spec

\* What a session decides from agrees, as the rows do that it loads.
ObjectsAgree ==
    table = "user_jobs" =>
        /\ failed = [s \in Sessions |-> failed[s]]
        /\ objects = [s \in Sessions |-> [id \in Ids |-> objects[s][id]]]
        /\ \A s \in Sessions, id \in Ids : objects[s][id] # None =>
              /\ objects[s][id] = [owner |-> objects[s][id].owner,
                                   loaded |-> objects[s][id].loaded,
                                   now |-> objects[s][id].now]
              /\ status_applied_at_consistency(objects[s][id].now)

\* A change decided from attributes that agree leaves attributes that agree.
LEMMA ChangeAgrees ==
    ASSUME NEW old, status_applied_at_consistency(old),
           NEW new_status \in PRE_APPLICATION_STATUSES \cup POST_APPLICATION_STATUSES,
           NEW changed_at \in Times,
           NEW new, new.status = new_status,
           new.applied_at = AppliedAt(old, new_status, changed_at)
    PROVE  status_applied_at_consistency(new)
BY TimesAssumption
   DEF status_applied_at_consistency, AppliedAt, PRE_APPLICATION_STATUSES,
       POST_APPLICATION_STATUSES

\* Records with one field changed.
LEMMA ObjectChanged ==
    ASSUME NEW o, NEW l, NEW n, NEW v
    PROVE  /\ [[owner |-> o, loaded |-> l, now |-> n] EXCEPT !.now = v]
                  = [owner |-> o, loaded |-> l, now |-> v]
           /\ [[owner |-> o, loaded |-> l, now |-> n] EXCEPT !.loaded = v]
                  = [owner |-> o, loaded |-> v, now |-> n]
OBVIOUS

\* The one step that can be refused, and of it all that the theorem needs.
LEMMA SetStatusKeepsObjects ==
    ASSUME SInv, ObjectsAgree, table = "user_jobs", NEW s \in Sessions, NEW id \in Ids,
           NEW new_status \in PRE_APPLICATION_STATUSES \cup POST_APPLICATION_STATUSES,
           NEW changed_at \in Times, set_status(s, id, new_status, changed_at)
    PROVE  /\ ObjectsAgree'
           /\ \A t \in Sessions : ~failed[t] /\ failed'[t] =>
                 /\ t = s
                 /\ objects[s][id] # None
                 /\ \/ Visible(s, id) = None
                    \/ Visible(s, id).values # objects[s][id].loaded
<1> DEFINE old == objects[s][id]
           new == [status |-> new_status,
                   applied_at |-> AppliedAt(old.now, new_status, changed_at),
                   status_changed_at |-> changed_at]
           object == [old EXCEPT !.now = new]
           dirty == {a \in DOMAIN object.now : object.now[a] # object.loaded[a]}
           row == Visible(s, id)
           values == [a \in DOMAIN object.now |->
                        IF a \in dirty THEN object.now[a] ELSE row.values[a]]
           flushed == [object EXCEPT !.loaded = object.now]
<1>1. /\ old # None
      /\ UNCHANGED table
      /\ Flush(s, id, object)
  BY DEF set_status
<1>2. status_applied_at_consistency(old.now) BY <1>1 DEF ObjectsAgree
<1>3. status_applied_at_consistency(new)
  <2>1. new.status = new_status /\ new.applied_at = AppliedAt(old.now, new_status, changed_at)
    OBVIOUS
  <2>2. QED BY <1>2, <2>1, ChangeAgrees
<1>4. \/ /\ dirty = {}
         /\ objects' = [objects EXCEPT ![s][id] = object] /\ UNCHANGED failed
      \/ /\ row = None \/ ~CheckConstraint(values)
         /\ failed' = [failed EXCEPT ![s] = TRUE] /\ UNCHANGED objects
      \/ objects' = [objects EXCEPT ![s][id] = flushed] /\ UNCHANGED failed
  BY <1>1 DEF Flush, Refuse
<1>5. object = [owner |-> old.owner, loaded |-> old.loaded, now |-> new]
      /\ flushed = [owner |-> old.owner, loaded |-> new, now |-> new]
  <2>1. old = [owner |-> old.owner, loaded |-> old.loaded, now |-> old.now]
    BY <1>1 DEF ObjectsAgree
  <2> HIDE DEF old, new
  <2>2. object = [owner |-> old.owner, loaded |-> old.loaded, now |-> new]
    BY <2>1, ObjectChanged
  <2>3. flushed = [[owner |-> old.owner, loaded |-> old.loaded, now |-> new]
                       EXCEPT !.loaded = new]
    BY <2>2
  <2> HIDE DEF object, flushed
  <2>4. flushed = [owner |-> old.owner, loaded |-> new, now |-> new] BY <2>3, ObjectChanged
  <2>5. QED BY <2>2, <2>4
<1>6. CheckConstraint(values) \/ row = None \/ row.values # old.loaded
  <2> SUFFICES ASSUME row.values = old.loaded PROVE CheckConstraint(values)
    OBVIOUS
  <2>1. object.now = new /\ object.loaded = old.loaded BY <1>5
  <2> HIDE DEF object
  <2>2. values.status = new.status /\ values.applied_at = new.applied_at BY <2>1
  <2> HIDE DEF values, new
  <2>3. QED BY <1>3, <2>2 DEF CheckConstraint, status_applied_at_consistency
<1>7. failed = [t \in Sessions |-> failed[t]]
      /\ objects = [t \in Sessions |-> [j \in Ids |-> objects[t][j]]]
  BY DEF ObjectsAgree
<1>8. ASSUME NEW put, objects' = [objects EXCEPT ![s][id] = put], UNCHANGED <<table, failed>>,
             put = [owner |-> put.owner, loaded |-> put.loaded, now |-> new]
      PROVE  ObjectsAgree'
  <2>1. /\ objects' = [t \in Sessions |-> [j \in Ids |-> objects'[t][j]]]
        /\ \A t \in Sessions, j \in Ids :
              objects'[t][j] = IF t = s /\ j = id THEN put ELSE objects[t][j]
    BY <1>7, <1>8
  <2>2. put.now = new BY <1>8
  <2> HIDE DEF new
  <2>3. ASSUME NEW t \in Sessions, NEW j \in Ids, objects'[t][j] # None
        PROVE  LET o == objects'[t][j] IN
               /\ o = [owner |-> o.owner, loaded |-> o.loaded, now |-> o.now]
               /\ status_applied_at_consistency(o.now)
    <3>1. CASE objects'[t][j] = put BY <1>3, <1>8, <2>2, <3>1
    <3>2. CASE objects'[t][j] = objects[t][j] BY <2>3, <3>2 DEF ObjectsAgree
    <3>3. QED BY <2>1, <3>1, <3>2
  <2>4. QED BY <1>7, <1>8, <2>1, <2>3, Zenon DEF ObjectsAgree
<1> HIDE DEF values, dirty, row, object, flushed, new, old
<1>9. CASE failed' = failed
  <2>1. CASE objects' = [objects EXCEPT ![s][id] = object]
    BY <1>1, <1>5, <1>8, <1>9, <2>1
  <2>2. CASE objects' = [objects EXCEPT ![s][id] = flushed]
    BY <1>1, <1>5, <1>8, <1>9, <2>2
  <2>3. CASE objects' = objects
    BY <1>1, <1>9, <2>3 DEF ObjectsAgree, status_applied_at_consistency
  <2>4. QED BY <1>4, <1>9, <2>1, <2>2, <2>3
<1>10. CASE /\ row = None \/ ~CheckConstraint(values)
            /\ failed' = [failed EXCEPT ![s] = TRUE] /\ UNCHANGED objects
  <2>1. ObjectsAgree' BY <1>1, <1>7, <1>10 DEF ObjectsAgree, status_applied_at_consistency
  <2>2. \A t \in Sessions : ~failed[t] /\ failed'[t] => t = s BY <1>7, <1>10
  <2>3. row = None \/ row.values # old.loaded BY <1>6, <1>10
  <2>4. QED BY <1>1, <2>1, <2>2, <2>3 DEF row, old
<1>11. QED BY <1>4, <1>9, <1>10

\* One table is looked at per behaviour.
LEMMA TableKept ==
    ASSUME [Next]_servicesVars
    PROVE  UNCHANGED table
<1>1. ASSUME NEW s \in Sessions, UserJobStep(s) PROVE UNCHANGED table
  BY <1>1 DEF UserJobStep, LoadUserJob, set_status
<1>2. ASSUME NEW s \in Sessions, SavedSearchStep(s) PROVE UNCHANGED table
  BY <1>2 DEF SavedSearchStep, create_saved_search, update_saved_search, get_saved_search,
              Insert, SetFields, Fetch
<1>3. ASSUME NEW s \in Sessions, CandidateProfileStep(s) PROVE UNCHANGED table
  BY <1>3 DEF CandidateProfileStep, create_candidate_profile, update_candidate_profile,
              get_candidate_profile, Insert, SetFields, Fetch
<1>4. ASSUME NEW s \in Sessions, Commit(s) \/ Rollback(s) PROVE UNCHANGED table
  BY <1>4 DEF Commit, Rollback
<1>5. ASSUME NEW user \in Users, DeleteUser(user) PROVE UNCHANGED table
  BY <1>5 DEF DeleteUser
<1>6. ASSUME RunStep PROVE UNCHANGED table
  <2>1. ASSUME NEW id \in Ids, LockSearch(id) PROVE UNCHANGED table
    BY <2>1 DEF LockSearch, tableVars
  <2>2. CASE CreateRun BY <2>2 DEF CreateRun, tableVars
  <2>3. CASE PlanProvider BY <2>3 DEF PlanProvider, tableVars
  <2>4. QED BY <1>6, <2>1, <2>2, <2>3 DEF RunStep
<1>7. QED BY <1>1, <1>2, <1>3, <1>4, <1>5, <1>6 DEF Next, ServiceStep, servicesVars, tableVars

\* Loading and changing are all that touches an object of user_jobs, besides a
\* rollback, which drops it.
LEMMA ObjectsStayAgreed ==
    ASSUME SInv, ObjectsAgree, [Next]_servicesVars
    PROVE  /\ ObjectsAgree'
           /\ table = "user_jobs" =>
                \A t \in Sessions : ~failed[t] /\ failed'[t] =>
                    \E id \in Ids :
                        /\ objects[t][id] # None
                        /\ \/ Visible(t, id) = None
                           \/ Visible(t, id).values # objects[t][id].loaded
<1>t. UNCHANGED table BY TableKept
<1> SUFFICES ASSUME table = "user_jobs"
             PROVE  /\ ObjectsAgree'
                    /\ \A t \in Sessions : ~failed[t] /\ failed'[t] =>
                          \E id \in Ids :
                              /\ objects[t][id] # None
                              /\ \/ Visible(t, id) = None
                                 \/ Visible(t, id).values # objects[t][id].loaded
  BY <1>t DEF ObjectsAgree
<1> DEFINE Refused(t) == ~failed[t] /\ failed'[t]
           Goal == /\ ObjectsAgree'
                   /\ \A t \in Sessions : Refused(t) =>
                            \E id \in Ids :
                                /\ objects[t][id] # None
                                /\ \/ Visible(t, id) = None
                                   \/ Visible(t, id).values # objects[t][id].loaded
<1>1. failed = [t \in Sessions |-> failed[t]]
      /\ objects = [t \in Sessions |-> [j \in Ids |-> objects[t][j]]]
  BY DEF ObjectsAgree
<1>2. CASE UNCHANGED <<table, objects, failed>>
  <2>1. ObjectsAgree' BY <1>2 DEF ObjectsAgree, status_applied_at_consistency
  <2>2. QED BY <1>2, <2>1
<1>3. ASSUME NEW s \in Sessions, Commit(s) PROVE Goal BY <1>2, <1>3 DEF Commit
<1>4. ASSUME NEW s \in Sessions, Rollback(s) PROVE Goal
  <2>1. /\ UNCHANGED table
        /\ failed' = [failed EXCEPT ![s] = FALSE]
        /\ objects' = [objects EXCEPT ![s] = [id \in Ids |-> None]]
    BY <1>4 DEF Rollback
  <2>2. /\ failed' = [t \in Sessions |-> failed'[t]]
        /\ \A t \in Sessions : failed'[t] => failed[t]
    BY <1>1, <2>1
  <2>3. /\ objects' = [t \in Sessions |-> [j \in Ids |-> objects'[t][j]]]
        /\ \A t \in Sessions, j \in Ids :
              objects'[t][j] # None => objects'[t][j] = objects[t][j]
    BY <1>1, <2>1
  <2>4. ASSUME NEW t \in Sessions, NEW j \in Ids, objects'[t][j] # None
        PROVE  LET o == objects'[t][j] IN
               /\ o = [owner |-> o.owner, loaded |-> o.loaded, now |-> o.now]
               /\ status_applied_at_consistency(o.now)
    BY <2>1, <2>3, <2>4 DEF ObjectsAgree
  <2>5. ObjectsAgree' BY <2>2, <2>3, <2>4, Zenon DEF ObjectsAgree
  <2>6. QED BY <2>2, <2>5
<1>5. ASSUME NEW s \in Sessions, UserJobStep(s) PROVE Goal
  <2>1. ASSUME NEW id \in Ids, LoadUserJob(s, id) PROVE Goal
    <3> DEFINE loaded == Object(Visible(s, id))
    <3>1. /\ Visible(s, id) # None
          /\ UNCHANGED <<table, failed>>
          /\ objects' = [objects EXCEPT ![s][id] = loaded]
      BY <2>1 DEF LoadUserJob, Selected
    <3>2. status_applied_at_consistency(Visible(s, id).values)
      BY <3>1 DEF SInv, RowsChecked, CheckConstraint, Visible
    <3>3. /\ loaded = [owner |-> loaded.owner, loaded |-> loaded.loaded, now |-> loaded.now]
          /\ loaded.now = Visible(s, id).values
      BY DEF Object
    <3> HIDE DEF loaded
    <3>4. /\ objects' = [t \in Sessions |-> [j \in Ids |-> objects'[t][j]]]
          /\ \A t \in Sessions, j \in Ids :
                objects'[t][j] = IF t = s /\ j = id THEN loaded ELSE objects[t][j]
      BY <1>1, <3>1
    <3>5. ASSUME NEW t \in Sessions, NEW j \in Ids, objects'[t][j] # None
          PROVE  LET o == objects'[t][j] IN
                 /\ o = [owner |-> o.owner, loaded |-> o.loaded, now |-> o.now]
                 /\ status_applied_at_consistency(o.now)
      <4>1. CASE objects'[t][j] = loaded BY <3>2, <3>3, <4>1
      <4>2. CASE objects'[t][j] = objects[t][j] BY <3>5, <4>2 DEF ObjectsAgree
      <4>3. QED BY <3>4, <4>1, <4>2
    <3>6. ObjectsAgree' BY <1>1, <3>1, <3>4, <3>5, Zenon DEF ObjectsAgree
    <3>7. QED BY <3>1, <3>6
  <2>2. ASSUME NEW id \in Ids,
               NEW new_status \in PRE_APPLICATION_STATUSES \cup POST_APPLICATION_STATUSES,
               NEW changed_at \in Times, set_status(s, id, new_status, changed_at)
        PROVE  Goal
    BY <2>2, SetStatusKeepsObjects
  <2>3. QED BY <1>5, <2>1, <2>2 DEF UserJobStep
<1>6. ASSUME NEW s \in Sessions, ServiceStep(s) PROVE Goal
  BY <1>3, <1>4, <1>5, <1>6 DEF ServiceStep
<1>7. ASSUME NEW user \in Users, DeleteUser(user) PROVE Goal BY <1>2, <1>7 DEF DeleteUser
<1>8. CASE UNCHANGED servicesVars BY <1>2, <1>8 DEF servicesVars, tableVars
<1>9. QED BY <1>6, <1>7, <1>8 DEF Next

\* No change decided from a row as it is gets refused: only a session whose
\* object the row has left behind is, whatever the sessions do and however
\* often (services/user_jobs.py:37-53).
THEOREM StaleChangesAreRefused == Spec => OnlyStaleChangeRefused
<1>1. Init => ObjectsAgree BY DEF Init, NoObjects, ObjectsAgree
<1>2. SInv /\ ObjectsAgree /\ [Next]_servicesVars => ObjectsAgree' BY ObjectsStayAgreed
<1>3. SInv /\ ObjectsAgree /\ [Next]_servicesVars =>
        [table = "user_jobs" =>
           \A s \in Sessions :
              ~failed[s] /\ failed'[s] =>
                  \E id \in Ids :
                      /\ objects[s][id] # None
                      /\ \/ Visible(s, id) = None
                         \/ Visible(s, id).values # objects[s][id].loaded]_servicesVars
  BY ObjectsStayAgreed
<1>4. QED BY <1>1, <1>2, <1>3, ServicesInvariance, PTL DEF Spec, OnlyStaleChangeRefused

\* However many sessions create a profile for one user, one is committed
\* (services/candidate_profiles.py:44-50).
THEOREM ProfilesAreUnique == Spec => []OneProfilePerUser
<1>1. SInv => OneProfilePerUser BY DEF SInv, OwnersDiffer, OneProfilePerUser
<1>2. QED BY <1>1, ServicesInvariance, PTL

\* What a run is created for is still the committed search it read
\* (ingestion/orchestrator.py:416-424).
THEOREM RunsStartFromTheSearch == Spec => RunStartsFromCommittedSearch
<1>1. SInv /\ [Next]_servicesVars =>
        [(run # None /\ run.phase = "locked" /\ run'.phase = "created")
            => rows[run.id] # None /\ rows[run.id].values = run.search]_servicesVars
  BY DEF SInv, SearchHeld
<1>2. QED BY <1>1, ServicesInvariance, PTL DEF Spec, RunStartsFromCommittedSearch

-----------------------------------------------------------------------------
(***************************************************************************)
(* The planner.                                                            *)
(***************************************************************************)
\* Only sources that the provider advertises are asked.
LEMMA ResolvedSources ==
    ASSUME NEW search, NEW capabilities,
           resolved_sources(search, capabilities) # Rejected
    PROVE  resolved_sources(search, capabilities) \subseteq DOMAIN capabilities.sources
  BY DEF resolved_sources

\* A plan that is no refusal and not empty is one of these values and sources.
LEMMA PlanFacts ==
    ASSUME NEW search, NEW capabilities, NEW titles, NEW locations,
           plan(search, capabilities, titles, locations) \notin {None, Rejected}
    PROVE  LET query == plan(search, capabilities, titles, locations)
               values == field_values(search, titles, locations)
           IN  /\ query.sources \subseteq DOMAIN capabilities.sources
               /\ query.values = values
               /\ \A s \in query.sources : query.local_enforcement[s] =
                    {f \in Populated(values) : ~Supported(capabilities.sources[s], f)}
<1> DEFINE query == plan(search, capabilities, titles, locations)
           values == field_values(search, titles, locations)
           sources == resolved_sources(search, capabilities)
           local == [s \in sources |-> {f \in Populated(values) :
                                          ~Supported(capabilities.sources[s], f)}]
<1>1. sources # Rejected /\ query = [sources |-> sources, values |-> values,
                                     local_enforcement |-> local]
  BY DEF plan
<1>2. sources \subseteq DOMAIN capabilities.sources
  BY <1>1, ResolvedSources
<1> HIDE DEF query, values, sources, local
<1>3. query.sources = sources /\ query.values = values /\ query.local_enforcement = local
  BY <1>1
<1>4. \A s \in sources : local[s] =
          {f \in Populated(values) : ~Supported(capabilities.sources[s], f)}
  BY DEF local
<1> QED
  BY <1>2, <1>3, <1>4 DEF query, values

\* Each criterion that a search has is a populated field of the query.
LEMMA WantedIsPopulated ==
    ASSUME NEW search, NEW titles, NEW locations, NEW wanted \in Wanted(search)
    PROVE  LET values == field_values(search, titles, locations)
           IN  /\ wanted[1] \in Populated(values) /\ values[wanted[1]] = wanted[2]
               /\ wanted[1] # "locations"
<1> DEFINE values == field_values(search, titles, locations)
           Reaches(f, v) == f \in Populated(values) /\ values[f] = v /\ f # "locations"
<1>1. /\ values.salary_floor = search.salary_floor
      /\ values.radius_miles = search.radius_miles
      /\ values.posted_within_hours = search.recency_limit_hours
      /\ values.excluded_titles = OrEmpty(search.excluded_titles)
      /\ values.employment_types = OrEmpty(search.employment_types)
      /\ values.seniority = OrEmpty(search.seniority)
      /\ values.company_filter = OrEmpty(search.preferred_companies)
      /\ values.excluded_companies = OrEmpty(search.excluded_companies)
      /\ search.remote_rules = "remote_only" => values.remote_ok = TRUE
  BY DEF field_values
<1> HIDE DEF values
<1>2. ASSUME NEW f \in {"salary_floor", "radius_miles", "posted_within_hours"}, NEW v,
             v # None, values[f] = v
      PROVE  Reaches(f, v)
  <2>1. f \in QueryFields /\ f \notin ListValued /\ f # "locations"
    BY DEF QueryFields, DedicatedCapability, ListValued, GenericFields
  <2> QED  BY <1>2, <2>1 DEF Populated
<1>3. ASSUME NEW f \in GenericFields, NEW v, v # None, v # <<>>, values[f] = OrEmpty(v)
      PROVE  Reaches(f, v)
  <2>1. f \in QueryFields /\ f \in ListValued /\ f # "locations"
    BY DEF QueryFields, ListValued, GenericFields
  <2>2. values[f] = v
    BY <1>3 DEF OrEmpty
  <2> QED  BY <1>3, <2>1, <2>2 DEF Populated
<1>4. ASSUME search.remote_rules = "remote_only" PROVE Reaches("remote_ok", TRUE)
  <2>1. "remote_ok" \in QueryFields /\ "remote_ok" \notin ListValued
    BY DEF QueryFields, DedicatedCapability, ListValued, GenericFields
  <2>2. values["remote_ok"] = TRUE
    BY <1>1, <1>4
  <2>3. values["remote_ok"] # None
    BY <2>2, PlannerAssumption
  <2>4. "remote_ok" \in Populated(values)
    BY <2>1, <2>3 DEF Populated
  <2> QED  BY <2>2, <2>4
<1>5. /\ search.salary_floor # None => Reaches("salary_floor", search.salary_floor)
      /\ search.radius_miles # None => Reaches("radius_miles", search.radius_miles)
      /\ search.recency_limit_hours # None =>
           Reaches("posted_within_hours", search.recency_limit_hours)
  BY <1>1, <1>2
<1>6. \A f, v : v # None /\ v # <<>> /\ f \in GenericFields /\ values[f] = OrEmpty(v) =>
        Reaches(f, v)
  BY <1>3
<1> HIDE DEF Reaches
<1>7. \E f, v : wanted = <<f, v>> /\ Reaches(f, v)
  <2>1. CASE wanted \in {w \in {<<"remote_ok", TRUE>>} : search.remote_rules = "remote_only"}
    <3>1. wanted = <<"remote_ok", TRUE>> /\ search.remote_rules = "remote_only"
      BY <2>1
    <3> QED  BY <1>4, <3>1, Zenon
  <2>2. CASE wanted \in {w \in {<<"salary_floor", search.salary_floor>>,
                                <<"radius_miles", search.radius_miles>>,
                                <<"posted_within_hours", search.recency_limit_hours>>} :
                           w[2] # None}
    BY <1>5, <2>2
  <2>3. CASE wanted \in {w \in {<<"excluded_titles", search.excluded_titles>>,
                                <<"employment_types", search.employment_types>>,
                                <<"seniority", search.seniority>>,
                                <<"company_filter", search.preferred_companies>>,
                                <<"excluded_companies", search.excluded_companies>>} :
                           w[2] # None /\ w[2] # <<>>}
    BY <1>1, <1>6, <2>3 DEF GenericFields
  <2> QED  BY <2>1, <2>2, <2>3 DEF Wanted
<1>8. PICK f, v : wanted = <<f, v>> /\ Reaches(f, v)
  BY <1>7
<1>9. wanted[1] = f /\ wanted[2] = v
  BY <1>8
<1> QED
  BY <1>8, <1>9 DEF Reaches, values

\* What a source supports is advertised, by its flag or its list.
LEMMA SupportedIsAdvertised ==
    ASSUME NEW source, NEW field \in QueryFields \ {"locations"}, Supported(source, field)
    PROVE  \/ field = "salary_floor" /\ source.supports_salary_filter
           \/ field = "radius_miles" /\ source.supports_location_filter
           \/ field = "remote_ok" /\ source.supports_remote_filter
           \/ field = "posted_within_hours" /\ source.supports_posted_within_filter
           \/ field \in GenericFields /\ field \in source.supported_query_fields
  BY DEF Supported, QueryFields, DedicatedCapability, GenericFields

\* What is asked was planned from the search as the run read it.
PlannedFromSearch ==
    run # None /\ run.query # None =>
        /\ run.query # Rejected
        /\ \E titles \in Titles, locations \in Locations :
              run.query = plan(run.search, run.provider, titles, locations)

\* Nobody but the orchestrator changes what its run asks.
LEMMA PlannedKeeps ==
    ASSUME SInv, PlannedFromSearch, [Next]_servicesVars
    PROVE  PlannedFromSearch'
<1>1. CASE UNCHANGED run
  BY <1>1 DEF PlannedFromSearch
<1>2. ASSUME NEW id \in Ids, LockSearch(id) PROVE PlannedFromSearch'
  <2>1. run'.query = None
    BY <1>2 DEF LockSearch
  <2> QED  BY <2>1 DEF PlannedFromSearch
<1>3. run # None => run = [phase |-> run.phase, id |-> run.id, search |-> run.search,
                           provider |-> run.provider, query |-> run.query]
  BY DEF SInv, SearchHeld
<1>4. CASE CreateRun
  <2>1. run # None /\ run' = [run EXCEPT !.phase = "created"]
    BY <1>4 DEF CreateRun
  <2>2. /\ run'.search = run.search /\ run'.provider = run.provider
        /\ run'.query = run.query
    BY <1>3, <2>1
  <2> QED  BY <2>1, <2>2 DEF PlannedFromSearch
<1>5. CASE PlanProvider
  <2>1. PICK providers \in ProviderLists, titles \in Titles, locations \in Locations :
          /\ ProviderRegistry(providers) # Rejected
          /\ \E i \in DOMAIN providers, now \in Slugs :
                LET capabilities == get(ProviderRegistry(providers), providers[i].name, now)
                    query == plan(run.search, capabilities, titles, locations)
                IN /\ capabilities # Rejected
                   /\ query \notin {None, Rejected}
                   /\ run' = [run EXCEPT !.provider = capabilities, !.query = query]
    BY <1>5 DEF PlanProvider
  <2> DEFINE Found(i, now) == get(ProviderRegistry(providers), providers[i].name, now)
             Query(i, now) == plan(run.search, Found(i, now), titles, locations)
  <2>2. PICK i \in DOMAIN providers, now \in Slugs :
             /\ Query(i, now) \notin {None, Rejected}
             /\ run' = [run EXCEPT !.provider = Found(i, now), !.query = Query(i, now)]
    BY <2>1
  <2> DEFINE capabilities == Found(i, now)
             query == plan(run.search, capabilities, titles, locations)
  <2>3. /\ run # None /\ query \notin {None, Rejected}
        /\ run' = [run EXCEPT !.provider = capabilities, !.query = query]
    BY <1>5, <2>2 DEF PlanProvider
  <2> HIDE DEF query, capabilities
  <2>4. run'.search = run.search /\ run'.provider = capabilities /\ run'.query = query
    BY <1>3, <2>3
  <2> QED  BY <2>3, <2>4 DEF PlannedFromSearch, query
<1>6. ASSUME NEW s \in Sessions, ServiceStep(s) PROVE UNCHANGED run
  <2>1. ASSUME UserJobStep(s) PROVE UNCHANGED run
    BY <2>1 DEF UserJobStep, LoadUserJob, set_status
  <2>2. ASSUME SavedSearchStep(s) PROVE UNCHANGED run
    BY <2>2 DEF SavedSearchStep, create_saved_search, update_saved_search,
                get_saved_search, Insert, SetFields, Fetch
  <2>3. ASSUME CandidateProfileStep(s) PROVE UNCHANGED run
    BY <2>3 DEF CandidateProfileStep, create_candidate_profile, update_candidate_profile,
                get_candidate_profile, Insert, SetFields, Fetch
  <2> QED  BY <1>6, <2>1, <2>2, <2>3 DEF ServiceStep, Commit, Rollback
<1>7. ASSUME NEW user \in Users, DeleteUser(user) PROVE UNCHANGED run
  BY <1>7 DEF DeleteUser
<1>8. CASE UNCHANGED servicesVars
  BY <1>1, <1>8 DEF servicesVars
<1> QED
  BY <1>1, <1>2, <1>4, <1>5, <1>6, <1>7, <1>8 DEF Next, RunStep

\* Each criterion of a saved search reaches every source that is asked, and is applied
\* there or noted to be applied here, for any search, provider and flags
\* (discovery/query_planner.py:192-203).
THEOREM CriteriaReachTheSources == Spec => []NoCriterionLost
<1>1. Init => PlannedFromSearch
  BY DEF Init, PlannedFromSearch
<1>2. SInv /\ PlannedFromSearch /\ [Next]_servicesVars => PlannedFromSearch'
  BY PlannedKeeps
<1>3. ASSUME PlannedFromSearch PROVE NoCriterionLost
  <2> SUFFICES ASSUME run # None, run.query # None,
                      NEW source \in run.query.sources, NEW wanted \in Wanted(run.search)
               PROVE  LET field == wanted[1]
                          advertised == run.provider.sources[source]
                      IN /\ source \in DOMAIN run.provider.sources
                         /\ run.query.values[field] = wanted[2]
                         /\ \/ field \in run.query.local_enforcement[source]
                            \/ field = "salary_floor" /\ advertised.supports_salary_filter
                            \/ field = "radius_miles" /\ advertised.supports_location_filter
                            \/ field = "remote_ok" /\ advertised.supports_remote_filter
                            \/ /\ field = "posted_within_hours"
                               /\ advertised.supports_posted_within_filter
                            \/ /\ field \in GenericFields
                               /\ field \in advertised.supported_query_fields
    BY DEF NoCriterionLost
  <2> DEFINE field == wanted[1]
             advertised == run.provider.sources[source]
  <2>1. PICK titles \in Titles, locations \in Locations :
          run.query = plan(run.search, run.provider, titles, locations)
    BY <1>3 DEF PlannedFromSearch
  <2>2. run.query \notin {None, Rejected}
    BY <1>3 DEF PlannedFromSearch
  <2> DEFINE values == field_values(run.search, titles, locations)
  <2>3. /\ source \in DOMAIN run.provider.sources
        /\ run.query.values = values
        /\ run.query.local_enforcement[source] =
             {f \in Populated(values) : ~Supported(advertised, f)}
    BY <2>1, <2>2, PlanFacts
  <2>4. field \in Populated(values) /\ values[field] = wanted[2] /\ field # "locations"
    BY WantedIsPopulated
  <2>5. field \in QueryFields \ {"locations"}
    BY <2>4 DEF Populated
  <2>6. field \in run.query.local_enforcement[source] \/ Supported(advertised, field)
    BY <2>3, <2>4
  <2> HIDE DEF advertised, values, field
  <2>7. Supported(advertised, field) =>
          \/ field = "salary_floor" /\ advertised.supports_salary_filter
          \/ field = "radius_miles" /\ advertised.supports_location_filter
          \/ field = "remote_ok" /\ advertised.supports_remote_filter
          \/ field = "posted_within_hours" /\ advertised.supports_posted_within_filter
          \/ field \in GenericFields /\ field \in advertised.supported_query_fields
    BY <2>5, SupportedIsAdvertised
  <2> QED
    BY <2>3, <2>4, <2>6, <2>7 DEF advertised, field
<1> QED
  BY <1>1, <1>2, <1>3, ServicesInvariance, PTL DEF Spec
=============================================================================
