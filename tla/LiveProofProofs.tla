---------------------------- MODULE LiveProofProofs ----------------------------
(***************************************************************************)
(* Proofs about MigrationMatrix and LiveProof, for any number of           *)
(* invocations, any candidates and any configuration: which databases      *)
(* change, what a PASS of the matrix means, and what evidence leaves.      *)
(***************************************************************************)
EXTENDS LiveProof, SequenceTheorems, TLAPS

-----------------------------------------------------------------------------
(***************************************************************************)
(* The inductive invariant.                                                *)
(***************************************************************************)
RunFields == {"pc", "error", "dev_before", "created_by_this_run", "present_after", "cleaned_up",
              "matrix", "all_passed", "json"}

ProofFields == {"pc", "all_passed", "summary"}

There == DOMAIN databases \cup pending

TypeOK ==
    /\ candidate \in Candidates /\ settings \in Settings
    /\ DOMAIN run = Runs /\ \A r \in Runs : DOMAIN run[r] = RunFields
    /\ DOMAIN proof = Proofs /\ \A p \in Proofs : DOMAIN proof[p] = ProofFields
    /\ {Development, Existing} \subseteq DOMAIN original
    /\ DOMAIN original \subseteq {Development, Existing} \cup {Fresh(t) : t \in Runs}

\* A database that the server is still creating is a new one.
PendingIsNew ==
    pending \cap DOMAIN databases = {} /\ pending \cap DOMAIN original = {}

\* Some candidate's migrations, up to one of them, have made the database what it is.
\* What is applied has left nothing behind; what has, has been reverted.
Plain(content) ==
    /\ content = [applied |-> content.applied, residue |-> content.residue, mixed |-> FALSE]
    /\ \E q \in Runs : \E k \in 0..Len(candidate[q].history) :
          content.applied = SubSeq(candidate[q].history, 1, k)
    /\ content.residue \cap ToSet(content.applied) = {}
    /\ \A m \in content.residue : \E q \in Runs : m \in ToSet(candidate[q].history)

\* The shared test database, which no developer migrates.
OneHistory == NoRivals /\ Existing # Development => Plain(databases[Existing])

Asking == {"version", "before", "upgrade"}
Restored == {"check", "provision", "create", "created", "unacknowledged", "resolve",
             "fresh upgrade", "drop", "after"}
Checked == Restored \ {"check"}
Making == {"created", "unacknowledged", "resolve", "fresh upgrade"}
Owning == {"resolve", "fresh upgrade", "drop"}

\* What the guard among the earlier steps has found.
Guarded(r) ==
    run[r].pc \in Asking \cup {"downgrade", "restore"} \cup Restored => Existing # Development

\* Only the cleanups and a process that is over or killed have an exception.
NoErrorYet(r) ==
    run[r].pc \notin {"drop", "cleanup", "over", "killed"} => run[r].error = None

\* What the round trip on the shared database shows of the candidate's newest migration.
RoundTrip(r) ==
    LET m == Newest(candidate[r])
        applied == ToSet(databases[Existing].applied)
        residue == databases[Existing].residue
    IN  /\ run[r].pc = "downgrade" =>
             /\ "downgrade" \in m.defects => m \in applied
             /\ "residue" \in m.defects => m \in applied \cup residue
        /\ run[r].pc = "restore" /\ "residue" \in m.defects => m \in residue

\* What each stage of the matrix has shown: the fresh database always, the shared one
\* as long as there are no two versions of a migration.
Learned(r) ==
    LET c == candidate[r]
        pc == run[r].pc
    IN  /\ NoRivals =>
             /\ pc \in {"restore"} \cup Restored => "downgrade" \notin Newest(c).defects
             /\ pc \in Restored => "residue" \notin Newest(c).defects
             /\ pc \in Checked => "models" \notin c.defects
        /\ (pc = "drop" /\ run[r].error = None) \/ pc = "after" =>
             "base" \notin c.defects /\ "upgrade" \notin Newest(c).defects
        /\ run[r].matrix = "PASS" =>
             /\ Flaws(c) \cap {"base", "upgrade"} = {}
             /\ NoRivals => Flaws(c) = {}

\* The database that is made is this run's own, new and empty until it is upgraded, and
\* the run knows it to be.
Provisioned(r) ==
    /\ run[r].pc \in Making \cup {"create", "drop"} => Fresh(r) \notin DOMAIN original
    /\ run[r].pc \in {"created"} \cup Owning =>
         Fresh(r) \in DOMAIN databases /\ run[r].created_by_this_run
    /\ run[r].pc \in Owning => run[r].present_after
    /\ run[r].pc \in Making /\ Fresh(r) \in DOMAIN databases => databases[Fresh(r)] = Empty

\* Before it is made and once it is dropped it is not there.
Gone(r) ==
    run[r].pc \notin Making \cup {"drop", "killed"} /\ run[r].error = None =>
      (Fresh(r) \in There => Fresh(r) \in DOMAIN original)

\* What the JSON will say, and says.
Evidence(r) ==
    /\ run[r].pc = "after" \/ run[r].matrix = "PASS" => run[r].cleaned_up
    /\ run[r].pc = "report" /\ run[r].all_passed => r \notin run_dirs
    /\ run[r].json # None =>
         /\ run[r].pc = "over" /\ run[r].error = None
         /\ run[r].json.all_passed => r \notin run_dirs
         /\ run[r].json.matrix = "PASS" => run[r].json.fresh_database_cleaned_up

RunOK(r) ==
    /\ Guarded(r) /\ NoErrorYet(r) /\ (NoRivals => RoundTrip(r)) /\ Learned(r)
    /\ Provisioned(r) /\ Gone(r) /\ Evidence(r)

\* A proof's database is its own, and a proof that has not failed leaves none.
ProofOK(p) ==
    /\ proof[p].pc \in {"create", "migrate", "ingest", "drop", "leak check"} =>
         ProofDatabase(p) \notin DOMAIN original
    /\ proof[p].pc \in {"new", "create"} =>
         (ProofDatabase(p) \in There => ProofDatabase(p) \in DOMAIN original)
    /\ proof[p].pc \in {"migrate", "ingest"} => ProofDatabase(p) \in DOMAIN databases
    /\ proof[p].pc \in {"drop", "leak check"} /\ proof[p].all_passed =>
         ProofDatabase(p) \notin pending
    /\ proof[p].pc = "summary" /\ proof[p].all_passed => ProofDatabase(p) \notin There
    /\ proof[p].summary = "PASS" => proof[p].pc = "over" /\ ProofDatabase(p) \notin There

IInv ==
    /\ TypeOK /\ PendingIsNew /\ OnlyTheTestDatabaseChanges /\ OneHistory
    /\ \A r \in Runs : RunOK(r)
    /\ \A p \in Proofs : ProofOK(p)

-----------------------------------------------------------------------------
(***************************************************************************)
(* Alembic's commands on a database.                                       *)
(***************************************************************************)
\* A history's beginning.
LEMMA BeginningFacts ==
    ASSUME NEW S, NEW h \in Seq(S), NEW k \in 0..Len(h)
    PROVE  LET b == SubSeq(h, 1, k)
           IN  /\ b \in Seq(S) /\ Len(b) = k /\ ToSet(b) = {h[i] : i \in 1..k}
               /\ ToSet(b) \subseteq ToSet(h)
               /\ b = <<>> <=> k = 0
               /\ k # 0 => Last(b) = h[k]
<1> DEFINE b == SubSeq(h, 1, k)
<1>1. Len(h) \in Nat /\ DOMAIN h = 1..Len(h) /\ \A i \in 1..Len(h) : h[i] \in S
  BY LenProperties, ElementOfSeq
<1>2. k \in Nat /\ k <= Len(h) /\ \A i \in 1..k : h[i] \in S
  BY <1>1
<1>3. b \in Seq(S) /\ Len(b) = (IF 1 <= k THEN k - 1 + 1 ELSE 0)
      /\ \A i \in 1..k - 1 + 1 : b[i] = h[1 + i - 1]
  BY <1>2, SubSeqProperties
<1> HIDE DEF b
<1>4. Len(b) = k /\ \A i \in 1..k : b[i] = h[i]
  BY <1>2, <1>3
<1>5. DOMAIN b = 1..k
  BY <1>3, <1>4, LenProperties
<1>6. ToSet(b) = {h[i] : i \in 1..k}
  BY <1>4, <1>5 DEF ToSet
<1>7. ToSet(b) \subseteq ToSet(h)
  <2>1. 1..k \subseteq DOMAIN h
    BY <1>1, <1>2
  <2> QED  BY <1>6, <2>1 DEF ToSet
<1>8. b = <<>> <=> k = 0
  BY <1>2, <1>3, <1>4, EmptySeq
<1>9. k # 0 => Last(b) = h[k]
  BY <1>2, <1>4 DEF Last
<1> QED
  BY <1>3, <1>4, <1>6, <1>7, <1>8, <1>9 DEF b

\* What is assumed of a candidate.
LEMMA CandidateFacts ==
    ASSUME NEW cs \in Candidates, NEW r \in Runs
    PROVE  LET c == cs[r]
               h == c.history
           IN  /\ h \in Seq(ToSet(h)) /\ Len(h) \in Nat /\ Len(h) # 0 /\ DOMAIN h = 1..Len(h)
               /\ Newest(c) = h[Len(h)] /\ Newest(c) \in ToSet(h)
               /\ SubSeq(h, 1, Len(h)) = h
               /\ \A i, j \in DOMAIN h : h[i] = h[j] => i = j
               /\ Newest(c).defects \subseteq MigrationDefects
               /\ c.defects \subseteq CandidateDefects
<1> DEFINE c == cs[r]
           h == c.history
<1>1. /\ h \in Seq(ToSet(h)) /\ h # <<>>
      /\ \A i, j \in DOMAIN h : h[i].revision = h[j].revision => i = j
      /\ \A m \in ToSet(h) : m.defects \subseteq MigrationDefects
      /\ c.defects \subseteq CandidateDefects
  BY CandidateAssumption
<1> HIDE DEF h
<1>2. Len(h) \in Nat /\ Len(h) # 0 /\ DOMAIN h = 1..Len(h) /\ SubSeq(h, 1, Len(h)) = h
  BY <1>1, EmptySeq, LenProperties, SubSeqFull
<1>3. h[Len(h)] \in ToSet(h)
  BY <1>2 DEF ToSet
<1>4. Newest(c) = h[Len(h)]
  BY DEF Newest, Last, h
<1>5. \A i, j \in DOMAIN h : h[i] = h[j] => i = j
  BY <1>1
<1> QED
  BY <1>1, <1>2, <1>3, <1>4, <1>5 DEF h

\* Where the histories agree, a command finds what its own scripts have made.
LEMMA NothingSurprises ==
    ASSUME candidate \in Candidates, NoRivals, NEW content, Plain(content), NEW x \in Runs,
           NEW k \in Standing(candidate[x], content), NEW command
    PROVE  /\ content.applied = SubSeq(candidate[x].history, 1, k)
           /\ ~Surprises(command, candidate[x], content, k)
<1> DEFINE c == candidate[x]
           h == c.history
<1>1. /\ h \in Seq(ToSet(h)) /\ Len(h) \in Nat /\ Len(h) # 0 /\ DOMAIN h = 1..Len(h)
  BY CandidateFacts
<1>2. k \in 0..Len(h)
  BY DEF Standing
<1>3. content.applied = SubSeq(h, 1, k)
  <2>1. CASE k = 0
    BY <1>1, <1>2, <2>1, BeginningFacts DEF Standing
  <2>2. CASE k # 0
    <3>1. content.applied # <<>> /\ Last(content.applied).revision = h[k].revision
      BY <2>2 DEF Standing
    <3>2. PICK q \in Runs : \E j \in 0..Len(candidate[q].history) :
             content.applied = SubSeq(candidate[q].history, 1, j)
      BY DEF Plain
    <3> DEFINE t == candidate[q].history
    <3>3. PICK j \in 0..Len(t) : content.applied = SubSeq(t, 1, j)
      BY <3>2
    <3>4. t \in Seq(ToSet(t)) /\ Len(t) \in Nat /\ DOMAIN t = 1..Len(t)
      BY CandidateFacts
    <3>5. j # 0 /\ Last(content.applied) = t[j]
      BY <3>1, <3>3, <3>4, BeginningFacts
    <3>6. k \in DOMAIN h /\ j \in DOMAIN t /\ h[k].revision = t[j].revision
      BY <1>1, <1>2, <2>2, <3>1, <3>4, <3>5
    <3>7. Agree(h, t)
      BY DEF NoRivals
    <3> HIDE DEF h, t
    <3>8. SubSeq(h, 1, k) = SubSeq(t, 1, j)
      BY <3>6, <3>7 DEF Agree
    <3> QED
      BY <3>3, <3>8 DEF h, t
  <2> QED
    BY <2>1, <2>2
<1>4. ASSUME NEW m \in content.residue, NEW n \in ToSet(h), m.revision = n.revision
      PROVE  m = n
  <2>1. PICK q \in Runs : m \in ToSet(candidate[q].history)
    BY DEF Plain
  <2> DEFINE t == candidate[q].history
  <2>2. t \in Seq(ToSet(t)) /\ Len(t) \in Nat /\ Len(t) # 0 /\ DOMAIN t = 1..Len(t)
    BY CandidateFacts
  <2>3. PICK i \in 1..Len(h), j \in 1..Len(t) : n = h[i] /\ m = t[j]
    BY <1>1, <2>1, <2>2 DEF ToSet
  <2>4. Agree(h, t)
    BY DEF NoRivals
  <2> HIDE DEF h, t
  <2>5. SubSeq(h, 1, i) = SubSeq(t, 1, j)
    BY <1>1, <1>4, <2>2, <2>3, <2>4 DEF Agree
  <2>6. Last(SubSeq(h, 1, i)) = h[i] /\ Last(SubSeq(t, 1, j)) = t[j]
    <3>1. i \in 0..Len(h) /\ i # 0 /\ j \in 0..Len(t) /\ j # 0
      BY <1>1, <2>2, <2>3
    <3> QED  BY <1>1, <2>2, <3>1, BeginningFacts
  <2> QED
    BY <2>3, <2>5, <2>6
<1>5. ~content.mixed
  <2>1. content = [applied |-> content.applied, residue |-> content.residue, mixed |-> FALSE]
    BY DEF Plain
  <2> QED  BY <2>1
<1> QED
  BY <1>3, <1>4, <1>5 DEF Surprises

Commands == {"upgrade", "downgrade", "check"}

\* What x's upgrade makes of a database.
Upgraded(x, content, new) ==
    /\ new.applied = candidate[x].history /\ new.residue = content.residue
    /\ ToSet(content.applied) \subseteq ToSet(new.applied)

\* What x's downgrade makes of it, m being the migration it reverts.
Downgraded(x, content, new, m) ==
    /\ m \in ToSet(content.applied) /\ "downgrade" \notin m.defects
    /\ ToSet(new.applied) = ToSet(content.applied) \ {m}
    /\ new.residue = content.residue \cup IF "residue" \in m.defects THEN {m} ELSE {}
    /\ Newest(candidate[x]) \in ToSet(content.applied) => m = Newest(candidate[x])

\* Where the histories agree, what a success says of the database before and after.
LEMMA UpgradeFacts ==
    ASSUME candidate \in Candidates, NoRivals, NEW content, Plain(content), NEW x \in Runs,
           NEW new \in Results("upgrade", candidate[x], content)
    PROVE  Plain(new) /\ Upgraded(x, content, new)
<1> DEFINE c == candidate[x]
           h == c.history
<1>1. /\ h \in Seq(ToSet(h)) /\ Len(h) \in Nat /\ Len(h) # 0 /\ DOMAIN h = 1..Len(h)
      /\ SubSeq(h, 1, Len(h)) = h
  BY CandidateFacts
<1>2. PICK k \in Standing(c, content) :
        /\ new = Result("upgrade", c, content, k)
        /\ Obstructed("upgrade", c, content, k) => Surprises("upgrade", c, content, k)
  BY DEF Results
<1>3. content.applied = SubSeq(h, 1, k) /\ ~Surprises("upgrade", c, content, k)
  BY NothingSurprises
<1>4. k \in 0..Len(h)
  BY DEF Standing
<1>5. \A i \in k + 1..Len(h) : h[i] \notin content.residue
  BY <1>2, <1>3 DEF Obstructed
<1> HIDE DEF h
<1>6. content = [applied |-> content.applied, residue |-> content.residue, mixed |-> FALSE]
  BY DEF Plain
<1>7. new = [applied |-> h, residue |-> content.residue, mixed |-> FALSE]
  <2>1. ~content.mixed
    BY <1>6
  <2>2. CASE k < Len(h)
    <3>1. new = [content EXCEPT !.applied = h, !.mixed = FALSE]
      BY <1>2, <1>3, <2>1, <2>2 DEF Result, h
    <3> QED  BY <1>6, <3>1
  <2>3. CASE k = Len(h)
    <3>1. new = content
      BY <1>1, <1>2, <2>3 DEF Result, h
    <3> QED  BY <1>1, <1>3, <1>6, <2>3, <3>1
  <2>4. k < Len(h) \/ k = Len(h)
    <3>1. Len(h) \in Nat
      BY <1>1
    <3> QED  BY <1>4, <3>1
  <2> QED  BY <2>2, <2>3, <2>4
<1>8. content.residue \cap ToSet(h) = {}
  <2> SUFFICES ASSUME NEW i \in 1..Len(h), h[i] \in content.residue PROVE FALSE
    BY <1>1 DEF ToSet
  <2>1. CASE i \in 1..k
    <3>1. h[i] \in ToSet(content.applied)
      BY <1>1, <1>3, <1>4, <2>1, BeginningFacts
    <3> QED  BY <3>1 DEF Plain
  <2>2. CASE i \in k + 1..Len(h)
    BY <1>5, <2>2
  <2> QED  BY <1>1, <1>4, <2>1, <2>2
<1>9. ToSet(content.applied) \subseteq ToSet(h)
  BY <1>1, <1>3, <1>4, BeginningFacts
<1>10. Upgraded(x, content, new)
  BY <1>7, <1>9 DEF Upgraded, h
<1>11. Plain(new)
  <2>1. \E j \in 0..Len(h) : new.applied = SubSeq(h, 1, j)
    <3>1. Len(h) \in 0..Len(h) /\ new.applied = SubSeq(h, 1, Len(h))
      BY <1>1, <1>7
    <3> QED  BY <3>1
  <2>2. /\ new = [applied |-> new.applied, residue |-> new.residue, mixed |-> FALSE]
        /\ new.residue \cap ToSet(new.applied) = {} /\ new.residue = content.residue
    BY <1>7, <1>8
  <2> QED  BY <2>1, <2>2 DEF Plain, h
<1> QED
  BY <1>10, <1>11

\* A downgrade reverts the last migration that is applied, one of the candidate's.
LEMMA DowngradeFacts ==
    ASSUME candidate \in Candidates, NoRivals, NEW content, Plain(content), NEW x \in Runs,
           NEW new \in Results("downgrade", candidate[x], content)
    PROVE  Plain(new) /\ \E m : Downgraded(x, content, new, m)
<1> DEFINE c == candidate[x]
           h == c.history
<1>1. /\ h \in Seq(ToSet(h)) /\ Len(h) \in Nat /\ Len(h) # 0 /\ DOMAIN h = 1..Len(h)
      /\ Newest(c) = h[Len(h)] /\ \A i, j \in DOMAIN h : h[i] = h[j] => i = j
  BY CandidateFacts
<1>2. PICK k \in Standing(c, content) :
        /\ new = Result("downgrade", c, content, k)
        /\ Applies("downgrade", c, k)
  BY DEF Results
<1>3. content.applied = SubSeq(h, 1, k) /\ ~Surprises("downgrade", c, content, k)
  BY NothingSurprises
<1> HIDE DEF h
<1>4. k \in 1..Len(h) /\ "downgrade" \notin h[k].defects
  <2>1. k \in 0..Len(h)
    BY DEF Standing, h
  <2>2. k > 0 /\ "downgrade" \notin h[k].defects
    BY <1>2 DEF Applies, h
  <2> QED  BY <1>1, <2>1, <2>2
<1>5. content = [applied |-> content.applied, residue |-> content.residue, mixed |-> FALSE]
  BY DEF Plain
<1> DEFINE m == h[k]
           left == IF "residue" \in m.defects THEN {m} ELSE {}
<1>6. new = [applied |-> SubSeq(h, 1, k - 1), mixed |-> FALSE,
             residue |-> content.residue \cup left]
  <2>1. ~content.mixed
    BY <1>3 DEF Surprises
  <2> QED  BY <1>2, <1>3, <2>1 DEF Result, h
<1>7. k - 1 \in 0..Len(h) /\ k \in 0..Len(h)
  BY <1>1, <1>4
<1>8. /\ ToSet(content.applied) = {h[i] : i \in 1..k}
      /\ ToSet(SubSeq(h, 1, k - 1)) = {h[i] : i \in 1..k - 1}
  BY <1>1, <1>3, <1>7, BeginningFacts
<1>9. m \in ToSet(content.applied) /\ ToSet(SubSeq(h, 1, k - 1)) = ToSet(content.applied) \ {m}
  <2>1. 1..k = (1..k - 1) \cup {k} /\ k \notin 1..k - 1 /\ 1..k \subseteq DOMAIN h
    BY <1>1, <1>4
  <2>2. \A i \in 1..k - 1 : h[i] # m
    BY <1>1, <2>1
  <2> QED  BY <1>8, <2>1, <2>2
<1>10. Newest(c) \in ToSet(content.applied) => m = Newest(c)
  <2> SUFFICES ASSUME NEW i \in 1..k, Newest(c) = h[i] PROVE m = Newest(c)
    BY <1>8
  <2>1. i = Len(h)
    <3>1. i \in DOMAIN h /\ Len(h) \in DOMAIN h
      BY <1>1, <1>4
    <3> QED  BY <1>1, <3>1
  <2> QED  BY <1>1, <1>4, <2>1
<1> HIDE DEF m
<1>11. Downgraded(x, content, new, m)
  <2>1. ToSet(new.applied) = ToSet(content.applied) \ {m} /\ new.residue = content.residue \cup left
    BY <1>6, <1>9
  <2> QED  BY <1>4, <1>9, <1>10, <2>1 DEF Downgraded, m
<1>12. Plain(new)
  <2>1. \E j \in 0..Len(h) : new.applied = SubSeq(h, 1, j)
    BY <1>6, <1>7
  <2>2. new = [applied |-> new.applied, residue |-> new.residue, mixed |-> FALSE]
    BY <1>6
  <2>3. new.residue \subseteq content.residue \cup {m}
    BY <1>6
  <2>4. new.residue \cap ToSet(new.applied) = {}
    BY <1>6, <1>9, <2>3 DEF Plain
  <2>5. m \in ToSet(h)
    BY <1>1, <1>4 DEF ToSet, m
  <2>6. \A n \in new.residue : \E q \in Runs : n \in ToSet(candidate[q].history)
    BY <2>3, <2>5 DEF Plain, h
  <2> QED  BY <2>1, <2>2, <2>4, <2>6 DEF Plain, h
<1> QED
  BY <1>11, <1>12

\* A check passes only where the models agree, and changes nothing.
LEMMA CheckFacts ==
    ASSUME candidate \in Candidates, NoRivals, NEW content, Plain(content), NEW x \in Runs,
           NEW new \in Results("check", candidate[x], content)
    PROVE  new = content /\ "models" \notin candidate[x].defects
<1>1. PICK k \in Standing(candidate[x], content) :
        /\ new = Result("check", candidate[x], content, k)
        /\ Obstructed("check", candidate[x], content, k) =>
             Surprises("check", candidate[x], content, k)
  BY DEF Results
<1>2. ~Surprises("check", candidate[x], content, k)
  BY NothingSurprises
<1> QED
  BY <1>1, <1>2 DEF Result, Obstructed

\* What a candidate's round trip has shown of m holds of what the database has become.
Survives(m, content, new) ==
    /\ "downgrade" \in m.defects /\ m \in ToSet(content.applied) => m \in ToSet(new.applied)
    /\ "residue" \in m.defects /\ m \in ToSet(content.applied) \cup content.residue =>
         m \in ToSet(new.applied) \cup new.residue
    /\ m \in content.residue => m \in new.residue

\* No command undoes what another candidate's round trip rests on.
LEMMA CommandKeeps ==
    ASSUME candidate \in Candidates, NoRivals, NEW content, Plain(content), NEW x \in Runs,
           NEW command \in Commands, NEW new \in Results(command, candidate[x], content)
    PROVE  Plain(new) /\ \A m : Survives(m, content, new)
<1>1. CASE command = "upgrade"
  BY <1>1, UpgradeFacts DEF Upgraded, Survives
<1>2. CASE command = "downgrade"
  <2>1. PICK m : Downgraded(x, content, new, m)
    BY <1>2, DowngradeFacts
  <2>2. \A n : Survives(n, content, new)
    BY <2>1 DEF Downgraded, Survives
  <2> QED  BY <1>2, <2>2, DowngradeFacts
<1>3. CASE command = "check"
  BY <1>3, CheckFacts DEF Survives
<1> QED
  BY <1>1, <1>2, <1>3 DEF Commands

-----------------------------------------------------------------------------
(***************************************************************************)
(* What a step of one invocation leaves of the others.                     *)
(***************************************************************************)
\* An update of an invocation changes the fields it names, and no other invocation.
RunChanged(r, changes) ==
    /\ DOMAIN run' = Runs /\ \A q \in Runs : DOMAIN run'[q] = RunFields
    /\ \A q \in Runs \ {r} : run'[q] = run[q]
    /\ \A f \in RunFields :
         run'[r][f] = IF f \in DOMAIN changes THEN changes[f] ELSE run[r][f]

LEMMA SetFacts ==
    ASSUME TypeOK, NEW r \in Runs, NEW changes, Set(r, changes)
    PROVE  RunChanged(r, changes)
  BY DEF TypeOK, Set, Changed, RunChanged

ProofChanged(p, changes) ==
    /\ DOMAIN proof' = Proofs /\ \A q \in Proofs : DOMAIN proof'[q] = ProofFields
    /\ \A q \in Proofs \ {p} : proof'[q] = proof[q]
    /\ \A f \in ProofFields :
         proof'[p][f] = IF f \in DOMAIN changes THEN changes[f] ELSE proof[p][f]

\* The same of a proof.
LEMMA SetProofFacts ==
    ASSUME TypeOK, NEW p \in Proofs, NEW changes, SetProof(p, changes)
    PROVE  ProofChanged(p, changes)
  BY DEF TypeOK, SetProof, Changed, ProofChanged

\* The configuration, the candidates and what was there before.
Steady ==
    UNCHANGED <<candidate, settings>> /\ DOMAIN original' = DOMAIN original

\* What becomes of the shared test database.
SharedStep ==
    \/ databases'[Existing] = databases[Existing]
    \/ \E x \in Runs, command \in Commands :
          databases'[Existing] \in Results(command, candidate[x], databases[Existing])
    \/ Existing = Development

\* A database that is not one's own to touch.
Kept(db) ==
    /\ db \in There' => db \in There
    /\ db \in DOMAIN databases => db \in DOMAIN databases'
    /\ db \in pending' => db \in pending
    /\ db \in DOMAIN databases' /\ db \notin DOMAIN original =>
         \/ databases'[db] = Empty
         \/ db \in DOMAIN databases /\ databases'[db] = databases[db]

\* The names of the databases do not change.
LEMMA SteadyNames ==
    ASSUME Steady
    PROVE  /\ Existing' = Existing /\ Development' = Development /\ NoRivals' = NoRivals
           /\ \A p : ProofDatabase(p)' = ProofDatabase(p)
  BY DEF Steady, Existing, Development, NoRivals, ProofDatabase, ProofUrl, TestTarget, Reached

\* The shared database stays what one history makes of it, and with it every round trip.
LEMMA SharedKept ==
    ASSUME TypeOK, Steady, SharedStep, OneHistory
    PROVE  /\ OneHistory'
           /\ \A r \in Runs :
                NoRivals /\ Existing # Development /\ RoundTrip(r) /\ run'[r].pc = run[r].pc =>
                  RoundTrip(r)'
<1> DEFINE content == databases[Existing]
           new == databases'[Existing]
<1>1. /\ candidate \in Candidates /\ candidate' = candidate
      /\ Existing' = Existing /\ Development' = Development
      /\ NoRivals' = NoRivals
  BY SteadyNames DEF TypeOK, Steady, NoRivals
<1>2. databases'[Existing'] = new
  BY <1>1
<1>3. Plain(new) => Plain(databases[Existing])'
  BY <1>1 DEF Plain
<1>4. SUFFICES ASSUME NoRivals, Existing # Development
               PROVE  /\ Plain(new)
                      /\ \A r \in Runs : RoundTrip(r) /\ run'[r].pc = run[r].pc => RoundTrip(r)'
  BY <1>1, <1>3 DEF OneHistory
<1>5. Plain(content)
  BY <1>4 DEF OneHistory
<1> HIDE DEF content, new
<1>6. Plain(new) /\ \A m : Survives(m, content, new)
  <2>1. CASE new = content
    BY <1>5, <2>1 DEF Survives
  <2>2. ASSUME NEW x \in Runs, NEW command \in Commands,
               new \in Results(command, candidate[x], content)
        PROVE  Plain(new) /\ \A m : Survives(m, content, new)
    BY <1>1, <1>4, <1>5, <2>2, CommandKeeps
  <2> QED
    BY <1>4, <2>1, <2>2 DEF SharedStep, content, new
<1>7. ASSUME NEW r \in Runs, RoundTrip(r), run'[r].pc = run[r].pc PROVE RoundTrip(r)'
  <2> DEFINE m == Newest(candidate[r])
  <2>1. Survives(m, content, new) /\ Newest(candidate[r])' = m
    BY <1>1, <1>6 DEF Newest
  <2> HIDE DEF m
  <2> QED
    BY <1>2, <1>7, <2>1 DEF RoundTrip, Survives, content, m
<1> QED
  BY <1>6, <1>7

\* An invocation that does not move keeps what it has shown.
LEMMA RunKept ==
    ASSUME TypeOK, Steady, SharedStep, OneHistory, NEW r \in Runs, RunOK(r), run'[r] = run[r],
           Kept(Fresh(r)), r \in run_dirs' => r \in run_dirs
    PROVE  RunOK(r)'
<1>1. /\ candidate' = candidate /\ Existing' = Existing /\ Development' = Development
      /\ DOMAIN original' = DOMAIN original /\ NoRivals' = NoRivals
  BY SteadyNames DEF Steady, NoRivals
<1>2. Guarded(r)' /\ NoErrorYet(r)'
  BY <1>1 DEF RunOK, Guarded, NoErrorYet
<1>3. NoRivals' => RoundTrip(r)'
  <2>1. CASE Existing # Development
    BY <1>1, <2>1, SharedKept DEF RunOK
  <2>2. CASE Existing = Development
    BY <2>2 DEF RunOK, RoundTrip, Guarded
  <2> QED  BY <2>1, <2>2
<1>4. Learned(r)'
  BY <1>1 DEF RunOK, Learned, Flaws, Newest
<1>5. Provisioned(r)'
  BY <1>1 DEF RunOK, Provisioned, Kept, Making, Owning
<1>6. Gone(r)'
  BY <1>1 DEF RunOK, Gone, Kept
<1>7. Evidence(r)'
  BY DEF RunOK, Evidence
<1> QED
  BY <1>2, <1>3, <1>4, <1>5, <1>6, <1>7 DEF RunOK

\* A proof that does not move keeps its database.
LEMMA ProofKept ==
    ASSUME Steady, NEW p \in Proofs, ProofOK(p), proof'[p] = proof[p], Kept(ProofDatabase(p))
    PROVE  ProofOK(p)'
<1>1. ProofDatabase(p)' = ProofDatabase(p) /\ DOMAIN original' = DOMAIN original
  BY SteadyNames DEF Steady
<1> QED
  BY <1>1 DEF ProofOK, Kept

-----------------------------------------------------------------------------
(***************************************************************************)
(* Whose database is whose.                                                *)
(***************************************************************************)
\* Every invocation has a database of its own.
LEMMA OwnNames ==
    ASSUME TypeOK
    PROVE  /\ \A r, q \in Runs : Fresh(r) = Fresh(q) => r = q
           /\ \A p, q \in Proofs : ProofDatabase(p) = ProofDatabase(q) => p = q
           /\ \A r \in Runs, p \in Proofs : Fresh(r) # ProofDatabase(p)
<1>1. \A r : Fresh(r).name = [fresh |-> r, test |-> TRUE]
  BY UrlAssumption DEF Fresh, FreshUrl, Reached
<1>2. \A p : ProofDatabase(p).name = [fresh |-> p, test |-> TRUE]
  BY UrlAssumption DEF TypeOK, ProofDatabase, ProofUrl, Reached
<1>3. \A r : [fresh |-> r, test |-> TRUE].fresh = r
  OBVIOUS
<1>4. ASSUME NEW r, NEW q, [fresh |-> r, test |-> TRUE] = [fresh |-> q, test |-> TRUE]
      PROVE  r = q
  BY <1>3, <1>4
<1>5. ASSUME NEW r \in Runs, NEW q \in Runs, Fresh(r) = Fresh(q) PROVE r = q
  <2>1. [fresh |-> r, test |-> TRUE] = [fresh |-> q, test |-> TRUE]
    BY <1>1, <1>5
  <2> QED  BY <1>4, <2>1
<1>6. ASSUME NEW p \in Proofs, NEW q \in Proofs, ProofDatabase(p) = ProofDatabase(q)
      PROVE  p = q
  <2>1. [fresh |-> p, test |-> TRUE] = [fresh |-> q, test |-> TRUE]
    BY <1>2, <1>6
  <2> QED  BY <1>4, <2>1
<1>7. \A r \in Runs, p \in Proofs : Fresh(r) # ProofDatabase(p)
  <2> TAKE r \in Runs, p \in Proofs
  <2>1. SUFFICES ASSUME Fresh(r) = ProofDatabase(p) PROVE FALSE
    OBVIOUS
  <2>2. [fresh |-> r, test |-> TRUE] = [fresh |-> p, test |-> TRUE]
    BY <1>1, <1>2, <2>1
  <2>3. r = p
    BY <1>4, <2>2
  <2> QED  BY <2>3, NameAssumption
<1> QED
  BY <1>5, <1>6, <1>7

\* A step that touches one database, which was not there before the invocations.
OneDatabase(db) ==
    /\ db \notin DOMAIN original
    /\ \A other : other # db =>
         /\ other \in DOMAIN databases' <=> other \in DOMAIN databases
         /\ other \in pending' <=> other \in pending
         /\ other \in DOMAIN databases => databases'[other] = databases[other]
    /\ ~(db \in pending' /\ db \in DOMAIN databases')

LEMMA OneDatabaseFacts ==
    ASSUME TypeOK, PendingIsNew, OnlyTheTestDatabaseChanges,
           UNCHANGED <<candidate, settings, original>>, NEW db, OneDatabase(db)
    PROVE  /\ Steady /\ SharedStep /\ PendingIsNew' /\ OnlyTheTestDatabaseChanges'
           /\ databases'[Existing] = databases[Existing]
           /\ \A other : other # db => Kept(other)
<1>1. Steady
  BY DEF Steady
<1>2. /\ Existing' = Existing /\ Development' = Development
      /\ Existing \in DOMAIN original /\ Existing \in DOMAIN databases
  BY <1>1, SteadyNames DEF TypeOK, OnlyTheTestDatabaseChanges
<1>3. databases'[Existing] = databases[Existing]
  BY <1>2 DEF OneDatabase
<1>4. PendingIsNew'
  BY DEF OneDatabase, PendingIsNew
<1>5. OnlyTheTestDatabaseChanges'
  BY <1>2 DEF OneDatabase, OnlyTheTestDatabaseChanges
<1>6. \A other : other # db => Kept(other)
  BY DEF OneDatabase, Kept, There
<1> QED
  BY <1>1, <1>3, <1>4, <1>5, <1>6 DEF SharedStep

\* A step that touches none.
LEMMA NoDatabaseFacts ==
    ASSUME TypeOK, PendingIsNew, OnlyTheTestDatabaseChanges,
           UNCHANGED <<candidate, settings, databases, original, pending>>
    PROVE  /\ Steady /\ SharedStep /\ PendingIsNew' /\ OnlyTheTestDatabaseChanges'
           /\ databases'[Existing] = databases[Existing]
           /\ \A other : Kept(other)
<1>1. Steady
  BY DEF Steady
<1>2. Existing' = Existing /\ Development' = Development /\ NoRivals' = NoRivals
  BY <1>1, SteadyNames
<1>3. OnlyTheTestDatabaseChanges' /\ PendingIsNew'
  BY <1>2 DEF OnlyTheTestDatabaseChanges, PendingIsNew
<1>4. \A other : Kept(other)
  BY DEF Kept, There
<1> QED
  BY <1>1, <1>3, <1>4 DEF SharedStep

-----------------------------------------------------------------------------
(***************************************************************************)
(* A move of one invocation of verify.py.                                  *)
(***************************************************************************)
\* It is enough to look at the invocation that moves.
LEMMA OneRunMoves ==
    ASSUME IInv, NEW r \in Runs, NEW changes, RunChanged(r, changes), UNCHANGED proof,
           Steady, SharedStep, PendingIsNew', OnlyTheTestDatabaseChanges',
           \A q \in Runs \ {r} : Kept(Fresh(q)) /\ (q \in run_dirs' => q \in run_dirs),
           \A p \in Proofs : Kept(ProofDatabase(p)),
           RunOK(r)'
    PROVE  IInv'
<1>1. OneHistory'
  BY SharedKept DEF IInv
<1>2. Existing' = Existing /\ Development' = Development
  BY SteadyNames
<1>3. TypeOK'
  BY <1>2 DEF IInv, TypeOK, Steady, RunChanged
<1>4. \A q \in Runs \ {r} : RunOK(q)'
  BY RunKept DEF IInv, RunChanged
<1>5. \A p \in Proofs : ProofOK(p)'
  BY ProofKept DEF IInv
<1> QED
  BY <1>1, <1>3, <1>4, <1>5 DEF IInv

\* The same of a move that touches no database.
LEMMA QuietMove ==
    ASSUME IInv, NEW r \in Runs, NEW changes, RunChanged(r, changes), UNCHANGED proof,
           UNCHANGED <<candidate, settings, databases, original, pending>>,
           \A q \in Runs \ {r} : q \in run_dirs' => q \in run_dirs,
           Existing' = Existing /\ Development' = Development /\ NoRivals' = NoRivals =>
             RunOK(r)'
    PROVE  IInv'
<1>1. /\ Steady /\ SharedStep /\ PendingIsNew' /\ OnlyTheTestDatabaseChanges'
      /\ \A other : Kept(other)
  BY NoDatabaseFacts DEF IInv
<1>2. Existing' = Existing /\ Development' = Development /\ NoRivals' = NoRivals
  BY <1>1, SteadyNames
<1> QED
  BY <1>1, <1>2, OneRunMoves

\* The same of a move that touches its own.
LEMMA OwnMove ==
    ASSUME IInv, NEW r \in Runs, NEW changes, RunChanged(r, changes), UNCHANGED proof,
           UNCHANGED <<candidate, settings, original, run_dirs>>, OneDatabase(Fresh(r)),
           (/\ Existing' = Existing /\ Development' = Development /\ NoRivals' = NoRivals
            /\ databases'[Existing] = databases[Existing]) => RunOK(r)'
    PROVE  IInv'
<1>1. /\ Steady /\ SharedStep /\ PendingIsNew' /\ OnlyTheTestDatabaseChanges'
      /\ databases'[Existing] = databases[Existing]
      /\ \A other : other # Fresh(r) => Kept(other)
  BY OneDatabaseFacts DEF IInv
<1>2. Existing' = Existing /\ Development' = Development /\ NoRivals' = NoRivals
  BY <1>1, SteadyNames
<1>3. /\ \A q \in Runs \ {r} : Fresh(q) # Fresh(r)
      /\ \A p \in Proofs : ProofDatabase(p) # Fresh(r)
  BY OwnNames DEF IInv
<1> QED
  BY <1>1, <1>2, <1>3, OneRunMoves

\* A matrix that has no database of its own, or whose exception goes on, ends.
LEMMA RaisedMove ==
    ASSUME IInv, NEW r \in Runs, NEW error \in {"other", "MigrationMatrixError"},
           Set(r, Raised(error)), UNCHANGED proof,
           UNCHANGED <<candidate, settings, databases, original, pending, run_dirs>>,
           run[r].pc \notin {"new", "cleanup", "report", "over", "killed"},
           error = "MigrationMatrixError" =>
             run[r].pc \notin Making \cup {"drop"} /\ run[r].error = None
    PROVE  IInv'
<1> DEFINE changes == Raised(error)
<1>1. RunChanged(r, changes)
  BY SetFacts DEF IInv
<1>2. /\ run'[r].pc = "cleanup" /\ run'[r].matrix = "FAIL"
      /\ run'[r].json = run[r].json
      /\ error = "MigrationMatrixError" => run'[r].error = None
      /\ error # "MigrationMatrixError" => run'[r].error = "other"
  BY <1>1 DEF RunChanged, RunFields, Raised
<1> HIDE DEF changes
<1>3. run[r].json = None
  BY DEF IInv, RunOK, Evidence
<1>4. "other" # None
  BY NoneAssumption
<1>5. Guarded(r)' /\ NoErrorYet(r)' /\ RoundTrip(r)' /\ Learned(r)' /\ Provisioned(r)'
  BY <1>2 DEF Guarded, NoErrorYet, RoundTrip, Learned, Flaws, Newest, Provisioned, Asking,
              Restored, Checked, Making, Owning
<1>6. Gone(r)'
  <2>1. run'[r].error = None => (Fresh(r) \in There => Fresh(r) \in DOMAIN original)
    BY <1>2, <1>4 DEF IInv, RunOK, Gone
  <2> QED  BY <2>1 DEF Gone, There
<1>7. Evidence(r)'
  BY <1>2, <1>3 DEF Evidence
<1> QED
  BY <1>1, <1>5, <1>6, <1>7, QuietMove DEF RunOK

\* A question leads on, or to the end.
LEMMA AskMoves ==
    ASSUME IInv, NEW r \in Runs, NEW pc, NEW fine, NEW next, NEW refusal, NEW failure,
           Ask(r, pc, fine, next, refusal, failure), UNCHANGED proof
    PROVE  /\ run[r].pc = pc
           /\ UNCHANGED <<candidate, settings, databases, original, pending, run_dirs>>
           /\ \/ fine /\ RunChanged(r, next)
              \/ ~fine /\ Set(r, Raised(refusal))
              \/ Set(r, Raised(failure))
  BY SetFacts DEF IInv, Ask, At

-----------------------------------------------------------------------------
(***************************************************************************)
(* The steps of an invocation that touch no database.                      *)
(***************************************************************************)
\* verify.py makes the invocation's directory.
LEMMA CreateRunDirStep ==
    ASSUME IInv, NEW r \in Runs, create_run_dir(r), UNCHANGED proof
    PROVE  IInv'
<1> DEFINE changes == [pc |-> "earlier steps"]
<1>1. RunChanged(r, changes)
  BY SetFacts DEF IInv, create_run_dir
<1>2. run'[r].pc = "earlier steps" /\ \A f \in RunFields \ {"pc"} : run'[r][f] = run[r][f]
  BY <1>1 DEF RunChanged, RunFields
<1> HIDE DEF changes
<1>3. RunOK(r) /\ run[r].pc = "new"
  BY DEF IInv, create_run_dir, At
<1>4. ASSUME Existing' = Existing, Development' = Development, NoRivals' = NoRivals
      PROVE  RunOK(r)'
  BY <1>2, <1>3, <1>4
     DEF create_run_dir, RunOK, Guarded, NoErrorYet, RoundTrip, Learned, Flaws, Newest, Provisioned,
         Gone, There, Evidence, RunFields, Asking, Restored, Checked, Making, Owning
<1> QED
  BY <1>1, <1>4, QuietMove DEF create_run_dir

\* Only the guard lets an invocation come to the matrix.
LEMMA EarlierStepsStep ==
    ASSUME IInv, NEW r \in Runs, EarlierSteps(r), UNCHANGED proof
    PROVE  IInv'
<1>1. RunOK(r) /\ run[r].pc = "earlier steps"
  BY DEF IInv, EarlierSteps, At
<1>2. CASE /\ assert_is_disposable_test_database(TestTarget, settings.development)
           /\ Set(r, [pc |-> "version"])
  <2> DEFINE changes == [pc |-> "version"]
  <2>1. RunChanged(r, changes)
    BY <1>2, SetFacts DEF IInv
  <2>2. run'[r].pc = "version" /\ \A f \in RunFields \ {"pc"} : run'[r][f] = run[r][f]
    BY <2>1 DEF RunChanged, RunFields
  <2> HIDE DEF changes
  <2>3. Existing # Development
    BY <1>2 DEF assert_is_disposable_test_database, Existing, Development, Reached
  <2>4. ASSUME Existing' = Existing, Development' = Development, NoRivals' = NoRivals
        PROVE  RunOK(r)'
    BY <1>1, <2>2, <2>3, <2>4
       DEF EarlierSteps, RunOK, Guarded, NoErrorYet, RoundTrip, Learned, Flaws, Newest, Provisioned,
           Gone, There, Evidence, RunFields, Asking, Restored, Checked, Making, Owning
  <2> QED
    BY <2>1, <2>4, QuietMove DEF EarlierSteps
<1>3. CASE Set(r, [pc |-> "cleanup", all_passed |-> FALSE])
  <2> DEFINE changes == [pc |-> "cleanup", all_passed |-> FALSE]
  <2>1. RunChanged(r, changes)
    BY <1>3, SetFacts DEF IInv
  <2>2. /\ run'[r].pc = "cleanup"
        /\ \A f \in RunFields \ {"pc", "all_passed"} : run'[r][f] = run[r][f]
    BY <2>1 DEF RunChanged, RunFields
  <2> HIDE DEF changes
  <2>4. ASSUME Existing' = Existing, Development' = Development, NoRivals' = NoRivals
        PROVE  RunOK(r)'
    BY <1>1, <2>2, <2>4
       DEF EarlierSteps, RunOK, Guarded, NoErrorYet, RoundTrip, Learned, Flaws, Newest, Provisioned,
           Gone, There, Evidence, RunFields, Asking, Restored, Checked, Making, Owning
  <2> QED
    BY <2>1, <2>4, QuietMove DEF EarlierSteps
<1> QED
  BY <1>2, <1>3 DEF EarlierSteps

\* The steps after the matrix.
LEMMA HandoffStepStep ==
    ASSUME IInv, NEW r \in Runs, HandoffStep(r), UNCHANGED proof
    PROVE  IInv'
<1>1. RunOK(r) /\ run[r].pc = "later steps"
  BY DEF IInv, HandoffStep, At
<1>2. PICK passed \in BOOLEAN : Set(r, [pc |-> "cleanup", all_passed |-> passed])
  BY DEF HandoffStep
<1> DEFINE changes == [pc |-> "cleanup", all_passed |-> passed]
<1>3. RunChanged(r, changes)
  BY <1>2, SetFacts DEF IInv
<1>4. /\ run'[r].pc = "cleanup"
      /\ \A f \in RunFields \ {"pc", "all_passed"} : run'[r][f] = run[r][f]
  BY <1>3 DEF RunChanged, RunFields
<1> HIDE DEF changes
<1>5. ASSUME Existing' = Existing, Development' = Development, NoRivals' = NoRivals
      PROVE  RunOK(r)'
  BY <1>1, <1>4, <1>5
     DEF HandoffStep, RunOK, Guarded, NoErrorYet, RoundTrip, Learned, Flaws, Newest, Provisioned,
         Gone, There, Evidence, RunFields, Asking, Restored, Checked, Making, Owning
<1> QED
  BY <1>3, <1>5, QuietMove DEF HandoffStep

\* A report follows only if there is no exception, and says if the directory is left.
LEMMA CleanupRunDirStep ==
    ASSUME IInv, NEW r \in Runs, cleanup_run_dir_step(r), UNCHANGED proof
    PROVE  IInv'
<1> DEFINE next == IF run[r].error = None THEN "report" ELSE "over"
           done == [pc |-> next]
           failed == [pc |-> next, all_passed |-> FALSE]
<1>1. RunOK(r) /\ run[r].pc = "cleanup"
  BY DEF IInv, cleanup_run_dir_step, At
<1>2. CASE run_dirs' = run_dirs \ {r} /\ Set(r, done)
  <2>1. RunChanged(r, done)
    BY <1>2, SetFacts DEF IInv
  <2>2. run'[r].pc = next /\ \A f \in RunFields \ {"pc"} : run'[r][f] = run[r][f]
    BY <2>1 DEF RunChanged, RunFields
  <2> HIDE DEF done
  <2>3. ASSUME Existing' = Existing, Development' = Development, NoRivals' = NoRivals
        PROVE  RunOK(r)'
    BY <1>1, <1>2, <2>2, <2>3
       DEF cleanup_run_dir_step, RunOK, Guarded, NoErrorYet, RoundTrip, Learned,
           Provisioned, Gone, There, Evidence, RunFields, Asking, Restored, Checked, Making, Owning
  <2> QED
    BY <1>2, <2>1, <2>3, QuietMove DEF cleanup_run_dir_step
<1>3. CASE run_dirs' = run_dirs /\ Set(r, failed)
  <2>1. RunChanged(r, failed)
    BY <1>3, SetFacts DEF IInv
  <2>2. /\ run'[r].pc = next /\ run'[r].all_passed = FALSE
        /\ \A f \in RunFields \ {"pc", "all_passed"} : run'[r][f] = run[r][f]
    BY <2>1 DEF RunChanged, RunFields
  <2> HIDE DEF failed
  <2>3. ASSUME Existing' = Existing, Development' = Development, NoRivals' = NoRivals
        PROVE  RunOK(r)'
    BY <1>1, <1>3, <2>2, <2>3
       DEF cleanup_run_dir_step, RunOK, Guarded, NoErrorYet, RoundTrip, Learned,
           Provisioned, Gone, There, Evidence, RunFields, Asking, Restored, Checked, Making, Owning
  <2> QED
    BY <1>3, <2>1, <2>3, QuietMove DEF cleanup_run_dir_step
<1> QED
  BY <1>2, <1>3 DEF cleanup_run_dir_step

\* The JSON is written with what the invocation holds.
LEMMA WriteStepJsonStep ==
    ASSUME IInv, NEW r \in Runs, _write_step_json(r), UNCHANGED proof
    PROVE  IInv'
<1> DEFINE json == [matrix |-> run[r].matrix, all_passed |-> run[r].all_passed,
                    fresh_database_created |-> run[r].created_by_this_run,
                    fresh_database_cleaned_up |-> run[r].cleaned_up]
           changes == [pc |-> "over", json |-> json]
<1>1. RunOK(r) /\ run[r].pc = "report"
  BY DEF IInv, _write_step_json, At
<1>2. RunChanged(r, changes)
  BY SetFacts DEF IInv, _write_step_json
<1> HIDE DEF json
<1>3. /\ run'[r].pc = "over" /\ run'[r].json = json
      /\ \A f \in RunFields \ {"pc", "json"} : run'[r][f] = run[r][f]
  BY <1>2 DEF RunChanged, RunFields
<1> HIDE DEF changes
<1>4. /\ json.all_passed = run[r].all_passed /\ json.matrix = run[r].matrix
      /\ json.fresh_database_cleaned_up = run[r].cleaned_up
  BY DEF json
<1>5. ASSUME Existing' = Existing, Development' = Development, NoRivals' = NoRivals
      PROVE  RunOK(r)'
  BY <1>1, <1>3, <1>4, <1>5
     DEF _write_step_json, RunOK, Guarded, NoErrorYet, RoundTrip, Learned, Flaws, Newest,
         Provisioned, Gone, There, Evidence, RunFields, Asking, Restored, Checked, Making, Owning
<1> QED
  BY <1>2, <1>5, QuietMove DEF _write_step_json

\* The processes of an invocation stop where they are.
LEMMA KillStep ==
    ASSUME IInv, NEW r \in Runs, Kill(r), UNCHANGED proof
    PROVE  IInv'
<1> DEFINE changes == [pc |-> "killed"]
<1>1. RunOK(r) /\ run[r].pc # "over"
  BY DEF IInv, Kill
<1>2. RunChanged(r, changes)
  BY SetFacts DEF IInv, Kill
<1>3. run'[r].pc = "killed" /\ \A f \in RunFields \ {"pc"} : run'[r][f] = run[r][f]
  BY <1>2 DEF RunChanged, RunFields
<1> HIDE DEF changes
<1>4. ASSUME Existing' = Existing, Development' = Development, NoRivals' = NoRivals
      PROVE  RunOK(r)'
  BY <1>1, <1>3, <1>4
     DEF Kill, RunOK, Guarded, NoErrorYet, RoundTrip, Learned, Flaws, Newest, Provisioned,
         Gone, There, Evidence, RunFields, Asking, Restored, Checked, Making, Owning
<1> QED
  BY <1>2, <1>4, QuietMove DEF Kill

\* The first question of the matrix.
LEMMA QueryVersionStep ==
    ASSUME IInv, NEW r \in Runs, query_postgresql_server_version(r), UNCHANGED proof
    PROVE  IInv'
<1> DEFINE changes == [pc |-> "before"]
<1>1. /\ run[r].pc = "version"
      /\ UNCHANGED <<candidate, settings, databases, original, pending, run_dirs>>
      /\ RunChanged(r, changes) \/ Set(r, Raised("other"))
  BY AskMoves DEF query_postgresql_server_version
<1>2. CASE RunChanged(r, changes)
  <2>1. run'[r].pc = "before" /\ \A f \in RunFields \ {"pc"} : run'[r][f] = run[r][f]
    BY <1>2 DEF RunChanged, RunFields
  <2> HIDE DEF changes
  <2>2. RunOK(r)
    BY DEF IInv
  <2>3. ASSUME Existing' = Existing, Development' = Development, NoRivals' = NoRivals
        PROVE  RunOK(r)'
    BY <1>1, <2>1, <2>2, <2>3
       DEF RunOK, Guarded, NoErrorYet, RoundTrip, Learned, Flaws, Newest, Provisioned,
           Gone, There, Evidence, RunFields, Asking, Restored, Checked, Making, Owning
  <2> QED
    BY <1>1, <1>2, <2>3, QuietMove
<1>3. CASE Set(r, Raised("other"))
  BY <1>1, <1>3, RaisedMove
<1> QED
  BY <1>1, <1>2, <1>3

\* The development database as the matrix finds it.
LEMMA CaptureBeforeStep ==
    ASSUME IInv, NEW r \in Runs, capture_before(r), UNCHANGED proof
    PROVE  IInv'
<1> DEFINE changes == [pc |-> "upgrade", dev_before |-> databases[Development]]
<1>1. /\ run[r].pc = "before"
      /\ UNCHANGED <<candidate, settings, databases, original, pending, run_dirs>>
      /\ RunChanged(r, changes) \/ Set(r, Raised("MigrationMatrixError"))
  BY AskMoves DEF capture_before
<1>2. RunOK(r)
  BY DEF IInv
<1>3. CASE RunChanged(r, changes)
  <2>1. /\ run'[r].pc = "upgrade"
        /\ \A f \in RunFields \ {"pc", "dev_before"} : run'[r][f] = run[r][f]
    BY <1>3 DEF RunChanged, RunFields
  <2> HIDE DEF changes
  <2>3. ASSUME Existing' = Existing, Development' = Development, NoRivals' = NoRivals
        PROVE  RunOK(r)'
    BY <1>1, <1>2, <2>1, <2>3
       DEF RunOK, Guarded, NoErrorYet, RoundTrip, Learned, Flaws, Newest, Provisioned,
           Gone, There, Evidence, RunFields, Asking, Restored, Checked, Making, Owning
  <2> QED
    BY <1>1, <1>3, <2>3, QuietMove
<1>4. CASE Set(r, Raised("MigrationMatrixError"))
  <2>1. run[r].error = None
    BY <1>1, <1>2 DEF RunOK, NoErrorYet
  <2> QED  BY <1>1, <1>4, <2>1, RaisedMove DEF Making
<1> QED
  BY <1>1, <1>3, <1>4

\* The fresh database is to be one that is not there.
LEMMA ProvisionAbsentStep ==
    ASSUME IInv, NEW r \in Runs, provision_absent(r), UNCHANGED proof
    PROVE  IInv'
<1> DEFINE safe == assert_safe_for_local_destructive_lifecycle(
                       FreshUrl(r), settings.development, settings.app_env)
           changes == [pc |-> "create"]
<1>1. RunOK(r)
  BY DEF IInv
<1>2. CASE ~safe
  <2>1. Ask(r, "provision", FALSE, run[r], "other", "other")
    BY <1>2 DEF provision_absent
  <2>2. /\ run[r].pc = "provision" /\ Set(r, Raised("other"))
        /\ UNCHANGED <<candidate, settings, databases, original, pending, run_dirs>>
    BY <2>1, AskMoves
  <2> QED  BY <2>2, RaisedMove
<1>3. CASE safe
  <2>1. Ask(r, "provision", Fresh(r) \notin DOMAIN databases, changes,
            "MigrationMatrixError", "other")
    BY <1>3 DEF provision_absent
  <2>2. /\ run[r].pc = "provision"
        /\ UNCHANGED <<candidate, settings, databases, original, pending, run_dirs>>
        /\ \/ Fresh(r) \notin DOMAIN databases /\ RunChanged(r, changes)
           \/ Set(r, Raised("MigrationMatrixError")) \/ Set(r, Raised("other"))
    BY <2>1, AskMoves
  <2>3. CASE Fresh(r) \notin DOMAIN databases /\ RunChanged(r, changes)
    <3>1. run'[r].pc = "create" /\ \A f \in RunFields \ {"pc"} : run'[r][f] = run[r][f]
      BY <2>3 DEF RunChanged, RunFields
    <3> HIDE DEF changes, safe
    <3>2. Fresh(r) \notin DOMAIN original
      BY <2>3 DEF IInv, OnlyTheTestDatabaseChanges
    <3>3. ASSUME Existing' = Existing, Development' = Development, NoRivals' = NoRivals
          PROVE  RunOK(r)'
      BY <1>1, <2>2, <2>3, <3>1, <3>2, <3>3
         DEF RunOK, Guarded, NoErrorYet, RoundTrip, Learned, Flaws, Newest, Provisioned,
             Gone, There, Evidence, RunFields, Asking, Restored, Checked, Making, Owning
    <3> QED
      BY <2>2, <2>3, <3>3, QuietMove
  <2>4. CASE Set(r, Raised("MigrationMatrixError"))
    <3>1. run[r].error = None
      BY <1>1, <2>2 DEF RunOK, NoErrorYet
    <3> QED  BY <2>2, <2>4, <3>1, RaisedMove DEF Making
  <2>5. CASE Set(r, Raised("other"))
    BY <2>2, <2>5, RaisedMove
  <2> QED
    BY <2>2, <2>3, <2>4, <2>5
<1> QED
  BY <1>2, <1>3

\* After an exception the database is seen, or the exception goes on.
LEMMA ReconcileUnacknowledgedStep ==
    ASSUME IInv, NEW r \in Runs, reconcile_unacknowledged(r), UNCHANGED proof
    PROVE  IInv'
<1> DEFINE changes == [pc |-> "resolve", created_by_this_run |-> TRUE, present_after |-> TRUE]
<1>1. /\ run[r].pc = "unacknowledged"
      /\ UNCHANGED <<candidate, settings, databases, original, pending, run_dirs>>
      /\ \/ Fresh(r) \in DOMAIN databases /\ RunChanged(r, changes)
         \/ Set(r, Raised("other"))
  BY AskMoves DEF reconcile_unacknowledged
<1>2. CASE Fresh(r) \in DOMAIN databases /\ RunChanged(r, changes)
  <2>1. /\ run'[r].pc = "resolve"
        /\ run'[r].created_by_this_run /\ run'[r].present_after
        /\ \A f \in RunFields \ {"pc", "created_by_this_run", "present_after"} :
             run'[r][f] = run[r][f]
    BY <1>2 DEF RunChanged, RunFields
  <2> HIDE DEF changes
  <2>2. RunOK(r)
    BY DEF IInv
  <2>3. ASSUME Existing' = Existing, Development' = Development, NoRivals' = NoRivals
        PROVE  RunOK(r)'
    BY <1>1, <1>2, <2>1, <2>2, <2>3
       DEF RunOK, Guarded, NoErrorYet, RoundTrip, Learned, Flaws, Newest, Provisioned,
           Gone, There, Evidence, RunFields, Asking, Restored, Checked, Making, Owning
  <2> QED
    BY <1>1, <1>2, <2>3, QuietMove
<1>3. CASE Set(r, Raised("other"))
  BY <1>1, <1>3, RaisedMove
<1> QED
  BY <1>1, <1>2, <1>3

\* A database that was made is there.
LEMMA ReconcileCreatedStep ==
    ASSUME IInv, NEW r \in Runs, reconcile_created(r), UNCHANGED proof
    PROVE  IInv'
<1> DEFINE changes == [pc |-> "resolve", present_after |-> Fresh(r) \in DOMAIN databases]
<1>1. /\ run[r].pc = "created"
      /\ UNCHANGED <<candidate, settings, databases, original, pending, run_dirs>>
      /\ RunChanged(r, changes) \/ Set(r, Raised("other"))
  BY AskMoves DEF reconcile_created
<1>2. CASE RunChanged(r, changes)
  <2>1. /\ run'[r].pc = "resolve" /\ run'[r].present_after = (Fresh(r) \in DOMAIN databases)
        /\ \A f \in RunFields \ {"pc", "present_after"} : run'[r][f] = run[r][f]
    BY <1>2 DEF RunChanged, RunFields
  <2> HIDE DEF changes
  <2>2. RunOK(r)
    BY DEF IInv
  <2>3. ASSUME Existing' = Existing, Development' = Development, NoRivals' = NoRivals
        PROVE  RunOK(r)'
    BY <1>1, <2>1, <2>2, <2>3
       DEF RunOK, Guarded, NoErrorYet, RoundTrip, Learned, Flaws, Newest, Provisioned,
           Gone, There, Evidence, RunFields, Asking, Restored, Checked, Making, Owning
  <2> QED
    BY <1>1, <1>2, <2>3, QuietMove
<1>3. CASE Set(r, Raised("other"))
  BY <1>1, <1>3, RaisedMove
<1> QED
  BY <1>1, <1>2, <1>3

\* The target is what was asked for, or the database is dropped with an exception.
LEMMA QueryCurrentDatabaseStep ==
    ASSUME IInv, NEW r \in Runs, query_current_database(r), UNCHANGED proof
    PROVE  IInv'
<1> DEFINE changes == [pc |-> "fresh upgrade"]
<1>1. RunOK(r) /\ run[r].pc = "resolve"
  BY DEF IInv, query_current_database, At
<1>2. CASE Set(r, changes)
  <2>1. RunChanged(r, changes)
    BY <1>2, SetFacts DEF IInv
  <2>2. run'[r].pc = "fresh upgrade" /\ \A f \in RunFields \ {"pc"} : run'[r][f] = run[r][f]
    BY <2>1 DEF RunChanged, RunFields
  <2> HIDE DEF changes
  <2>3. ASSUME Existing' = Existing, Development' = Development, NoRivals' = NoRivals
        PROVE  RunOK(r)'
    BY <1>1, <2>2, <2>3
       DEF query_current_database, RunOK, Guarded, NoErrorYet, RoundTrip, Learned,
           Provisioned, Gone, There, Evidence, RunFields, Asking, Restored, Checked, Making, Owning
  <2> QED
    BY <2>1, <2>3, QuietMove DEF query_current_database
<1>3. ASSUME NEW error \in {"other", "MigrationMatrixError"},
             Set(r, [pc |-> "drop", error |-> error])
      PROVE  IInv'
  <2> DEFINE failed == [pc |-> "drop", error |-> error]
  <2>1. RunChanged(r, failed)
    BY <1>3, SetFacts DEF IInv
  <2>2. /\ run'[r].pc = "drop" /\ run'[r].error # None
        /\ \A f \in RunFields \ {"pc", "error"} : run'[r][f] = run[r][f]
    BY <2>1, NoneAssumption DEF RunChanged, RunFields
  <2> HIDE DEF failed
  <2>3. ASSUME Existing' = Existing, Development' = Development, NoRivals' = NoRivals
        PROVE  RunOK(r)'
    BY <1>1, <2>2, <2>3
       DEF query_current_database, RunOK, Guarded, NoErrorYet, RoundTrip, Learned,
           Provisioned, Gone, There, Evidence, RunFields, Asking, Restored, Checked, Making, Owning
  <2> QED
    BY <2>1, <2>3, QuietMove DEF query_current_database
<1> QED
  BY <1>2, <1>3 DEF query_current_database

\* A PASS needs every stage: none of the defects is left.
LEMMA CaptureAfterStep ==
    ASSUME IInv, NEW r \in Runs, capture_after(r), UNCHANGED proof
    PROVE  IInv'
<1> DEFINE changes == [pc |-> "later steps", matrix |-> "PASS"]
<1>1. /\ run[r].pc = "after"
      /\ UNCHANGED <<candidate, settings, databases, original, pending, run_dirs>>
      /\ RunChanged(r, changes) \/ Set(r, Raised("MigrationMatrixError"))
  BY AskMoves DEF capture_after
<1>2. RunOK(r)
  BY DEF IInv
<1>3. CASE RunChanged(r, changes)
  <2>1. /\ run'[r].pc = "later steps" /\ run'[r].matrix = "PASS"
        /\ \A f \in RunFields \ {"pc", "matrix"} : run'[r][f] = run[r][f]
    BY <1>3 DEF RunChanged, RunFields
  <2> HIDE DEF changes
  <2> DEFINE c == candidate[r]
  <2>2. Newest(c).defects \subseteq MigrationDefects /\ c.defects \subseteq CandidateDefects
    BY CandidateFacts DEF IInv, TypeOK
  <2>3. /\ "base" \notin c.defects /\ "upgrade" \notin Newest(c).defects
        /\ NoRivals => /\ "downgrade" \notin Newest(c).defects
                        /\ "residue" \notin Newest(c).defects /\ "models" \notin c.defects
    BY <1>1, <1>2 DEF RunOK, Learned, Restored, Checked
  <2> HIDE DEF c
  <2>5. Flaws(c) \cap {"base", "upgrade"} = {} /\ (NoRivals => Flaws(c) = {})
    BY <2>2, <2>3 DEF Flaws, MigrationDefects, CandidateDefects
  <2>4. ASSUME Existing' = Existing, Development' = Development, NoRivals' = NoRivals
        PROVE  RunOK(r)'
    BY <1>1, <1>2, <2>1, <2>5, <2>4
       DEF c, RunOK, Guarded, NoErrorYet, RoundTrip, Learned, Flaws, Newest, Provisioned,
           Gone, There, Evidence, RunFields, Asking, Restored, Checked, Making, Owning
  <2> QED
    BY <1>1, <1>3, <2>4, QuietMove
<1>4. CASE Set(r, Raised("MigrationMatrixError"))
  <2>1. run[r].error = None
    BY <1>1, <1>2 DEF RunOK, NoErrorYet
  <2> QED  BY <1>1, <1>4, <2>1, RaisedMove DEF Making
<1> QED
  BY <1>1, <1>3, <1>4

-----------------------------------------------------------------------------
(***************************************************************************)
(* The round trip on the shared test database.                             *)
(***************************************************************************)
\* What is left of the rest by a command that succeeds.
OnlyExistingChanged(r, command, next) ==
    /\ Existing' = Existing /\ Development' = Development
    /\ databases'[Existing] \in Results(command, candidate[r], databases[Existing])
    /\ run'[r].pc = next /\ \A f \in RunFields \ {"pc"} : run'[r][f] = run[r][f]
    /\ UNCHANGED <<candidate, settings, original, pending, run_dirs>>
    /\ DOMAIN databases' = DOMAIN databases
    /\ \A db \in DOMAIN databases : db \notin DOMAIN original => databases'[db] = databases[db]

\* A command that fails ends the matrix; one that succeeds changes this database only,
\* which is not the development database.
LEMMA OnExistingMoves ==
    ASSUME IInv, NEW r \in Runs, NEW command \in Commands,
           NEW pc \in {"upgrade", "downgrade", "restore", "check"}, NEW next,
           OnExisting(r, pc, command, next), UNCHANGED proof,
           OnlyExistingChanged(r, command, next) => RunOK(r)'
    PROVE  IInv'
<1> DEFINE changes == [pc |-> next]
           failure == Raised("MigrationMatrixError")
           content == databases[Existing]
<1>1. RunOK(r) /\ run[r].pc = pc /\ run[r].error = None /\ Existing # Development
  BY DEF IInv, RunOK, OnExisting, _run_alembic, At, NoErrorYet, Guarded, Asking, Restored
<1>2. UNCHANGED <<candidate, settings, original, pending, run_dirs>>
  BY DEF OnExisting, _run_alembic
<1>3. CASE Set(r, failure) /\ UNCHANGED databases
  <2>1. UNCHANGED <<candidate, settings, databases, original, pending, run_dirs>>
    BY <1>2, <1>3
  <2> QED
    BY <1>1, <1>3, <2>1, RaisedMove DEF Making
<1>4. ASSUME NEW new \in Results(command, candidate[r], content),
             databases' = [databases EXCEPT ![Existing] = new],
             Set(r, changes)
      PROVE  IInv'
  <2>1. Existing \in DOMAIN original /\ Existing \in DOMAIN databases /\ TypeOK
    BY DEF IInv, TypeOK, OnlyTheTestDatabaseChanges
  <2>2. RunChanged(r, changes)
    BY <1>4, <2>1, SetFacts
  <2>3. run'[r].pc = next /\ \A f \in RunFields \ {"pc"} : run'[r][f] = run[r][f]
    BY <2>2 DEF RunChanged, RunFields
  <2> HIDE DEF changes, failure
  <2>4. Steady
    BY <1>2 DEF Steady
  <2>5. Existing' = Existing /\ Development' = Development
    BY <2>4, SteadyNames
  <2>6. /\ DOMAIN databases' = DOMAIN databases /\ databases'[Existing] = new
        /\ \A db : db \in DOMAIN databases /\ db # Existing => databases'[db] = databases[db]
    BY <1>4, <2>1
  <2>7. SharedStep
    BY <1>4, <2>6 DEF SharedStep
  <2>8. PendingIsNew' /\ OnlyTheTestDatabaseChanges'
    BY <1>1, <1>2, <2>5, <2>6 DEF IInv, PendingIsNew, OnlyTheTestDatabaseChanges
  <2>9. \A db : Kept(db)
    BY <1>2, <2>1, <2>6 DEF Kept, There
  <2>10. RunOK(r)'
    BY <1>2, <1>4, <2>1, <2>3, <2>5, <2>6 DEF OnlyExistingChanged
  <2> QED
    BY <1>2, <2>2, <2>4, <2>7, <2>8, <2>9, <2>10, OneRunMoves
<1> QED
  BY <1>3, <1>4 DEF OnExisting, _run_alembic

\* The shared database is at the candidate's head.
LEMMA UpgradeExistingStep ==
    ASSUME IInv, NEW r \in Runs, upgrade_existing(r), UNCHANGED proof
    PROVE  IInv'
<1> DEFINE content == databases[Existing]
           new == databases'[Existing]
           m == Newest(candidate[r])
<1>1. /\ RunOK(r) /\ run[r].pc = "upgrade" /\ Existing # Development
      /\ candidate \in Candidates /\ (NoRivals => Plain(content))
  BY DEF IInv, TypeOK, OneHistory, RunOK, upgrade_existing, OnExisting, _run_alembic, At, Guarded,
         Asking, Restored
<1>2. ASSUME OnlyExistingChanged(r, "upgrade", "downgrade") PROVE RunOK(r)'
  <2>1. /\ new \in Results("upgrade", candidate[r], content)
        /\ databases'[Existing'] = new /\ Newest(candidate[r])' = m /\ NoRivals' = NoRivals
    BY <1>2 DEF OnlyExistingChanged, Newest, NoRivals
  <2>2. NoRivals => m \in ToSet(new.applied)
    BY <1>1, <2>1, CandidateFacts, UpgradeFacts DEF Upgraded
  <2> HIDE DEF content, new, m
  <2>7. Guarded(r)' /\ NoErrorYet(r)' /\ Provisioned(r)' /\ Gone(r)' /\ Evidence(r)'
    BY <1>1, <1>2
       DEF OnlyExistingChanged, RunOK, Guarded, NoErrorYet, Provisioned, Gone, There, Evidence,
           RunFields, Asking, Restored, Checked, Making, Owning
  <2>8. NoRivals' => RoundTrip(r)'
    BY <1>2, <2>1, <2>2 DEF OnlyExistingChanged, RoundTrip, m
  <2>9. Learned(r)'
    BY <1>1, <1>2, <2>1
       DEF OnlyExistingChanged, RunOK, Learned, Flaws, RunFields, Restored, Checked, m
  <2> QED
    BY <2>7, <2>8, <2>9 DEF RunOK
<1>3. OnExisting(r, "upgrade", "upgrade", "downgrade")
  BY DEF upgrade_existing
<1> QED
  BY <1>2, <1>3, OnExistingMoves DEF Commands

\* Either another invocation has reverted the candidate's migration, or this does.
LEMMA DowngradeOneStep ==
    ASSUME IInv, NEW r \in Runs, downgrade_one(r), UNCHANGED proof
    PROVE  IInv'
<1> DEFINE content == databases[Existing]
           new == databases'[Existing]
           m == Newest(candidate[r])
<1>1. /\ RunOK(r) /\ run[r].pc = "downgrade" /\ Existing # Development
      /\ candidate \in Candidates /\ (NoRivals => Plain(content))
  BY DEF IInv, TypeOK, OneHistory, RunOK, downgrade_one, OnExisting, _run_alembic, At, Guarded,
         Asking, Restored
<1>2. ASSUME OnlyExistingChanged(r, "downgrade", "restore") PROVE RunOK(r)'
  <2>1. /\ new \in Results("downgrade", candidate[r], content)
        /\ databases'[Existing'] = new /\ Newest(candidate[r])' = m /\ NoRivals' = NoRivals
    BY <1>2 DEF OnlyExistingChanged, Newest, NoRivals
  <2>2. NoRivals => \E n : Downgraded(r, content, new, n)
    BY <1>1, <2>1, DowngradeFacts
  <2>3. NoRivals => /\ "downgrade" \in m.defects => m \in ToSet(content.applied)
                    /\ "residue" \in m.defects => m \in ToSet(content.applied) \cup content.residue
    BY <1>1 DEF RunOK, RoundTrip
  <2>4. NoRivals => /\ "downgrade" \notin m.defects
                    /\ "residue" \in m.defects => m \in new.residue
    BY <2>2, <2>3 DEF Downgraded
  <2> HIDE DEF content, new, m
  <2>7. Guarded(r)' /\ NoErrorYet(r)' /\ Provisioned(r)' /\ Gone(r)' /\ Evidence(r)'
    BY <1>1, <1>2
       DEF OnlyExistingChanged, RunOK, Guarded, NoErrorYet, Provisioned, Gone, There, Evidence,
           RunFields, Asking, Restored, Checked, Making, Owning
  <2>8. NoRivals' => RoundTrip(r)'
    BY <1>2, <2>1, <2>4 DEF OnlyExistingChanged, RoundTrip, m
  <2>9. Learned(r)'
    BY <1>1, <1>2, <2>1, <2>4
       DEF OnlyExistingChanged, RunOK, Learned, Flaws, RunFields, Restored, Checked, m
  <2> QED
    BY <2>7, <2>8, <2>9 DEF RunOK
<1>3. OnExisting(r, "downgrade", "downgrade", "restore")
  BY DEF downgrade_one
<1> QED
  BY <1>2, <1>3, OnExistingMoves DEF Commands

\* Where a residue is, the migration has been reverted: the upgrade would fail.
LEMMA UpgradeRestoredStep ==
    ASSUME IInv, NEW r \in Runs, upgrade_restored(r), UNCHANGED proof
    PROVE  IInv'
<1> DEFINE content == databases[Existing]
           new == databases'[Existing]
           m == Newest(candidate[r])
<1>1. /\ RunOK(r) /\ run[r].pc = "restore" /\ Existing # Development
      /\ candidate \in Candidates /\ (NoRivals => Plain(content))
  BY DEF IInv, TypeOK, OneHistory, RunOK, upgrade_restored, OnExisting, _run_alembic, At, Guarded,
         Asking, Restored
<1>2. ASSUME OnlyExistingChanged(r, "upgrade", "check") PROVE RunOK(r)'
  <2>1. /\ new \in Results("upgrade", candidate[r], content)
        /\ databases'[Existing'] = new /\ Newest(candidate[r])' = m /\ NoRivals' = NoRivals
    BY <1>2 DEF OnlyExistingChanged, Newest, NoRivals
  <2>2. NoRivals => /\ "residue" \in m.defects => m \in content.residue
                    /\ "downgrade" \notin m.defects
    BY <1>1 DEF RunOK, RoundTrip, Learned
  <2>3. NoRivals => Plain(new) /\ Upgraded(r, content, new)
    BY <1>1, <2>1, UpgradeFacts
  <2>4. m \in ToSet(candidate[r].history)
    BY <1>1, CandidateFacts
  <2>5. NoRivals => /\ Plain(new) /\ new.residue = content.residue /\ m \in ToSet(new.applied)
    BY <2>3, <2>4 DEF Upgraded
  <2>6. NoRivals => "residue" \notin m.defects
    BY <2>2, <2>5 DEF Plain
  <2> HIDE DEF content, new, m
  <2>7. Guarded(r)' /\ NoErrorYet(r)' /\ Provisioned(r)' /\ Gone(r)' /\ Evidence(r)'
    BY <1>1, <1>2
       DEF OnlyExistingChanged, RunOK, Guarded, NoErrorYet, Provisioned, Gone, There, Evidence,
           RunFields, Asking, Restored, Checked, Making, Owning
  <2>8. NoRivals' => RoundTrip(r)'
    BY <1>2, <2>1 DEF OnlyExistingChanged, RoundTrip
  <2>9. Learned(r)'
    BY <1>1, <1>2, <2>1, <2>2, <2>6
       DEF OnlyExistingChanged, RunOK, Learned, Flaws, RunFields, Restored, Checked, m
  <2> QED
    BY <2>7, <2>8, <2>9 DEF RunOK
<1>3. OnExisting(r, "restore", "upgrade", "check")
  BY DEF upgrade_restored
<1> QED
  BY <1>2, <1>3, OnExistingMoves DEF Commands

\* The models agree with the history.
LEMMA AlembicCheckStep ==
    ASSUME IInv, NEW r \in Runs, alembic_check(r), UNCHANGED proof
    PROVE  IInv'
<1> DEFINE content == databases[Existing]
           new == databases'[Existing]
           m == Newest(candidate[r])
<1>1. /\ RunOK(r) /\ run[r].pc = "check" /\ Existing # Development
      /\ candidate \in Candidates /\ (NoRivals => Plain(content))
  BY DEF IInv, TypeOK, OneHistory, RunOK, alembic_check, OnExisting, _run_alembic, At, Guarded,
         Asking, Restored
<1>2. ASSUME OnlyExistingChanged(r, "check", "provision") PROVE RunOK(r)'
  <2>1. /\ new \in Results("check", candidate[r], content)
        /\ databases'[Existing'] = new /\ Newest(candidate[r])' = m /\ NoRivals' = NoRivals
    BY <1>2 DEF OnlyExistingChanged, Newest, NoRivals
  <2>2. NoRivals => "models" \notin candidate[r].defects
    BY <1>1, <2>1, CheckFacts
  <2> HIDE DEF content, new, m
  <2>7. Guarded(r)' /\ NoErrorYet(r)' /\ Provisioned(r)' /\ Gone(r)' /\ Evidence(r)'
    BY <1>1, <1>2
       DEF OnlyExistingChanged, RunOK, Guarded, NoErrorYet, Provisioned, Gone, There, Evidence,
           RunFields, Asking, Restored, Checked, Making, Owning
  <2>8. NoRivals' => RoundTrip(r)'
    BY <1>2, <2>1 DEF OnlyExistingChanged, RoundTrip
  <2>9. Learned(r)'
    BY <1>1, <1>2, <2>1, <2>2
       DEF OnlyExistingChanged, RunOK, Learned, Flaws, RunFields, Restored, Checked, m
  <2> QED
    BY <2>7, <2>8, <2>9 DEF RunOK
<1>3. OnExisting(r, "check", "check", "provision")
  BY DEF alembic_check
<1> QED
  BY <1>2, <1>3, OnExistingMoves DEF Commands

-----------------------------------------------------------------------------
(***************************************************************************)
(* The invocation's own database.                                          *)
(***************************************************************************)
\* It is made, with or without an answer, or may still be made.
LEMMA CreateDatabaseStep ==
    ASSUME IInv, NEW r \in Runs, create_database(r), UNCHANGED proof
    PROVE  IInv'
<1> DEFINE created == [pc |-> "created", created_by_this_run |-> TRUE]
           lost == [pc |-> "unacknowledged"]
           db == Fresh(r)
<1>1. /\ RunOK(r) /\ run[r].pc = "create" /\ run[r].error = None
      /\ UNCHANGED <<candidate, settings, original, run_dirs>>
  BY DEF IInv, RunOK, create_database, At, NoErrorYet
<1>2. db \notin DOMAIN original /\ db \notin There
  BY <1>1 DEF RunOK, Provisioned, Gone, Making
<1>3. /\ Set(r, created) => RunChanged(r, created)
      /\ Set(r, lost) => RunChanged(r, lost)
  BY SetFacts DEF IInv
<1>4. CASE databases' = With(db) /\ pending' = pending
  <2>1. OneDatabase(db) /\ db \in DOMAIN databases' /\ databases'[db] = Empty
    BY <1>2, <1>4 DEF OneDatabase, With, There
  <2>2. CASE Set(r, created)
    <3>1. /\ run'[r].pc = "created" /\ run'[r].created_by_this_run
          /\ \A f \in RunFields \ {"pc", "created_by_this_run"} : run'[r][f] = run[r][f]
      BY <1>3, <2>2 DEF RunChanged, RunFields
    <3> HIDE DEF created, lost, db
    <3>2. ASSUME Existing' = Existing, Development' = Development, NoRivals' = NoRivals,
                 databases'[Existing] = databases[Existing]
          PROVE  RunOK(r)'
      BY <1>1, <1>2, <2>1, <3>1, <3>2
         DEF RunOK, Guarded, NoErrorYet, RoundTrip, Learned, Flaws, Newest, Provisioned,
             Gone, There, Evidence, RunFields, Asking, Restored, Checked, Making, Owning, db
    <3> QED
      BY <1>1, <1>3, <2>1, <2>2, <3>2, OwnMove DEF db
  <2>3. CASE Set(r, lost)
    <3>1. /\ run'[r].pc = "unacknowledged"
          /\ \A f \in RunFields \ {"pc"} : run'[r][f] = run[r][f]
      BY <1>3, <2>3 DEF RunChanged, RunFields
    <3> HIDE DEF created, lost, db
    <3>2. ASSUME Existing' = Existing, Development' = Development, NoRivals' = NoRivals,
                 databases'[Existing] = databases[Existing]
          PROVE  RunOK(r)'
      BY <1>1, <1>2, <2>1, <3>1, <3>2
         DEF RunOK, Guarded, NoErrorYet, RoundTrip, Learned, Flaws, Newest, Provisioned,
             Gone, There, Evidence, RunFields, Asking, Restored, Checked, Making, Owning, db
    <3> QED
      BY <1>1, <1>3, <2>1, <2>3, <3>2, OwnMove DEF db
  <2> QED
    BY <1>2, <1>4, <2>2, <2>3 DEF create_database, With, There
<1>5. CASE /\ Set(r, lost) /\ pending' \in {pending, pending \cup {db}}
           /\ UNCHANGED databases
  <2>1. OneDatabase(db)
    BY <1>2, <1>5 DEF OneDatabase, There
  <2>2. run'[r].pc = "unacknowledged" /\ \A f \in RunFields \ {"pc"} : run'[r][f] = run[r][f]
    BY <1>3, <1>5 DEF RunChanged, RunFields
  <2> HIDE DEF created, lost, db
  <2>3. ASSUME Existing' = Existing, Development' = Development, NoRivals' = NoRivals,
               databases'[Existing] = databases[Existing]
        PROVE  RunOK(r)'
    BY <1>1, <1>2, <1>5, <2>2, <2>3
       DEF RunOK, Guarded, NoErrorYet, RoundTrip, Learned, Flaws, Newest, Provisioned,
           Gone, There, Evidence, RunFields, Asking, Restored, Checked, Making, Owning, db
  <2> QED
    BY <1>1, <1>3, <1>5, <2>1, <2>3, OwnMove DEF db
<1> QED
  BY <1>4, <1>5 DEF create_database

\* On an empty database every migration of the history runs.
LEMMA UpgradeFreshStep ==
    ASSUME IInv, NEW r \in Runs, upgrade_fresh(r), UNCHANGED proof
    PROVE  IInv'
<1> DEFINE done == [pc |-> "drop"]
           failed == [pc |-> "drop", error |-> "MigrationMatrixError"]
           db == Fresh(r)
           c == candidate[r]
<1>1. /\ RunOK(r) /\ run[r].pc = "fresh upgrade"
      /\ UNCHANGED <<candidate, settings, original, pending, run_dirs>>
  BY DEF IInv, upgrade_fresh, _run_alembic, At
<1>2. db \notin DOMAIN original /\ db \in DOMAIN databases /\ databases[db] = Empty
  BY <1>1 DEF RunOK, Provisioned, Making, Owning
<1>3. CASE Set(r, failed) /\ UNCHANGED databases
  <2>1. RunChanged(r, failed)
    BY <1>3, SetFacts DEF IInv
  <2>2. /\ run'[r].pc = "drop" /\ run'[r].error # None
        /\ \A f \in RunFields \ {"pc", "error"} : run'[r][f] = run[r][f]
    BY <2>1, NoneAssumption DEF RunChanged, RunFields
  <2> HIDE DEF done, failed, db, c
  <2>3. ASSUME Existing' = Existing, Development' = Development, NoRivals' = NoRivals
        PROVE  RunOK(r)'
    BY <1>1, <1>2, <1>3, <2>2, <2>3
       DEF RunOK, Guarded, NoErrorYet, RoundTrip, Learned, Flaws, Newest, Provisioned,
           Gone, There, Evidence, RunFields, Asking, Restored, Checked, Making, Owning, db
  <2> QED
    BY <1>1, <1>3, <2>1, <2>3, QuietMove
<1>4. ASSUME NEW new \in Results("upgrade", c, databases[db]),
             databases' = [databases EXCEPT ![db] = new], Set(r, done)
      PROVE  IInv'
  <2>1. RunChanged(r, done)
    BY <1>4, SetFacts DEF IInv
  <2>2. run'[r].pc = "drop" /\ \A f \in RunFields \ {"pc"} : run'[r][f] = run[r][f]
    BY <2>1 DEF RunChanged, RunFields
  <2>3. PICK k \in Standing(c, Empty) : Applies("upgrade", c, k)
    BY <1>2, <1>4 DEF Results
  <2>4. /\ Len(c.history) \in Nat /\ Len(c.history) # 0 /\ Newest(c) = c.history[Len(c.history)]
    BY CandidateFacts DEF IInv, TypeOK
  <2>5. "base" \notin c.defects /\ "upgrade" \notin Newest(c).defects
    <3>1. k = 0
      BY <2>3 DEF Standing, Empty
    <3>2. /\ "base" \notin c.defects
          /\ \A i \in 1..Len(c.history) : "upgrade" \notin c.history[i].defects
      BY <2>3, <3>1 DEF Applies
    <3>3. Len(c.history) \in 1..Len(c.history)
      BY <2>4
    <3> QED  BY <2>4, <3>2, <3>3
  <2>6. OneDatabase(db) /\ db \in DOMAIN databases'
    BY <1>1, <1>2, <1>4 DEF OneDatabase, IInv, PendingIsNew
  <2> HIDE DEF done, failed, db, c
  <2>7. ASSUME Existing' = Existing, Development' = Development, NoRivals' = NoRivals,
               databases'[Existing] = databases[Existing]
        PROVE  RunOK(r)'
    BY <1>1, <1>2, <2>2, <2>5, <2>6, <2>7
       DEF RunOK, Guarded, NoErrorYet, RoundTrip, Learned, Flaws, Newest, Provisioned,
           Gone, There, Evidence, RunFields, Asking, Restored, Checked, Making, Owning, db, c
  <2> QED
    BY <1>1, <2>1, <2>6, <2>7, OwnMove DEF db
<1> QED
  BY <1>3, <1>4 DEF upgrade_fresh, _run_alembic

\* It is dropped, and an exception on its way goes on; or it is left with an exception.
LEMMA CleanupFreshDatabaseStep ==
    ASSUME IInv, NEW r \in Runs, cleanup_fresh_database(r), UNCHANGED proof
    PROVE  IInv'
<1> DEFINE db == Fresh(r)
           outcome == IF run[r].error = None THEN [pc |-> "after"] ELSE Raised(run[r].error)
<1>1. /\ RunOK(r) /\ run[r].pc = "drop"
      /\ UNCHANGED <<candidate, settings, original, pending, run_dirs>>
  BY DEF IInv, cleanup_fresh_database, At
<1>2. /\ db \notin DOMAIN original /\ db \in DOMAIN databases /\ db \notin pending
      /\ run[r].created_by_this_run /\ run[r].present_after
  BY <1>1 DEF RunOK, Provisioned, Making, Owning, IInv, PendingIsNew
<1>3. CASE Set(r, Raised("other")) /\ UNCHANGED databases
  BY <1>1, <1>3, RaisedMove
<1>4. CASE /\ databases' = [d \in DOMAIN databases \ {db} |-> databases[d]]
           /\ run' = [run EXCEPT ![r] = Changed([@ EXCEPT !.cleaned_up = TRUE], outcome)]
  <2>1. DOMAIN run = Runs /\ \A q \in Runs : DOMAIN run[q] = RunFields
    BY DEF IInv, TypeOK
  <2>2. /\ DOMAIN run' = Runs /\ \A q \in Runs \ {r} : run'[q] = run[q]
        /\ run'[r] = Changed([run[r] EXCEPT !.cleaned_up = TRUE], outcome)
    BY <1>4, <2>1
  <2>3. /\ DOMAIN run'[r] = RunFields
        /\ \A f \in RunFields : run'[r][f] = IF f \in DOMAIN outcome THEN outcome[f]
                                             ELSE IF f = "cleaned_up" THEN TRUE ELSE run[r][f]
    BY <2>1, <2>2 DEF Changed, RunFields
  <2>4. RunChanged(r, run'[r])
    BY <2>1, <2>2, <2>3 DEF RunChanged
  <2>5. OneDatabase(db) /\ db \notin DOMAIN databases'
    BY <1>1, <1>2, <1>4 DEF OneDatabase
  <2>6. run'[r].cleaned_up = TRUE /\ run'[r].json = run[r].json
    BY <2>3 DEF RunFields, Raised
  <2>7. run[r].json = None
    BY <1>1 DEF RunOK, Evidence
  <2>8. CASE run[r].error = None
    <3>1. /\ run'[r].pc = "after"
          /\ \A f \in RunFields \ {"pc", "cleaned_up"} : run'[r][f] = run[r][f]
      BY <2>3, <2>8 DEF RunFields
    <3> HIDE DEF db, outcome
    <3>2. ASSUME Existing' = Existing, Development' = Development, NoRivals' = NoRivals,
                 databases'[Existing] = databases[Existing]
          PROVE  RunOK(r)'
      BY <1>1, <1>2, <2>5, <2>6, <2>7, <2>8, <3>1, <3>2
         DEF RunOK, Guarded, NoErrorYet, RoundTrip, Learned, Flaws, Newest, Provisioned,
             Gone, There, Evidence, RunFields, Asking, Restored, Checked, Making, Owning, db
    <3> QED
      BY <1>1, <2>4, <2>5, <3>2, OwnMove DEF db
  <2>9. CASE run[r].error # None
    <3>1. run'[r].pc = "cleanup" /\ run'[r].matrix = "FAIL"
      BY <2>3, <2>9 DEF RunFields, Raised
    <3> HIDE DEF db, outcome
    <3>2. ASSUME Existing' = Existing, Development' = Development, NoRivals' = NoRivals,
                 databases'[Existing] = databases[Existing]
          PROVE  RunOK(r)'
      BY <1>1, <1>2, <2>5, <2>6, <2>7, <3>1, <3>2
         DEF RunOK, Guarded, NoErrorYet, RoundTrip, Learned, Flaws, Newest, Provisioned,
             Gone, There, Evidence, RunFields, Asking, Restored, Checked, Making, Owning, db
    <3> QED
      BY <1>1, <2>4, <2>5, <3>2, OwnMove DEF db
  <2> QED
    BY <2>8, <2>9
<1> QED
  BY <1>2, <1>3, <1>4 DEF cleanup_fresh_database

-----------------------------------------------------------------------------
(***************************************************************************)
(* The server, a developer and the proofs.                                 *)
(***************************************************************************)
\* Nobody moves.
LEMMA NobodyMoves ==
    ASSUME IInv, UNCHANGED <<run, proof, run_dirs>>,
           Steady, SharedStep, PendingIsNew', OnlyTheTestDatabaseChanges', \A db : Kept(db)
    PROVE  IInv'
<1>1. Existing' = Existing /\ Development' = Development
  BY SteadyNames
<1>2. TypeOK'
  BY <1>1 DEF IInv, TypeOK, Steady
<1>3. \A r \in Runs : RunOK(r)'
  BY RunKept DEF IInv
<1>4. \A p \in Proofs : ProofOK(p)'
  BY ProofKept DEF IInv
<1>5. OneHistory'
  BY SharedKept DEF IInv
<1> QED
  BY <1>2, <1>3, <1>4, <1>5 DEF IInv

\* A database that was asked for comes late, and empty.
LEMMA ServerCreatesStep ==
    ASSUME IInv, NEW db \in pending, ServerCreates(db), UNCHANGED proof
    PROVE  IInv'
<1>1. /\ databases' = With(db) /\ pending' = pending \ {db}
      /\ UNCHANGED <<candidate, settings, original, run_dirs, run>>
  BY DEF ServerCreates
<1>2. db \notin DOMAIN databases /\ db \notin DOMAIN original
  BY DEF IInv, PendingIsNew
<1>3. OneDatabase(db) /\ db \in DOMAIN databases' /\ databases'[db] = Empty
  BY <1>1, <1>2 DEF OneDatabase, With
<1>4. /\ Steady /\ SharedStep /\ PendingIsNew' /\ OnlyTheTestDatabaseChanges'
      /\ databases'[Existing] = databases[Existing]
      /\ \A other : other # db => Kept(other)
  BY <1>1, <1>3, OneDatabaseFacts DEF IInv
<1>5. Kept(db)
  BY <1>1, <1>2, <1>3 DEF Kept, There
<1> QED
  BY <1>1, <1>4, <1>5, NobodyMoves

\* The development database may become what any candidate makes of it.
LEMMA DeveloperMigratesStep ==
    ASSUME IInv, DeveloperMigrates, UNCHANGED proof
    PROVE  IInv'
<1>1. PICK r \in Runs :
        /\ databases' = [databases EXCEPT ![Development].applied = candidate[r].history]
        /\ original' = [original EXCEPT ![Development] = databases'[Development]]
  BY DEF DeveloperMigrates
<1>2. UNCHANGED <<candidate, settings, pending, run_dirs, run>>
  BY DEF DeveloperMigrates
<1>3. /\ Development \in DOMAIN original /\ Existing \in DOMAIN original
      /\ Development \in DOMAIN databases /\ Existing \in DOMAIN databases
  BY DEF IInv, TypeOK, OnlyTheTestDatabaseChanges
<1>5. /\ DOMAIN databases' = DOMAIN databases /\ DOMAIN original' = DOMAIN original
      /\ original'[Development] = databases'[Development]
      /\ \A db : db # Development =>
           /\ db \in DOMAIN databases => databases'[db] = databases[db]
           /\ db \in DOMAIN original => original'[db] = original[db]
  BY <1>1, <1>3
<1>7. Steady
  BY <1>2, <1>5 DEF Steady
<1>8. Existing' = Existing /\ Development' = Development
  BY <1>7, SteadyNames
<1>9. SharedStep
  BY <1>3, <1>5 DEF SharedStep
<1>10. PendingIsNew' /\ OnlyTheTestDatabaseChanges'
  BY <1>2, <1>5, <1>8 DEF IInv, PendingIsNew, OnlyTheTestDatabaseChanges
<1>11. \A db : Kept(db)
  BY <1>2, <1>3, <1>5 DEF Kept, There
<1> QED
  BY <1>2, <1>7, <1>9, <1>10, <1>11, NobodyMoves

\* It is enough to look at the proof that moves.
LEMMA OneProofMoves ==
    ASSUME IInv, NEW p \in Proofs, NEW changes, ProofChanged(p, changes),
           UNCHANGED <<candidate, settings, original, run, run_dirs>>,
           Steady, SharedStep, PendingIsNew', OnlyTheTestDatabaseChanges',
           databases'[Existing] = databases[Existing],
           \A db : db # ProofDatabase(p) => Kept(db),
           ProofOK(p)'
    PROVE  IInv'
<1>1. Existing' = Existing /\ Development' = Development
  BY SteadyNames
<1>2. TypeOK'
  BY <1>1 DEF IInv, TypeOK, ProofChanged
<1>3. /\ \A r \in Runs : Kept(Fresh(r))
      /\ \A q \in Proofs \ {p} : Kept(ProofDatabase(q))
  BY OwnNames DEF IInv
<1>4. \A r \in Runs : RunOK(r)'
  BY <1>3, RunKept DEF IInv
<1>5. \A q \in Proofs : ProofOK(q)'
  BY <1>3, ProofKept DEF IInv, ProofChanged
<1>6. OneHistory'
  BY SharedKept DEF IInv
<1> QED
  BY <1>2, <1>4, <1>5, <1>6 DEF IInv

\* The same of a move that touches no database.
LEMMA QuietProofMove ==
    ASSUME IInv, NEW p \in Proofs, NEW changes, ProofChanged(p, changes),
           UNCHANGED <<candidate, settings, databases, original, pending, run, run_dirs>>,
           ProofDatabase(p)' = ProofDatabase(p) => ProofOK(p)'
    PROVE  IInv'
<1>1. /\ Steady /\ SharedStep /\ PendingIsNew' /\ OnlyTheTestDatabaseChanges'
      /\ databases'[Existing] = databases[Existing]
      /\ \A other : Kept(other)
  BY NoDatabaseFacts DEF IInv
<1>2. ProofDatabase(p)' = ProofDatabase(p)
  BY <1>1, SteadyNames
<1> QED
  BY <1>1, <1>2, OneProofMoves

\* The same of a move that touches its own.
LEMMA OwnProofMove ==
    ASSUME IInv, NEW p \in Proofs, NEW changes, ProofChanged(p, changes),
           UNCHANGED <<candidate, settings, original, run, run_dirs>>,
           OneDatabase(ProofDatabase(p)),
           ProofDatabase(p)' = ProofDatabase(p) => ProofOK(p)'
    PROVE  IInv'
<1>1. /\ Steady /\ SharedStep /\ PendingIsNew' /\ OnlyTheTestDatabaseChanges'
      /\ databases'[Existing] = databases[Existing]
      /\ \A other : other # ProofDatabase(p) => Kept(other)
  BY OneDatabaseFacts DEF IInv
<1>2. ProofDatabase(p)' = ProofDatabase(p)
  BY <1>1, SteadyNames
<1> QED
  BY <1>1, <1>2, OneProofMoves

\* The guards leave only a database that was not there.
LEMMA SafetyGuardStep ==
    ASSUME IInv, NEW p \in Proofs, safety_guard(p)
    PROVE  IInv'
<1> DEFINE safe == assert_safe_for_local_destructive_lifecycle(
                       ProofUrl(p), settings.development, settings.app_env)
           go == [pc |-> "create"]
           refused == [pc |-> "summary", all_passed |-> FALSE]
           db == ProofDatabase(p)
<1>1. /\ ProofOK(p) /\ proof[p].pc = "new"
      /\ UNCHANGED <<candidate, settings, databases, original, pending, run, run_dirs>>
  BY DEF IInv, safety_guard, AtProof, vars
<1>2. CASE safe /\ SetProof(p, go)
  <2>1. ProofChanged(p, go)
    BY <1>2, SetProofFacts DEF IInv
  <2>2. proof'[p].pc = "create" /\ proof'[p].summary = proof[p].summary
    BY <2>1 DEF ProofChanged, ProofFields
  <2>3. db.name = [fresh |-> p, test |-> TRUE] /\ db.name = ProofUrl(p).name
    BY UrlAssumption DEF IInv, TypeOK, ProofDatabase, ProofUrl, Reached
  <2>4. db # Development
    BY <1>2, <2>3
       DEF assert_safe_for_local_destructive_lifecycle,
           assert_is_disposable_test_database, Development, Reached
  <2>5. db # Existing
    <3>1. TestTarget.name # [fresh |-> p, test |-> TRUE]
      BY NameAssumption DEF IInv, TypeOK, TestTarget
    <3> QED  BY <2>3, <3>1 DEF Existing, Reached
  <2>6. \A t \in Runs : db # Fresh(t)
    BY OwnNames DEF IInv
  <2>7. db \notin DOMAIN original
    BY <2>4, <2>5, <2>6 DEF IInv, TypeOK
  <2> HIDE DEF go, refused, safe, db
  <2>8. ASSUME ProofDatabase(p)' = ProofDatabase(p) PROVE ProofOK(p)'
    BY <1>1, <2>2, <2>7, <2>8 DEF ProofOK, There, db
  <2> QED
    BY <1>1, <2>1, <2>8, QuietProofMove
<1>3. CASE SetProof(p, refused)
  <2>1. ProofChanged(p, refused)
    BY <1>3, SetProofFacts DEF IInv
  <2>2. /\ proof'[p].pc = "summary" /\ proof'[p].all_passed = FALSE
        /\ proof'[p].summary = proof[p].summary
    BY <2>1 DEF ProofChanged, ProofFields
  <2> HIDE DEF go, refused, safe, db
  <2>3. ASSUME ProofDatabase(p)' = ProofDatabase(p) PROVE ProofOK(p)'
    BY <1>1, <2>2, <2>3 DEF ProofOK
  <2> QED
    BY <1>1, <2>1, <2>3, QuietProofMove
<1> QED
  BY <1>2, <1>3 DEF safety_guard

\* After a failure the proof cannot pass, whatever the server still creates.
LEMMA ProofCreatesStep ==
    ASSUME IInv, NEW p \in Proofs, _create_database(p)
    PROVE  IInv'
<1> DEFINE done == [pc |-> "migrate"]
           db == ProofDatabase(p)
<1>1. /\ ProofOK(p) /\ proof[p].pc = "create"
      /\ UNCHANGED <<candidate, settings, original, run_dirs, run>>
  BY DEF IInv, _create_database, AtProof
<1>2. db \notin DOMAIN original /\ db \notin There
  BY <1>1 DEF ProofOK
<1>3. /\ SetProof(p, done) => ProofChanged(p, done)
      /\ SetProof(p, Failed) => ProofChanged(p, Failed)
  BY SetProofFacts DEF IInv
<1>4. CASE SetProof(p, done) /\ databases' = With(db) /\ pending' = pending
  <2>1. OneDatabase(db) /\ db \in DOMAIN databases'
    BY <1>2, <1>4 DEF OneDatabase, With, There
  <2>2. proof'[p].pc = "migrate" /\ proof'[p].summary = proof[p].summary
    BY <1>3, <1>4 DEF ProofChanged, ProofFields
  <2> HIDE DEF done, db
  <2>3. ASSUME ProofDatabase(p)' = ProofDatabase(p) PROVE ProofOK(p)'
    BY <1>1, <1>2, <2>1, <2>2, <2>3 DEF ProofOK, db
  <2> QED
    BY <1>1, <1>3, <1>4, <2>1, <2>3, OwnProofMove DEF db
<1>5. CASE SetProof(p, Failed) /\ OneDatabase(db)
  <2>1. /\ proof'[p].pc = "drop" /\ proof'[p].all_passed = FALSE
        /\ proof'[p].summary = proof[p].summary
    BY <1>3, <1>5 DEF ProofChanged, ProofFields, Failed
  <2> HIDE DEF done, db
  <2>2. ASSUME ProofDatabase(p)' = ProofDatabase(p) PROVE ProofOK(p)'
    BY <1>1, <1>2, <2>1, <2>2 DEF ProofOK, db
  <2> QED
    BY <1>1, <1>3, <1>5, <2>2, OwnProofMove DEF db
<1>6. /\ databases' = With(db) /\ pending' = pending => OneDatabase(db)
      /\ UNCHANGED databases /\ pending' \in {pending, pending \cup {db}} => OneDatabase(db)
  BY <1>2 DEF OneDatabase, With, There
<1> QED
  BY <1>4, <1>5, <1>6 DEF _create_database

\* Only its own database is migrated.
LEMMA ProofMigratesStep ==
    ASSUME IInv, NEW p \in Proofs, _run_alembic_upgrade(p)
    PROVE  IInv'
<1> DEFINE done == [pc |-> "ingest"]
           db == ProofDatabase(p)
<1>1. /\ ProofOK(p) /\ proof[p].pc = "migrate"
      /\ UNCHANGED <<candidate, settings, original, pending, run_dirs, run>>
  BY DEF IInv, _run_alembic_upgrade, AtProof
<1>2. db \notin DOMAIN original /\ db \in DOMAIN databases /\ db \notin pending
  BY <1>1 DEF ProofOK, IInv, PendingIsNew
<1>3. ASSUME NEW new, SetProof(p, done), databases' = [databases EXCEPT ![db] = new]
      PROVE  IInv'
  <2>1. ProofChanged(p, done)
    BY <1>3, SetProofFacts DEF IInv
  <2>2. proof'[p].pc = "ingest" /\ proof'[p].summary = proof[p].summary
    BY <2>1 DEF ProofChanged, ProofFields
  <2>3. OneDatabase(db) /\ db \in DOMAIN databases'
    BY <1>1, <1>2, <1>3 DEF OneDatabase
  <2> HIDE DEF done, db
  <2>4. ASSUME ProofDatabase(p)' = ProofDatabase(p) PROVE ProofOK(p)'
    BY <1>1, <1>2, <2>2, <2>3, <2>4 DEF ProofOK, db
  <2> QED
    BY <1>1, <2>1, <2>3, <2>4, OwnProofMove DEF db
<1>4. CASE SetProof(p, Failed) /\ UNCHANGED databases
  <2>1. ProofChanged(p, Failed)
    BY <1>4, SetProofFacts DEF IInv
  <2>2. /\ proof'[p].pc = "drop" /\ proof'[p].all_passed = FALSE
        /\ proof'[p].summary = proof[p].summary
    BY <2>1 DEF ProofChanged, ProofFields, Failed
  <2> HIDE DEF done, db
  <2>3. ASSUME ProofDatabase(p)' = ProofDatabase(p) PROVE ProofOK(p)'
    BY <1>1, <1>2, <2>2, <2>3 DEF ProofOK, db
  <2> QED
    BY <1>1, <1>4, <2>1, <2>3, QuietProofMove
<1> QED
  BY <1>3, <1>4 DEF _run_alembic_upgrade

\* What is ingested stays in the proof's database, which the server has created.
LEMMA ProofIngestsStep ==
    ASSUME IInv, NEW p \in Proofs, _run_two_pipeline_passes(p)
    PROVE  IInv'
<1> DEFINE done == [pc |-> "drop"]
<1>1. /\ ProofOK(p) /\ proof[p].pc = "ingest"
      /\ UNCHANGED <<candidate, settings, databases, original, pending, run, run_dirs>>
  BY DEF IInv, _run_two_pipeline_passes, AtProof, vars
<1>2. ProofDatabase(p) \notin DOMAIN original /\ ProofDatabase(p) \notin pending
  BY <1>1 DEF ProofOK, IInv, PendingIsNew
<1>3. CASE SetProof(p, done)
  <2>1. ProofChanged(p, done)
    BY <1>3, SetProofFacts DEF IInv
  <2>2. proof'[p].pc = "drop" /\ proof'[p].summary = proof[p].summary
    BY <2>1 DEF ProofChanged, ProofFields
  <2> HIDE DEF done
  <2>3. ASSUME ProofDatabase(p)' = ProofDatabase(p) PROVE ProofOK(p)'
    BY <1>1, <1>2, <2>2, <2>3 DEF ProofOK
  <2> QED
    BY <1>1, <2>1, <2>3, QuietProofMove
<1>4. CASE SetProof(p, Failed)
  <2>1. ProofChanged(p, Failed)
    BY <1>4, SetProofFacts DEF IInv
  <2>2. /\ proof'[p].pc = "drop" /\ proof'[p].all_passed = FALSE
        /\ proof'[p].summary = proof[p].summary
    BY <2>1 DEF ProofChanged, ProofFields, Failed
  <2> HIDE DEF done
  <2>3. ASSUME ProofDatabase(p)' = ProofDatabase(p) PROVE ProofOK(p)'
    BY <1>1, <1>2, <2>2, <2>3 DEF ProofOK
  <2> QED
    BY <1>1, <2>1, <2>3, QuietProofMove
<1> QED
  BY <1>3, <1>4 DEF _run_two_pipeline_passes

\* Only its own database is dropped.
LEMMA ProofDropsStep ==
    ASSUME IInv, NEW p \in Proofs, _drop_database_if_exists(p)
    PROVE  IInv'
<1> DEFINE done == [pc |-> "leak check"]
           failed == [pc |-> "leak check", all_passed |-> FALSE]
           db == ProofDatabase(p)
<1>1. /\ ProofOK(p) /\ proof[p].pc = "drop"
      /\ UNCHANGED <<candidate, settings, original, pending, run_dirs, run>>
  BY DEF IInv, _drop_database_if_exists, AtProof
<1>2. db \notin DOMAIN original
  BY <1>1 DEF ProofOK
<1>3. CASE /\ SetProof(p, done)
           /\ databases' = [d \in DOMAIN databases \ {db} |-> databases[d]]
  <2>1. ProofChanged(p, done)
    BY <1>3, SetProofFacts DEF IInv
  <2>2. /\ proof'[p].pc = "leak check" /\ proof'[p].summary = proof[p].summary
        /\ proof'[p].all_passed = proof[p].all_passed
    BY <2>1 DEF ProofChanged, ProofFields
  <2>3. OneDatabase(db) /\ db \notin DOMAIN databases'
    BY <1>1, <1>2, <1>3 DEF OneDatabase
  <2> HIDE DEF done, failed, db
  <2>4. ASSUME ProofDatabase(p)' = ProofDatabase(p) PROVE ProofOK(p)'
    BY <1>1, <1>2, <2>2, <2>3, <2>4 DEF ProofOK, db
  <2> QED
    BY <1>1, <2>1, <2>3, <2>4, OwnProofMove DEF db
<1>4. CASE SetProof(p, failed) /\ UNCHANGED databases
  <2>1. ProofChanged(p, failed)
    BY <1>4, SetProofFacts DEF IInv
  <2>2. /\ proof'[p].pc = "leak check" /\ proof'[p].all_passed = FALSE
        /\ proof'[p].summary = proof[p].summary
    BY <2>1 DEF ProofChanged, ProofFields
  <2> HIDE DEF done, failed, db
  <2>3. ASSUME ProofDatabase(p)' = ProofDatabase(p) PROVE ProofOK(p)'
    BY <1>1, <1>2, <2>2, <2>3 DEF ProofOK, db
  <2> QED
    BY <1>1, <1>4, <2>1, <2>3, QuietProofMove
<1> QED
  BY <1>3, <1>4 DEF _drop_database_if_exists

\* A proof that passes has looked.
LEMMA LeakCheckStep ==
    ASSUME IInv, NEW p \in Proofs, leak_check(p)
    PROVE  IInv'
<1> DEFINE clean == proof[p].all_passed /\ ProofDatabase(p) \notin DOMAIN databases
<1>1. /\ ProofOK(p) /\ proof[p].pc = "leak check"
      /\ UNCHANGED <<candidate, settings, databases, original, pending, run_dirs, run>>
  BY DEF IInv, leak_check, AtProof
<1>2. ASSUME NEW passed \in {clean, FALSE},
             SetProof(p, [pc |-> "summary", all_passed |-> passed])
      PROVE  IInv'
  <2> DEFINE changes == [pc |-> "summary", all_passed |-> passed]
  <2>1. ProofChanged(p, changes)
    BY <1>2, SetProofFacts DEF IInv
  <2>2. /\ proof'[p].pc = "summary" /\ proof'[p].all_passed = passed
        /\ proof'[p].summary = proof[p].summary
    BY <2>1 DEF ProofChanged, ProofFields
  <2>3. passed => clean
    BY <1>2
  <2> HIDE DEF changes
  <2>4. ASSUME ProofDatabase(p)' = ProofDatabase(p) PROVE ProofOK(p)'
    BY <1>1, <2>2, <2>3, <2>4 DEF ProofOK, There
  <2> QED
    BY <1>1, <2>1, <2>4, QuietProofMove
<1>3. \/ SetProof(p, [pc |-> "summary", all_passed |-> clean])
      \/ SetProof(p, [pc |-> "summary", all_passed |-> FALSE])
  BY DEF leak_check
<1> QED
  BY <1>2, <1>3

\* The summary says what the checks have found.
LEMMA PrintSummaryStep ==
    ASSUME IInv, NEW p \in Proofs, _print_summary(p)
    PROVE  IInv'
<1> DEFINE verdict == IF proof[p].all_passed THEN "PASS" ELSE "FAIL"
           changes == [pc |-> "over", summary |-> verdict]
<1>1. /\ ProofOK(p) /\ proof[p].pc = "summary"
      /\ UNCHANGED <<candidate, settings, databases, original, pending, run, run_dirs>>
  BY DEF IInv, _print_summary, AtProof, vars
<1>2. ProofChanged(p, changes)
  BY SetProofFacts DEF IInv, _print_summary
<1>3. proof'[p].pc = "over" /\ proof'[p].summary = verdict
  BY <1>2 DEF ProofChanged, ProofFields
<1>4. ASSUME ProofDatabase(p)' = ProofDatabase(p) PROVE ProofOK(p)'
  BY <1>1, <1>3, <1>4 DEF ProofOK, There
<1> HIDE DEF changes
<1> QED
  BY <1>1, <1>2, <1>4, QuietProofMove

\* The process of a proof stops where it is.
LEMMA KillProofStep ==
    ASSUME IInv, NEW p \in Proofs, KillProof(p)
    PROVE  IInv'
<1> DEFINE changes == [pc |-> "killed"]
<1>1. /\ ProofOK(p) /\ proof[p].pc # "over"
      /\ UNCHANGED <<candidate, settings, databases, original, pending, run_dirs, run>>
  BY DEF IInv, KillProof
<1>2. ProofChanged(p, changes)
  BY SetProofFacts DEF IInv, KillProof
<1>3. proof'[p].pc = "killed" /\ proof'[p].summary = proof[p].summary
  BY <1>2 DEF ProofChanged, ProofFields
<1>4. ASSUME ProofDatabase(p)' = ProofDatabase(p) PROVE ProofOK(p)'
  BY <1>1, <1>3, <1>4 DEF ProofOK
<1> HIDE DEF changes
<1> QED
  BY <1>1, <1>2, <1>4, QuietProofMove

-----------------------------------------------------------------------------
(***************************************************************************)
(* The theorems.                                                           *)
(***************************************************************************)
\* Nothing has been touched; what is there is one migration behind a candidate.
LEMMA InvariantInit ==
    ASSUME ProofInit
    PROVE  IInv
<1>1. /\ candidate \in Candidates /\ settings \in Settings /\ original = databases
      /\ pending = {} /\ run = [r \in Runs |-> NewRun] /\ proof = [p \in Proofs |-> NewProof]
  BY DEF ProofInit, Init
<1>2. PICK r \in Runs, taken \in SUBSET Runs :
        databases = [db \in {Development, Existing} \cup {Fresh(t) : t \in taken} |->
                        [Empty EXCEPT !.applied = Front(candidate[r].history)]]
  BY DEF ProofInit, Init
<1> DEFINE h == candidate[r].history
<1>3. h \in Seq(ToSet(h)) /\ Len(h) \in Nat /\ Len(h) # 0
  BY <1>1, CandidateFacts
<1>4. /\ DOMAIN original = {Development, Existing} \cup {Fresh(t) : t \in taken}
      /\ databases[Existing] = [applied |-> SubSeq(h, 1, Len(h) - 1), residue |-> {},
                                mixed |-> FALSE]
  BY <1>1, <1>2 DEF Empty, Front
<1>5. OneHistory
  <2>1. Len(h) - 1 \in 0..Len(h)
    BY <1>3
  <2>2. Plain(databases[Existing])
    BY <1>4, <2>1 DEF Plain
  <2> QED  BY <2>2 DEF OneHistory
<1> HIDE DEF h
<1>8. DOMAIN original \subseteq {Development, Existing} \cup {Fresh(t) : t \in Runs}
  BY <1>4
<1>9. TypeOK
  BY <1>1, <1>4, <1>8 DEF TypeOK, NewRun, NewProof, RunFields, ProofFields
<1>10. PendingIsNew /\ OnlyTheTestDatabaseChanges
  BY <1>1 DEF PendingIsNew, OnlyTheTestDatabaseChanges
<1>11. ASSUME NEW q \in Runs PROVE RunOK(q)
  <2>1. run[q] = NewRun
    BY <1>1
  <2>2. /\ run[q].pc = "new" /\ run[q].error = None /\ run[q].matrix = "NOT RUN"
        /\ run[q].json = None
    <3>1. /\ NewRun.pc = "new" /\ NewRun.error = None /\ NewRun.matrix = "NOT RUN"
          /\ NewRun.json = None
      BY DEF NewRun
    <3> QED  BY <2>1, <3>1
  <2>4. There = DOMAIN original
    BY <1>1 DEF There
  <2> QED
    BY <2>2, <2>4
       DEF RunOK, Guarded, NoErrorYet, RoundTrip, Learned, Flaws, Newest, Provisioned,
           Gone, Evidence, Asking, Restored, Checked, Making, Owning
<1>12. ASSUME NEW p \in Proofs PROVE ProofOK(p)
  <2>1. proof[p].pc = "new" /\ proof[p].summary # "PASS"
    BY <1>1, NoneAssumption DEF NewProof
  <2>2. There = DOMAIN original
    BY <1>1 DEF There
  <2> QED  BY <2>1, <2>2 DEF ProofOK
<1> QED
  BY <1>5, <1>9, <1>10, <1>11, <1>12 DEF IInv

\* Every step of an invocation keeps the invariant.
LEMMA RunStepKeeps ==
    ASSUME IInv, NEW r \in Runs, RunStep(r), UNCHANGED proof
    PROVE  IInv'
  BY CreateRunDirStep, EarlierStepsStep, QueryVersionStep, CaptureBeforeStep,
     UpgradeExistingStep, DowngradeOneStep, UpgradeRestoredStep, AlembicCheckStep,
     ProvisionAbsentStep, CreateDatabaseStep, ReconcileUnacknowledgedStep,
     ReconcileCreatedStep, QueryCurrentDatabaseStep, UpgradeFreshStep,
     CleanupFreshDatabaseStep, CaptureAfterStep, HandoffStepStep, CleanupRunDirStep,
     WriteStepJsonStep, KillStep DEF RunStep

\* So does every step.
LEMMA InvariantStep ==
    ASSUME IInv, [ProofNext]_proofVars
    PROVE  IInv'
<1>1. CASE Next /\ UNCHANGED proof
  BY <1>1, RunStepKeeps, ServerCreatesStep, DeveloperMigratesStep DEF Next
<1>2. ASSUME NEW p \in Proofs, ProofStep(p) PROVE IInv'
  BY <1>2, SafetyGuardStep, ProofCreatesStep, ProofMigratesStep, ProofIngestsStep,
     ProofDropsStep, LeakCheckStep, PrintSummaryStep, KillProofStep DEF ProofStep
<1>3. CASE UNCHANGED proofVars
  <2>1. UNCHANGED <<candidate, settings, databases, original, pending, run_dirs, run, proof>>
    BY <1>3 DEF proofVars, vars
  <2>2. /\ Steady /\ SharedStep /\ PendingIsNew' /\ OnlyTheTestDatabaseChanges'
        /\ databases'[Existing] = databases[Existing] /\ \A db : Kept(db)
    BY <2>1, NoDatabaseFacts DEF IInv
  <2> QED  BY <2>1, <2>2, NobodyMoves
<1> QED
  BY <1>1, <1>2, <1>3 DEF ProofNext

\* The inductive invariant holds in every reachable state (MigrationMatrix, LiveProof).
THEOREM LiveProofInvariant == ProofSpec => []IInv
<1>1. ProofInit => IInv
  BY InvariantInit
<1>2. IInv /\ [ProofNext]_proofVars => IInv'
  BY InvariantStep
<1> QED
  BY <1>1, <1>2, PTL DEF ProofSpec

\* Whatever the URLs are, no invocation of verify.py or of the proof drops a database that
\* was there before, or changes one that is not the test database (db_safety.py:36-66).
THEOREM OtherDatabasesUnchanged == ProofSpec => []OnlyTheTestDatabaseChanges
<1>1. IInv => OnlyTheTestDatabaseChanges
  BY DEF IInv
<1> QED
  BY <1>1, LiveProofInvariant, PTL

\* A PASS of the matrix always means that the candidate's history runs from nothing; it
\* means that the candidate has none of the defects that the matrix looks for, however
\* the invocations interleave on the shared test database, if no two candidates have
\* different versions of one migration.  That condition is needed: where it fails, the
\* run rival_migrations has a counterexample (migration_matrix.py:360-400).
THEOREM PassIsSound == ProofSpec => []PassMeansSoundWithoutRivals
<1>1. IInv => PassMeansSoundWithoutRivals
  BY DEF IInv, RunOK, Learned, PassMeansSoundWithoutRivals
<1> QED
  BY <1>1, LiveProofInvariant, PTL

\* A JSON, or a PASS of the proof, is only left where nothing else is
\* (migration_matrix.py:298-327, live_proof_greenhouse_ingestion.py:711-748).
THEOREM EvidenceIsAlone == ProofSpec => []EvidenceLeavesNothingBehind
<1>1. ASSUME IInv PROVE EvidenceLeavesNothingBehind
  <2>1. \A r \in Runs : Gone(r) /\ Evidence(r)
    BY <1>1 DEF IInv, RunOK
  <2>2. \A p \in Proofs : ProofOK(p)
    BY <1>1 DEF IInv
  <2> QED
    BY <2>1, <2>2 DEF Gone, Evidence, ProofOK, There, Making, EvidenceLeavesNothingBehind
<1> QED
  BY <1>1, LiveProofInvariant, PTL
=============================================================================
