--------------------------- MODULE MCMigrationMatrix ---------------------------
(***************************************************************************)
(* Instances of LiveProof for TLC: two invocations of verify.py, on one    *)
(* candidate that may have one defect, or on it and one with a migration   *)
(* of its own, one built on it or one with another version of its          *)
(* migration; or one of them and a live proof.                             *)
(***************************************************************************)
EXTENDS LiveProof

Url(host, name) == [host |-> host, name |-> name]
Jobgoblin == [base |-> "jobgoblin", test |-> FALSE]
JobgoblinTest == [base |-> "jobgoblin_test", test |-> TRUE]

MCRuns == {"first", "second"}
MCProofs == {"proof"}

Migration(revision, version, defects) ==
    [revision |-> revision, version |-> version, defects |-> defects]
First == Migration(1, 1, {})
History(migrations) == [history |-> <<First>> \o migrations, defects |-> {}]

Sound == History(<<Migration(2, 1, {})>>)
Corrected == History(<<Migration(2, 2, {})>>)
Other == History(<<Migration(3, 1, {})>>)
BuiltOn(c) == [c EXCEPT !.history = Append(@, Migration(4, 1, {}))]
Defective == {History(<<Migration(2, 1, {defect})>>) : defect \in MigrationDefects}
             \cup {[Sound EXCEPT !.defects = {defect}] : defect \in CandidateDefects}
MCCandidates ==
    LET Checked(c, d, p) == [first |-> c, second |-> d, proof |-> p]
    IN  UNION {{Checked(c, c, Other), Checked(c, Other, c), Checked(c, BuiltOn(c), Other),
                Checked(c, Corrected, c)} : c \in Defective \cup {Sound}}

\* A migration whose downgrade fails, and its second version, which is right.
MCRivals ==
    {[first |-> History(<<Migration(2, 1, {"downgrade"})>>), second |-> Corrected,
      proof |-> Other]}

Configured(development, test, app_env, started) ==
    [development |-> development, test |-> test, app_env |-> app_env, started |-> started]

MCSettings ==
    {Configured(Url("localhost", Jobgoblin), None, "development", started) :
        started \in {MCRuns, {"first", "proof"}}}
    \cup {Configured(Url("localhost", Jobgoblin), None, "production", {"first", "proof"}),
          Configured(Url("localhost", Jobgoblin), Url("shared", JobgoblinTest),
                     "development", {"first", "proof"}),
          Configured(Url("shared", Jobgoblin), None, "development", {"first", "proof"}),
          Configured(Url("localhost", JobgoblinTest), Url("127.0.0.1", JobgoblinTest),
                     "development", MCRuns)}
MCLocal == {Configured(Url("localhost", Jobgoblin), None, "development", MCRuns)}
MCDefaultTestUrl == Url("localhost", JobgoblinTest)
=============================================================================
