--------------------------- MODULE IdentityLedger ---------------------------
(***************************************************************************)
(* What identity resolution promises: postings are settled one at a time,  *)
(* each in a single step that sees every earlier one.                      *)
(*                                                                         *)
(*  - a posting whose natural key is stored settles on that occurrence;    *)
(*  - otherwise one with a usable canonical URL joins the Job that carries *)
(*    the URL, and founds a Job only if none does;                         *)
(*  - otherwise one with a tenant-scoped requisition may join a Job that   *)
(*    carries the requisition.  The promise is weaker here: which of join, *)
(*    found or quarantine happens may reflect an earlier state, because    *)
(*    postings with a URL write requisitions without the requisition lock; *)
(*  - no occurrence ever moves to another Job or changes its evidence.     *)
(***************************************************************************)
EXTENDS NaturalKey

CONSTANTS Raws, Postings

VARIABLES
    raw,       \* [Raws -> row or None]: the posting, its status and its occurrence
    home,      \* [Raws -> Raws or None]: the Job of each stored occurrence
    evidence   \* [Raws -> columns or None] of each stored occurrence

vars == <<raw, home, evidence>>

Init ==
    /\ raw = [r \in Raws |-> None]
    /\ home = [r \in Raws |-> None]
    /\ evidence = [r \in Raws |-> None]

Stored == {o \in Raws : home[o] # None}
Cols(r) == Columns(raw[r].posting)

Pending(r) == raw[r] # None /\ raw[r].status = "fetched"

Known(r) == {o \in Stored : existing_occurrence_conditions(
                                resolve_natural_key(Cols(r)), evidence[o])}

Carriers(r) == {home[o] : o \in {x \in Stored : MatchesSignal(Cols(r), evidence[x])}}

Settle(r, status, o) ==
    raw' = [raw EXCEPT ![r].status = status, ![r].occurrence = o]

AddOccurrence(r, j) ==
    /\ home' = [home EXCEPT ![r] = j]
    /\ evidence' = [evidence EXCEPT ![r] = Cols(r)]

Receive(r, q) ==
    /\ raw[r] = None
    /\ raw' = [raw EXCEPT ![r] = [posting |-> q, status |-> "fetched", occurrence |-> None]]
    /\ UNCHANGED <<home, evidence>>

Reject(r) ==
    /\ Pending(r)
    /\ resolve_natural_key(Cols(r)) = None
    /\ raw' = [raw EXCEPT ![r].status = "parse_error"]
    /\ UNCHANGED <<home, evidence>>

Rediscover(r) ==
    \E o \in Known(r) :
      LET mine == Cols(r).canonical_url_normalized
          stored == evidence[o].canonical_url_normalized
      IN  /\ Settle(r, IF None \notin {mine, stored} /\ mine # stored
                       THEN "identity_conflict" ELSE "normalized", o)
          /\ UNCHANGED <<home, evidence>>

Join(r) ==
    /\ Known(r) = {}
    /\ UsesTier2(Cols(r)) \/ UsesTier3(Cols(r))
    /\ \E j \in Carriers(r) :
         /\ UsesTier2(Cols(r)) => Carriers(r) = {j}
         /\ AddOccurrence(r, j)
    /\ Settle(r, "normalized", r)

Found(r) ==
    /\ Known(r) = {}
    /\ UsesTier2(Cols(r)) => Carriers(r) = {}
    /\ AddOccurrence(r, r)
    /\ \E status \in {"normalized", "identity_conflict"} :
         /\ status = "identity_conflict" => UsesTier3(Cols(r))
         /\ Settle(r, status, r)

Delete(j) ==
    LET gone == {o \in Stored : home[o] = j}
    IN  /\ gone # {}
        /\ home' = [o \in Raws |-> IF o \in gone THEN None ELSE home[o]]
        /\ evidence' = [o \in Raws |-> IF o \in gone THEN None ELSE evidence[o]]
        /\ raw' = [r \in Raws |-> IF raw[r] # None /\ raw[r].occurrence \in gone
                                  THEN [raw[r] EXCEPT !.occurrence = None] ELSE raw[r]]

Resolve(r) == /\ Pending(r)
              /\ resolve_natural_key(Cols(r)) # None
              /\ Rediscover(r) \/ Join(r) \/ Found(r)

Next ==
    \/ \E r \in Raws, q \in Postings : Receive(r, q)
    \/ \E r \in Raws : Reject(r) \/ Resolve(r) \/ Delete(r)

Spec == Init /\ [][Next]_vars
=============================================================================
