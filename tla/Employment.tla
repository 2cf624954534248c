----------------------------- MODULE Employment -----------------------------
(***************************************************************************)
(* normalization/employment.py: the schedule of a posting.  Markers are    *)
(* <<label, phrase>>; each catalogue holds one phrase of every shape the   *)
(* code's list has.  Separators are tokens of their own here.  The words   *)
(* of another axis (contract, temp to perm) are taken out first.           *)
(***************************************************************************)
EXTENDS Phrases, FiniteSetsExt

BareMarkers == {<<"full_time", <<"full", "time">> >>, <<"seasonal", <<"seasonal">> >>,
                <<"internship", <<"intern">> >>}
Arrangements == {<<"full_time", <<"full", "time", "role">> >>,
                 <<"seasonal", <<"seasonal", "role">> >>}
OtherAxis == << <<"temp", "to", "perm">>, <<"temp">>, <<"contract">> >>
NegationCues == {"not", "neither"}
Conjunctions == {"or", "nor"}
Determiners == {"a"}
NegationWindow == 3

Visible(tokens) == Compact(tokens, Masked(tokens, OtherAxis))

TitleSignal(title) ==
    {m[1] : m \in {x \in BareMarkers : \E i \in DOMAIN title : Visible(title[i]) = x[2]}}

-----------------------------------------------------------------------------
Candidates(tokens) ==
    LET Found(markers, qualified) ==
            UNION {{[first |-> s[1], last |-> s[2], label |-> m[1], qualified |-> qualified] :
                        s \in Spans(tokens, m[2])} : m \in markers}
    IN Found(Arrangements, TRUE) \cup Found(BareMarkers, FALSE)

Distance(pivot, c) == Max({0, c.first - pivot, pivot - c.last})

\* Those of candidates at the least distance within the window.
Closest(candidates, cue) ==
    LET near == {c \in candidates : Distance(cue, c) <= NegationWindow}
    IN {c \in near : \A d \in near : Distance(cue, c) <= Distance(cue, d)}

\* Mutant: the nearest candidate is suppressed on whichever side it stands.
NegatedByEitherSide(candidates, cue) == Closest(candidates, cue)

\* A cue negates what follows it; what precedes it only if nothing follows.
NegatedBy(candidates, cue) ==
    LET ahead == Closest({c \in candidates : cue < c.first}, cue)
    IN IF ahead # {} THEN ahead ELSE Closest({c \in candidates : cue >= c.first}, cue)

\* A conjunction, or a conjunction and a determiner, between the two.
Coordinated(tokens, c, d) ==
    LET Joins(gap) == /\ Len(gap) \in 1..2
                      /\ gap[1] \in Conjunctions
                      /\ Len(gap) = 2 => gap[2] \in Determiners
    IN \/ d.first > c.last /\ Joins(SubSeq(tokens, c.last + 1, d.first - 1))
       \/ c.first > d.last /\ Joins(SubSeq(tokens, d.last + 1, c.first - 1))

\* Suppression spreads along chains of coordination.
Spread(tokens, candidates, start) ==
    LET reached[n \in 0..Cardinality(candidates)] ==
            IF n = 0
            THEN start
            ELSE reached[n - 1] \cup {d \in candidates :
                    \E c \in reached[n - 1] : Coordinated(tokens, c, d)}
    IN reached[Cardinality(candidates)]

SentenceLabels(sentence) ==
    LET tokens == Visible(sentence)
        candidates == Candidates(tokens)
        cues == {i \in DOMAIN tokens : tokens[i] \in NegationCues}
        negated == Spread(tokens, candidates,
                          UNION {NegatedBy(candidates, cue) : cue \in cues})
        unresolved == candidates # {} /\ \E cue \in cues : NegatedBy(candidates, cue) = {}
    IN IF unresolved
       THEN {}
       ELSE {c.label : c \in {x \in candidates \ negated : x.qualified}}

DescriptionSignal(description) ==
    UNION {SentenceLabels(description[i]) : i \in DOMAIN description}

ClassifyEmploymentType(title, description) ==
    Combine(TitleSignal(title), DescriptionSignal(description))
=============================================================================
