----------------------------- MODULE RemoteType -----------------------------
(***************************************************************************)
(* normalization/remote.py: the work arrangement of a posting.  Markers    *)
(* are <<label, phrase>>; each catalogue holds one phrase of every shape   *)
(* the code's list has.  This tokenizer drops separators, so a sentence is *)
(* given raw, with them, and its words are what is left: the raw form is   *)
(* needed to tell a comma from any other gap.                              *)
(***************************************************************************)
EXTENDS Phrases, FiniteSetsExt

BareMarkers == {<<"remote", <<"remote">> >>, <<"remote", <<"wfh">> >>,
                <<"hybrid", <<"hybrid">> >>}
TitleExplicit == {<<"remote", <<"fully", "remote">> >>, <<"remote", <<"wfh">> >>}
Nouns == {<<"role">>, <<"attendance">>, <<"attendance", "requirement">>}
Arrangements == {<<label, <<label>> \o noun>> : label \in {"remote", "hybrid"}, noun \in Nouns}
                \cup {<<"remote", <<"wfh">> >>}
\* "required to be in the office", as one token: it has no label of its own.
Blocker == <<"blocker", <<"attend-office">> >>
Exclusions == << <<"remote", "team">> >>
ContextCues == {"stipend", "team"}
NegationCues == {"not"}
Conjunctions == {"or", "nor"}
Separators == {",", "/"}
NegationWindow == 3
ContextWindow == 3

\* The positions of a raw sentence's words, in order.
WordPositions(raw) == Ascending({i \in DOMAIN raw : raw[i] \notin Separators})
WordsOf(raw) == LET at == WordPositions(raw) IN [i \in DOMAIN at |-> raw[at[i]]]

-----------------------------------------------------------------------------
TitleSignal(title) ==
    LET words == FlattenSeq([i \in DOMAIN title |-> WordsOf(title[i])])
        hidden == Masked(words, Exclusions)
        Visible(segment) == LET w == WordsOf(segment) IN Compact(w, Masked(w, Exclusions))
    IN {m[1] : m \in {x \in TitleExplicit :
                        \E s \in Spans(words, x[2]) : (s[1]..s[2]) \cap hidden = {}}}
       \cup {m[1] : m \in {x \in BareMarkers :
                        \E i \in DOMAIN title : Visible(title[i]) = x[2]}}

-----------------------------------------------------------------------------
Candidates(words) ==
    LET hidden == Masked(words, Exclusions)
        Found(markers, qualified) ==
            UNION {{[first |-> s[1], last |-> s[2], label |-> m[1], qualified |-> qualified] :
                        s \in {x \in Spans(words, m[2]) : (x[1]..x[2]) \cap hidden = {}}} :
                   m \in markers}
    IN Found(Arrangements \cup {Blocker}, TRUE) \cup Found(BareMarkers, FALSE)

\* The positions of the unmasked words among cues.
CuePositions(words, cues) ==
    {i \in DOMAIN words : words[i] \in cues} \ Masked(words, Exclusions)

Distance(pivot, c) == Max({0, c.first - pivot, pivot - c.last})

\* The candidates a negation cue suppresses first: all those at the least
\* distance, on either side.
Nearest(candidates, cue) ==
    LET near == {c \in candidates : Distance(cue, c) <= NegationWindow}
    IN {c \in near : \A d \in near : Distance(cue, c) <= Distance(cue, d)}

\* Exactly one conjunction stands between the two, in either order.
Coordinated(words, c, d) ==
    \/ d.first = c.last + 2 /\ words[c.last + 1] \in Conjunctions
    \/ c.first = d.last + 2 /\ words[d.last + 1] \in Conjunctions

\* Suppression spreads along chains of coordination.
Spread(words, candidates, start) ==
    LET reached[n \in 0..Cardinality(candidates)] ==
            IF n = 0
            THEN start
            ELSE reached[n - 1] \cup {d \in candidates :
                    \E c \in reached[n - 1] : Coordinated(words, c, d)}
    IN reached[Cardinality(candidates)]

\* Between the two stands nothing but one comma.
CommaBetween(raw, c, d) ==
    LET at == WordPositions(raw)
        Gap(i) == SubSeq(raw, at[i] + 1, at[i + 1] - 1)
    IN \/ d.first = c.last + 1 /\ Gap(c.last) = <<",">>
       \/ c.first = d.last + 1 /\ Gap(d.last) = <<",">>

\* The labels, the blocker's among them, that a sentence's candidates leave.
SentenceLabels(raw) ==
    LET words == WordsOf(raw)
        candidates == Candidates(words)
        cues == CuePositions(words, NegationCues)
        negated == Spread(words, candidates,
                          UNION {Nearest(candidates, cue) : cue \in cues})
        outOfContext == {c \in candidates :
            \E i \in CuePositions(words, ContextCues) : Distance(i, c) <= ContextWindow}
        unresolved == candidates # {} /\ \E cue \in cues : Nearest(candidates, cue) = {}
        left == candidates \ (negated \cup outOfContext)
    IN IF unresolved
       THEN {}
       ELSE {c.label : c \in {x \in left :
                x.qualified \/ \E d \in negated : CommaBetween(raw, x, d)}}

\* Mutant: a blocker is heeded only in a sentence that states an arrangement.
DescriptionLabelsBlockerNearby(description) ==
    UNION {LET labels == SentenceLabels(description[i])
           IN IF labels = {"blocker"} THEN {} ELSE labels : i \in DOMAIN description}

DescriptionLabels(description) ==
    UNION {SentenceLabels(description[i]) : i \in DOMAIN description}

ClassifyRemoteType(title, description) ==
    LET labels == DescriptionLabels(description)
        result == Combine(TitleSignal(title), labels \ {"blocker"})
    IN IF "blocker" \in labels /\ result.value = "remote" THEN Unavailable ELSE result
=============================================================================
