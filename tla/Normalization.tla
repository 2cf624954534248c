--------------------------- MODULE Normalization ---------------------------
(***************************************************************************)
(* A posting read part by part: a title segment or a description sentence  *)
(* is added and the classifier of one field is called again on the whole.  *)
(* The classifiers are pure functions; what the steps show is how their    *)
(* answer changes with the evidence.                                       *)
(***************************************************************************)
EXTENDS Phrases

CONSTANTS
    Segments,    \* of each field, the title segments tried, none empty
    Sentences,   \* of each field, the description sentences tried, none empty
    MaxTokens,   \* of each field, the tokens a posting of several parts may have
    Compensations, \* the compensation texts tried
    Figures,     \* of each number token of a compensation, what it denotes
    Int32Max     \* the largest amount an INTEGER column holds

VARIABLES field, title, description, compensation, result

normalizationVars == <<field, title, description, compensation, result>>

S == INSTANCE Seniority
R == INSTANCE RemoteType
E == INSTANCE Employment
X == INSTANCE Experience
P == INSTANCE Salary

ASSUME FiguresAssumption == /\ \A n \in DOMAIN Figures : Figures[n] \in P!Figure
                            /\ Int32Max \in Nat

TextFields == {"seniority", "remote_type", "employment_type", "experience"}
Fields == TextFields \cup {"salary"}

ASSUME PartsAssumption == \A f \in TextFields :
    \A part \in Segments[f] \cup Sentences[f] : part \in Seq(ToSet(part)) /\ part # <<>>

Classify(f, t, d) ==
    CASE f = "seniority"       -> S!ClassifySeniority(t, d)
      [] f = "remote_type"     -> R!ClassifyRemoteType(t, d)
      [] f = "employment_type" -> E!ClassifyEmploymentType(t, d)
      [] f = "experience"      -> X!ClassifyExperience(t, d)

NormalizationInit ==
    /\ field \in Fields
    /\ title = <<>>
    /\ description = <<>>
    /\ compensation = <<>>
    /\ result = IF field = "salary"
                THEN P!ClassifySalary(compensation)
                ELSE Classify(field, title, description)

\* A posting of several parts is kept small; a single part may be longer.
Size == Len(FlattenSeq(title \o description))
Fits(part) == Size = 0 \/ Size + Len(part) <= MaxTokens[field]

AddSegment ==
    /\ field \in TextFields
    /\ Size < MaxTokens[field]
    /\ \E segment \in Segments[field] :
           /\ Fits(segment)
           /\ title' = Append(title, segment)
           /\ result' = Classify(field, title', description)
           /\ UNCHANGED <<field, description, compensation>>

AddSentence ==
    /\ field \in TextFields
    /\ Size < MaxTokens[field]
    /\ \E sentence \in Sentences[field] :
           /\ Fits(sentence)
           /\ description' = Append(description, sentence)
           /\ result' = Classify(field, title, description')
           /\ UNCHANGED <<field, title, compensation>>

\* A compensation text is a field of its own, read as a whole.
ReadCompensation ==
    /\ field = "salary"
    /\ compensation = <<>>
    /\ compensation' \in Compensations
    /\ result' = P!ClassifySalary(compensation')
    /\ UNCHANGED <<field, title, description>>

NormalizationNext == AddSegment \/ AddSentence \/ ReadCompensation

NormalizationSpec == NormalizationInit /\ [][NormalizationNext]_normalizationVars

-----------------------------------------------------------------------------
\* What is stored of an answer: of experience, two bounds.
Stored(r) == IF field = "experience" THEN <<r.minimum, r.maximum>> ELSE <<r>>
Known(r) == r.value # "none"

\* More text can take an answer away or give one, but never turns one value
\* into another: contradicting evidence, in whichever field and order it
\* comes, ends in "unavailable" (the cross-field precedence of every
\* classifier, seniority.py:157-161).  Of a title of years this is so one part
\* at a time: "preferred - backend - 5 years" behind "3 years" is cut at its
\* hyphens (experience.py:544-548), and takes away one answer to give another.
EvidenceNeverFlips ==
    [][field # "salary"
       /\ (field = "experience" /\ title' # title => Len(X!Cut(X!Redacted(Last(title')))) = 1) =>
         \A k \in DOMAIN Stored(result) :
           LET was == Stored(result)[k]  is == Stored(result')[k]
           IN Known(was) /\ Known(is) => is.value = was.value]_normalizationVars

\* What is stored of a compensation is what all of it says: the one currency
\* that every code and symbol in it admits, and bounds that are in order, fit
\* their column and leave out no number of it, a k at the end counting for both;
\* a number that is malformed, or a period nobody knows, leaves no bound
\* (salary.py:556-612).
SalaryNeverMisread ==
    field = "salary" =>
        LET said == ToSet(compensation)
            currencies ==
                {c \in P!Currencies : /\ said \cap P!Codes \subseteq {c}
                                     /\ \A s \in said \cap P!Symbols : c \in P!CompatibleCodes[s]}
            figures == {i \in DOMAIN compensation : compensation[i] \in DOMAIN Figures}
            numbers == Compact(compensation, DOMAIN compensation \ figures)
            Amount(n) == IF Figures[n].k \/ Figures[Last(numbers)].k
                         THEN Figures[n].digits * 1000
                         ELSE Figures[n].digits
            bounds == result.minimum \cup result.maximum
        IN /\ result # P!NothingKnown =>
                result.currency = IF Cardinality(currencies) = 1 THEN currencies ELSE {}
           /\ bounds # {} =>
                /\ bounds = {Amount(n) : n \in ToSet(numbers)}
                /\ \A n \in ToSet(numbers) : Figures[n].wellFormed
                /\ \A a \in bounds : a <= Int32Max
                /\ \A a \in result.minimum, b \in result.maximum : a <= b
                /\ said \cap P!Periods \subseteq DOMAIN P!SupportedPeriods

\* A sentence counts towards a tier exactly when it can be read as an anchor,
\* a lead-in that does not negate and a phrase: taking the longest of each
\* first neither loses such a reading nor finds one that is not there, and
\* nothing behind a negated candidate counts (seniority.py:124-147).
TierFoundIffStated ==
    field = "seniority" =>
        \A i \in DOMAIN description :
            LET stated == S!StatedTiers(description[i])
                found == S!SentenceTiers(description[i])
            IN /\ found = {} <=> stated = {}
               /\ found # {} => found \cap stated # {}

\* The spans of tokens directly behind a negation, and those a conjunction
\* joins to one; lead is what may stand between the negation and the phrase.
Negations(tokens, spans, cues, leads, conjunctions) ==
    LET Behind(from, to) == SubSeq(tokens, from + 1, to - 1)
        Direct(s) == \E i \in DOMAIN tokens :
                        tokens[i] \in cues /\ i < s[1] /\ Behind(i, s[1]) \in leads
    IN {s \in spans :
            \/ Direct(s)
            \/ \E d \in spans :
                 /\ Direct(d) /\ d[2] < s[1]
                 /\ \E c \in conjunctions, l \in leads : Behind(d[2], s[1]) = <<c>> \o l}

\* A schedule or an arrangement a sentence mentions only to deny it is not
\* read from that sentence: "not a seasonal role", "neither full-time nor a
\* seasonal role" (employment.py:588-596, 482-499; for remote.py only where
\* the phrase stands directly behind the negation).  Nor is a number of years
\* read from a title whose every number is said to be preferred or not
\* required, in its own segment or by one next to it, with or without blank
\* segments between them (experience.py:716-749).
NegatedNeverClaimed ==
    /\ field = "employment_type" =>
        \A i \in DOMAIN description :
            LET tokens == E!Visible(description[i])
                Mentions(label) == UNION {E!Spans(tokens, m[2]) :
                    m \in {x \in E!BareMarkers \cup E!Arrangements : x[1] = label}}
                all == UNION {Mentions(m[1]) : m \in E!BareMarkers}
                denied == Negations(tokens, all, E!NegationCues, {<<>>, <<"a">>}, E!Conjunctions)
            IN \A m \in E!BareMarkers :
                Mentions(m[1]) \subseteq denied => m[1] \notin E!SentenceLabels(description[i])
    /\ field = "remote_type" =>
        \A i \in DOMAIN description :
            LET words == R!WordsOf(description[i])
                Mentions(label) == {<<c.first, c.last>> :
                    c \in {x \in R!Candidates(words) : x.label = label}}
                all == UNION {Mentions(l) : l \in {"remote", "hybrid"}}
                denied == Negations(words, all, R!NegationCues, {<<>>}, R!Conjunctions)
            IN \A l \in {"remote", "hybrid"} :
                Mentions(l) \subseteq denied => l \notin R!SentenceLabels(description[i])
    /\ field = "experience" /\ description = <<>> =>
        LET said == Compact(title, {i \in DOMAIN title : title[i] = <<" ">>})
            qualifiers == X!NotRequired \cup X!Preference
            Alone(j) == j \in DOMAIN said /\ Len(said[j]) = 1 /\ said[j][1] \in qualifiers
            Denied(i) == \/ {said[i][1], Last(said[i])} \cap qualifiers # {}
                         \/ Alone(i - 1) \/ Alone(i + 1)
            Numbered(i) == ToSet(said[i]) \cap X!Numbers # {}
        IN (\A i \in DOMAIN said : "-" \notin ToSet(said[i]) /\ (Numbered(i) => Denied(i)))
           => \A k \in 1..2 : Stored(result)[k].value \in {"none", "0"}

\* The same of an arrangement behind "not a".  It fails: of "a remote role,
\* not a hybrid role" the nearer phrase before the negation is suppressed
\* and the denied one is the answer, where the module calls its negation
\* rule fail-closed (remote.py:150-157).
ArrangementDeniedNeverClaimed ==
    field = "remote_type" =>
        \A i \in DOMAIN description :
            LET words == R!WordsOf(description[i])
                Mentions(label) == {<<c.first, c.last>> :
                    c \in {x \in R!Candidates(words) : x.label = label}}
                all == UNION {Mentions(l) : l \in {"remote", "hybrid"}}
                denied == Negations(words, all, R!NegationCues, {<<>>, <<"a">>}, {})
            IN \A l \in {"remote", "hybrid"} :
                Mentions(l) # {} /\ Mentions(l) \subseteq denied
                    => l \notin R!SentenceLabels(description[i])

\* One sentence that requires office attendance, with no negation or
\* unrelated noun in it, keeps the whole posting from being "remote",
\* whichever sentence or title says so (remote.py:646-655).
OfficeAttendanceBlocks ==
    field = "remote_type" /\ (\E i \in DOMAIN description :
        LET words == ToSet(description[i])
        IN R!Blocker[2][1] \in words /\ words \cap (R!NegationCues \cup R!ContextCues) = {})
    => result.value # "remote"
=============================================================================
