------------------------------ MODULE Experience ------------------------------
(***************************************************************************)
(* normalization/experience.py: the years of experience a posting asks     *)
(* for, a lower and an upper bound.  Here a token is a number, a separator *)
(* or a phrase of one of the code's catalogues, which are given one member *)
(* each; "-" is a hyphen without blanks around it, "decimal" any number    *)
(* that is malformed, "#" one whose digits were redacted, and " " makes a  *)
(* blank segment.  What the code checks of a whole title before it splits  *)
(* it gives what the segment gives, a trailing full stop apart.            *)
(***************************************************************************)
EXTENDS Phrases, FiniteSetsExt

Value == [n \in {"0", "3", "5", "8"} |->
            CASE n = "0" -> 0 [] n = "3" -> 3 [] n = "5" -> 5 [] n = "8" -> 8]
Numbers == DOMAIN Value

RangeSeparators == {"-", "to", "and"}

\* Shapes no production may see a part of, numbers and malformed numbers alike.
PoisonPatterns ==
    {<<{"decimal"}, RangeSeparators, Numbers \cup {"decimal"}>>,
     <<Numbers, RangeSeparators, {"decimal"}>>,
     <<{"less-than"}, Numbers>>,
     <<Numbers \cup {"decimal"}, {"en-dash"}, Numbers \cup {"decimal"}>>}

Matches(tokens, i, pattern) ==
    /\ i + Len(pattern) - 1 <= Len(tokens)
    /\ \A k \in DOMAIN pattern : tokens[i + k - 1] \in pattern[k]

\* From left to right, each match consumes what it spans; every kind of shape
\* is looked for in the text as it was.
Consumed(tokens, patterns) ==
    LET Step(acc, i) ==
            LET here == {p \in patterns : Matches(tokens, i, p)}
            IN IF i < acc.next \/ here = {}
               THEN acc
               ELSE LET length == Len(CHOOSE p \in here : TRUE)
                    IN [next |-> i + length, spans |-> acc.spans \cup {i..(i + length - 1)}]
    IN UNION FoldLeft(Step, [next |-> 1, spans |-> {}], [i \in DOMAIN tokens |-> i]).spans

Redacted(tokens) ==
    LET composites == {p \in PoisonPatterns : p[2] = RangeSeparators}
        poisoned == UNION {Consumed(tokens, composites)}
                    \cup UNION {Consumed(tokens, {p}) : p \in PoisonPatterns \ composites}
    IN [i \in DOMAIN tokens |->
          IF tokens[i] = "decimal" \/ (i \in poisoned /\ tokens[i] \in Numbers)
          THEN "#" ELSE tokens[i]]

-----------------------------------------------------------------------------
(***************************************************************************)
(* Productions, in the order of the alternatives: "lo" and "hi" stand for  *)
(* a number that is the lower or the upper bound.                          *)
(***************************************************************************)
Unit == <<"years", "experience">>
ForwardPhrases ==
    << <<"between", "lo", "and", "hi">> \o Unit,
       <<"lo", "to", "hi">> \o Unit,
       <<"lo", "-", "hi">> \o Unit,
       <<"at-least", "lo">> \o Unit,
       <<"up-to", "hi">> \o Unit,
       <<"lo", "or-more">> \o Unit,
       <<"hi", "or-fewer">> \o Unit,
       <<"lo", "+">> \o Unit,
       <<"hi">> \o Unit \o <<"or-fewer">>,
       <<"lo">> \o Unit \o <<"or-more">>,
       <<"lo">> \o Unit >>
Values == << <<"lo", "-", "hi", "years">>, <<"lo", "+", "years">>, <<"lo", "years">> >>
LabelValues == [i \in DOMAIN Values |-> <<"experience">> \o Values[i]]

Pattern(production) ==
    [k \in DOMAIN production |->
       IF production[k] \in {"lo", "hi"} THEN Numbers ELSE {production[k]}]

NoPhrase == [first |-> 0, last |-> 0, minimum |-> {}, maximum |-> {}]

\* The first production that matches at i.
PhraseAt(tokens, productions, i) ==
    LET matching == {j \in DOMAIN productions : Matches(tokens, i, Pattern(productions[j]))}
    IN IF matching = {}
       THEN NoPhrase
       ELSE LET production == productions[Min(matching)]
                Read(end) == {tokens[i + k - 1] : k \in {x \in DOMAIN production :
                                                           production[x] = end}}
            IN [first |-> i, last |-> i + Len(production) - 1,
                minimum |-> Read("lo"), maximum |-> Read("hi")]

\* All of them from left to right, none overlapping one before it.
Phrases(tokens, productions) ==
    LET Step(found, i) ==
            LET phrase == PhraseAt(tokens, productions, i)
            IN IF phrase = NoPhrase \/ (found # <<>> /\ i <= Last(found).last)
               THEN found ELSE Append(found, phrase)
    IN FoldLeft(Step, <<>>, [i \in DOMAIN tokens |-> i])

-----------------------------------------------------------------------------
(***************************************************************************)
(* Titles.  A segment of nothing but a qualifier qualifies its neighbours. *)
(***************************************************************************)
NotRequired == {"not-required"}
Preference == {"preferred"}
ZeroPhrase == <<"no", "experience", "required">>
Nothing == [minimum |-> {}, maximum |-> {}]
Zero == [minimum |-> {"0"}, maximum |-> {}]

\* A segment between commas or brackets, cut at the hyphens with no digit beside
\* them: redacting a range makes a cut of its hyphen.
Cut(segment) ==
    LET IsDigit(i) == i \in DOMAIN segment /\ segment[i] \in Numbers
        cuts == {i \in DOMAIN segment :
                   segment[i] = "-" /\ ~IsDigit(i - 1) /\ ~IsDigit(i + 1)}
        at == Ascending(cuts \cup {0, Len(segment) + 1})
    IN [k \in 1..(Len(at) - 1) |-> SubSeq(segment, at[k] + 1, at[k + 1] - 1)]

TitleSegments(title) == FlattenSeq([i \in DOMAIN title |-> Cut(Redacted(title[i]))])

QualifierOnly(segment) == Len(segment) = 1 /\ segment[1] \in NotRequired \cup Preference
Blank(segment) == segment \in {<<>>, <<" ">>}

\* The nearest on either side that are not blank.
Neighbours(segments, i) ==
    LET there == {j \in DOMAIN segments : ~Blank(segments[j])}
        before == {j \in there : j < i}
        behind == {j \in there : j > i}
    IN {segments[j] : j \in (IF before = {} THEN {} ELSE {Max(before)})
                         \cup (IF behind = {} THEN {} ELSE {Min(behind)})}

Qualified(segments, i) ==
    LET segment == segments[i]
    IN \/ \E k \in DOMAIN segment : segment[k] \in NotRequired
       \/ segment[1] \in Preference \/ Last(segment) \in Preference
       \/ \E neighbour \in Neighbours(segments, i) : QualifierOnly(neighbour)

Union(bounds) == [minimum |-> UNION {b.minimum : b \in bounds},
                  maximum |-> UNION {b.maximum : b \in bounds}]

SegmentBounds(segments, i) ==
    LET segment == segments[i]
        short == PhraseAt(segment, Values, 1)
        forward == Phrases(segment, ForwardPhrases)
        labelled == Phrases(segment, LabelValues)
    IN CASE QualifierOnly(segment) \/ Blank(segment) -> Nothing
         [] segment = ZeroPhrase -> Zero
         [] OTHER -> IF Qualified(segments, i) THEN Nothing
                     ELSE IF short.last = Len(segment) THEN Union({short})
                     ELSE IF forward # <<>> THEN Union(ToSet(forward))
                     ELSE IF labelled # <<>> THEN Union({labelled[1]})
                     ELSE Nothing

TitleBounds(title) ==
    LET segments == TitleSegments(title)
    IN Union({SegmentBounds(segments, i) : i \in DOMAIN segments})

-----------------------------------------------------------------------------
(***************************************************************************)
(* Descriptions.  A number counts in a sentence that is subject, verb, an  *)
(* object that is the applicant or none, a phrase, and nothing more.       *)
(***************************************************************************)
Subjects == {"you"}
RequireVerbs == {"need"}
AttributionObjects == {"someone-with"}

Frame(sentence) ==
    /\ Len(sentence) > 2
    /\ sentence[1] \in Subjects /\ sentence[2] \in RequireVerbs

Rest(sentence) ==
    From(sentence, IF sentence[3] \in AttributionObjects /\ Len(sentence) > 3 THEN 4 ELSE 3)

SentenceBounds(raw) ==
    LET sentence == Redacted(raw)
        rest == Rest(sentence)
        phrase == PhraseAt(rest, ForwardPhrases, 1)
    IN IF sentence = ZeroPhrase THEN Zero
       ELSE IF ~Frame(sentence) THEN Nothing
       ELSE IF rest = <<"no", "experience">> THEN Zero
       ELSE IF phrase # NoPhrase /\ phrase.last = Len(rest) THEN Union({phrase})
       ELSE Nothing

DescriptionBounds(description) ==
    Union({SentenceBounds(description[i]) : i \in DOMAIN description})

\* Each bound by itself; a range the wrong way round is none.
NotInverted(minimum, maximum) ==
    IF minimum # Unavailable /\ maximum # Unavailable /\ Value[minimum.value] > Value[maximum.value]
    THEN [minimum |-> Unavailable, maximum |-> Unavailable]
    ELSE [minimum |-> minimum, maximum |-> maximum]

Reconciled(title, description) ==
    NotInverted(Combine(title.minimum, description.minimum),
                Combine(title.maximum, description.maximum))

ClassifyExperience(title, description) ==
    Reconciled(TitleBounds(title), DescriptionBounds(description))
=============================================================================
