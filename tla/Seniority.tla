----------------------------- MODULE Seniority -----------------------------
(***************************************************************************)
(* normalization/seniority.py: the tier of a posting from its title and    *)
(* description.  A catalogue is a set of <<tier, phrase>>; each holds one  *)
(* phrase of every shape the code's own lists have: bare phrases of one    *)
(* and two tokens, an abbreviation only titles support, explicit phrases   *)
(* of two and three tokens, exclusions, an anchor, prefixes.               *)
(***************************************************************************)
EXTENDS Phrases

DescriptionBare == {<<"entry_level", <<"entry", "level">> >>,
                    <<"senior", <<"senior">> >>, <<"staff", <<"staff">> >>}
TitleBare == DescriptionBare \cup {<<"senior", <<"sr">> >>}
Explicit == {<<"principal", <<"principal", "engineer">> >>,
             <<"director", <<"director", "of", "product">> >>,
             <<"director", <<"product", "director">> >>}
Roots == TitleBare \cup {<<"principal", <<"principal">> >>,
                         <<"director", <<"director">> >>}
Exclusions == << <<"senior", "vice", "president">>, <<"senior", "living">> >>
Anchor == <<"seeking">>
Articles == {<<"a">>}
Negators == {<<"not">>, <<"neither">>, <<"not", "either">>}
Punctuation == {",", "/"}

\* What may stand between the anchor and the first candidate.
NegatedLeadIns == {n \o a : n \in Negators, a \in Articles \cup {<<>>}}
LeadIns == NegatedLeadIns \cup Articles \cup {<<>>}

Visible(tokens) == Compact(tokens, Masked(tokens, Exclusions))

-----------------------------------------------------------------------------
Heads(tokens, catalogue) == {entry \in catalogue : IsPrefix(entry[2], tokens)}

Longest(entries) ==
    {e \in entries : \A f \in entries : Len(f[2]) <= Len(e[2])}

\* A senior alias directly before a bare staff or principal.
Compounds(bare) ==
    {<<tier, senior[2] \o <<tier>> >> :
        senior \in {e \in bare : e[1] = "senior"}, tier \in {"staff", "principal"}}

\* At most one entry: what the tokens begin with, looking no further.
LeadingQualifier(tokens, bare) ==
    LET compound == Heads(tokens, Compounds(bare))
    IN IF compound # {} THEN compound ELSE Longest(Heads(tokens, bare \cup Explicit))

\* Every tier whose root word stands anywhere behind a title's match.
TrailingTiers(trailing) ==
    {root[1] : root \in {r \in Roots : Spans(trailing, r[2]) # {}}}

SegmentTiers(segment) ==
    LET tokens == Visible(segment)
    IN UNION {{match[1]} \cup TrailingTiers(From(tokens, Len(match[2]) + 1)) :
                match \in LeadingQualifier(tokens, TitleBare)}

TitleSignal(title) == UNION {SegmentTiers(title[i]) : i \in DOMAIN title}

-----------------------------------------------------------------------------
\* The tier of a root word directly behind a match, punctuation aside.
ImmediateTier(trailing, tier) ==
    LET words == SelectInSubSeq(trailing, 1, Len(trailing), LAMBDA t : t \notin Punctuation)
        behind == IF words = 0 THEN <<>> ELSE From(trailing, words)
    IN {root[1] : root \in Heads(behind, Roots)} \ {tier}

CoordinationGap(tokens) ==
    IF tokens = <<>> \/ Head(tokens) \notin {"or", "nor"}
    THEN 0
    ELSE IF Len(tokens) > 1 /\ <<tokens[2]>> \in Articles THEN 2 ELSE 1

\* The tiers named behind a matched anchor and prefix: the first candidate,
\* a root word joined to it, or a second, coordinated candidate.
NamedTiers(tokens) ==
    UNION {LET behind == From(tokens, Len(first[2]) + 1)
               joined == ImmediateTier(behind, first[1])
               gap == CoordinationGap(behind)
               second == IF joined # {} \/ gap = 0
                         THEN {}
                         ELSE LeadingQualifier(From(behind, gap + 1), DescriptionBare)
           IN {first[1]} \cup joined \cup {e[1] : e \in second} :
             first \in LeadingQualifier(tokens, DescriptionBare)}

\* Mutant: a negated first candidate does not suppress the second.
SentenceTiersSecondSurvives(sentence) ==
    LET tokens == Visible(sentence)
        remainder == From(tokens, Len(Anchor) + 1)
        prefix == CHOOSE p \in LeadIns :
                    /\ IsPrefix(p, remainder)
                    /\ \A q \in LeadIns : IsPrefix(q, remainder) => Len(q) <= Len(p)
        behind == From(remainder, Len(prefix) + 1)
        first == {e[1] : e \in LeadingQualifier(behind, DescriptionBare)}
    IN IF ~IsPrefix(Anchor, tokens)
       THEN {}
       ELSE IF prefix \in NegatedLeadIns THEN NamedTiers(behind) \ first
                                          ELSE NamedTiers(behind)

SentenceTiers(sentence) ==
    LET tokens == Visible(sentence)
        remainder == From(tokens, Len(Anchor) + 1)
        prefix == CHOOSE p \in LeadIns :
                    /\ IsPrefix(p, remainder)
                    /\ \A q \in LeadIns : IsPrefix(q, remainder) => Len(q) <= Len(p)
    IN IF ~IsPrefix(Anchor, tokens) \/ prefix \in NegatedLeadIns
       THEN {}
       ELSE NamedTiers(From(remainder, Len(prefix) + 1))

DescriptionSignal(description) ==
    UNION {SentenceTiers(description[i]) : i \in DOMAIN description}

ClassifySeniority(title, description) ==
    Combine(TitleSignal(title), DescriptionSignal(description))

-----------------------------------------------------------------------------
(***************************************************************************)
(* What a description states, written as a grammar: an anchor, a prefix    *)
(* that does not negate, and a phrase, in one sentence with its exclusions *)
(* taken out.  Nothing is said of the order in which they are tried.       *)
(***************************************************************************)
StatedTiers(sentence) ==
    {entry[1] : entry \in
        {e \in DescriptionBare \cup Explicit \cup Compounds(DescriptionBare) :
            \E p \in Articles \cup {<<>>} : IsPrefix(Anchor \o p \o e[2], Visible(sentence))}}
=============================================================================
