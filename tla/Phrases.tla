------------------------------ MODULE Phrases ------------------------------
(***************************************************************************)
(* What the free-text classifiers share: phrases found in token sequences, *)
(* masking, and the rule that combines what a title and a description say. *)
(*                                                                         *)
(* seniority.py, remote.py and employment.py each write these helpers      *)
(* anew; they are modelled once, from seniority.py, where they do not      *)
(* differ.  A title is a sequence of segments and a description one of     *)
(* sentences, each a sequence of tokens: the split and the tokenizer are   *)
(* external to the model.  A phrase is a non-empty sequence of tokens.     *)
(***************************************************************************)
EXTENDS Integers, Sequences, SequencesExt, FiniteSets

From(tokens, i) == SubSeq(tokens, i, Len(tokens))

\* A set of positions from left to right.
Ascending(positions) ==
    [k \in 1..Cardinality(positions) |->
       CHOOSE i \in positions : Cardinality({j \in positions : j <= i}) = k]

\* Where phrase occurs.
Starts(tokens, phrase) == {i \in DOMAIN tokens : IsPrefix(phrase, From(tokens, i))}
Span(start, phrase) == <<start, start + Len(phrase) - 1>>

\* The first and last positions of every occurrence of phrase.
Spans(tokens, phrase) == {Span(i, phrase) : i \in Starts(tokens, phrase)}

MaskSpan(masked, span) ==
    IF masked \cap (span[1]..span[2]) = {}
    THEN masked \cup (span[1]..span[2])
    ELSE masked

\* phrases is a sequence, longest first; an occurrence that overlaps a
\* token already masked is left alone.
Masked(tokens, phrases) ==
    LET InOrder(p) == LET at == Ascending(Starts(tokens, p))
                      IN [k \in DOMAIN at |-> Span(at[k], p)]
        spans == FlattenSeq([i \in DOMAIN phrases |-> InOrder(phrases[i])])
    IN FoldLeft(MaskSpan, {}, spans)

\* The tokens at positions outside masked, in order.
Compact(tokens, masked) ==
    LET kept == Ascending(DOMAIN tokens \ masked)
    IN [i \in DOMAIN kept |-> tokens[kept[i]]]

-----------------------------------------------------------------------------
(***************************************************************************)
(* A field's signal is the set of values it is evidence for: none, one, or *)
(* a conflict.  The provenance says which field decided.                   *)
(***************************************************************************)
Unavailable == [value |-> "none", provenance |-> "unavailable"]
Answer(signal, provenance) ==
    [value |-> CHOOSE v \in signal : TRUE, provenance |-> provenance]

\* Mutant: a description overrides the title it disagrees with.
CombineDescriptionWins(title, description) ==
    LET deciding == IF description = {} THEN title ELSE description
    IN IF Cardinality(deciding) # 1
       THEN Unavailable
       ELSE Answer(deciding,
                   IF description = {} THEN "inferred" ELSE "parsed_description")

Combine(title, description) ==
    IF Cardinality(title \cup description) # 1
    THEN Unavailable
    ELSE Answer(title \cup description,
                IF description = {} THEN "inferred" ELSE "parsed_description")
=============================================================================
