------------------------------- MODULE Salary -------------------------------
(***************************************************************************)
(* normalization/salary.py: bounds, currency and period of a compensation  *)
(* text.  The text is a sequence of tokens after NFKC and lowercasing;     *)
(* " " is one run of covered whitespace, and each catalogue holds a word   *)
(* of every kind the code's list has.  A number's digits, grouping and     *)
(* scale are a Figure; an optional answer is a set of at most one value.   *)
(***************************************************************************)
EXTENDS Phrases

CONSTANTS
    Figures,    \* of each number token: its digits, whether grouping and
                \* decimals are in order, and whether a k follows
    Int32Max    \* the largest value of an INTEGER column

Figure == [digits : Nat, wellFormed : BOOLEAN, k : BOOLEAN]

Labels == {"salary"}
Currencies == {"USD", "CAD", "AUD", "GBP", "EUR"}
Codes == {"USD", "GBP"}
Symbols == {"dollar", "pound"}
CompatibleCodes == [dollar |-> {"USD", "CAD", "AUD"}, pound |-> {"GBP"}]
UniqueCode == [pound |-> "GBP"]
SupportedPeriods == [yearly |-> "annual", slash_hr |-> "hourly"]
WordPeriods == {"yearly", "weekly"}
SlashPeriods == {"slash_hr", "slash_wk"}
Periods == WordPeriods \cup SlashPeriods

-----------------------------------------------------------------------------
(***************************************************************************)
(* The lexical envelope: the whole text is one expression.                 *)
(***************************************************************************)
Space == <<" ">>
Perhaps(parts) == {<<>>} \cup parts

LabelPrefixes == Perhaps({<<l>> \o b : l \in Labels, b \in {<<":">>, <<":", " ">>, Space}})
CodePrefixes == Perhaps({<<c>> \o Space : c \in Codes})
CodeSuffixes == Perhaps({Space \o <<c>> : c \in Codes})
PeriodSuffixes == Perhaps({b \o <<p>> : b \in {<<>>, Space}, p \in SlashPeriods}
                          \cup {Space \o <<p>> : p \in WordPeriods})

\* What an operand may have before its number.
Heads == {sign \o symbol \o gap : sign \in Perhaps({<<"-">>}),
                                  symbol \in Perhaps({<<s>> : s \in Symbols}),
                                  gap \in Perhaps({Space})}

\* A shape is what stands before, between and behind its operands.
OneOperand ==
    {[name |-> "single", before |-> <<>>, behind |-> <<>>],
     [name |-> "open_lower", before |-> <<>>, behind |-> <<"+">>],
     [name |-> "open_upper", before |-> <<"up-to", " ">>, behind |-> <<>>]}
TwoOperands ==
    {[name |-> "range", before |-> <<>>, between |-> gap \o <<"-">>] : gap \in Perhaps({Space})}
    \cup {[name |-> "range", before |-> <<>>, between |-> gap \o <<"-", " ">>] :
             gap \in Perhaps({Space})}
    \cup {[name |-> "range", before |-> <<>>, between |-> <<" ", "to", " ">>],
          [name |-> "range", before |-> <<"between", " ">>, between |-> <<" ", "and", " ">>]}

Rest(prefix, tokens) == SubSeq(tokens, Len(prefix) + 1, Len(tokens))
Most(suffix, tokens) == SubSeq(tokens, 1, Len(tokens) - Len(suffix))
Operand(head, number) ==
    [negative |-> "-" \in ToSet(head), symbols |-> ToSet(head) \cap Symbols, number |-> number]

\* The ways to read tokens as amounts.
Amounts(tokens) ==
    LET at == Ascending({i \in DOMAIN tokens : tokens[i] \in DOMAIN Figures})
        Ahead == SubSeq(tokens, 1, at[1] - 1)
        After == SubSeq(tokens, at[1] + 1, Len(tokens))
        Between == SubSeq(tokens, at[1] + 1, at[2] - 1)
    IN CASE Len(at) = 1 ->
              {[name |-> s.name, operands |-> <<Operand(Rest(s.before, Ahead), tokens[at[1]])>>] :
                  s \in {x \in OneOperand : /\ IsPrefix(x.before, Ahead)
                                            /\ Rest(x.before, Ahead) \in Heads
                                            /\ After = x.behind}}
         [] Len(at) = 2 /\ at[2] = Len(tokens) ->
              {[name |-> s.name,
                operands |-> <<Operand(Rest(s.before, Ahead), tokens[at[1]]),
                               Operand(Rest(s.between, Between), tokens[at[2]])>>] :
                  s \in {x \in TwoOperands : /\ IsPrefix(x.before, Ahead)
                                             /\ Rest(x.before, Ahead) \in Heads
                                             /\ IsPrefix(x.between, Between)
                                             /\ Rest(x.between, Between) \in Heads}}
         [] OTHER -> {}

\* The ways to read a whole text.
Matches(text) ==
    LET Cut(prefixes, tokens) == {p \in prefixes : IsPrefix(p, tokens)}
        CutEnd(suffixes, tokens) == {s \in suffixes : IsSuffix(s, tokens)}
    IN UNION {UNION {UNION {UNION {
           {[labelled |-> l # <<>>,
             codes |-> (ToSet(b) \cup ToSet(s)) \cap Codes,
             period |-> ToSet(p) \ {" "},
             name |-> a.name, operands |-> a.operands] :
                a \in Amounts(Most(s, Most(p, Rest(b, Rest(l, text)))))} :
            s \in CutEnd(CodeSuffixes, Most(p, Rest(b, Rest(l, text))))} :
            p \in CutEnd(PeriodSuffixes, Rest(b, Rest(l, text)))} :
            b \in Cut(CodePrefixes, Rest(l, text))} :
            l \in Cut(LabelPrefixes, text)}

-----------------------------------------------------------------------------
(***************************************************************************)
(* What the slots of a match are worth.                                    *)
(***************************************************************************)
Stripped(tokens) ==
    LET ahead == IF IsPrefix(Space, tokens) THEN Rest(Space, tokens) ELSE tokens
    IN IF IsSuffix(Space, ahead) THEN Most(Space, ahead) ELSE ahead

\* One full stop at the end is harmless, two are not.
NormalizeField(text) ==
    LET t == Stripped(text)
    IN IF IsSuffix(<<".">>, t) /\ ~IsSuffix(<<".", ".">>, t)
       THEN Stripped(Most(<<".">>, t))
       ELSE t

ParseOperand(operand) ==
    LET f == Figures[operand.number]
        amount == IF f.k THEN f.digits * 1000 ELSE f.digits
    IN IF operand.negative \/ ~f.wellFormed \/ amount > Int32Max THEN {} ELSE {amount}

\* Mutant: an explicit code decides, whatever symbol stands beside it.
ResolveCurrencyCodeWins(codes, symbols) ==
    IF Cardinality(codes) > 1 \/ Cardinality(symbols) > 1
    THEN {}
    ELSE IF codes # {} THEN codes
                       ELSE {UniqueCode[s] : s \in symbols \cap DOMAIN UniqueCode}

ResolveCurrency(codes, symbols) ==
    IF Cardinality(codes) > 1 \/ Cardinality(symbols) > 1
    THEN {}
    ELSE IF codes # {}
         THEN {c \in codes : \A s \in symbols : c \in CompatibleCodes[s]}
         ELSE {UniqueCode[s] : s \in symbols \cap DOMAIN UniqueCode}

\* A k behind the last of two amounts counts for the first.
SharedTrailingK(first, last, amount) ==
    IF Figures[first.number].k \/ ~Figures[last.number].k
    THEN amount
    ELSE {a * 1000 : a \in {x \in amount : x * 1000 <= Int32Max}}

\* The pairs <<minimum, maximum>> of a match, each a set.
Bounds(match) ==
    LET first == match.operands[1]
        last == Last(match.operands)
        lower == IF match.name = "range"
                 THEN SharedTrailingK(first, last, ParseOperand(first))
                 ELSE ParseOperand(first)
        upper == ParseOperand(last)
    IN CASE match.name = "single" -> <<lower, lower>>
         [] match.name = "open_lower" -> <<lower, {}>>
         [] match.name = "open_upper" -> <<{}, lower>>
         [] OTHER -> IF \E a \in lower, b \in upper : a <= b
                     THEN <<lower, upper>>
                     ELSE <<{}, {}>>

NothingKnown == [minimum |-> {}, maximum |-> {}, currency |-> {}, period |-> {}]

ClassifySalary(text) ==
    LET matches == Matches(NormalizeField(text))
        match == CHOOSE m \in matches : TRUE
        symbols == UNION {match.operands[i].symbols : i \in DOMAIN match.operands}
        supported == match.period \subseteq DOMAIN SupportedPeriods
        bounds == IF supported THEN Bounds(match) ELSE <<{}, {}>>
    IN IF matches = {} \/ ~(match.labelled \/ match.codes # {} \/ symbols # {})
       THEN NothingKnown
       ELSE [minimum |-> bounds[1], maximum |-> bounds[2],
             currency |-> ResolveCurrency(match.codes, symbols),
             period |-> IF supported THEN {SupportedPeriods[p] : p \in match.period} ELSE {}]
=============================================================================
