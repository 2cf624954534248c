--------------------------- MODULE MCNormalization ---------------------------
(***************************************************************************)
(* Token alphabets for Normalization: every sequence over one of them, up  *)
(* to its length, is a title segment or a sentence.                        *)
(***************************************************************************)
EXTENDS Normalization, TLC

Texts(alphabet, length) == BoundedSeq(alphabet, length) \ {<<>>}

MCMaxTokens == [seniority |-> 3, remote_type |-> 3, employment_type |-> 3, experience |-> 7]

Years == Texts({"3", "5", "to", "-", "or-more", "decimal"}, 3)

MCSegments ==
    [seniority |-> Texts({"senior", "staff", "principal", "entry", "level", "living"}, 3),
     remote_type |-> Texts({"remote", "hybrid", "fully", "team"}, 2),
     employment_type |-> Texts({"seasonal", "intern", "contract"}, 2)
                         \cup {<<"to", "perm">>, <<"full", "time">>},
     experience |-> {<<"3", "years">>, <<"5", "years">>, <<"5", "+", "years">>, <<" ">>,
                     <<"preferred">>, <<"not-required">>, <<"3", "years", "preferred">>,
                     <<"5", "years", "experience", "or-fewer">>, X!ZeroPhrase}
                    \cup {n \o <<"years", "experience">> : n \in Years}]

MCSentences ==
    [seniority |-> Texts({"seeking"}, 1)
                   \cup {<<"seeking">> \o t : t \in
                         Texts({"not", "either", "a", "senior", "staff", "or", ",",
                                "principal", "engineer"}, 4)},
     remote_type |-> Texts({"remote", "hybrid", "role", "not", "or", ","}, 4)
                     \cup Texts({"remote", "role", "attend-office", "stipend"}, 3),
     employment_type |-> Texts({"intern", "seasonal", "role", "not", "a"}, 5)
                         \cup {<<"neither">> \o t :
                                t \in Texts({"seasonal", "role", "or", "intern"}, 4)},
     experience |-> {X!ZeroPhrase, <<"you", "need", "no", "experience">>,
                     <<"you", "need", "someone-with", "3", "years", "experience">>,
                     <<"you", "need", "less-than", "5", "years", "experience">>}
                    \cup {<<"you", "need">> \o n \o <<"years", "experience">> :
                          n \in Texts({"3", "5", "8", "decimal", "to", "or-more"}, 3)}]

MCFigures ==
    LET Number(digits, wellFormed, k) == [digits |-> digits, wellFormed |-> wellFormed, k |-> k]
    IN "2" :> Number(2, TRUE, FALSE) @@ "5" :> Number(5, TRUE, FALSE)
       @@ "3k" :> Number(3, TRUE, TRUE) @@ "5k" :> Number(5, TRUE, TRUE)
       @@ "12,5" :> Number(125, FALSE, FALSE)

\* Expressions, complete, glued together or with two codes or two symbols, and
\* any few tokens (a run of spaces is one token, and so is one of digits).
MCCompensations ==
    LET amounts == {h \o <<n>> : h \in {<<>>, <<"dollar">>, <<"pound">>, <<"-">>},
                                 n \in DOMAIN MCFigures}
        One == {b \o a \o e : b \in {<<>>, <<"up-to", " ">>}, a \in amounts, e \in {<<>>, <<"+">>}}
        Two == {a \o s \o b : a \in amounts, b \in amounts,
                               s \in {<<"-">>, <<" ", "-", " ">>, <<" ", "to", " ">>}}
               \cup {<<"between", " ">> \o a \o <<" ", "and", " ">> \o b :
                         a \in amounts, b \in amounts}
        labels == {<<>>, <<"salary">>, <<"salary", " ">>, <<"salary", ":">>}
        periods == {<<>>, <<" ", "yearly">>, <<" ", "weekly">>, <<"slash_hr">>, <<"slash_wk">>}
    IN {l \o c \o a \o d \o p :
            l \in labels, c \in {<<>>, <<"USD">>, <<"USD", " ">>}, a \in One,
            d \in {<<>>, <<" ", "USD">>, <<" ", "GBP">>}, p \in periods}
       \cup {c \o a \o p \o f : c \in {<<>>, <<"USD", " ">>}, a \in Two,
                                 p \in {<<>>, <<" ", "weekly">>}, f \in {<<>>, <<" ", ".">>}}
       \cup {t \in Texts({"salary", " ", "dollar", "2", "-", "GBP"}, 5) :
                \A i \in 1..Len(t) - 1 : t[i] = t[i + 1] => t[i] \notin {" ", "2"}}

\* An arrangement and what may be said of another behind it.
MCArrangements ==
    [f \in TextFields |->
        IF f = "remote_type"
        THEN {<<"remote", "role">> \o t : t \in Texts({"not", "a", "hybrid", "role", ","}, 4)}
        ELSE {}]
MCNoSegments == [f \in TextFields |-> {}]
MCNoCompensations == {}
=============================================================================
