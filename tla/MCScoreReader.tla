--------------------------- MODULE MCScoreReader ---------------------------
(* Scores of a few lines over small vocabularies, one for each question.    *)
EXTENDS ScoreText

MCWord == {"x", "y", "text", "scene", "run", "set", "rate", "if", "else", "as", "snapshot",
           "n", "extern", "fn", "scan", "by", "for", "from", "each", "in", "fade"}
MCClock == "1s" :> [v |-> 10, unit |-> "s"] @@ "2s" :> [v |-> 20, unit |-> "s"]
             @@ "20%" :> [v |-> 2, unit |-> "%"]
MCWindow == "0-.5" :> [a |-> 0, b |-> 5, unit |-> ""]

L(ind, txt) == [ind |-> ind, txt |-> txt]
Upto(n, ls) == UNION {[1..k -> ls] : k \in 1..n}
Assign(ts) == <<L(0, <<"x", "=">> \o ts)>>

Structure ==
  {L(0, <<>>), L(0, <<"x", "=", "y">>), L(0, <<"x", ":", "snapshot", "y">>),
   L(0, <<"scene", "x", ":">>), L(0, <<"run", "x">>),
   L(0, <<"text", "x", ":">>), L(1, <<"text", "y", ":">>), L(1, <<"x", ":">>), L(2, <<"y", ":">>),
   L(1, <<"x", ":", "y">>), L(2, <<"set", "x", ":", "1">>), L(3, <<"x", ":", "y">>),
   L(0, <<"x", "[", "y", "as", "n", "]", ":">>), L(0, <<"|", "1s", "|", "x", "->", "y">>)}
Bars ==
  {L(0, <<>>), L(0, <<"|", "1s">>), L(0, <<"|", "1s", "|", "x", "->", "y">>),
   L(0, <<"|", "2s", "|", "x", "->", "y">>), L(0, <<"|", "20%", "|", "x", "->", "y">>),
   L(0, <<"|", "2s", "|", "transition", ":", "morph", "|", "x", "->", "y">>),
   L(0, <<"|", "each", "x", "as", "y", "1s">>),
   L(0, <<"|", "0-.5", "|", "ease", ":", "in", "|", "x", "->", "y">>),
   L(0, <<"|", "in", ":", "fade", "|", "x", ",", "y">>), L(0, <<"|", "x", "->", "y", "|", "1s">>),
   L(0, <<"x", "=", "y">>)}
Joins ==
  {L(0, <<"x", "=", "(">>), L(1, <<"y", ")", "#", "n">>), L(1, <<"y", "#", "(">>),
   L(0, <<"x", "=", Quote, "#", Space>>), L(0, <<"#", Quote>>), L(0, <<"x", "=", "y", "#", Quote>>),
   L(0, <<"#">>), L(0, <<")">>)}
Literals ==
  {L(1, <<"x", ":", Quote, "y", Space>>), L(2, <<"n", Space>>), L(0, <<>>), L(1, <<Quote>>),
   L(1, <<"x", ":", "scan", "(", Quote>>), L(3, <<Quote, "by", "n", ")">>)}
Scalars ==
  {L(0, <<"text", "x", ":">>), L(1, <<"x", ":", "|">>), L(2, <<Quote, "n">>), L(3, <<Backslash, "n">>),
   L(2, <<Backslash, Quote, "#">>), L(0, <<>>), L(1, <<"y", ":", "1">>)}
SumAtoms == {"x", "1", ".", "+", "-", "*", "(", ")"}
ChoiceAtoms == {"x", "?", ":", "if", "else", ".", "-", "snapshot"}
SuffixAtoms == {"x", "[", "]", "*", "(", ")", ",", "{", "}", ":", "@", "1", "%"}

\* Longer texts made of whole operands: three with two operators, choices
\* within a choice, up to three suffixes on a value.
Sums ==
  LET Values == {<<"x">>, <<"-", "x">>, <<"(", "x", "-", "y", ")">>, <<"1">>, <<".", "1">>}
      Ops == {<<"+">>, <<"*">>, <<"/">>, <<".", ".">>, <<"<", "=">>, <<".">>}
  IN  {a \o f \o b \o g \o c : a, b, c \in Values, f, g \in Ops}
Alternatives ==
  LET Simple == {<<"x">>, <<"-", "x">>, <<"snapshot", "x">>}
      Of(es) == {a \o <<"?">> \o b \o <<":">> \o c : a, b, c \in es}
                  \cup {a \o <<"if">> \o b \o <<"else">> \o c : a, b, c \in es}
  IN  Of(Simple \cup {<<"x", "?", "y", ":", "n">>, <<"(", "x", "if", "y", "else", "n", ")">>,
                      <<"x", "if", "y", "else", "n">>, <<"x", ".", ".", "y">>})
Suffixed ==
  LET Bases == {<<"x">>, <<"-", "x">>, <<"snapshot", "x">>, <<"(", "x", ")">>, <<"[", "x", ",", "1", "]">>, <<"1">>}
      Tails == {<<>>, <<"[", "y", "]">>, <<"[", "*", "as", "n", "]">>, <<"(", "y", ",", "x", ")">>, <<"(", ")">>,
                 <<"{", "y", ":", "1", ",", "n", ":", "x", "}">>, <<"@", "1", "%">>, <<".", "y">>, <<".", "1">>}
  IN  {a \o f \o g \o h : a \in Bases, f, g, h \in Tails}

\* Rows over groups: x has two elements, y is a family of keys 3 and 5, n has
\* no elements, any other name is one entity.
MCKeys == [w \in MCWord |-> CASE w = "x" -> <<0, 1>> [] w = "y" -> <<3, 5>> [] w = "n" -> <<>>
                              [] OTHER -> <<0>>]
Starred == {<<"1">>, <<"x", "[", "*", "]">>, <<"text", "[", "*", "as", "fn", "]", ".", "x">>,
            <<"y", "[", "text", "[", "*", "]", "]">>, <<"n", "[", "*", "]">>}
Targets == {<<"x">>, <<"x", "[", "*", "]">>, <<"y", "[", "*", "as", "by", "]", ".", "x">>,
            <<"x", "[", "*", "]", "[", "*", "]">>,
            <<"x", "[", "*", "as", "fn", "]", ".", "n", "[", "y", "[", "*", "]", "]">>}
Starry ==
  {<<L(0, <<"|", "1s", "|">> \o l \o <<"->">> \o r)>> :
     l \in Targets,
     r \in Starred \cup {a \o <<"+">> \o b : a, b \in Starred}
              \cup {a \o <<"if">> \o b \o <<"else">> \o a : a, b \in Starred}}

\* The scores of a few lines: up to three of any kind, and a fourth below the
\* header of a family or below a block with its first row.
MCDocuments ==
  Upto(3, Structure) \cup {<<L(0, <<"x", "[", "y", "as", "n", "]", ":">>)>> \o ls : ls \in Upto(3, Structure)}
    \cup Upto(3, Bars) \cup {<<L(0, <<"|", "1s", "|", "x", "->", "y">>)>> \o ls : ls \in Upto(3, Bars)}
    \cup Upto(4, Joins) \cup {<<L(0, <<"text", "x", ":">>)>> \o ls : ls \in Upto(4, Literals)}
    \cup Upto(4, Scalars) \cup Starry
    \cup {Assign(ts) : ts \in Upto(4, SumAtoms) \cup Upto(4, ChoiceAtoms) \cup Upto(3, SuffixAtoms)
                                \cup Sums \cup Alternatives \cup Suffixed}
=============================================================================
