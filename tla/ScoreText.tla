----------------------------- MODULE ScoreText -----------------------------
(***************************************************************************)
(* What reading the expressions and rows of a score promises, against      *)
(* definitions that look at the source and at the result and at nothing in *)
(* between.                                                                *)
(***************************************************************************)
EXTENDS ScoreLayout, Broadcast, Dependencies

(***************************************************************************)
(* The text of a tree with no bracket that precedence does not call for,   *)
(* by the table of operators the language documents: a conditional binds   *)
(* loosest, then a range, comparisons, sums, products, the prefixes, and   *)
(* what follows a value tightest.                                          *)
(***************************************************************************)
Strength(e) ==
  CASE e.k = "cond" -> 0
    [] e.k = "range" -> 1
    [] e.k = "bin" -> CASE e.s[1] \in {"+", "-"} -> 3 [] e.s[1] \in {"*", "/", "%"} -> 4 [] OTHER -> 2
    [] e.k \in {"neg", "snapshot"} -> 5
    [] OTHER -> 6

Listed(es) == FoldLeft(LAMBDA s, e : IF s = <<>> THEN e ELSE s \o <<",">> \o e, <<>>, es)

RECURSIVE Show(_, _)
Show(e, strength) ==
  LET x(i, n) == Show(e.xs[i], n)
      All(from) == Listed([i \in 1..(Len(e.xs) - from + 1) |-> x(from + i - 1, 0)])
      text ==
        CASE e.k \in {"num", "id"} -> e.s
          [] e.k = "str" -> <<Quote>> \o Escaped(e.s) \o <<Quote>>
          [] e.k = "cond" -> x(2, 1) \o <<"?">> \o x(1, 0) \o <<":">> \o x(3, 0)
          [] e.k = "range" -> x(1, 2) \o <<".", ".">> \o x(2, 2)
          [] e.k = "bin" -> x(1, Strength(e)) \o e.s \o x(2, Strength(e) + 1)
          [] e.k = "neg" -> <<"-">> \o x(1, 5)
          [] e.k = "snapshot" -> <<"snapshot">> \o x(1, 5)
          [] e.k = "attr" -> \* 1.2 is one number
               x(1, IF e.xs[1].k = "num" /\ "." \notin Range(e.xs[1].s) /\ e.s[1] \in Digit
                       THEN 7 ELSE 6) \o <<".">> \o e.s
          [] e.k = "call" -> x(1, 6) \o <<"(">> \o All(2) \o <<")">>
          [] e.k = "index" -> x(1, 6) \o <<"[">> \o x(2, 0) \o <<"]">>
          [] e.k = "star" -> x(1, 6) \o <<"[", "*">>
                               \o (IF e.s = <<>> THEN <<>> ELSE <<"as">> \o e.s) \o <<"]">>
          [] e.k = "alpha" -> x(1, 6) \o <<"@">> \o e.s \o <<"%">>
          [] e.k = "list" -> <<"[">> \o All(1) \o <<"]">>
          [] OTHER -> \* a constructor
               <<e.s[1], "{">>
                 \o Listed([i \in DOMAIN e.xs |-> <<e.s[i + 1], ":">> \o x(i, 0)]) \o <<"}">>
  IN  IF Strength(e) < strength THEN <<"(">> \o text \o <<")">> ELSE text

Bracketless(s) == SelectSeq(s, LAMBDA c : c \notin {"(", ")"})

\* The captures of an accepted score, and the text each was read from.
TopCaptures == {i \in DOMAIN tree : tree[i].k = "capture"}
SourceOf(line) ==
  Content(Rest((CHOOSE l \in {lines[i] : i \in DOMAIN lines} : l.line = line).txt, 2))

\* ParseExpr groups what the text says: the tree's text without the brackets
\* precedence makes superfluous is the source without superfluous brackets,
\* and reads as the same tree again.
SameText(e, text, src) ==
  /\ ParseExpr(text).e = e
  /\ Len(text) <= Len(src)
  /\ ~Contains(src, "if") => Bracketless(text) = Bracketless(src)
ReadsAsWritten ==
  stage = "done" =>
    \A i \in TopCaptures :
      SameText(tree[i].e, Show(tree[i].e, 0), SourceOf(tree[i].line))

\* exprDeps: a live name follows every name it reads outside a snapshot, and
\* only those (a path is named by its first name).
RECURSIVE ReadNames(_)
ReadNames(e) ==
  IF e.k = "snapshot" THEN {}
  ELSE (IF e.k = "id" THEN {e.s[1]} ELSE {}) \cup UNION {ReadNames(e.xs[i]) : i \in DOMAIN e.xs}
FollowsWhatItReads ==
  stage = "done" =>
    \A i \in TopCaptures :
      tree[i].k = "capture" => {d[1] : d \in Deps(tree[i].e)} = ReadNames(tree[i].e)

(***************************************************************************)
(* Rows over [*].                                                          *)
(***************************************************************************)
\* The stars of a text in the order they are written: where each begins and
\* ends, the choices for it, and the name it binds.
StarsOf(s) ==
  LET begins == SetToSortSeq({i \in 1..(Len(s) - 2) : s[i] = "[" /\ s[i + 1] = "*"}, <)
      Ends(i) == IF s[i + 2] = "]" THEN i + 2 ELSE i + 4
  IN  [n \in DOMAIN begins |->
         LET i == begins[n]
         IN  [from |-> i, to |-> Ends(i), name |-> SubSeq(s, i + 3, Ends(i) - 1),
              \* an attribute or an index is one entity
              keys |-> IF s[i - 1] \in Word /\ ~At(s, i - 2, {"."}) THEN Keys[s[i - 1]] ELSE <<0>>]]

\* The text with the nth star replaced by the nth index.
WithIndexes(s, stars, indexes) ==
  LET Before(n) == IF n = 1 THEN 1 ELSE stars[n - 1].to + 1
  IN  FlattenSeq([n \in DOMAIN stars |->
        SubSeq(s, Before(n), stars[n].from - 1) \o <<"[", ToString(indexes[n]), "]">>])
      \o SubSeq(s, Before(Len(stars) + 1), Len(s))

\* All choices, the last star's turning fastest.
Odometer(stars) ==
  LET Add(rows, star) == Each(rows, LAMBDA r : [n \in DOMAIN star.keys |-> Append(r, star.keys[n])])
  IN  FoldLeft(Add, <<<<>>>>, stars)

ArrowText(l, r) == Show(l, 0) \o <<"->">> \o Show(r, 0)
\* The animation chosen for the indexes in row.
ForElements(a, text, stars, row) ==
  /\ ArrowText(a.target, a.goal) = WithIndexes(text, stars, row)
  /\ Letters(a.b) = SubSeq(row, 1, Min({4, Len(stars)}))
  /\ \A m \in DOMAIN stars : stars[m].name # <<>> =>
       LET last == Max({q \in DOMAIN stars : stars[q].name = stars[m].name})
       IN  Contains(a.b.named, [name |-> stars[m].name, key |-> row[last]])
\* All animations of a row whose left side is l.
StandsFor(l, text, left, stars, rows, all) ==
  LET Target(row) == WithIndexes(l, left, row)
  IN  /\ all.ok <=> \A m, n \in DOMAIN rows : m # n => Target(rows[m]) # Target(rows[n])
      /\ all.ok =>
           /\ Len(all.anims) = Len(rows)
           /\ \A n \in DOMAIN rows : /\ ForElements(all.anims[n], text, stars, rows[n])
                                      /\ all.anims[n].from = (n - 1) * 5

\* A row stands for one animation per choice of an element for each of its
\* stars, those of its right side included, in the order of the elements and
\* a stagger apart: each writes and reads the elements chosen, the nth star is
\* bound to the nth of i, j, k, l and to its own name, and no target is
\* written twice (expandArrow, expandExprStars).
EveryElementOnce ==
  stage = "done" =>
    \A s \in {t \in Range(tree) : t.k = "block"} : \A r \in Range(s.rows) :
      r.op.k = "arrow" =>
        LET l == Show(r.op.xs[1], 0)
            text == ArrowText(r.op.xs[1], r.op.xs[2])
        IN  StandsFor(l, text, StarsOf(l), StarsOf(text), Odometer(StarsOf(text)),
                      ExpandArrow(r.op.xs[1], r.op.xs[2], 5))
=============================================================================
