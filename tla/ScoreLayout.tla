---------------------------- MODULE ScoreLayout ----------------------------
(***************************************************************************)
(* What reading the lines of a score promises, against definitions that    *)
(* look at the source and at the result and at nothing in between.         *)
(***************************************************************************)
EXTENDS ScoreReader

(***************************************************************************)
(* Lines and statements.                                                   *)
(***************************************************************************)
WrittenLines == {lines[i].line : i \in {j \in DOMAIN lines : lines[j].txt # <<>>}}
FieldLines(f) == {f.line} \cup Range(f.below)
RecordLines(r) == {r.line} \cup UNION {FieldLines(f) : f \in Range(r.fields)}
FlatLines(s) ==
  CASE s.k = "record" -> RecordLines(s)
    [] s.k = "block" -> {s.line} \cup {r.line : r \in Range(s.rows)}
    [] s.k = "family" -> {s.line} \cup {l.line : l \in Range(s.locals)}
                           \cup UNION {RecordLines(m) : m \in Range(s.members)}
    [] OTHER -> {s.line}
StmtLines(s) ==
  IF s.k = "sceneDef" THEN {s.line} \cup UNION {FlatLines(b) : b \in Range(s.body)}
  ELSE FlatLines(s)

\* What is read of a statement stands below its header in the order it was
\* written in, and no line of it is part of two of its parts.
Above(ls, ms) == \A l \in ls, m \in ms : l < m
RecordInOrder(r) ==
  /\ \A n \in DOMAIN r.fields :
       LET f == r.fields[n]
       IN  /\ r.line < f.line /\ Above({f.line}, Range(f.below))
           /\ \A i, j \in DOMAIN f.below : i < j => f.below[i] < f.below[j]
  /\ \A i, j \in DOMAIN r.fields : i < j => Above(FieldLines(r.fields[i]), FieldLines(r.fields[j]))
BlockInOrder(b) ==
  /\ b.inline => b.rows # <<>> /\ b.rows[1].line = b.line
  /\ \A n \in DOMAIN b.rows : (b.inline /\ n = 1) \/ b.line < b.rows[n].line
  /\ \A i, j \in DOMAIN b.rows : i < j => b.rows[i].line < b.rows[j].line
FamilyInOrder(f) ==
  /\ \A l \in Range(f.locals) : f.line < l.line
  /\ \A m \in Range(f.members) : f.line < m.line /\ RecordInOrder(m)
  /\ \A i, j \in DOMAIN f.locals : i < j => f.locals[i].line < f.locals[j].line
  /\ \A i, j \in DOMAIN f.members : i < j => Above(RecordLines(f.members[i]), RecordLines(f.members[j]))
  /\ \A l \in Range(f.locals), m \in Range(f.members) :
       l.line < m.line \/ Above(RecordLines(m), {l.line})
InOrder(s) ==
  /\ s.k = "record" => RecordInOrder(s)
  /\ s.k = "block" => BlockInOrder(s)
  /\ s.k = "family" => FamilyInOrder(s)

\* The statements of all parts.
Statements == Range(tree) \cup UNION {Range(s.body) : s \in {d \in Range(tree) : d.k = "sceneDef"}}
Records == {s \in Statements : s.k = "record"}
             \cup UNION {Range(s.members) : s \in {f \in Statements : f.k = "family"}}
Headers == {s.line : s \in Statements \cup Records}
             \cup UNION {{l.line : l \in Range(s.locals)} : s \in {f \in Statements : f.k = "family"}}

\* No line of an accepted score is dropped or read twice, blank lines and
\* comments apart, and what is read keeps the order it was written in.
EveryLineOnce ==
  stage = "done" =>
    /\ UNION {StmtLines(s) : s \in Range(tree)} = WrittenLines
    /\ \A i, j \in DOMAIN tree : i < j => Above(StmtLines(tree[i]), StmtLines(tree[j]))
    /\ \A s \in Range(tree) : s.k = "sceneDef" =>
         /\ \A b \in Range(s.body) : Above({s.line}, FlatLines(b))
         /\ \A i, j \in DOMAIN s.body : i < j => Above(FlatLines(s.body[i]), FlatLines(s.body[j]))
    /\ \A s \in Statements : InOrder(s)

\* A field belongs to the header that is nearest above it.
FieldsUnderNearest ==
  stage = "done" =>
    \A r \in Records : \A f \in Range(r.fields) :
      r.line = Max({h \in Headers : h < f.line})

\* parse.go, isInlineBlockHeader: after a block whose header carries its first
\* row, a leading duration is a window only when it is strictly shorter than
\* the block: no row is read with a time that does not fit.
LedByClock(l) ==
  LET cells == SplitCells(Tail(l.txt))
  IN  Len(cells) >= 2 /\ Len(cells[1]) = 1 /\ cells[1][1] \in DOMAIN Clock
        /\ Clock[cells[1][1]].unit # "%"
RowFits(row, dur) ==
  LET l == lines[CHOOSE n \in DOMAIN lines : lines[n].line = row.line]
  IN  LedByClock(l) => Clock[SplitCells(Tail(l.txt))[1][1]].v < dur
RowsFit(b) == \A i \in 2..Len(b.rows) : RowFits(b.rows[i], b.dur)
RowsFitTheirBlock ==
  stage = "done" => \A b \in {s \in Statements : s.k = "block" /\ s.inline} : RowsFit(b)

(***************************************************************************)
(* Physical and logical lines.                                             *)
(***************************************************************************)
\* A string literal is open after s.
Unclosed(s) == Cardinality({j \in DOMAIN s : s[j] = Quote}) % 2 = 1
\* A text without the spaces and line breaks outside its literals.
Blank(s, i) == s[i] \in {Space, NewLine} /\ ~Unclosed(SubSeq(s, 1, i - 1))
Content(s) ==
  FoldLeft(LAMBDA t, i : IF Blank(s, i) THEN t ELSE Append(t, s[i]), <<>>, [i \in DOMAIN s |-> i])
\* The line after the text s, up to a # that is outside every string literal.
Uncommented(s, raw) ==
  LET Comments == {i \in DOMAIN raw.txt : raw.txt[i] = "#" /\ ~Unclosed(s \o SubSeq(raw.txt, 1, i - 1))}
  IN  SubSeq(raw.txt, 1, Min(Comments \cup {Len(raw.txt) + 1}) - 1)
\* What the line after s adds to it: in a literal the line break and the indent
\* belong to the literal.
Added(s, raw, text) == IF Unclosed(s) THEN <<NewLine>> \o Spaces(raw.ind) \o text ELSE text
AsWritten(s, raw) == s \o Added(s, raw, Uncommented(s, raw))
\* The same without the blanks at the end of a line on which a literal opens
\* that stays open.
Kept(s, raw) ==
  LET text == Uncommented(s, raw)
  IN  s \o Added(s, raw, IF ~Unclosed(s) /\ Unclosed(s \o text) THEN TrimRight(text) ELSE text)
WrittenOf(raws) == FoldLeft(AsWritten, <<>>, raws)
KeptOf(raws) == FoldLeft(Kept, <<>>, raws)
TextOf(ls) == FoldLeft(LAMBDA s, l : s \o l.txt, <<>>, ls)
Plain == \A i \in DOMAIN doc : ~Contains(doc[i].txt, Backslash) /\ ~IsScalarKey(doc[i].txt)

\* A block scalar denotes its lines as they stand, whatever characters they
\* hold.
LinesJoined(content) ==
  FoldLeft(LAMBDA s, j : s \o (IF j = 1 THEN <<>> ELSE <<NewLine>>) \o content[j],
           <<>>, [j \in DOMAIN content |-> j])
ScalarsVerbatim ==
  \A r \in Records : \A f \in Range(r.fields) :
    IsScalarKey(doc[f.line].txt) =>
      f.e = Node("str", LinesJoined(Dedented(SubSeq(doc, f.line + 1, BodyEnd(doc, f.line) - 1))), <<>>)

\* Joining lines loses no text, within a literal no line break, no indent and
\* no blank either, those apart that end the line the literal opens on.
\* Comments go, but not a # in a literal. And the literal made of a block
\* scalar is read as the text under its key.
TextKept ==
  /\ stage = "parse" /\ Plain => Content(TextOf(lines)) = Content(KeptOf(doc))
  /\ stage = "done" => ScalarsVerbatim

\* scan.go:52-53, "keep the newline and the text verbatim so the literal's
\* content is exact": nothing within a literal is lost.
LiteralsExact == stage = "done" /\ Plain => Content(TextOf(lines)) = Content(WrittenOf(doc))
=============================================================================
