---------------------------- MODULE ScoreReader ----------------------------
(***************************************************************************)
(* From logical lines to statements: internal/pdtt/parse.go. One action    *)
(* per kind of line; p is what parseLogicalLines holds while it reads: the *)
(* statements so far and the record, the block or the family (with its     *)
(* member) that is still open, each a sequence of at most one statement.   *)
(* A score with scene definitions is read part by part.                    *)
(***************************************************************************)
EXTENDS ScoreLines

CONSTANTS
  Clock,       \* the durations: atom -> [v, unit], v in tenths
  Window,      \* the windows: atom -> [a, b]
  Eases, Transitions, Presets, Highlights,   \* the names cells may use
  Documents    \* the sources a run reads

\* A duration is no word of a header, and no identifier holds a colon.
ASSUME ReaderAssumption ==
  /\ Documents \subseteq Seq([ind : Nat, txt : Seq(STRING)])
  /\ \A c \in DOMAIN Clock : Clock[c].v \in Nat
  /\ "each" \notin DOMAIN Clock /\ ":" \notin Word

VARIABLES def, tree, p   \* the line of the scene definition being read or 0, the parts read
vars == <<doc, stage, at, lines, pend, def, tree, p>>

Empty == [stmts |-> <<>>, record |-> <<>>, block |-> <<>>, family |-> <<>>, member |-> <<>>]

(***************************************************************************)
(* Scene definitions (sceneDefHeader, parseSceneDefLines): the lines       *)
(* before the first definition are a part, and so is each definition with  *)
(* all the lines up to the next one.                                       *)
(***************************************************************************)
IsSceneDef(l) ==
  l.ind = 0 /\ Len(l.txt) >= 3 /\ l.txt[1] = "scene" /\ l.txt[2] \in Word /\ Last(l.txt) = ":"
Line == lines[at]
PartEnds == at \in DOMAIN lines => IsSceneDef(Line)

(***************************************************************************)
(* Flushing: an open statement is finished and joins the others.           *)
(***************************************************************************)
\* Mutant: the statement stays open.
FlushedStaysOpen(r, what) == [r EXCEPT !.stmts = @ \o r[what]]

Flush(r, what) == [r EXCEPT !.stmts = @ \o r[what], ![what] = <<>>]
FlushRecord(r) == Flush(r, "record")
FlushBlock(r) == Flush(r, "block")
FlushMember(r) ==
  IF r.member = <<>> THEN r
  ELSE [r EXCEPT !.family[1].members = @ \o r.member, !.member = <<>>]
\* Mutant: the last member of a family is not flushed with it.
FlushWithoutMember(r) == IF r.family = <<>> THEN r ELSE Flush(r, "family")

FlushFamily(r) == IF r.family = <<>> THEN r ELSE Flush(FlushMember(r), "family")

(***************************************************************************)
(* Fields (parseFieldLine, parseRecordFieldLine, parseMultilineGeomField). *)
(***************************************************************************)
Colon(s) == Min({i \in DOMAIN s : s[i] = ":"} \cup {Len(s) + 1})
Rest(s, i) == SubSeq(s, i + 1, Len(s))
NoField == [ok |-> FALSE, name |-> <<>>, e |-> Fail.e, set |-> FALSE, line |-> 0, below |-> <<>>]

\* scan(init by col), the fold of a plural record. Like captureRe and
\* colonBindRe below, foldRe matches no text with a line break in it.
OneLine(s) == ~Contains(s, NewLine)
IsFold(s) ==
  /\ OneLine(s)
  /\ Len(s) >= 6 /\ SubSeq(s, 1, 2) = <<"scan", "(">>
  /\ s[Len(s) - 2] = "by" /\ s[Len(s) - 1] \in Word /\ Last(s) = ")"
FieldText(s) == IF IsFold(s) THEN SubSeq(s, 3, Len(s) - 3) ELSE s
Field(l, s, name, body, r) ==
  IF \/ ~Contains(s, ":") \/ ~r.ok
     \/ name = <<"for">> /\ Len(body) >= 2 /\ body[1] = "from"
  THEN NoField
  ELSE [NoField EXCEPT !.ok = TRUE, !.name = name, !.line = l.line,
          !.e = IF IsFold(body) THEN Node("fold", <<body[Len(body) - 1]>>, <<r.e>>) ELSE r.e,
          !.set = s # l.txt /\ l.txt[1] = "set"]
ParseFieldLine(l) ==
  LET marked == Len(l.txt) >= 2 /\ l.txt[1] \in {"rate", "set"} /\ l.txt[2] \in Word
      s == IF marked THEN Tail(l.txt) ELSE l.txt
      body == Rest(s, Colon(s))
  IN  Field(l, s, SubSeq(s, 1, Colon(s) - 1), body, ParseExpr(FieldText(body)))

\* The constructor below a field's name: a header and deeper field lines.
Deeper(body, header) ==
  SubSeq(body, 1, Min({j \in DOMAIN body : body[j].ind <= header.ind} \cup {Len(body) + 1}) - 1)
GeomField(l, header, fields) ==
  IF \/ Colon(header.txt) # Len(header.txt) \/ Len(header.txt) = 1
     \/ fields = <<>> \/ \E k \in DOMAIN fields : ~fields[k].ok
  THEN NoField
  ELSE [NoField EXCEPT !.ok = TRUE, !.name = Front(l.txt), !.line = l.line,
          !.below = <<header.line>> \o [k \in DOMAIN fields |-> fields[k].line],
          !.e = Node("geom", FoldLeft(LAMBDA s, f : s \o f.name, Front(header.txt), fields),
                     [k \in DOMAIN fields |-> fields[k].e])]

\* The field whose first line is the first of ls.
IsGeomField(ls) ==
  Colon(ls[1].txt) = Len(ls[1].txt) /\ Len(ls) > 1 /\ ls[2].ind > ls[1].ind
RecordField(ls, fields) == IF IsGeomField(ls) THEN GeomField(ls[1], ls[2], fields) ELSE fields[1]
ParseFieldLines(ls) == [k \in DOMAIN ls |-> ParseFieldLine(ls[k])]
ParseRecordFieldLine(ls) ==
  RecordField(ls, ParseFieldLines(IF IsGeomField(ls) THEN Deeper(Rest(ls, 2), ls[2]) ELSE <<ls[1]>>))

(***************************************************************************)
(* Cells (splitCells, modKeyVal, parseModCell, parseOpCell, parseCells).   *)
(* A modifier is [k, v]; an edit or a verb is an operation [k, xs, name].  *)
(***************************************************************************)
SplitAt(s, cuts) ==
  LET at0 == <<0>> \o SetToSortSeq(cuts, <) \o <<Len(s) + 1>>
  IN  [i \in 1..(Len(at0) - 1) |-> SubSeq(s, at0[i] + 1, at0[i + 1] - 1)]
SplitCells(body) ==
  LET cells == SplitAt(body, {i \in DOMAIN body : body[i] = "|"})
  IN  [i \in DOMAIN cells |-> TrimSpace(cells[i])]

KeyVal(c) ==
  LET i == Colon(c)
      key == SubSeq(c, 1, i - 1)
  IN  IF 1 < i /\ i < Len(c) /\ NoSpace(key) THEN [key |-> key, val |-> Rest(c, i)]
      ELSE [key |-> <<>>, val |-> <<>>]
HasKey(c, keys) == \E k \in keys : KeyVal(c).key = <<k>>
IsVerb(c) == HasKey(c, {"in", "ou", "highlight"})
IsEdit(c) == Contains(c, "->")
HasEdit(cells) == \E i \in DOMAIN cells : IsEdit(cells[i])

Mod(k, v) == [k |-> k, v |-> v]
NoMod == Mod("none", 0)
Known(c, names) == LET v == KeyVal(c).val IN Len(v) = 1 /\ v[1] \in names

ParseModCell(c) ==
  CASE HasKey(c, {"ease"}) /\ Known(c, Eases) -> Mod("ease", KeyVal(c).val[1])
    [] HasKey(c, {"transition"}) /\ Known(c, Transitions) -> Mod("transition", KeyVal(c).val[1])
    [] Len(c) = 1 /\ c[1] \in DOMAIN Window -> Mod("win", Window[c[1]])
    [] Len(c) = 1 /\ c[1] \in DOMAIN Clock ->
         Mod("win", [a |-> 0, b |-> Clock[c[1]].v, unit |-> Clock[c[1]].unit])
    [] Len(c) = 2 /\ c[1] \in {"after", "lag", "stagger"} /\ c[2] \in DOMAIN Clock
         /\ Clock[c[2]].unit # "%" -> Mod(c[1], Clock[c[2]])
    [] Len(c) = 2 /\ c[1] = "by" /\ c[2] \in {"name", "pos"} -> Mod("pair", c[2])
    [] OTHER -> NoMod
ParseMods(cells) ==
  LET mods == [i \in DOMAIN cells |-> ParseModCell(cells[i])]
  IN  [ok |-> \A i \in DOMAIN mods : mods[i].k # "none", mods |-> mods]

Op(k, xs, name) == [k |-> k, xs |-> xs, name |-> name]
NoOp == Op("none", <<>>, "")
Cells(mods, op) == [ok |-> TRUE, mods |-> mods, op |-> op]
BadCells == [ok |-> FALSE, mods |-> <<>>, op |-> NoOp]

Sides(c) ==
  LET i == Min({j \in DOMAIN c : c[j] = "->"}) IN <<SubSeq(c, 1, i - 1), Rest(c, i)>>
\* rs are the trees read from both sides of the arrow.
ParseOpCell(c, rs) ==
  LET lhs == Sides(c)[1]
  IN  IF \/ Sides(c)[2] = <<"gone">> \/ Contains(lhs, "{") \/ Contains(lhs, "}")
         \/ ~rs[1].ok \/ ~rs[2].ok
      THEN NoOp ELSE Op("arrow", <<rs[1].e, rs[2].e>>, "")

\* splitTopLevelCommas: brackets and strings hide a comma.
Commas(s) ==
  LET Depth(i) == ScanLine(SubSeq(s, 1, i), FALSE)
  IN  {i \in DOMAIN s : s[i] = "," /\ ~Depth(i).inStr /\ Depth(i).delta = 0}
Balanced(s) ==
  /\ ScanLine(s, FALSE).delta = 0 /\ ~ScanLine(s, FALSE).inStr
  /\ \A i \in DOMAIN s : ScanLine(SubSeq(s, 1, i), FALSE).delta >= 0

\* parseSubjectVerbCells: the verb's cell, its subjects in the last one, read
\* as rs, and modifiers in the others.
VerbKind(c) == CASE HasKey(c, {"in"}) -> "enter" [] HasKey(c, {"ou"}) -> "exit"
                 [] OTHER -> "highlight"
VerbCells(verb, mods, rs) ==
  IF \/ ~mods.ok \/ \E i \in DOMAIN rs : ~rs[i].ok
     \/ ~Known(verb, IF VerbKind(verb) = "highlight" THEN Highlights ELSE Presets)
  THEN BadCells
  ELSE Cells(mods.mods, Op(VerbKind(verb), [i \in DOMAIN rs |-> rs[i].e], KeyVal(verb).val[1]))
ParseSubjectVerb(cells, rs) ==
  LET v == Min({i \in DOMAIN cells : IsVerb(cells[i])})
      others == SubSeq(cells, 1, v - 1) \o SubSeq(cells, v + 1, Len(cells) - 1)
  IN  IF v = Len(cells) \/ ~Balanced(Last(cells)) THEN BadCells
      ELSE VerbCells(cells[v], ParseMods(others), rs)

\* parseCells: a verb's row, or modifiers and an edit only in the last cell.
\* OpTexts are the texts in the last cell that are read as expressions.
IsVerbRow(cells) == (\E i \in DOMAIN cells : IsVerb(cells[i])) /\ ~HasEdit(cells)
IsEditRow(cells) == cells # <<>> /\ IsEdit(Last(cells))
OpTexts(cells) ==
  CASE IsVerbRow(cells) -> SplitAt(Last(cells), Commas(Last(cells)))
    [] IsEditRow(cells) -> Sides(Last(cells))
    [] OTHER -> <<>>
EditCells(mods, op) == IF mods.ok /\ op # NoOp THEN Cells(mods.mods, op) ELSE BadCells
PlainCells(mods) == IF mods.ok THEN Cells(mods.mods, NoOp) ELSE BadCells
ReadCells(cells, rs) ==
  CASE IsVerbRow(cells) -> ParseSubjectVerb(cells, rs)
    [] IsEditRow(cells) -> EditCells(ParseMods(Front(cells)), ParseOpCell(Last(cells), rs))
    [] OTHER -> PlainCells(ParseMods(cells))
ParseEach(texts) == [i \in DOMAIN texts |-> ParseExpr(texts[i])]
ParseCells(cells) == ReadCells(cells, ParseEach(OpTexts(cells)))

(***************************************************************************)
(* Blocks (parseBlockHeader, isInlineBlockHeader, parseRow).               *)
(***************************************************************************)
Row(l, c) == [line |-> l.line, mods |-> c.mods, op |-> c.op]

\* each record [as name] duration.
EachClock(f) ==
  LET i == IF f[3] = "as" THEN 5 ELSE 3
  IN  IF Len(f) = i /\ f[i] \in DOMAIN Clock THEN f[i] ELSE "none"
BlockClock(f) ==
  CASE Len(f) >= 3 /\ f[1] = "each" -> EachClock(f)
    [] Len(f) = 1 /\ f[1] \in DOMAIN Clock -> f[1]
    [] OTHER -> "none"

ParseBlockHeader(l, head, rest) ==
  LET inline == rest.op # NoOp
  IN  IF BlockClock(head) = "none" \/ ~rest.ok THEN <<>>
      ELSE << [k |-> "block", line |-> l.line, dur |-> Clock[BlockClock(head)].v,
               each |-> Contains(head, "each"), mods |-> rest.mods, inline |-> inline,
               rows |-> IF inline THEN <<Row(l, [rest EXCEPT !.mods = <<>>])>> ELSE <<>>] >>

\* Mutant: a clock as long as the block is read as a window of it.
EqualClockIsWindow(l, b) ==
  LET cells == SplitCells(Tail(l.txt))
      c == cells[1]
      timed == c # <<>> /\ c[1] # "each" /\ c[1] \in DOMAIN Clock
  IN  /\ Len(cells) >= 2 /\ c # <<>> /\ (c[1] = "each" \/ timed)
      /\ \/ timed /\ Clock[c[1]].unit # "%" /\ Clock[c[1]].v > b.dur
         \/ /\ HasEdit(Tail(cells))
            /\ \/ \E i \in 2..(Len(cells) - 1) : HasKey(cells[i], {"transition"})
               \/ \E i \in DOMAIN b.mods : b.mods[i].k = "transition"

\* A line after an inline block: its own clock does not fit in the block, or
\* a transition is named, so it opens the next block.
IsInlineBlockHeader(l, b) ==
  LET cells == SplitCells(Tail(l.txt))
      c == cells[1]
      timed == c # <<>> /\ c[1] # "each" /\ c[1] \in DOMAIN Clock
  IN  /\ Len(cells) >= 2 /\ c # <<>> /\ (c[1] = "each" \/ timed)
      /\ \/ timed /\ Clock[c[1]].unit # "%" /\ Clock[c[1]].v >= b.dur
         \/ /\ HasEdit(Tail(cells))
            /\ \/ \E i \in 2..(Len(cells) - 1) : HasKey(cells[i], {"transition"})
               \/ \E i \in DOMAIN b.mods : b.mods[i].k = "transition"

(***************************************************************************)
(* Lines at the top level (the switch of parseLogicalLines).               *)
(***************************************************************************)
\* recordRe: type name:
IsRecord(s) == Len(s) = 3 /\ s[1] \in Word /\ s[2] \in Word /\ s[3] = ":"
\* captureRe and colonBindRe: name = expr and name: expr.
IsCapture(s) == Len(s) >= 3 /\ s[1] \in Word /\ s[2] = "=" /\ s[3] # "=" /\ OneLine(s)
IsBinding(s) == Len(s) >= 3 /\ s[1] \in Word /\ s[2] = ":" /\ OneLine(s)

\* parseFamilyHeaderShape, splitDomainBindAtDepth0: NAME[domain as name]:
FamilyDomain(s) ==
  LET inner == TrimSpace(SubSeq(s, 3, Len(s) - 2))
      as == {i \in 2..(Len(inner) - 1) :
               inner[i] = "as" /\ ScanLine(SubSeq(inner, 1, i), FALSE).delta = 0
                 /\ ~ScanLine(SubSeq(inner, 1, i), FALSE).inStr}
      Closes(i) == Cardinality({j \in 2..i : s[j] = "["}) = Cardinality({j \in 2..i : s[j] = "]"})
  IN  IF /\ Len(s) >= 7 /\ s[1] \in Word /\ s[2] = "[" /\ s[Len(s) - 1] = "]" /\ Last(s) = ":"
         /\ \A i \in 2..(Len(s) - 2) : ~Closes(i)
         /\ as # {} /\ NoSpace(Rest(inner, Max(as)))
      THEN SubSeq(inner, 1, Max(as) - 1) ELSE <<>>
IsFamily(s) == FamilyDomain(s) # <<>>

\* looksLikeFlatFieldLine: a field at column 0 below a record.
LooksLikeField(s) ==
  LET marked == Len(s) >= 2 /\ s[1] \in {"rate", "set"} /\ s[2] \in Word
      t == IF marked THEN Tail(s) ELSE s
  IN  ~IsRecord(t) /\ ~IsFamily(t) /\ IsBinding(t)

Stmt(k, line) == [k |-> k, line |-> line]
Record(l) == [k |-> "record", line |-> l.line, fields |-> <<>>]
Capture(l, e, live) == [k |-> "capture", line |-> l.line, e |-> e, live |-> live]
Family(l, e) == [k |-> "family", line |-> l.line, domain |-> e, base |-> 0,
                 locals |-> <<>>, members |-> <<>>]

Accept(r) == /\ p' = r /\ at' = at + 1
             /\ UNCHANGED <<doc, stage, lines, pend, def, tree>>
Reject == stage' = "failed" /\ UNCHANGED <<doc, at, lines, pend, def, tree, p>>
Reading == stage = "parse" /\ ~PartEnds
Indented == Line.ind > 0

\* A blank line ends a record or a block; blank lines between the members of a
\* family are part of it.
BlankLine ==
  /\ Reading /\ Line.txt = <<>>
  /\ Accept(IF p.family = <<>> THEN FlushBlock(FlushRecord(p)) ELSE FlushRecord(p))

\* In a family: a line at the indent of its first line is a local binding or
\* the header of a member; any other indented line is a field.
FamilyHeadLine ==
  /\ Reading /\ Line.txt # <<>> /\ Indented /\ p.family # <<>>
  /\ p.family[1].base \in {0, Line.ind}
  /\ LET q == [FlushMember(p) EXCEPT !.family[1].base = Line.ind]
     IN  IF IsBinding(Line.txt) /\ ParseExpr(Rest(Line.txt, 2)).ok
         THEN Accept([q EXCEPT !.family[1].locals = Append(@, Stmt("local", Line.line))])
         ELSE IF IsRecord(Line.txt) THEN Accept([q EXCEPT !.member = <<Record(Line)>>])
         ELSE Reject

AddField(what, f) ==
  IF p[what] = <<>> \/ ~f.ok THEN Reject
  ELSE /\ p' = [p EXCEPT ![what][1].fields = Append(@, f)]
       /\ at' = at + 1 + Len(f.below)
       /\ UNCHANGED <<doc, stage, lines, pend, def, tree>>
FamilyFieldLine ==
  /\ Reading /\ Line.txt # <<>> /\ Indented /\ p.family # <<>>
  /\ p.family[1].base \notin {0, Line.ind}
  /\ AddField("member", ParseRecordFieldLine(Rest(lines, at - 1)))
FieldLine ==
  /\ Reading /\ Line.txt # <<>> /\ Indented /\ p.family = <<>>
  /\ AddField("record", ParseRecordFieldLine(Rest(lines, at - 1)))

\* A bar line: a header when no block is open or when it cannot be a row of
\* the open one, a row otherwise.
\* A header's first cell is the duration, a row has modifiers in front only.
TakeBar(r, head, cells) ==
  LET header == ParseBlockHeader(Line, head, cells)
  IN  CASE r.block = <<>> /\ header # <<>> -> Accept([r EXCEPT !.block = header])
        [] r.block # <<>> /\ cells.ok /\ cells.op # NoOp ->
             Accept([r EXCEPT !.block[1].rows = Append(@, Row(Line, cells))])
        [] OTHER -> Reject
BarLine ==
  /\ Reading /\ Line.txt # <<>> /\ ~Indented /\ Line.txt[1] = "|"
  /\ LET q == FlushRecord(FlushFamily(p))
         next == q.block # <<>> /\ q.block[1].inline /\ IsInlineBlockHeader(Line, q.block[1])
         r == IF next THEN FlushBlock(q) ELSE q
         cells == SplitCells(Tail(Line.txt))
     IN  TakeBar(r, cells[1], ParseCells(IF r.block = <<>> THEN Tail(cells) ELSE cells))

\* Any other line at column 0, after what was open is finished.
AddStmt(q, stmt) == Accept([q EXCEPT !.stmts = Append(@, stmt)])
\* A family or a capture, with its domain or its value read as r.
AddNamed(q, s, r) ==
  CASE r.ok /\ IsFamily(s) -> Accept([q EXCEPT !.family = <<Family(Line, r.e)>>])
    [] r.ok /\ ~IsFamily(s) -> AddStmt(q, Capture(Line, r.e, IsBinding(s) /\ r.e.k # "snapshot"))
    [] OTHER -> Reject
TopLine ==
  /\ Reading /\ Line.txt # <<>> /\ ~Indented /\ Line.txt[1] # "|"
  /\ LET s == Line.txt
         q == FlushBlock(FlushRecord(FlushFamily(p)))
         word == Len(s) >= 2 /\ s[2] \in Word
     IN  CASE p.record # <<>> /\ LooksLikeField(s) -> Reject
           [] word /\ s[1] \in {"scene", "run"} -> AddStmt(q, Stmt(s[1], Line.line))
           [] word /\ s[1] = "extern" /\ s[2] = "fn" /\ Len(s) >= 3 /\ s[3] # ":" ->
                AddStmt(q, Stmt("extern", Line.line))
           [] IsRecord(s) /\ s[1] \notin {"scene", "run"} -> Accept([q EXCEPT !.record = <<Record(Line)>>])
           [] IsFamily(s) \/ IsCapture(s) \/ IsBinding(s) ->
                AddNamed(q, s, ParseExpr(IF IsFamily(s) THEN FamilyDomain(s) ELSE Rest(s, 2)))
           [] OTHER -> Reject

\* The end of a part: what is open is finished, and the statements of a scene
\* definition become its body.
EndPart ==
  /\ stage = "parse" /\ PartEnds
  /\ LET stmts == FlushBlock(FlushFamily(FlushRecord(p))).stmts
     IN  tree' = tree \o (IF def = 0 THEN stmts
                         ELSE <<[k |-> "sceneDef", line |-> def, body |-> stmts]>>)
  /\ p' = Empty
  /\ IF at > Len(lines) THEN stage' = "done" /\ UNCHANGED <<at, def>>
     ELSE def' = Line.line /\ at' = at + 1 /\ UNCHANGED stage
  /\ UNCHANGED <<doc, lines, pend>>

ReaderInit ==
  /\ doc \in Documents
  /\ ScanInit
  /\ def = 0 /\ tree = <<>> /\ p = Empty

Scanning ==
  (ScanScalar \/ ScanRaw \/ ScanEnd) /\ UNCHANGED <<def, tree, p>>
Parsing == BlankLine \/ FamilyHeadLine \/ FamilyFieldLine \/ FieldLine \/ BarLine \/ TopLine
           \/ EndPart
Stop == stage \in {"done", "failed"} /\ UNCHANGED vars
ReaderSpec == ReaderInit /\ [][Scanning \/ Parsing \/ Stop]_vars /\ WF_vars(Scanning \/ Parsing)
=============================================================================
