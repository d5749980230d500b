----------------------------- MODULE ScoreLines -----------------------------
(***************************************************************************)
(* From physical to logical lines: internal/pdtt/scan.go. A physical line  *)
(* is its indent and its text in atoms (Expressions.tla), a logical line   *)
(* the same with the number of the physical line it began on. A logical    *)
(* line runs on while a bracket or a string literal is open, so a literal  *)
(* may span lines; name: | takes the deeper lines below it as a literal.   *)
(***************************************************************************)
EXTENDS Expressions, Integers

Opening == {"(", "[", "{"}
Closing == {")", "]", "}"}
Spaces(n) == [i \in 1..n |-> Space]
\* Mutant: the indent of a line within a literal is dropped.
VerbatimNoIndent(raw) == raw.txt
Verbatim(raw) == Spaces(raw.ind) \o raw.txt
IsBlank(raw) == raw.txt = <<>>
NoSpace(s) ==
  ~Contains(s, Space) /\ \A i \in 1..(Len(s) - 1) : ~(s[i] \in Word /\ s[i + 1] \in Word)
TrimRight(s) == SubSeq(s, 1, Max({i \in DOMAIN s : s[i] # Space} \cup {0}))
TrimSpace(s) == Reverse(TrimRight(Reverse(TrimRight(s))))

(***************************************************************************)
(* One physical line (scanLine): where its comment begins, how it changes  *)
(* the bracket depth, and whether a string is open at its end.             *)
(***************************************************************************)
Scanned == [end |-> 0, delta |-> 0, inStr |-> FALSE, esc |-> FALSE, cut |-> FALSE]
ScanAtom(s, c) ==
  CASE s.cut -> s
    [] ~s.cut /\ s.inStr ->
         [s EXCEPT !.end = @ + 1,
                   !.esc = ~@ /\ c = Backslash,
                   !.inStr = s.esc \/ c # Quote]
    [] ~s.cut /\ ~s.inStr /\ c = "#" -> [s EXCEPT !.cut = TRUE]
    [] OTHER ->
         [s EXCEPT !.end = @ + 1,
                   !.inStr = c = Quote,
                   !.delta = @ + (CASE c \in Opening -> 1 [] c \in Closing -> -1 [] OTHER -> 0)]
ScanLine(txt, inStr) == FoldLeft(ScanAtom, [Scanned EXCEPT !.inStr = inStr], txt)

(***************************************************************************)
(* Block scalars (scanBlockScalar): the lines below the key that are       *)
(* deeper than it or blank, without their common indent and without blank  *)
(* lines at either end, as one escaped literal.                            *)
(***************************************************************************)
IsScalarKey(txt) ==
  LET key == IF Len(txt) > 3 /\ txt[1] \in {"set", "rate"} /\ txt[2] \in Word
             THEN Tail(txt) ELSE txt
      name == SubSeq(key, 1, Len(key) - 2)
  IN  /\ Len(key) >= 3 /\ key[1] \in Word /\ NoSpace(name)
      /\ SubSeq(key, Len(key) - 1, Len(key)) = <<":", "|">>
      /\ \A i \in DOMAIN name : name[i] \in Word \cup Digit \cup {"."}

\* blockScalarBody: the line after the body of the key on line i.
BodyEnd(doc, i) ==
  Min({j \in (i + 1)..(Len(doc) + 1) :
         j = Len(doc) + 1 \/ ~(IsBlank(doc[j]) \/ doc[j].ind > doc[i].ind)})

\* dedentBlockScalarBody.
Dedented(body) ==
  LET filled == {j \in DOMAIN body : ~IsBlank(body[j])}
      margin == Min({body[j].ind : j \in filled})
      Line(raw) == IF IsBlank(raw) THEN <<>> ELSE Spaces(raw.ind - margin) \o raw.txt
  IN  IF filled = {} THEN <<>>
      ELSE [j \in 1..(Max(filled) - Min(filled) + 1) |-> Line(body[j + Min(filled) - 1])]

\* escapeStringLiteral.
Escaped(line) ==
  FoldLeft(LAMBDA s, c : s \o (IF c \in {Quote, Backslash} THEN <<Backslash, c>> ELSE <<c>>),
           <<>>, line)

EscapedLines(content) ==
  FoldLeft(LAMBDA s, j : s \o (IF j = 1 THEN <<>> ELSE <<Backslash, "n">>) \o Escaped(content[j]),
           <<>>, [j \in DOMAIN content |-> j])
Literal(content) == <<Quote>> \o EscapedLines(content) \o <<Quote>>

ScalarLine(doc, i) ==
  [ind |-> doc[i].ind, line |-> i,
   txt |-> Front(doc[i].txt) \o Literal(Dedented(SubSeq(doc, i + 1, BodyEnd(doc, i) - 1)))]

(***************************************************************************)
(* The scanner (ScanSource): doc is the source, at the next physical line, *)
(* lines what was read, pend the logical line being joined.                *)
(***************************************************************************)
VARIABLES doc, stage, at, lines, pend
scanVars == <<doc, stage, at, lines, pend>>

NoLine == [ind |-> 0, line |-> 0, txt |-> <<>>, depth |-> 0, inStr |-> FALSE]
Logical(p) == [ind |-> p.ind, line |-> p.line, txt |-> p.txt]
Fresh == pend.depth = 0 /\ ~pend.inStr

ScanInit ==
  /\ stage = "scan"  /\ at = 1  /\ lines = <<>>  /\ pend = NoLine

ScanScalar ==
  /\ stage = "scan" /\ at <= Len(doc)
  /\ Fresh /\ IsScalarKey(doc[at].txt)
  /\ lines' = Append(lines, ScalarLine(doc, at))
  /\ at' = BodyEnd(doc, at)
  /\ UNCHANGED <<doc, stage, pend>>

\* Within brackets a line is joined by a space; two words have one between
\* them as they are.
WithSpace(s, text) ==
  CASE text = <<>> -> s
    [] text # <<>> /\ Last(s) \in Word /\ text[1] \in Word -> s \o text
    [] OTHER -> s \o <<Space>> \o text

\* The pending line with the next physical line joined to it: within a string
\* as it stands, elsewhere without the blanks at its ends, a string that it
\* opens included.
Joined ==
  LET raw == doc[at]
      s == ScanLine(IF pend.inStr THEN Verbatim(raw) ELSE raw.txt, pend.inStr)
      text == SubSeq(IF pend.inStr THEN Verbatim(raw) ELSE raw.txt, 1, s.end)
      next == [pend EXCEPT !.depth = @ + s.delta, !.inStr = s.inStr]
  IN  CASE pend.inStr -> [next EXCEPT !.txt = @ \o <<NewLine>> \o text]
        [] ~pend.inStr /\ pend.depth = 0 ->
             [next EXCEPT !.txt = TrimRight(text), !.ind = raw.ind, !.line = at]
        [] OTHER -> [next EXCEPT !.txt = WithSpace(@, TrimRight(text))]

ScanRaw ==
  /\ stage = "scan" /\ at <= Len(doc)
  /\ ~(Fresh /\ IsScalarKey(doc[at].txt))
  /\ IF Joined.depth <= 0 /\ ~Joined.inStr
     THEN lines' = Append(lines, Logical(Joined)) /\ pend' = NoLine
     ELSE pend' = Joined /\ UNCHANGED lines
  /\ at' = at + 1
  /\ UNCHANGED <<doc, stage>>

\* Every line is read; an open bracket or string is an error.
ScanEnd ==
  /\ stage = "scan" /\ at > Len(doc)
  /\ stage' = IF Fresh THEN "parse" ELSE "failed"
  /\ at' = 1
  /\ UNCHANGED <<doc, lines, pend>>
=============================================================================
