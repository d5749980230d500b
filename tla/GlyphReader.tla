---------------------------- MODULE GlyphReader ----------------------------
(***************************************************************************)
(* The glyphs of a text: parseTypstSVG (internal/pdtt/svgpath.go) reads    *)
(* the SVG typst writes, one element at a time. Glyph outlines are symbols *)
(* that stand after the uses that place them, so uses are collected and    *)
(* resolved when the document has been read.                               *)
(***************************************************************************)
EXTENDS SvgPath

CONSTANTS
  Ids,      \* the ids of symbols
  NoId

VARIABLES
  events,      \* the document: opening and closing tags, up to what is no XML
  at,          \* the next of them
  symbols,     \* the contours collected for each id
  curSymbol,   \* the symbol that is open, or NoId
  textDepth,   \* open groups, from the text group inwards
  textMatrix,  \* the transform of the last text group
  uses,        \* the placements met inside text groups
  glyphs,      \* the result: the contours of each glyph
  stage        \* read, placed or failed
glyphVars == <<events, at, symbols, curSymbol, textDepth, textMatrix, uses, glyphs, stage>>

Matrices == [a : Int, b : Int, c : Int, d : Int, e : Int, f : Int]
Tags == [tag : STRING, open : BOOLEAN, id : Ids \cup {NoId}, d : Seq(Tokens), text : BOOLEAN,
         tf : Seq(Matrices), x : Int, y : Int]
Identity == [a |-> 1, b |-> 0, c |-> 0, d |-> 1, e |-> 0, f |-> 0]

\* svgMatrix.apply, on points of contours.
Apply(m, p) == << m.a * p[1] + m.c * p[2] + Unit * m.e, m.b * p[1] + m.d * p[2] + Unit * m.f >>

Event == events[at]
Meets(tag, open) ==
  stage = "read" /\ phase = "idle" /\ at <= Len(events) /\ Event.tag = tag /\ Event.open = open
Next1 == at' = at + 1 /\ UNCHANGED <<events, glyphs, stage>>
NoPath == UNCHANGED pathVars
Refuse ==
  stage' = "failed" /\ UNCHANGED <<events, at, symbols, curSymbol, textDepth, textMatrix, uses, glyphs>>

OpenSymbol ==
  /\ Meets("symbol", TRUE)
  /\ curSymbol' = Event.id
  /\ Next1 /\ NoPath /\ UNCHANGED <<symbols, textDepth, textMatrix, uses>>
CloseSymbol ==
  /\ Meets("symbol", FALSE)
  /\ curSymbol' = NoId
  /\ Next1 /\ NoPath /\ UNCHANGED <<symbols, textDepth, textMatrix, uses>>

\* A path outside a symbol is no outline; one inside is read to its end.
OpenPath ==
  /\ Meets("path", TRUE)
  /\ IF curSymbol = NoId THEN NoPath ELSE PathBegins(Event.d)
  /\ Next1 /\ UNCHANGED <<symbols, curSymbol, textDepth, textMatrix, uses>>
ReadPath == phase = "path" /\ PathStep /\ UNCHANGED glyphVars
PathRead ==
  /\ phase = "ended"
  /\ symbols' = [symbols EXCEPT ![curSymbol] = @ \o contours]
  /\ phase' = "idle" /\ path' = <<>> /\ contours' = <<>>
  /\ UNCHANGED <<i, cmd, cur, start, poly>>
  /\ UNCHANGED <<events, at, curSymbol, textDepth, textMatrix, uses, glyphs, stage>>
PathRefused == phase = "bad" /\ stage = "read" /\ Refuse /\ NoPath

\* Mutant: a group inside the text group does not count.
InnerGroupUncounted ==
  /\ Meets("g", TRUE)
  /\ NoPath
  /\ IF textDepth = 0 /\ Event.text /\ Event.tf = <<>> THEN Refuse
     ELSE /\ Next1 /\ UNCHANGED <<symbols, curSymbol, uses>>
          /\ IF textDepth = 0 /\ Event.text THEN textDepth' = 1 /\ textMatrix' = Event.tf[1]
             ELSE UNCHANGED <<textDepth, textMatrix>>

\* Groups count from the first text group inwards, whose transform holds for
\* all of it. A transform that cannot be read is <<>>.
OpenGroup ==
  /\ Meets("g", TRUE)
  /\ NoPath
  /\ IF textDepth = 0 /\ Event.text /\ Event.tf = <<>> THEN Refuse
     ELSE /\ Next1 /\ UNCHANGED <<symbols, curSymbol, uses>>
          /\ IF textDepth > 0 THEN textDepth' = textDepth + 1 /\ UNCHANGED textMatrix
             ELSE IF Event.text THEN textDepth' = 1 /\ textMatrix' = Event.tf[1]
             ELSE UNCHANGED <<textDepth, textMatrix>>
CloseGroup ==
  /\ Meets("g", FALSE)
  /\ textDepth' = IF textDepth > 0 THEN textDepth - 1 ELSE 0
  /\ Next1 /\ NoPath /\ UNCHANGED <<symbols, curSymbol, textMatrix, uses>>

Use ==
  /\ Meets("use", TRUE)
  /\ uses' = IF textDepth = 0 \/ Event.id = NoId THEN uses
             ELSE Append(uses, [id |-> Event.id, x |-> Event.x, y |-> Event.y, matrix |-> textMatrix])
  /\ Next1 /\ NoPath /\ UNCHANGED <<symbols, curSymbol, textDepth, textMatrix>>

OtherTag ==
  /\ stage = "read" /\ phase = "idle" /\ at <= Len(events)
  /\ Event.tag \in {"path", "use"} /\ ~Event.open
  /\ Next1 /\ NoPath /\ UNCHANGED <<symbols, curSymbol, textDepth, textMatrix, uses>>

\* What is not well-formed XML: dec.Token gives an error.
Malformed ==
  /\ stage = "read" /\ phase = "idle" /\ at <= Len(events) /\ Event.tag = "malformed"
  /\ Refuse /\ NoPath

\* The end of the document: every use draws its symbol where it was met.
PlaceGlyphs ==
  /\ stage = "read" /\ phase = "idle" /\ at > Len(events)
  /\ LET Moved(u, p) == Apply(u.matrix, Plus(p, Scaled(Unit, <<u.x, u.y>>)))
         Glyph(u) == [k \in DOMAIN symbols[u.id] |->
                        [j \in DOMAIN symbols[u.id][k] |-> Moved(u, symbols[u.id][k][j])]]
     IN  \E all \in {[n \in DOMAIN uses |-> Glyph(uses[n])]} : glyphs' = AtLeast(1, all)
  /\ stage' = "placed"
  /\ NoPath /\ UNCHANGED <<events, at, symbols, curSymbol, textDepth, textMatrix, uses>>

ReaderStarts(document) ==
  /\ PathIdle
  /\ events = document /\ at = 1
  /\ symbols = [id \in Ids |-> <<>>] /\ curSymbol = NoId
  /\ textDepth = 0 /\ textMatrix = Identity
  /\ uses = <<>> /\ glyphs = <<>> /\ stage = "read"
ReadGlyphs == \/ OpenSymbol \/ CloseSymbol \/ OpenPath \/ ReadPath \/ PathRead \/ PathRefused
              \/ OpenGroup \/ CloseGroup \/ Use \/ OtherTag \/ Malformed \/ PlaceGlyphs
=============================================================================
