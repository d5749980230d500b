--------------------------- MODULE OutlineClaims ---------------------------
(***************************************************************************)
(* What reading outlines and morphing them promises: the properties of     *)
(* Morphing. What a path or a document means is defined here from its      *)
(* text, without the state the reader keeps.                               *)
(***************************************************************************)
EXTENDS Morphing

(***************************************************************************)
(* The meaning of a path: its segments, one for each group of operands,    *)
(* where each of them ends, and the contours between one M and the next.   *)
(***************************************************************************)
Arity(c) == CASE c \in {"M", "L"} -> 2 [] c \in {"H", "V"} -> 1 [] c = "C" -> 6 [] c = "Q" -> 4
              [] OTHER -> 0
\* The text of a path, token by token: the command in force, the numbers that
\* wait for more, and the segments that are complete.
WithToken(s, tok) ==
  IF ~IsNumber(tok)
  THEN [s EXCEPT !.by = tok, !.odd = @ \/ s.xs # <<>>,
                 !.segs = IF tok.cmd = "Z" THEN Append(@, [c |-> "Z", rel |-> FALSE, xs |-> <<>>]) ELSE @]
  ELSE IF Len(s.xs) + 1 < Arity(s.by.cmd) THEN [s EXCEPT !.xs = Append(@, tok.num)]
  ELSE [s EXCEPT !.xs = <<>>, !.odd = @ \/ Arity(s.by.cmd) = 0,
                 !.segs = Append(@, [c |-> s.by.cmd, rel |-> s.by.rel, xs |-> Append(s.xs, tok.num)]),
                 !.by.cmd = IF @ = "M" THEN "L" ELSE @]
Unread == [by |-> NoCommand, xs |-> <<>>, odd |-> FALSE, segs |-> <<>>]
Splits(d) ==
  LET s[n \in 0..Len(d)] == IF n = 0 THEN Unread ELSE WithToken(s[n - 1], d[n]) IN s
Split(d) == Splits(d)[Len(d)]

\* Paths as typst writes them: every operand is there, a subpath begins with
\* M, and nothing is drawn between Z and the next M.
Regular(d) ==
  LET s == Split(d)
  IN  /\ ~s.odd /\ s.xs = <<>>
      /\ \A k \in DOMAIN s.segs :
           (k = 1 \/ s.segs[k - 1].c = "Z") => s.segs[k].c \in {"M", "Z"}

\* Where each segment ends: Z goes back to the last M.
EndNext(segs, es) ==
  LET s == segs[Len(es) + 1]
      prev == IF es = <<>> THEN Origin ELSE Last(es)
      from == IF s.rel THEN prev ELSE Origin
      heads == {m \in DOMAIN es : segs[m].c = "M"}
      n == Len(s.xs)
  IN  CASE s.c = "Z" -> IF heads = {} THEN Origin ELSE es[Max(heads)]
        [] s.c = "H" -> <<from[1] + s.xs[1], prev[2]>>
        [] s.c = "V" -> <<prev[1], from[2] + s.xs[1]>>
        [] OTHER -> Plus(from, <<s.xs[n - 1], s.xs[n]>>)
Ends(segs) ==
  LET es[k \in 0..Len(segs)] == IF k = 0 THEN <<>> ELSE Append(es[k - 1], EndNext(segs, es[k - 1]))
  IN  es[Len(segs)]

\* De Casteljau: the points t of Steps between neighbours, until one is left.
Nearer(t, ps) == [j \in 1..(Len(ps) - 1) |-> Plus(Scaled(Steps - t, ps[j]), Scaled(t, ps[j + 1]))]
PointAt(t, ctrl) ==
  LET near[n \in 0..(Len(ctrl) - 1)] == IF n = 0 THEN ctrl ELSE Nearer(t, near[n - 1])
  IN  Scaled(IF Len(ctrl) = 3 THEN Steps ELSE 1, near[Len(ctrl) - 1][1])

\* The points a segment draws.
PointsOf(segs, k) ==
  LET s == segs[k]
      prev == IF k = 1 THEN Origin ELSE Ends(segs)[k - 1]
      from == IF s.rel THEN prev ELSE Origin
      ctrl == <<prev>> \o [j \in 1..(Len(s.xs) \div 2) |-> Plus(from, <<s.xs[2 * j - 1], s.xs[2 * j]>>)]
  IN  CASE s.c = "Z" -> <<>>
        [] s.c \in {"C", "Q"} -> [t \in 1..Steps |-> PointAt(t, ctrl)]
        [] OTHER -> <<Scaled(Unit, Ends(segs)[k])>>

\* A contour begins with each M; the segments up to the next one add to it.
WithSegment(cs, c, ps) ==
  IF c = "M" THEN Append(cs, ps) ELSE [cs EXCEPT ![Len(cs)] = @ \o ps]
OutlinesTo(segs) ==
  LET cs[k \in 0..Len(segs)] == IF k = 0 THEN <<>> ELSE WithSegment(cs[k - 1], segs[k].c, PointsOf(segs, k))
  IN  cs
Outline(d) == LET segs == Split(d).segs IN OutlinesTo(segs)[Len(segs)]

(***************************************************************************)
(* The meaning of a document, by the nesting of its elements.              *)
(***************************************************************************)
Opens(tag) == {k \in DOMAIN events : events[k].open /\ events[k].tag = tag}
\* Element j is open at k.
Depth(j, k) == Cardinality({n \in j..k : events[n].tag = events[j].tag /\ events[n].open})
                 - Cardinality({n \in j..k : events[n].tag = events[j].tag /\ ~events[n].open})
Holds(j, k) == j < k /\ \A n \in j..k : Depth(j, n) > 0
IsOutline(id, k) ==
  k \in Opens("path") /\ \E s \in Opens("symbol") : events[s].id = id /\ Holds(s, k)
SymbolOutline(id) ==
  FlattenSeq([k \in DOMAIN events |-> IF IsOutline(id, k) THEN Outline(events[k].d) ELSE <<>>])
TextGroups(k) == {g \in Opens("g") : events[g].text /\ Holds(g, k)}
IsPlaced(k) == k \in Opens("use") /\ TextGroups(k) # {} /\ events[k].id # NoId
PlacedPoint(k, p) ==
  Apply(events[Min(TextGroups(k))].tf[1], Plus(p, Scaled(Unit, <<events[k].x, events[k].y>>)))
GlyphAt(k) ==
  LET o == SymbolOutline(events[k].id)
  IN  [c \in DOMAIN o |-> [m \in DOMAIN o[c] |-> PlacedPoint(k, o[c][m])]]

\* Documents as typst writes them: complete paths, and no symbol in another.
AsWritten ==
  /\ \A k \in Opens("path") : Regular(events[k].d)
  /\ \A s, t \in Opens("symbol") : ~Holds(s, t)

\* parseTypstSVG: every use inside a text group draws, in the order of the
\* uses, all contours of the symbol it names, wherever in the document the
\* symbol stands, moved by the use's offset and then by the transform of the
\* outermost text group around it; and the contours are the ones the symbol's
\* paths describe.
GlyphsAsWritten ==
  stage = "placed" /\ morph = "none" /\ AsWritten =>
    glyphs = FlattenSeq([k \in DOMAIN events |->
               IF IsPlaced(k) /\ SymbolOutline(events[k].id) # <<>> THEN <<GlyphAt(k)>> ELSE <<>>])

\* parseSVGPathContours ends on every path in which no number follows a Z; on
\* one in which it does, the loop stays where it is.
StrayNumber(d) == \E k \in 2..Len(d) : d[k - 1].cmd = "Z" /\ IsNumber(d[k])
ReadsToTheEnd ==
  (\A k \in Opens("path") : ~StrayNumber(events[k].d)) => <>(stage \in {"placed", "failed"})

(***************************************************************************)
(* Morphs.                                                                 *)
(***************************************************************************)
Matched == morph = "match" /\ Len(sOut) >= Len(srcLoops) /\ Unused = {}
IsPoint(c) == \A m \in DOMAIN c : c[m] = c[1]
SameLoop(c, d) == \E k \in 0..(Samples - 1) : Rotated(d, k) = c \/ Rotated(Reverse(d), k) = c

LoopsTravel ==
  Matched =>
    /\ Len(sOut) = Len(dOut) /\ Len(sOut) = Max({Len(srcLoops), Len(dstLoops)})
    /\ \E from \in Injection(DOMAIN srcLoops, DOMAIN sOut), to \in Injection(DOMAIN dstLoops, DOMAIN dOut) :
         /\ \A k \in DOMAIN srcLoops : SameLoop(sOut[from[k]], srcLoops[k])
         /\ \A k \in DOMAIN dstLoops : SameLoop(dOut[to[k]], dstLoops[k])
         /\ \A k \in DOMAIN sOut \ (Range(from) \cap Range(to)) :
              /\ IsPoint(sOut[k]) \/ IsPoint(dOut[k])
              /\ shown = <<>> \/ PointSum(shown[1].loops[k]) = Scaled(Frames, PointSum(sOut[k]))

OpenPathsStayFlat ==
  Matched /\ Partner.kind = "path" /\ ~Partner.closed =>
    Area((IF work.textFirst THEN dstLoops ELSE srcLoops)[1]) = 0

\* matchLoops and lerpLoops: the two lists are equally long; every loop of the
\* source leaves once and every loop of the target arrives once, whatever is
\* paired with it; and a loop that has no partner is paired with a point and
\* keeps its centroid in every frame, shrinking or growing in place. And
\* thereAndBack: an open path is morphed as a loop that encloses no area.
EveryLoopTravels == LoopsTravel /\ OpenPathsStayFlat

\* alignLoop: no other starting point of the target's loop makes the points
\* travel less, and the two loops turn the same way.
LeastTravel ==
  Matched =>
    \A k \in DOMAIN sOut : ~IsPoint(sOut[k]) /\ ~IsPoint(dOut[k]) =>
      /\ Sign(Area(sOut[k])) * Sign(Area(dOut[k])) >= 0
      /\ \A n \in 1..(Samples - 1) : Travel(sOut[k], dOut[k]) <= Travel(sOut[k], Rotated(dOut[k], n))

\* morphStyleAt: "a fade from a transparent side does not pull the colour
\* toward black" (morph.go:193): the fill on screen is a colour between the
\* colours of the sides that can be seen.
FadeKeepsColour ==
  shown # <<>> =>
    LET fill == shown[1].fill
        seen == {c.v : c \in {d \in {FillOf(Source), FillOf(Target)} : d.a > 0}}
    IN  fill.a > 0 => /\ Min(seen) * fill.a <= fill.va
                      /\ fill.va <= Max(seen) * fill.a
=============================================================================
