------------------------------ MODULE Morphing ------------------------------
(***************************************************************************)
(* Morphing a text into a shape or another text, or a shape into a text:   *)
(* internal/pdtt/morph.go and the resampling of render.go. Every outline   *)
(* is a list of closed loops; loops of the two sides are paired, resampled *)
(* to the same number of points and interpolated.                          *)
(*                                                                         *)
(* Points lie on a grid: the length of an edge and a sample between two    *)
(* corners are rounded down to it, as floating point rounds them to its    *)
(* own. A loop is Samples times as large when it has been resampled, and   *)
(* once more so that its centroid is on the grid too.                      *)
(***************************************************************************)
EXTENDS GlyphReader

CONSTANTS
  Samples,   \* points of a loop (192 in the source)
  Frames,    \* the frames of a morph
  Works      \* [doc, color, partner, textFirst]: an SVG, its text's colour, what
             \* it is morphed with (<<>> when it is not), and which way

Colours == [v : Nat, a : Nat]
Paints == {c \in Seq(Colours) : Len(c) <= 1}
ASSUME MorphAssumption ==
  /\ Frames \in Nat /\ Samples \in Nat \ {0}
  /\ \A w \in Works :
       /\ w.doc \in Seq(Tags) /\ w.color \in Paints
       /\ w.partner \in Seq([kind : {"path", "dot", "text"}, closed : BOOLEAN,
                             contours : Seq(Seq(Int \X Int)),
                             color : Paints, stroke : Paints, fill : Paints])
       \* Only a text has several contours, or none.
       /\ \A n \in DOMAIN w.partner : w.partner[n].kind # "text" => Len(w.partner[n].contours) = 1

VARIABLES work, morph, srcLoops, dstLoops, used, sOut, dOut, u, shown
morphVars == <<work, morph, srcLoops, dstLoops, used, sOut, dOut, u, shown>>
vars == <<pathVars, glyphVars, morphVars>>

(***************************************************************************)
(* Loops.                                                                  *)
(***************************************************************************)
Cyclic(c, k) == c[((k - 1) % Len(c)) + 1]
SumTo(s, n) == LET upto[k \in 0..Len(s)] == IF k = 0 THEN 0 ELSE upto[k - 1] + s[k] IN upto[n]
Total(s) == SumTo(s, Len(s))
Sign(x) == IF x > 0 THEN 1 ELSE IF x < 0 THEN -1 ELSE 0
Size(x) == x * Sign(x)

\* Mutant: the way back leaves out a corner.
ThereAndBackShort(pts) ==
  IF Len(pts) < 2 THEN pts ELSE pts \o [k \in 1..(Len(pts) - 3) |-> pts[Len(pts) - 1 - k]]

\* thereAndBack: an open path, walked to its end and back.
ThereAndBack(pts) ==
  IF Len(pts) < 2 THEN pts ELSE pts \o [k \in 1..(Len(pts) - 2) |-> pts[Len(pts) - k]]

\* math.Hypot, rounded down.
Hypot(x, y) == Max({r \in 0..(Size(x) + Size(y)) : r * r <= x * x + y * y})

\* resampleClosed: Samples points at equal distances along the loop. Edges of
\* no length are skipped; an edge's end belongs to it.
ResampleClosed(c) ==
  LET Length(k) == Hypot(Cyclic(c, k + 1)[1] - c[k][1], Cyclic(c, k + 1)[2] - c[k][2])
      lengths == [k \in DOMAIN c |-> Length(k)]
      Before(k) == SumTo(lengths, k - 1)
      total == Total(lengths)
      segs == {k \in DOMAIN c : Length(k) > 0}
      Sample(m) ==
        LET target == total * (m - 1)
            k == Min({s \in segs : Samples * (Before(s) + Length(s)) >= target})
            gone == target - Samples * Before(k)
            left == Samples * Length(k) - gone
            Lerp(p, q) == (left * p + gone * q) \div Length(k)
        IN  <<Lerp(c[k][1], Cyclic(c, k + 1)[1]), Lerp(c[k][2], Cyclic(c, k + 1)[2])>>
  IN  [m \in 1..Samples |-> Scaled(Samples, IF segs = {} THEN Scaled(Samples, c[1]) ELSE Sample(m))]

\* contourCentroid and contourSignedArea (twice it) of a resampled loop.
PointSum(c) == <<Total([m \in DOMAIN c |-> c[m][1]]), Total([m \in DOMAIN c |-> c[m][2]])>>
Centroid(c) == <<PointSum(c)[1] \div Samples, PointSum(c)[2] \div Samples>>
Area(c) ==
  Total([k \in DOMAIN c |-> c[k][1] * Cyclic(c, k + 1)[2] - Cyclic(c, k + 1)[1] * c[k][2]])
PointContour(p) == [m \in 1..Samples |-> p]
Apart(p, q) == (p[1] - q[1]) * (p[1] - q[1]) + (p[2] - q[2]) * (p[2] - q[2])
Rotated(c, k) == [m \in DOMAIN c |-> Cyclic(c, m + k)]
Travel(s, d) == Total([m \in DOMAIN s |-> Apart(s[m], d[m])])

\* A cost so far against the best one, which is <<>> (MaxFloat64) at first.
Reaches(cost, best) == best # <<>> /\ cost >= best[1]

\* Mutant: the cost of the best offset is not kept with it.
TriedOnly(s, d, k, best) ==
  LET total == Travel(s, Rotated(d, k))
  IN  IF Reaches(total, best.cost) THEN best ELSE [best EXCEPT !.at = k]

\* One offset: its travel is summed until it reaches the best so far.
Tried(s, d, k, best) ==
  LET Summed(sum, m) == IF m > 1 /\ Reaches(sum, best.cost) THEN sum
                        ELSE sum + Apart(s[m], Cyclic(d, m + k))
      upto[m \in 0..Len(s)] == IF m = 0 THEN 0 ELSE Summed(upto[m - 1], m)
      total == upto[Len(s)]
  IN  IF Reaches(total, best.cost) THEN best ELSE [at |-> k, cost |-> <<total>>]

\* alignLoop: the winding of s, and the best of all offsets, tried in order.
AlignLoop(s, d) ==
  LET wound == IF Sign(Area(s)) * Sign(Area(d)) < 0 THEN Reverse(d) ELSE d
      best[k \in 0..Len(d)] == IF k = 0 THEN [at |-> 0, cost |-> <<>>] ELSE Tried(s, wound, k - 1, best[k - 1])
  IN  IF Len(s) # Len(d) \/ Len(d) = 0 THEN d ELSE Rotated(wound, best[Len(d)].at)

(***************************************************************************)
(* Paint (shapeStyleForMorph, morphStyleAt). A colour is its value v in    *)
(* one channel and its alpha a; a field that is not given is <<>>.         *)
(***************************************************************************)
White == [v |-> 2, a |-> 1]
Given(fields, default) == LET given == {k \in DOMAIN fields : fields[k] # <<>>}
                          IN  IF given = {} THEN default ELSE fields[Min(given)][1]
Transparent == [v |-> 0, a |-> 0]
FillOf(e) ==
  CASE e.kind = "text" -> Given(<<e.color, e.stroke, e.fill>>, White)
    [] e.kind = "dot" -> Given(<<e.fill, e.color, e.stroke>>, White)
    [] OTHER -> Given(<<e.fill>>, Transparent)

\* Mutant: alpha and colour are interpolated each on its own.
FillUnmultiplied(s, d, k) ==
  LET Between(x, y) == (Frames - k) * x + k * y
      alpha == Between(s.a, d.a)
  IN  [a |-> alpha, va |-> (alpha * Between(s.v, d.v)) \div Frames]

\* The fill at frame k: alpha, and value times alpha.
FillAt(s, d, k) ==
  LET Between(x, y) == (Frames - k) * x + k * y
      alpha == Between(s.a, d.a)
  IN  [a |-> alpha, va |-> IF alpha = 0 THEN 0 ELSE Between(s.v * s.a, d.v * d.a)]

(***************************************************************************)
(* Matching (morphLoops, matchLoops).                                      *)
(***************************************************************************)
\* morphLoops: the contours of a text, a path (folded when it is open), or
\* the ring of a dot, which outlinePoints gives as points of a circle.
MorphLoops(e) ==
  LET pts == e.contours[1]
  IN  CASE e.kind = "text" -> AtLeast(2, e.contours)
        [] e.kind # "text" /\ Len(pts) < 2 -> <<>>
        [] e.kind = "path" /\ Len(pts) >= 2 /\ ~e.closed -> <<ThereAndBack(pts)>>
        [] OTHER -> <<pts>>

Partner == [work.partner[1] EXCEPT !.contours = [k \in DOMAIN @ |-> Drawn(@[k])]]
Text == [kind |-> "text", closed |-> FALSE, contours |-> FlattenSeq(glyphs),
         color |-> work.color, stroke |-> <<>>, fill |-> <<>>]
Source == IF work.textFirst THEN Text ELSE Partner
Target == IF work.textFirst THEN Partner ELSE Text

\* The start of the morph; with no loops on one side it is a crossfade.
StartMorph ==
  /\ stage = "placed" /\ morph = "none" /\ work.partner # <<>>
  /\ LET s == MorphLoops(Source)  d == MorphLoops(Target)
     IN  IF s = <<>> \/ d = <<>> THEN morph' = "crossfade" /\ UNCHANGED <<srcLoops, dstLoops>>
         ELSE /\ morph' = "match"
              /\ srcLoops' = [k \in DOMAIN s |-> ResampleClosed(s[k])]
              /\ dstLoops' = [k \in DOMAIN d |-> ResampleClosed(d[k])]
  /\ UNCHANGED <<work, used, sOut, dOut, u, shown>>

Unused == DOMAIN dstLoops \ used
Far(j) == Apart(Centroid(srcLoops[Len(sOut) + 1]), Centroid(dstLoops[j]))
Nearest == {j \in Unused : \A k \in Unused : Far(j) <= Far(k)}

\* The next loop of the source: with the nearest loop left, or with a point at
\* its own centroid.
Pair ==
  /\ morph = "match" /\ Len(sOut) < Len(srcLoops)
  /\ LET s == srcLoops[Len(sOut) + 1]
     IN  /\ sOut' = Append(sOut, s)
         /\ dOut' = Append(dOut, IF Unused = {} THEN PointContour(Centroid(s))
                                 ELSE AlignLoop(s, dstLoops[Min(Nearest)]))
         /\ used' = IF Unused = {} THEN used ELSE used \cup {Min(Nearest)}
  /\ UNCHANGED <<work, morph, srcLoops, dstLoops, u, shown>>

\* Mutant: what is left of the target grows from one point.
GrowFromFirst ==
  /\ morph = "match" /\ Len(sOut) >= Len(srcLoops) /\ Unused # {}
  /\ LET d == dstLoops[Min(Unused)]
     IN  /\ sOut' = Append(sOut, PointContour(Centroid(dstLoops[1])))
         /\ dOut' = Append(dOut, d)
         /\ used' = used \cup {Min(Unused)}
  /\ UNCHANGED <<work, morph, srcLoops, dstLoops, u, shown>>

\* A loop that is left on the target's side grows from its own centroid.
Grow ==
  /\ morph = "match" /\ Len(sOut) >= Len(srcLoops) /\ Unused # {}
  /\ LET d == dstLoops[Min(Unused)]
     IN  /\ sOut' = Append(sOut, PointContour(Centroid(d)))
         /\ dOut' = Append(dOut, d)
         /\ used' = used \cup {Min(Unused)}
  /\ UNCHANGED <<work, morph, srcLoops, dstLoops, u, shown>>

(***************************************************************************)
(* Frames (step): lerpLoops at u of Frames, Frames times as large, and the *)
(* fill. The last one gives way to the target itself.                      *)
(***************************************************************************)
LerpLoops(k) ==
  [c \in DOMAIN sOut |-> [m \in DOMAIN sOut[c] |->
     Plus(Scaled(Frames - k, sOut[c][m]), Scaled(k, dOut[c][m]))]]
Frame ==
  /\ morph = "match" /\ Len(sOut) >= Len(srcLoops) /\ Unused = {} /\ u < Frames
  /\ shown' = << [loops |-> LerpLoops(u), fill |-> FillAt(FillOf(Source), FillOf(Target), u)] >>
  /\ u' = u + 1
  /\ UNCHANGED <<work, morph, srcLoops, dstLoops, used, sOut, dOut>>
MorphOver ==
  /\ morph = "match" /\ u = Frames
  /\ shown' = <<>> /\ morph' = "over"
  /\ UNCHANGED <<work, srcLoops, dstLoops, used, sOut, dOut, u>>

Init ==
  /\ work \in Works
  /\ ReaderStarts(work.doc)
  /\ morph = "none" /\ srcLoops = <<>> /\ dstLoops = <<>> /\ used = {}
  /\ sOut = <<>> /\ dOut = <<>> /\ u = 0 /\ shown = <<>>
Morph == (StartMorph \/ Pair \/ Grow \/ Frame \/ MorphOver) /\ UNCHANGED <<pathVars, glyphVars>>
Reading == ReadGlyphs /\ UNCHANGED morphVars
Settled == \/ stage = "failed" \/ morph \in {"over", "crossfade"}
           \/ stage = "placed" /\ work.partner = <<>>
Rest == Settled /\ UNCHANGED vars
Spec == Init /\ [][Reading \/ Morph \/ Rest]_vars /\ WF_vars(Reading)
=============================================================================
