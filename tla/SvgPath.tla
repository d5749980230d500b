------------------------------ MODULE SvgPath ------------------------------
(***************************************************************************)
(* The outline of a glyph: parseSVGPathContours (internal/pdtt/            *)
(* svgpath.go) turns the commands of a path into contours, lists of        *)
(* points. One step is one turn of its loop: a command with the numbers    *)
(* that follow it. Coordinates are integers; a point of a contour is       *)
(* Unit times as large, so that the points of a flattened curve are        *)
(* integers too.                                                           *)
(***************************************************************************)
EXTENDS Integers, FiniteSetsExt, SequencesExt

CONSTANT Steps   \* the segments a curve is flattened into (12 in the source)
ASSUME PathAssumption == Steps \in Nat \ {0}

VARIABLES
  path,    \* the tokens: [cmd, rel, num], a number when cmd is ""
  i,       \* the next token
  cmd,     \* the command in force, "" at first
  cur,     \* the current point
  start,   \* where the subpath began
  poly,    \* the contour being drawn
  contours,
  phase    \* idle, path, ended or bad
pathVars == <<path, i, cmd, cur, start, poly, contours, phase>>

Unit == Steps * Steps * Steps
Plus(p, q) == <<p[1] + q[1], p[2] + q[2]>>
Scaled(k, p) == <<k * p[1], k * p[2]>>
Drawn(ps) == [k \in DOMAIN ps |-> Scaled(Unit, ps[k])]
Origin == <<0, 0>>
Tokens == [cmd : {""} \cup STRING, rel : BOOLEAN, num : Int]
NoCommand == [cmd |-> "", rel |-> FALSE, num |-> 0]
IsNumber(tok) == tok.cmd = ""
\* The elements of n or more.
AtLeast(n, ss) == FlattenSeq([k \in DOMAIN ss |-> IF Len(ss[k]) >= n THEN <<ss[k]>> ELSE <<>>])

(***************************************************************************)
(* The command of this turn and the numbers that follow it.                *)
(***************************************************************************)
More == phase = "path" /\ i <= Len(path)
Now == IF IsNumber(path[i]) THEN cmd ELSE path[i]
First == IF IsNumber(path[i]) THEN i ELSE i + 1
\* Mutant: the last token is never read as a number.
PastButLast ==
  LET end == Max({First, Len(path)})
  IN  Min({j \in First..end : j = end \/ ~IsNumber(path[j])})

\* Where they end.
Past == Min({j \in First..(Len(path) + 1) : j = Len(path) + 1 \/ ~IsNumber(path[j])})
Numbers == [k \in 1..(Past - First) |-> path[First + k - 1].num]

\* n numbers at a time; the curves read a missing one as 0.
Groups(n) ==
  LET Nth(k) == IF k \in DOMAIN Numbers THEN Numbers[k] ELSE 0
  IN  [g \in 1..((Len(Numbers) + n - 1) \div n) |-> [k \in 1..n |-> Nth((g - 1) * n + k)]]

\* The points reached from the current one by moving to each of ps in turn.
Reached(ps) ==
  LET at[k \in 0..Len(ps)] == IF k = 0 THEN cur
                              ELSE IF Now.rel THEN Plus(at[k - 1], ps[k]) ELSE ps[k]
  IN  [k \in 1..Len(ps) |-> at[k]]

Flushed == contours \o (IF poly = <<>> THEN <<>> ELSE <<poly>>)
Go(to, drawn) ==
  /\ cur' = IF to = <<>> THEN cur ELSE Last(to)
  /\ poly' = poly \o drawn
  /\ i' = Past
  /\ cmd' = Now
  /\ UNCHANGED <<path, start, contours, phase>>
Broken == phase' = "bad" /\ UNCHANGED <<path, i, cmd, cur, start, poly, contours>>

(***************************************************************************)
(* The commands.                                                           *)
(***************************************************************************)
\* M and m: a new subpath; further points are joined to it by lines.
MoveTo ==
  /\ More /\ Now.cmd = "M"
  /\ \E to \in {Reached(Groups(2))} :
       IF Len(Numbers) % 2 = 1 THEN Broken
       ELSE IF to = <<>> THEN Go(<<>>, <<>>)
       ELSE /\ contours' = Flushed
            /\ poly' = Drawn(to)
            /\ start' = to[1] /\ cur' = Last(to)
            /\ i' = Past /\ cmd' = Now
            /\ UNCHANGED <<path, phase>>

LineTo ==
  /\ More /\ Now.cmd = "L"
  /\ IF Len(Numbers) % 2 = 1 THEN Broken
     ELSE \E to \in {Reached(Groups(2))} : Go(to, Drawn(to))

\* H and V: one coordinate, the other stays.
Along(axis) ==
  LET Kept == IF Now.rel THEN 0 ELSE cur[3 - axis]
  IN  Reached([k \in DOMAIN Numbers |-> IF axis = 1 THEN <<Numbers[k], Kept>> ELSE <<Kept, Numbers[k]>>])
Horizontal == More /\ Now.cmd = "H" /\ \E to \in {Along(1)} : Go(to, Drawn(to))
Vertical == More /\ Now.cmd = "V" /\ \E to \in {Along(2)} : Go(to, Drawn(to))

\* flattenCubic and flattenQuadratic: Steps points of the curve, the last one
\* its end.
Cubic(ps, k, r) == Plus(Plus(Scaled(r * r * r, ps[1]), Scaled(3 * r * r * k, ps[2])),
                        Plus(Scaled(3 * r * k * k, ps[3]), Scaled(k * k * k, ps[4])))
Quadratic(ps, k, r) ==
  Scaled(Steps, Plus(Plus(Scaled(r * r, ps[1]), Scaled(2 * r * k, ps[2])), Scaled(k * k, ps[3])))
Curve(ps) == [k \in 1..Steps |-> IF Len(ps) = 4 THEN Cubic(ps, k, Steps - k)
                                  ELSE Quadratic(ps, k, Steps - k)]

\* C (two control points) and Q (one): all points are relative to where the
\* segment begins.
Couple(g, k) == <<g[2 * k - 1], g[2 * k]>>
Segment(from, g, n) ==
  <<from>> \o [k \in 1..n |-> IF Now.rel THEN Plus(from, Couple(g, k)) ELSE Couple(g, k)]
CurveTo ==
  /\ More /\ Now.cmd \in {"C", "Q"}
  /\ LET n == IF Now.cmd = "C" THEN 3 ELSE 2
     IN  \E gs \in {Groups(2 * n)} :
         \E ends \in {Reached([g \in DOMAIN gs |-> Couple(gs[g], n)])} :
           LET From(g) == IF g = 1 THEN cur ELSE ends[g - 1]
           IN  Go(ends, FlattenSeq([g \in DOMAIN gs |-> Curve(Segment(From(g), gs[g], n))]))

\* Z: it takes no number, so on one it stays at its place for ever.
ClosePath ==
  /\ More /\ Now.cmd = "Z"
  /\ cur' = start
  /\ contours' = Flushed /\ poly' = <<>>
  /\ i' = First /\ cmd' = Now
  /\ UNCHANGED <<path, start, phase>>

Unsupported == More /\ Now.cmd \notin {"M", "L", "H", "V", "C", "Q", "Z"} /\ Broken

PathEnd ==
  /\ phase = "path" /\ i > Len(path)
  /\ contours' = Flushed /\ poly' = <<>> /\ phase' = "ended"
  /\ UNCHANGED <<path, i, cmd, cur, start>>

PathIdle ==
  /\ path = <<>> /\ i = 1 /\ cmd = NoCommand /\ cur = Origin /\ start = Origin
  /\ poly = <<>> /\ contours = <<>> /\ phase = "idle"
PathBegins(d) ==
  /\ path' = d /\ i' = 1 /\ cmd' = NoCommand /\ cur' = Origin /\ start' = Origin
  /\ poly' = <<>> /\ contours' = <<>> /\ phase' = "path"
PathStep == \/ MoveTo \/ LineTo \/ Horizontal \/ Vertical \/ CurveTo \/ ClosePath
            \/ Unsupported \/ PathEnd
=============================================================================
