--------------------------- MODULE OutlineProofs ---------------------------
(***************************************************************************)
(* Proofs about morphs, and about the documents that are morphed.          *)
(*                                                                         *)
(* The fill of a frame is a mean of the fills of the two sides, weighted   *)
(* by their alphas, and a mean lies between what it is taken of; a side    *)
(* that cannot be seen has no weight.                                      *)
(*                                                                         *)
(* The loops: whatever is read consists of points with integer             *)
(* coordinates, so every loop is a list of Samples points, and sums over   *)
(* its points are integers. A turn of a loop leaves such a sum alone, a    *)
(* reversal of it changes the sign of the area. The search of alignLoop    *)
(* keeps the least travel of the offsets it has tried, although it adds up *)
(* some of them only in part. A resampled loop has an integer centroid,    *)
(* which every mean of the loop and the point at its centroid keeps. An    *)
(* open path goes back as it came, so its samples do, rounded or not, and  *)
(* a loop that is the same both ways round has an area that is its own     *)
(* negative.                                                               *)
(*                                                                         *)
(* A path: its text splits into segments one number at a time, and a turn  *)
(* of the reader takes the numbers of several segments at once; so the     *)
(* reader is always between two segments, at the end of the one before,    *)
(* having drawn what the segments so far draw.                             *)
(*                                                                         *)
(* A document: which elements are open is a count of tags, and the         *)
(* reader's current symbol, depth and transform are what the count says of *)
(* the elements read so far; the outlines and the uses it has collected    *)
(* are what those elements add, one list after another.                    *)
(***************************************************************************)
EXTENDS OutlineClaims, FiniteSetTheorems, WellFoundedInduction, TLAPS

(* Paint. *)
\* A set of one or two numbers has a least and a greatest element.
LEMMA LeastOfTwo ==
  ASSUME NEW x \in Nat, NEW y \in Nat, NEW S, S \subseteq {x, y}, S # {}
  PROVE  /\ Min(S) \in S /\ \A z \in S : Min(S) <= z
         /\ Max(S) \in S /\ \A z \in S : z <= Max(S)
<1>0. S = {x} \/ S = {y} \/ S = {x, y}  OBVIOUS
<1>1. \E m \in S : \A z \in S : m <= z
  <2>1. x <= y \/ y <= x  OBVIOUS
  <2> QED  BY <1>0, <2>1
<1>2. \E m \in S : \A z \in S : m >= z
  <2>1. x >= y \/ y >= x  OBVIOUS
  <2> QED  BY <1>0, <2>1
<1> QED  BY <1>1, <1>2 DEF Min, Max

\* The first field that is given is a colour.
LEMMA GivenColour ==
  ASSUME NEW n \in 1..3, NEW fields \in [1..n -> Paints], NEW default \in Colours
  PROVE  Given(fields, default) \in Colours
<1> DEFINE given == {k \in DOMAIN fields : fields[k] # <<>>}
<1>1. ASSUME given # {} PROVE Min(given) \in given
  <2>1. \E m \in given : \A z \in given : m <= z
    <3>1. given \subseteq {1, 2, 3}  OBVIOUS
    <3>2. CASE 1 \in given  BY <3>1, <3>2
    <3>3. CASE 1 \notin given /\ 2 \in given  BY <3>1, <3>3
    <3>4. CASE 1 \notin given /\ 2 \notin given  BY <1>1, <3>1, <3>4
    <3> QED  BY <3>2, <3>3, <3>4
  <2> QED  BY <2>1 DEF Min
<1>2. \A k \in given : fields[k][1] \in Colours
  <2> SUFFICES ASSUME NEW k \in given PROVE fields[k][1] \in Colours  OBVIOUS
  <2>1. fields[k] \in Seq(Colours) /\ fields[k] # <<>>  BY DEF Paints
  <2> QED  BY <2>1
<1> QED  BY <1>1, <1>2 DEF Given

\* The two fills of a morph.
LEMMA FillsAreColours ==
  ASSUME work \in Works, work.partner # <<>>
  PROVE  FillOf(Source) \in Colours /\ FillOf(Target) \in Colours
<1>0. White \in Colours /\ Transparent \in Colours  BY DEF White, Transparent, Colours
<1>1. FillOf(Text) \in Colours
  <2>1. Text.kind = "text" /\ Text.color \in Paints /\ Text.stroke \in Paints /\ Text.fill \in Paints
    <3>1. <<>> \in Paints  BY DEF Paints
    <3>2. work.color \in Paints  BY MorphAssumption
    <3> QED  BY <3>1, <3>2 DEF Text
  <2>2. <<Text.color, Text.stroke, Text.fill>> \in [1..3 -> Paints]  BY <2>1
  <2> QED  BY <1>0, <2>1, <2>2, GivenColour DEF FillOf
<1>2. FillOf(Partner) \in Colours
  <2> DEFINE Shape == [kind : {"path", "dot", "text"}, closed : BOOLEAN, contours : Seq(Seq(Int \X Int)),
                       color : Paints, stroke : Paints, fill : Paints]
  <2>0. work.partner[1] \in Shape
    <3>1. work.partner \in Seq(Shape)  BY MorphAssumption
    <3> HIDE DEF Shape
    <3> QED  BY <3>1
  <2>1. /\ work.partner[1].kind \in {"path", "dot", "text"} /\ work.partner[1].color \in Paints
        /\ work.partner[1].stroke \in Paints /\ work.partner[1].fill \in Paints
        /\ {"kind", "color", "stroke", "fill"} \subseteq DOMAIN work.partner[1]  BY <2>0
  <2>2. /\ Partner.kind \in {"path", "dot", "text"}
        /\ Partner.color \in Paints /\ Partner.stroke \in Paints /\ Partner.fill \in Paints  BY <2>1 DEF Partner
  <2>3. <<Partner.fill, Partner.color, Partner.stroke>> \in [1..3 -> Paints]  BY <2>2
  <2>4. <<Partner.fill>> \in [1..1 -> Paints] /\ <<Partner.color, Partner.stroke, Partner.fill>> \in [1..3 -> Paints]
    BY <2>2
  <2>5. CASE Partner.kind = "dot"
    <3>1. Given(<<Partner.fill, Partner.color, Partner.stroke>>, White) \in Colours  BY <1>0, <2>3, GivenColour
    <3> QED  BY <2>5, <3>1 DEF FillOf
  <2>6. CASE Partner.kind = "path"
    <3>1. Given(<<Partner.fill>>, Transparent) \in Colours  BY <1>0, <2>4, GivenColour
    <3> QED  BY <2>6, <3>1 DEF FillOf
  <2>7. CASE Partner.kind = "text"
    <3>1. Given(<<Partner.color, Partner.stroke, Partner.fill>>, White) \in Colours  BY <1>0, <2>4, GivenColour
    <3> QED  BY <2>7, <3>1 DEF FillOf
  <2> QED  BY <2>2, <2>5, <2>6, <2>7
<1> QED  BY <1>1, <1>2 DEF Source, Target

\* A weight times a number between bounds, where bounds are known only of what
\* has a weight.
LEMMA WeightBetween ==
  ASSUME NEW w \in Nat, NEW v \in Nat, NEW lo \in Nat, NEW hi \in Nat,
         w > 0 => lo <= v /\ v <= hi
  PROVE  lo * w <= w * v /\ w * v <= hi * w
<1>1. CASE w = 0  BY <1>1
<1>2. CASE w > 0
  <2>1. \A a, b \in Nat : a * b \in Nat  OBVIOUS
  <2>2. w * (v - lo) \in Nat /\ w * (hi - v) \in Nat  BY <1>2, <2>1
  <2> QED  BY <2>2
<1> QED  BY <1>1, <1>2

\* FillAt: the value of the fill is a mean of what has a weight.
LEMMA FillIsMean ==
  ASSUME NEW s \in Colours, NEW d \in Colours, NEW k \in 0..Frames, FillAt(s, d, k).a > 0
  PROVE  LET seen == {c.v : c \in {e \in {s, d} : e.a > 0}}
             fill == FillAt(s, d, k)
         IN  Min(seen) * fill.a <= fill.va /\ fill.va <= Max(seen) * fill.a
<1> DEFINE seen == {c.v : c \in {e \in {s, d} : e.a > 0}}
           ws == (Frames - k) * s.a
           wd == k * d.a
<1>0. s.v \in Nat /\ s.a \in Nat /\ d.v \in Nat /\ d.a \in Nat /\ Frames \in Nat /\ k \in Nat /\ Frames - k \in Nat
  BY MorphAssumption DEF Colours
<1>1. ws \in Nat /\ wd \in Nat
  <2>1. \A a, b \in Nat : a * b \in Nat  OBVIOUS
  <2> QED  BY <1>0, <2>1
<1>2. FillAt(s, d, k).a = ws + wd  BY DEF FillAt
<1>3. FillAt(s, d, k).va = ws * s.v + wd * d.v
  <2>1. FillAt(s, d, k).va = (Frames - k) * (s.v * s.a) + k * (d.v * d.a)  BY <1>0, <1>1, <1>2 DEF FillAt
  <2>2. \A a, b, c \in Nat : a * (b * c) = (a * c) * b  OBVIOUS
  <2> QED  BY <1>0, <2>1, <2>2
<1>4. (ws > 0 => s.a > 0) /\ (wd > 0 => d.a > 0)  BY <1>0
<1>5. /\ seen \subseteq {s.v, d.v} /\ seen # {}
      /\ s.a > 0 => s.v \in seen
      /\ d.a > 0 => d.v \in seen  BY <1>0, <1>1, <1>2, <1>4
<1>6. /\ Min(seen) \in Nat /\ \A z \in seen : Min(seen) <= z
      /\ Max(seen) \in Nat /\ \A z \in seen : z <= Max(seen)
  <2> HIDE DEF seen
  <2> QED  BY <1>0, <1>5, LeastOfTwo
<1> HIDE DEF seen, ws, wd
<1>7. Min(seen) * ws <= ws * s.v /\ ws * s.v <= Max(seen) * ws  BY <1>0, <1>1, <1>4, <1>5, <1>6, WeightBetween
<1>8. Min(seen) * wd <= wd * d.v /\ wd * d.v <= Max(seen) * wd  BY <1>0, <1>1, <1>4, <1>5, <1>6, WeightBetween
<1>9. Min(seen) * (ws + wd) <= ws * s.v + wd * d.v /\ ws * s.v + wd * d.v <= Max(seen) * (ws + wd)
  <2>1. \A m \in Nat : m * (ws + wd) = m * ws + m * wd  BY <1>1
  <2>2. /\ Min(seen) * ws \in Int /\ Min(seen) * wd \in Int /\ Max(seen) * ws \in Int
        /\ Max(seen) * wd \in Int /\ ws * s.v \in Int /\ wd * d.v \in Int  BY <1>0, <1>1, <1>6
  <2> QED  BY <1>6, <1>7, <1>8, <2>1, <2>2
<1> QED  BY <1>2, <1>3, <1>9 DEF seen

(* The morph: its two sides stay what they were when it began. *)
PaintInv ==
  /\ work \in Works
  /\ u \in 0..Frames
  /\ morph # "none" => work.partner # <<>>
  /\ shown # <<>> =>
       /\ morph # "none"
       /\ \E k \in 0..Frames : shown[1].fill = FillAt(FillOf(Source), FillOf(Target), k)

\* Reading a document changes the contours of the text, not its paint.
LEMMA PaintStays ==
  ASSUME work' = work
  PROVE  FillOf(Source)' = FillOf(Source) /\ FillOf(Target)' = FillOf(Target)
<1>1. FillOf(Text)' = FillOf(Text)  BY DEF FillOf, Text
<1>2. Partner' = Partner  BY DEF Partner
<1> QED  BY <1>1, <1>2 DEF Source, Target, FillOf

\* No step changes the paint of the sides.
LEMMA PaintNext ==
  ASSUME PaintInv, [Reading \/ Morph \/ Rest]_vars
  PROVE  PaintInv'
<1> USE DEF PaintInv
<1>1. CASE UNCHANGED morphVars  BY <1>1, PaintStays DEF morphVars
<1>2. CASE StartMorph  BY <1>2, PaintStays DEF StartMorph
<1>3. CASE Pair \/ Grow  BY <1>3, PaintStays DEF Pair, Grow
<1>4. CASE Frame
  <2>1. /\ shown'[1].fill = FillAt(FillOf(Source), FillOf(Target), u)
        /\ work' = work /\ morph' = morph /\ u' = u + 1 /\ morph = "match" /\ u < Frames  BY <1>4 DEF Frame
  <2> QED  BY <2>1, PaintStays, MorphAssumption
<1>5. CASE MorphOver  BY <1>5 DEF MorphOver
<1> QED  BY <1>1, <1>2, <1>3, <1>4, <1>5 DEF Reading, Morph, Rest, vars, morphVars

\* morphStyleAt: for any number of frames and any paint of the two sides, the
\* fill on screen is a colour between the colours of the sides that can be
\* seen.
THEOREM FadesKeepColour == Spec => []FadeKeepsColour
<1>1. Init => PaintInv  BY MorphAssumption DEF Init, PaintInv
<1>2. PaintInv /\ [Reading \/ Morph \/ Rest]_vars => PaintInv'  BY PaintNext
<1>3. PaintInv => FadeKeepsColour
  <2> SUFFICES ASSUME PaintInv, shown # <<>>, shown[1].fill.a > 0 PROVE LET fill == shown[1].fill
                          seen == {c.v : c \in {d \in {FillOf(Source), FillOf(Target)} : d.a > 0}}
                      IN  Min(seen) * fill.a <= fill.va /\ fill.va <= Max(seen) * fill.a  BY DEF FadeKeepsColour
  <2>1. PICK k \in 0..Frames : shown[1].fill = FillAt(FillOf(Source), FillOf(Target), k)  BY DEF PaintInv
  <2>2. FillOf(Source) \in Colours /\ FillOf(Target) \in Colours  BY FillsAreColours DEF PaintInv
  <2> QED  BY <2>1, <2>2, FillIsMean
<1> QED  BY <1>1, <1>2, <1>3, PTL DEF Spec

(* Counting up, and what is computed that way. *)
\* A set of natural numbers has a least element.
LEMMA LeastElement ==
  ASSUME NEW S \in SUBSET Nat, S # {}
  PROVE  Min(S) \in S /\ \A x \in S : Min(S) <= x
<1> DEFINE R == {ss \in Nat \X Nat : ss[1] < ss[2]}
<1>1. IsWellFoundedOn(R, Nat)  BY NatLessThanWellFounded DEF OpToRel
<1>2. PICK x \in S : \A y \in S : <<y, x>> \notin R  BY <1>1, WFMin
<1>3. \A y \in S : x <= y
  <2> SUFFICES ASSUME NEW y \in S, y < x PROVE FALSE  OBVIOUS
  <2>1. <<y, x>> \in Nat \X Nat /\ <<y, x>>[1] = y /\ <<y, x>>[2] = x  OBVIOUS
  <2>2. <<y, x>> \in R  BY <2>1
  <2> QED  BY <1>2, <2>2
<1> QED  BY <1>3 DEF Min

\* Induction up to n, for a set: the least number that is not in it has a
\* predecessor that is.
LEMMA Upwards ==
  ASSUME NEW n \in Nat, NEW S, 0 \in S, \A k \in 1..n : k - 1 \in S => k \in S
  PROVE  \A k \in 0..n : k \in S
<1> DEFINE T == (0..n) \ S
<1>1. SUFFICES ASSUME T # {} PROVE FALSE  OBVIOUS
<1>2. Min(T) \in T /\ \A m \in T : Min(T) <= m
  <2>1. T \subseteq Nat  OBVIOUS
  <2> HIDE DEF T
  <2> QED  BY <1>1, <2>1, LeastElement
<1> DEFINE b == Min(T)
<1>3. b \in 0..n /\ b \notin S  BY <1>2
<1>4. b \in 1..n /\ b - 1 \in 0..n /\ b - 1 < b
  <2> HIDE DEF b
  <2> QED  BY <1>3
<1>5. b - 1 \in S
  <2>1. b - 1 \notin T  BY <1>2, <1>4
  <2> HIDE DEF b
  <2> QED  BY <1>4, <2>1
<1> HIDE DEF b
<1> QED  BY <1>3, <1>4, <1>5

\* What n steps make of x, step k with g from what the step before it left.
Repeated(f, n, x, g) == f[0] = x /\ \A k \in 1..n : f[k] = g[<<k, f[k - 1]>>]

\* A function that is given by a first value and a step from each value to
\* the next exists up to any n.
LEMMA RepeatedExists ==
  ASSUME NEW n \in Nat, NEW V, NEW x \in V, NEW g \in [(1..n) \X V -> V]
  PROVE  \E f \in [0..n -> V] : Repeated(f, n, x, g)
<1> DEFINE E(m) == \E f \in [0..m -> V] : Repeated(f, m, x, g)
           S == {m \in 0..n : E(m)}
<1>1. E(0)
  <2>1. [k \in 0..0 |-> x] \in [0..0 -> V] /\ Repeated([k \in 0..0 |-> x], 0, x, g)  BY DEF Repeated
  <2> QED  BY <2>1
<1>2. ASSUME NEW b \in 1..n, E(b - 1) PROVE E(b)
  <2>1. PICK f \in [0..(b - 1) -> V] : Repeated(f, b - 1, x, g)  BY <1>2
  <2> DEFINE h == [k \in 0..b |-> IF k = b THEN g[<<b, f[b - 1]>>] ELSE f[k]]
  <2>2. h \in [0..b -> V]
    <3>1. \A k \in 0..b : k # b => k \in 0..(b - 1)  OBVIOUS
    <3>2. f[b - 1] \in V  OBVIOUS
    <3>3. g[<<b, f[b - 1]>>] \in V  BY <3>2
    <3> QED  BY <3>1, <3>3
  <2>3. h[0] = x  BY <2>1 DEF Repeated
  <2>4. ASSUME NEW k \in 1..b PROVE h[k] = g[<<k, h[k - 1]>>]
    <3>1. CASE k = b
      <4>1. k \in 0..b /\ k - 1 \in 0..b /\ k - 1 # b  BY <3>1
      <4>2. h[k] = g[<<b, f[b - 1]>>] /\ h[k - 1] = f[k - 1]  BY <3>1, <4>1
      <4> HIDE DEF h
      <4> QED  BY <3>1, <4>2
    <3>2. CASE k # b
      <4>1. k \in 1..(b - 1) /\ k \in 0..b /\ k - 1 \in 0..b /\ k - 1 # b  BY <3>2
      <4>2. f[k] = g[<<k, f[k - 1]>>]  BY <2>1, <4>1 DEF Repeated
      <4>3. h[k] = f[k] /\ h[k - 1] = f[k - 1]  BY <3>2, <4>1
      <4> QED  BY <4>2, <4>3
    <3> QED  BY <3>1, <3>2
  <2> HIDE DEF h
  <2>5. Repeated(h, b, x, g)  BY <2>3, <2>4 DEF Repeated
  <2> QED  BY <2>2, <2>5
<1> HIDE DEF E
<1>3. 0 \in S /\ \A k \in 1..n : k - 1 \in S => k \in S
  <2>1. \A k \in 1..n : k \in 0..n /\ 0 \in 0..n  OBVIOUS
  <2> QED  BY <1>1, <1>2, <2>1
<1>4. n \in S
  <2>1. n \in 0..n  OBVIOUS
  <2> HIDE DEF S
  <2> QED  BY <1>3, <2>1, Upwards
<1> QED  BY <1>4 DEF E

(* Sums. *)
\* The sums of the first elements of a sequence, one by one.
Sums(s, f, n) == f[0] = 0 /\ \A k \in 1..n : f[k] = f[k - 1] + s[k]
Adding(s, n) == [ky \in (1..n) \X Int |-> ky[2] + s[ky[1]]]

\* The list of its sums exists for every sequence of integers.
LEMMA SumsExist ==
  ASSUME NEW s \in Seq(Int), NEW n \in 0..Len(s)
  PROVE  \E f \in [0..n -> Int] : Sums(s, f, n)
<1>1. n \in Nat /\ \A k \in 1..n : s[k] \in Int  OBVIOUS
<1>2. Adding(s, n) \in [(1..n) \X Int -> Int]  BY <1>1 DEF Adding
<1>3. PICK f \in [0..n -> Int] : Repeated(f, n, 0, Adding(s, n))
  <2>1. 0 \in Int  OBVIOUS
  <2> QED  BY <1>1, <1>2, <2>1, RepeatedExists
<1>4. ASSUME NEW k \in 1..n PROVE f[k] = f[k - 1] + s[k]
  <2>1. f[k - 1] \in Int  BY <1>1
  <2>2. Adding(s, n)[<<k, f[k - 1]>>] = f[k - 1] + s[k]  BY <2>1 DEF Adding
  <2> QED  BY <1>3, <2>2 DEF Repeated
<1> QED  BY <1>3, <1>4 DEF Repeated, Sums

\* There is only one such list of sums.
LEMMA SumsAgree ==
  ASSUME NEW s \in Seq(Int), NEW n \in 0..Len(s), NEW f, NEW g, Sums(s, f, n), Sums(s, g, n)
  PROVE  \A k \in 0..n : f[k] = g[k]
<1> DEFINE S == {k \in 0..n : f[k] = g[k]}
<1>1. n \in Nat  OBVIOUS
<1>2. 0 \in S  BY <1>1 DEF Sums
<1>3. ASSUME NEW k \in 1..n, k - 1 \in S PROVE k \in S
  <2>1. k \in 0..n /\ f[k - 1] = g[k - 1]  BY <1>1, <1>3
  <2> QED  BY <2>1 DEF Sums
<1>4. \A k \in 0..n : k \in S
  <2> HIDE DEF S
  <2> QED  BY <1>1, <1>2, <1>3, Upwards
<1> QED  BY <1>4

\* The sums of SumTo, one by one: each is an integer.
LEMMA SumToIs ==
  ASSUME NEW s \in Seq(Int)
  PROVE  /\ SumTo(s, 0) = 0
         /\ \A n \in 1..Len(s) : SumTo(s, n) = SumTo(s, n - 1) + s[n]
         /\ \A n \in 0..Len(s) : SumTo(s, n) \in Int
<1> DEFINE Is(f) == f = [k \in 0..Len(s) |-> IF k = 0 THEN 0 ELSE f[k - 1] + s[k]]
           upto == CHOOSE f : Is(f)
<1>0. Len(s) \in Nat  OBVIOUS
<1>1. PICK f \in [0..Len(s) -> Int] : Sums(s, f, Len(s))  BY <1>0, SumsExist
<1>2. Is(f)
  <2>1. \A k \in 0..Len(s) : f[k] = IF k = 0 THEN 0 ELSE f[k - 1] + s[k]  BY <1>0, <1>1 DEF Sums
  <2> QED  BY <2>1
<1>3. Is(upto)
  <2> HIDE DEF Is
  <2> QED  BY <1>2
<1>4. \A n : SumTo(s, n) = upto[n]  BY DEF SumTo
<1> HIDE DEF upto
<1>5. \A n \in 0..Len(s) : upto[n] = IF n = 0 THEN 0 ELSE upto[n - 1] + s[n]  BY <1>3
<1> HIDE DEF Is
<1>6. upto[0] = 0  BY <1>0, <1>5
<1>7. \A n \in 1..Len(s) : upto[n] = upto[n - 1] + s[n]
  <2>1. \A n \in 1..Len(s) : n \in 0..Len(s) /\ n # 0  BY <1>0
  <2> QED  BY <1>5, <2>1
<1>8. Sums(s, upto, Len(s))  BY <1>6, <1>7 DEF Sums
<1>9. \A n \in 0..Len(s) : upto[n] = f[n]  BY <1>0, <1>1, <1>8, SumsAgree
<1>10. \A n \in 0..Len(s) : upto[n] \in Int  BY <1>9
<1> QED  BY <1>4, <1>6, <1>7, <1>10

\* A list of sums gives the total.
LEMMA TotalIs ==
  ASSUME NEW s \in Seq(Int), NEW f, Sums(s, f, Len(s))
  PROVE  Total(s) = f[Len(s)]
<1>1. Len(s) \in Nat  OBVIOUS
<1> DEFINE g == [k \in 0..Len(s) |-> SumTo(s, k)]
<1>2. Sums(s, g, Len(s))  BY <1>1, SumToIs DEF Sums
<1>3. g[Len(s)] = f[Len(s)]
  <2> HIDE DEF g
  <2> QED  BY <1>1, <1>2, SumsAgree
<1> QED  BY <1>1, <1>3 DEF Total

\* The total of integers is one.
LEMMA TotalIsInt ==
  ASSUME NEW s \in Seq(Int)
  PROVE  Total(s) \in Int
<1>1. Len(s) \in 0..Len(s)  OBVIOUS
<1> QED  BY <1>1, SumToIs DEF Total

\* Sums of what is not negative are not either.
LEMMA SumIsNat ==
  ASSUME NEW s \in Seq(Nat), NEW n \in 0..Len(s)
  PROVE  SumTo(s, n) \in Nat
<1> DEFINE S == {k \in 0..Len(s) : SumTo(s, k) \in Nat}
<1>1. s \in Seq(Int) /\ Len(s) \in Nat /\ \A k \in 1..Len(s) : s[k] \in Nat  OBVIOUS
<1>2. 0 \in S  BY <1>1, SumToIs
<1>3. ASSUME NEW k \in 1..Len(s), k - 1 \in S PROVE k \in S
  <2>1. SumTo(s, k) = SumTo(s, k - 1) + s[k]  BY <1>1, SumToIs
  <2> QED  BY <1>1, <1>3, <2>1
<1>4. \A k \in 0..Len(s) : k \in S
  <2> HIDE DEF S
  <2> QED  BY <1>1, <1>2, <1>3, Upwards
<1> QED  BY <1>4

\* And of natural numbers.
LEMMA TotalIsNat ==
  ASSUME NEW s \in Seq(Nat)
  PROVE  Total(s) \in Nat
<1>1. Len(s) \in 0..Len(s)  OBVIOUS
<1> QED  BY <1>1, SumIsNat DEF Total

(* Turning a sequence round or over. *)
\* The place k further, counted round a sequence of n.
Round(m, k, n) == IF m + k <= n THEN m + k ELSE m + k - n

\* Beginning elsewhere leaves the total alone.
LEMMA TotalOfRotated ==
  ASSUME NEW s \in Seq(Int), NEW t \in Seq(Int), Len(t) = Len(s), NEW k \in 0..(Len(s) - 1),
         \A m \in 1..Len(s) : t[m] = s[Round(m, k, Len(s))]
  PROVE  Total(t) = Total(s)
<1> DEFINE n == Len(s)
           P(m) == SumTo(s, m)
           h == [m \in 0..n |-> IF m <= n - k THEN P(m + k) - P(k) ELSE P(n) - P(k) + P(m + k - n)]
<1>0. /\ n \in Nat /\ n >= 1 /\ k \in Nat /\ k < n /\ Len(t) = n
      /\ \A m \in 1..n : s[m] \in Int /\ t[m] = s[Round(m, k, n)]  OBVIOUS
<1>1. P(0) = 0 /\ (\A m \in 1..n : P(m) = P(m - 1) + s[m]) /\ \A m \in 0..n : P(m) \in Int  BY SumToIs
<1> HIDE DEF P, n
<1>2. h[0] = 0  BY <1>0, <1>1
<1>3. ASSUME NEW m \in 1..n PROVE h[m] = h[m - 1] + t[m]
  <2>0. m \in 0..n /\ m - 1 \in 0..n  BY <1>0
  <2>1. CASE m <= n - k
    <3>1. PICK v \in 0..n, w \in 1..n : v = m - 1 + k /\ w = m + k
      <4>1. m - 1 + k \in 0..n /\ m + k \in 1..n  BY <1>0, <2>1
      <4> QED  BY <4>1
    <3>2. h[m] = P(w) - P(k) /\ h[m - 1] = P(v) - P(k)  BY <1>0, <2>0, <2>1, <3>1
    <3>3. w - 1 = v /\ t[m] = s[w]  BY <1>0, <2>1, <3>1 DEF Round
    <3> HIDE DEF h
    <3>4. P(w) = P(v) + s[w]  BY <1>1, <3>3
    <3>5. P(k) \in Int /\ P(v) \in Int /\ s[w] \in Int  BY <1>0, <1>1
    <3>6. \A x, y, z \in Int : (x + y) - z = (x - z) + y  OBVIOUS
    <3>7. (P(v) + s[w]) - P(k) = (P(v) - P(k)) + s[w]  BY ONLY <3>5, <3>6
    <3> QED  BY ONLY <3>2, <3>3, <3>4, <3>7
  <2>2. CASE m > n - k
    <3>1. PICK j \in 1..n : j = m + k - n
      <4>1. m \in Nat /\ m <= n /\ k < n  BY <1>0
      <4> QED  BY <1>0, <2>2, <4>1
    <3>2. h[m] = P(n) - P(k) + P(j)  BY <1>0, <2>0, <2>2, <3>1
    <3>3. h[m - 1] = P(n) - P(k) + P(j - 1)
      <4>1. CASE m - 1 > n - k
        <5>1. h[m - 1] = P(n) - P(k) + P(m - 1 + k - n)  BY <1>0, <2>0, <4>1
        <5>2. m - 1 + k - n = j - 1  BY <1>0, <3>1
        <5> HIDE DEF h
        <5> QED  BY <5>1, <5>2
      <4>2. CASE ~(m - 1 > n - k)
        <5>1. m - 1 = n - k  BY <1>0, <2>2, <4>2
        <5>2. h[m - 1] = P(m - 1 + k) - P(k)  BY <1>0, <2>0, <5>1
        <5>3. m - 1 + k = n /\ j - 1 = 0  BY <1>0, <3>1, <5>1
        <5>4. P(j - 1) = 0 /\ P(m - 1 + k) = P(n)  BY <1>1, <5>3
        <5>5. P(n) \in Int /\ P(k) \in Int  BY <1>0, <1>1
        <5> HIDE DEF h
        <5> QED  BY <5>2, <5>4, <5>5
      <4> QED  BY <4>1, <4>2
    <3>4. t[m] = s[j]
      <4>1. ~(m + k <= n)  BY <1>0, <2>2
      <4> QED  BY <1>0, <3>1, <4>1 DEF Round
    <3>5. P(j) = P(j - 1) + s[j]  BY <1>1
    <3>6. P(n) \in Int /\ P(k) \in Int /\ P(j - 1) \in Int /\ s[j] \in Int
      <4>1. j - 1 \in 0..n  BY <1>0
      <4> QED  BY <1>0, <1>1, <4>1
    <3>7. P(n) - P(k) + (P(j - 1) + s[j]) = P(n) - P(k) + P(j - 1) + s[j]  BY <1>0, <3>6
    <3> HIDE DEF h
    <3> QED  BY <3>2, <3>3, <3>4, <3>5, <3>7
  <2> QED  BY <1>0, <2>1, <2>2
<1>4. h[n] = P(n)
  <2>1. CASE k = 0  BY <1>0, <1>1, <2>1
  <2>2. CASE k # 0
    <3>1. h[n] = P(n) - P(k) + P(n + k - n)  BY <1>0, <2>2
    <3>2. n + k - n = k /\ P(n) \in Int /\ P(k) \in Int  BY <1>0, <1>1
    <3> HIDE DEF h
    <3> QED  BY <3>1, <3>2
  <2> QED  BY <2>1, <2>2
<1> HIDE DEF h
<1>5. Sums(t, h, Len(t))  BY <1>0, <1>2, <1>3 DEF Sums
<1>6. Total(t) = h[n]  BY <1>0, <1>5, TotalIs
<1> QED  BY <1>4, <1>6 DEF Total, P, n

\* So does going the other way.
LEMMA TotalOfReversed ==
  ASSUME NEW s \in Seq(Int), NEW t \in Seq(Int), Len(t) = Len(s), Len(s) >= 1,
         \A m \in 1..Len(s) : t[m] = -s[IF m = Len(s) THEN m ELSE Len(s) - m]
  PROVE  Total(t) = -Total(s)
<1> DEFINE n == Len(s)
           P(m) == SumTo(s, m)
           h == [m \in 0..n |-> IF m = n THEN -P(n) ELSE P(n - 1 - m) - P(n - 1)]
<1>0. /\ n \in Nat /\ n >= 1 /\ Len(t) = n
      /\ \A m \in 1..n : s[m] \in Int /\ t[m] = -s[IF m = n THEN m ELSE n - m]  OBVIOUS
<1>1. P(0) = 0 /\ (\A m \in 1..n : P(m) = P(m - 1) + s[m]) /\ \A m \in 0..n : P(m) \in Int  BY SumToIs
<1> HIDE DEF P, n
<1>2. h[0] = 0
  <2>1. 0 # n /\ n - 1 - 0 = n - 1 /\ P(n - 1) \in Int  BY <1>0, <1>1
  <2> QED  BY <1>0, <2>1
<1>3. ASSUME NEW m \in 1..n PROVE h[m] = h[m - 1] + t[m]
  <2>0. m \in 0..n /\ m - 1 \in 0..n /\ m - 1 # n  BY <1>0
  <2>1. h[m - 1] = P(n - m) - P(n - 1)
    <3>1. n - 1 - (m - 1) = n - m  BY <1>0
    <3> QED  BY <2>0, <3>1
  <2>2. CASE m = n
    <3>1. h[m] = -P(n) /\ t[m] = -s[n]  BY <1>0, <2>0, <2>2
    <3>2. P(n) = P(n - 1) + s[n] /\ n - m = 0 /\ P(n - 1) \in Int /\ s[n] \in Int  BY <1>0, <1>1, <2>2
    <3>3. P(n - m) = 0  BY <1>1, <3>2
    <3>4. -(P(n - 1) + s[n]) = 0 - P(n - 1) + (-s[n])  BY <3>2
    <3> HIDE DEF h
    <3> QED  BY <2>1, <3>1, <3>2, <3>3, <3>4
  <2>3. CASE m # n
    <3>1. h[m] = P(n - 1 - m) - P(n - 1) /\ t[m] = -s[n - m]  BY <1>0, <2>0, <2>3
    <3>2. n - m \in 1..n /\ n - m - 1 = n - 1 - m /\ n - 1 - m \in 0..n /\ n - 1 \in 0..n  BY <1>0, <2>3
    <3>3. P(n - m) = P(n - 1 - m) + s[n - m]  BY <1>1, <3>2
    <3>4. P(n - 1 - m) \in Int /\ P(n - 1) \in Int /\ s[n - m] \in Int  BY <1>0, <1>1, <3>2
    <3> HIDE DEF h
    <3> QED  BY <2>1, <3>1, <3>3, <3>4
  <2> QED  BY <2>2, <2>3
<1>4. h[n] = -P(n)  BY <1>0
<1> HIDE DEF h
<1>5. Sums(t, h, Len(t))  BY <1>0, <1>2, <1>3 DEF Sums
<1>6. Total(t) = h[n]  BY <1>0, <1>5, TotalIs
<1> QED  BY <1>4, <1>6 DEF Total, P, n

(* Loops. *)
Points == Int \X Int
Loops == {c \in Seq(Points) : Len(c) = Samples}

\* What a loop is made of.
LEMMA LoopIs ==
  ASSUME NEW c \in Loops
  PROVE  /\ Samples \in Nat /\ Samples >= 1 /\ Len(c) = Samples /\ DOMAIN c = 1..Samples
         /\ \A k \in 1..Samples : c[k] \in Points /\ c[k][1] \in Int /\ c[k][2] \in Int
<1>1. c \in Seq(Points) /\ Len(c) = Samples  BY DEF Loops
<1>2. Samples \in Nat /\ Samples >= 1  BY MorphAssumption
<1>3. \A p \in Points : p[1] \in Int /\ p[2] \in Int  BY DEF Points
<1> HIDE DEF Points
<1> QED  BY <1>1, <1>2, <1>3

\* A function on 1..Samples whose values are points is a loop.
LEMMA LoopOf ==
  ASSUME NEW c, DOMAIN c = 1..Samples, c = [k \in DOMAIN c |-> c[k]],
         \A k \in 1..Samples : c[k] \in Points
  PROVE  c \in Loops
<1>1. Samples \in Nat  BY MorphAssumption
<1>2. c \in [1..Samples -> Points]  OBVIOUS
<1>3. c \in Seq(Points) /\ Len(c) = Samples  BY <1>1, <1>2
<1> QED  BY <1>3 DEF Loops

\* Cyclic goes on at the beginning after the last point.
LEMMA CyclicIs ==
  ASSUME NEW c \in Loops
  PROVE  /\ \A k \in 1..Samples : Cyclic(c, k) = c[k]
         /\ \A k \in 1..Samples : Cyclic(c, k + Samples) = c[k]
<1>1. Samples \in Nat /\ Samples >= 1 /\ Len(c) = Samples  BY LoopIs
<1>2. \A n \in Nat \ {0} : \A k \in 1..n : (k - 1) % n = k - 1 /\ (k + n - 1) % n = k - 1  OBVIOUS
<1>3. \A k \in 1..Samples : ((k - 1) % Samples) + 1 = k /\ ((k + Samples - 1) % Samples) + 1 = k
  <2>1. Samples \in Nat \ {0}  BY <1>1
  <2> TAKE k \in 1..Samples
  <2>2. (k - 1) % Samples = k - 1 /\ (k + Samples - 1) % Samples = k - 1  BY <1>2, <2>1
  <2> QED  BY <1>1, <2>2
<1> QED  BY <1>1, <1>3 DEF Cyclic

\* A loop that begins elsewhere is a loop, with these points.
LEMMA RotatedIs ==
  ASSUME NEW c \in Loops, NEW k \in 0..(Samples - 1)
  PROVE  /\ Rotated(c, k) \in Loops
         /\ \A m \in 1..Samples : /\ Round(m, k, Samples) \in 1..Samples
                                  /\ Rotated(c, k)[m] = c[Round(m, k, Samples)]
<1> DEFINE r == Rotated(c, k)
<1>1. Samples \in Nat /\ Samples >= 1 /\ DOMAIN c = 1..Samples /\ \A m \in 1..Samples : c[m] \in Points  BY LoopIs
<1>2. DOMAIN r = 1..Samples /\ r = [m \in DOMAIN r |-> r[m]]
      /\ \A m \in 1..Samples : r[m] = Cyclic(c, m + k)  BY <1>1 DEF Rotated
<1> HIDE DEF r
<1>3. ASSUME NEW m \in 1..Samples PROVE Round(m, k, Samples) \in 1..Samples /\ r[m] = c[Round(m, k, Samples)]
  <2>1. CASE m + k <= Samples
    <3>1. Round(m, k, Samples) = m + k /\ m + k \in 1..Samples  BY <1>1, <2>1 DEF Round
    <3> QED  BY <1>2, <3>1, CyclicIs
  <2>2. CASE ~(m + k <= Samples)
    <3>1. PICK j \in 1..Samples : j + Samples = m + k
      <4>1. m + k - Samples \in 1..Samples /\ (m + k - Samples) + Samples = m + k  BY <1>1, <2>2
      <4> QED  BY <4>1
    <3>2. Round(m, k, Samples) = j
      <4>1. m + k - Samples = j  BY <1>1, <3>1
      <4> QED  BY <2>2, <4>1 DEF Round
    <3>3. r[m] = c[j]
      <4>1. Cyclic(c, j + Samples) = c[j]  BY CyclicIs
      <4> QED  BY <1>2, <3>1, <4>1
    <3> QED  BY <3>2, <3>3
  <2> QED  BY <2>1, <2>2
<1>4. r \in Loops
  <2>1. \A m \in 1..Samples : r[m] \in Points  BY <1>1, <1>3
  <2> QED  BY <1>2, <2>1, LoopOf
<1> QED  BY <1>3, <1>4 DEF r

\* Two loops are the same when they are at every point.
LEMMA SameLoops ==
  ASSUME NEW c \in Loops, NEW d \in Loops, \A m \in 1..Samples : c[m] = d[m]
  PROVE  c = d
<1>1. DOMAIN c = 1..Samples /\ DOMAIN d = 1..Samples /\ c = [m \in DOMAIN c |-> c[m]] /\ d = [m \in DOMAIN d |-> d[m]]
  <2>1. c \in Seq(Points) /\ d \in Seq(Points)  BY DEF Loops
  <2>2. c \in [1..Len(c) -> Points] /\ d \in [1..Len(d) -> Points]  BY <2>1
  <2> QED  BY <2>2, LoopIs
<1> QED  BY <1>1

\* Two turns are one.
LEMMA RotatedTwice ==
  ASSUME NEW c \in Loops, NEW k \in 0..(Samples - 1), NEW n \in 0..(Samples - 1)
  PROVE  \E j \in 0..(Samples - 1) : Rotated(Rotated(c, k), n) = Rotated(c, j)
<1> DEFINE j == IF k + n < Samples THEN k + n ELSE k + n - Samples
<1>0. Samples \in Nat /\ Samples >= 1  BY LoopIs
<1>1. j \in 0..(Samples - 1)  BY <1>0
<1>2. \A m \in 1..Samples : Round(Round(m, n, Samples), k, Samples) = Round(m, j, Samples)  BY <1>0 DEF Round
<1> HIDE DEF j
<1>3. Rotated(c, k) \in Loops /\ Rotated(c, j) \in Loops /\ Rotated(Rotated(c, k), n) \in Loops  BY <1>1, RotatedIs
<1>4. ASSUME NEW m \in 1..Samples PROVE Rotated(Rotated(c, k), n)[m] = Rotated(c, j)[m]
  <2>1. Round(m, n, Samples) \in 1..Samples
        /\ Rotated(Rotated(c, k), n)[m] = Rotated(c, k)[Round(m, n, Samples)]  BY <1>3, RotatedIs
  <2>2. Rotated(c, k)[Round(m, n, Samples)] = c[Round(Round(m, n, Samples), k, Samples)]  BY <2>1, RotatedIs
  <2>3. Rotated(c, j)[m] = c[Round(m, j, Samples)]  BY <1>1, RotatedIs
  <2> QED  BY <1>2, <2>1, <2>2, <2>3
<1>5. Rotated(Rotated(c, k), n) = Rotated(c, j)  BY <1>3, <1>4, SameLoops
<1> QED  BY <1>1, <1>5

\* A loop walked the other way is a loop.
LEMMA ReversedIs ==
  ASSUME NEW c \in Loops
  PROVE  /\ Reverse(c) \in Loops
         /\ \A m \in 1..Samples : Samples + 1 - m \in 1..Samples /\ Reverse(c)[m] = c[Samples + 1 - m]
<1> DEFINE r == Reverse(c)
<1>1. /\ Samples \in Nat /\ Len(c) = Samples /\ \A m \in 1..Samples : c[m] \in Points  BY LoopIs
<1>2. DOMAIN r = 1..Samples /\ r = [m \in DOMAIN r |-> r[m]]
      /\ \A m \in 1..Samples : r[m] = c[(Samples - m) + 1]  BY <1>1 DEF Reverse
<1> HIDE DEF r
<1>3. \A m \in 1..Samples : (Samples - m) + 1 = Samples + 1 - m /\ Samples + 1 - m \in 1..Samples  BY <1>1
<1>4. r \in Loops  BY <1>1, <1>2, <1>3, LoopOf
<1> QED  BY <1>2, <1>3, <1>4 DEF r

(* The area of a loop: turning it round keeps it, turning it over negates *)
(* it. *)
Corner(p, q) == p[1] * q[2] - q[1] * p[2]
Corners(c) == [k \in DOMAIN c |-> c[k][1] * Cyclic(c, k + 1)[2] - Cyclic(c, k + 1)[1] * c[k][2]]

\* The terms of the area, point by point.
LEMMA CornersAre ==
  ASSUME NEW c \in Loops
  PROVE  /\ Area(c) = Total(Corners(c))
         /\ Corners(c) \in Seq(Int) /\ Len(Corners(c)) = Samples
         /\ \A k \in 1..Samples : /\ Round(k, 1, Samples) \in 1..Samples
                                  /\ Corners(c)[k] = Corner(c[k], c[Round(k, 1, Samples)])
                                  /\ Corners(c)[k] \in Int
<1> DEFINE t == Corners(c)
<1>1. Area(c) = Total(t)  BY DEF Area, Corners
<1>2. Samples \in Nat /\ Samples >= 1 /\ DOMAIN c = 1..Samples
      /\ \A k \in 1..Samples : c[k][1] \in Int /\ c[k][2] \in Int  BY LoopIs
<1>3. ASSUME NEW k \in 1..Samples
      PROVE  Round(k, 1, Samples) \in 1..Samples /\ Cyclic(c, k + 1) = c[Round(k, 1, Samples)]
  <2>1. CASE k < Samples
    <3>1. k + 1 \in 1..Samples /\ Round(k, 1, Samples) = k + 1  BY <1>2, <2>1 DEF Round
    <3> QED  BY <3>1, CyclicIs
  <2>2. CASE k = Samples
    <3>1. Round(k, 1, Samples) = 1 /\ 1 \in 1..Samples /\ k + 1 = 1 + Samples  BY <1>2, <2>2 DEF Round
    <3>2. Cyclic(c, 1 + Samples) = c[1]  BY <3>1, CyclicIs
    <3> QED  BY <3>1, <3>2
  <2> QED  BY <1>2, <2>1, <2>2
<1>4. DOMAIN t = 1..Samples /\ t = [k \in DOMAIN t |-> t[k]]
      /\ \A k \in 1..Samples : t[k] = Corner(c[k], c[Round(k, 1, Samples)])  BY <1>2, <1>3 DEF Corners, Corner
<1> HIDE DEF t
<1>5. ASSUME NEW k \in 1..Samples PROVE t[k] \in Int
  <2>1. \A a, b \in Int : a * b \in Int  OBVIOUS
  <2>2. PICK j \in 1..Samples : t[k] = Corner(c[k], c[j])  BY <1>3, <1>4
  <2>3. c[k][1] * c[j][2] \in Int /\ c[j][1] * c[k][2] \in Int  BY <1>2, <2>1
  <2> QED  BY <2>2, <2>3 DEF Corner
<1>6. t \in [1..Samples -> Int]  BY <1>4, <1>5
<1>7. t \in Seq(Int) /\ Len(t) = Samples  BY <1>2, <1>6
<1> QED  BY <1>1, <1>3, <1>4, <1>5, <1>7 DEF t

\* An area is an integer.
LEMMA AreaIsInt ==
  ASSUME NEW c \in Loops
  PROVE  Area(c) \in Int
BY CornersAre, TotalIsInt

\* The area does not depend on where a loop begins.
LEMMA AreaOfRotated ==
  ASSUME NEW c \in Loops, NEW k \in 0..(Samples - 1)
  PROVE  Area(Rotated(c, k)) = Area(c)
<1> DEFINE r == Rotated(c, k)
<1>0. Samples \in Nat /\ Samples >= 1  BY LoopIs
<1>1. r \in Loops  BY RotatedIs
<1>2. \A m \in 1..Samples : Round(Round(m, 1, Samples), k, Samples) = Round(Round(m, k, Samples), 1, Samples)
  BY <1>0 DEF Round
<1>3. ASSUME NEW m \in 1..Samples PROVE Corners(r)[m] = Corners(c)[Round(m, k, Samples)]
  <2>1. Round(m, 1, Samples) \in 1..Samples /\ Round(m, k, Samples) \in 1..Samples  BY <1>1, CornersAre, RotatedIs
  <2>2. r[m] = c[Round(m, k, Samples)] /\ r[Round(m, 1, Samples)] = c[Round(Round(m, 1, Samples), k, Samples)]
    BY <2>1, RotatedIs
  <2>3. Corners(r)[m] = Corner(r[m], r[Round(m, 1, Samples)])  BY <1>1, CornersAre
  <2>4. Corners(c)[Round(m, k, Samples)]
          = Corner(c[Round(m, k, Samples)], c[Round(Round(m, k, Samples), 1, Samples)])  BY <2>1, CornersAre
  <2> QED  BY <1>2, <2>2, <2>3, <2>4
<1> HIDE DEF r
<1>4. Total(Corners(r)) = Total(Corners(c))
  <2>1. Corners(r) \in Seq(Int) /\ Len(Corners(r)) = Samples /\ Corners(c) \in Seq(Int) /\ Len(Corners(c)) = Samples
    BY <1>1, CornersAre
  <2>2. k \in 0..(Len(Corners(c)) - 1)  BY <2>1
  <2>3. \A m \in 1..Len(Corners(c)) : Corners(r)[m] = Corners(c)[Round(m, k, Len(Corners(c)))]  BY <1>3, <2>1
  <2> QED  BY <2>1, <2>2, <2>3, TotalOfRotated
<1> QED  BY <1>1, <1>4, CornersAre DEF r

\* It changes its sign when the loop is walked the other way.
LEMMA AreaOfReversed ==
  ASSUME NEW c \in Loops
  PROVE  Area(Reverse(c)) = -Area(c)
<1> DEFINE r == Reverse(c)
<1>0. Samples \in Nat /\ Samples >= 1 /\ \A k \in 1..Samples : c[k][1] \in Int /\ c[k][2] \in Int  BY LoopIs
<1>1. r \in Loops  BY ReversedIs
<1>2. \A p, q : p[1] \in Int /\ p[2] \in Int /\ q[1] \in Int /\ q[2] \in Int => Corner(q, p) = -Corner(p, q)
  BY DEF Corner
<1>3. ASSUME NEW m \in 1..Samples PROVE Corners(r)[m] = -Corners(c)[IF m = Samples THEN m ELSE Samples - m]
  <2>1. Corners(r)[m] = Corner(r[m], r[Round(m, 1, Samples)])  BY <1>1, CornersAre
  <2>2. CASE m = Samples
    <3>1. Round(m, 1, Samples) = 1 /\ Samples + 1 - m = 1 /\ Samples + 1 - 1 = Samples /\ 1 \in 1..Samples
      BY <1>0, <2>2 DEF Round
    <3>2. r[m] = c[1] /\ r[1] = c[Samples]  BY <3>1, ReversedIs
    <3>3. Corners(c)[m] = Corner(c[Samples], c[1])  BY <2>2, <3>1, CornersAre
    <3>4. Corner(c[1], c[Samples]) = -Corner(c[Samples], c[1])  BY <1>0, <1>2, <3>1
    <3> HIDE DEF r
    <3> QED  BY <2>1, <2>2, <3>1, <3>2, <3>3, <3>4
  <2>3. CASE m # Samples
    <3>1. PICK j \in 1..Samples : j = Samples - m /\ Samples + 1 - m = j + 1  BY <1>0, <2>3
    <3>2. /\ Round(m, 1, Samples) = m + 1 /\ m + 1 \in 1..Samples /\ Samples + 1 - (m + 1) = j
          /\ Round(j, 1, Samples) = j + 1 /\ j + 1 \in 1..Samples  BY <1>0, <2>3, <3>1 DEF Round
    <3>3. r[m] = c[j + 1] /\ r[m + 1] = c[j]  BY <3>1, <3>2, ReversedIs
    <3>4. Corners(c)[j] = Corner(c[j], c[j + 1])  BY <3>2, CornersAre
    <3>5. Corner(c[j + 1], c[j]) = -Corner(c[j], c[j + 1])  BY <1>0, <1>2, <3>2
    <3> HIDE DEF r
    <3> QED  BY <2>1, <2>3, <3>1, <3>2, <3>3, <3>4, <3>5
  <2> QED  BY <2>2, <2>3
<1> HIDE DEF r
<1>4. Total(Corners(r)) = -Total(Corners(c))
  <2>1. Corners(r) \in Seq(Int) /\ Len(Corners(r)) = Samples /\ Corners(c) \in Seq(Int) /\ Len(Corners(c)) = Samples
    BY <1>1, CornersAre
  <2> QED  BY <1>0, <1>3, <2>1, TotalOfReversed
<1> QED  BY <1>1, <1>4, CornersAre DEF r

(* Sequences of sequences. *)
LEMMA FlattenIsSeq ==
  ASSUME NEW S, NEW ss \in Seq(Seq(S))
  PROVE  FlattenSeq(ss) \in Seq(S)
<1> DEFINE n == Len(ss)
           Is(f) == f = [k \in 1..n |-> IF k = 1 THEN ss[k] ELSE f[k - 1] \o ss[k]]
           flat == CHOOSE f : Is(f)
           Joining == [ky \in (1..n) \X Seq(S) |-> ky[2] \o ss[ky[1]]]
<1>0. n \in Nat /\ \A k \in 1..n : ss[k] \in Seq(S)  OBVIOUS
<1>1. CASE n = 0
  <2>1. FlattenSeq(ss) = <<>>  BY <1>1 DEF FlattenSeq
  <2> QED  BY <2>1
<1>2. CASE n # 0
  <2>1. Joining \in [(1..n) \X Seq(S) -> Seq(S)]
    <3>1. ASSUME NEW ky \in (1..n) \X Seq(S) PROVE ky[2] \o ss[ky[1]] \in Seq(S)
      <4>1. ky[2] \in Seq(S) /\ ss[ky[1]] \in Seq(S)  BY <1>0
      <4> HIDE DEF n
      <4> QED  BY <4>1
    <3> QED  BY <3>1
  <2>2. <<>> \in Seq(S)  OBVIOUS
  <2> HIDE DEF n, Joining
  <2>3. PICK r \in [0..n -> Seq(S)] : Repeated(r, n, <<>>, Joining)  BY <1>0, <2>1, <2>2, RepeatedExists
  <2>4. \A k \in 1..n : r[k] = r[k - 1] \o ss[k]
    <3> TAKE k \in 1..n
    <3>1. r[k - 1] \in Seq(S) /\ r[k] = Joining[<<k, r[k - 1]>>]  BY <1>0, <2>3 DEF Repeated
    <3>2. Joining[<<k, r[k - 1]>>] = r[k - 1] \o ss[k]  BY <3>1 DEF Joining
    <3> QED  BY <3>1, <3>2
  <2>5. r[1] = ss[1]
    <3>1. r[0] = <<>>  BY <2>3 DEF Repeated
    <3>2. r[1] = r[0] \o ss[1] /\ ss[1] \in Seq(S)
      <4>1. 1 \in 1..n /\ 1 - 1 = 0  BY <1>0, <1>2
      <4>2. r[1] = r[1 - 1] \o ss[1]  BY <2>4, <4>1
      <4> QED  BY <1>0, <4>1, <4>2
    <3>3. \A t \in Seq(S) : <<>> \o t = t  OBVIOUS
    <3> QED  BY <3>1, <3>2, <3>3
  <2>6. Is([k \in 1..n |-> r[k]])
    <3> DEFINE f == [k \in 1..n |-> r[k]]
    <3>1. \A k \in 1..n : f[k] = IF k = 1 THEN ss[k] ELSE f[k - 1] \o ss[k]
      <4> TAKE k \in 1..n
      <4>1. k # 1 => f[k - 1] = r[k - 1]  BY <1>0
      <4>2. f[k] = r[k]  OBVIOUS
      <4> HIDE DEF f
      <4> QED  BY <2>4, <2>5, <4>1, <4>2
    <3> QED  BY <3>1
  <2>7. Is(flat)
    <3> HIDE DEF Is
    <3> QED  BY <2>6
  <2>8. FlattenSeq(ss) = flat[n]  BY <1>2 DEF FlattenSeq, n
  <2> HIDE DEF flat
  <2>9. \A k \in 1..n : flat[k] = IF k = 1 THEN ss[k] ELSE flat[k - 1] \o ss[k]  BY <2>7
  <2> HIDE DEF Is
  <2> DEFINE T == {k \in 0..n : k = 0 \/ flat[k] \in Seq(S)}
  <2>10. ASSUME NEW k \in 1..n, k - 1 \in T PROVE k \in T
    <3>0. k \in 0..n /\ ss[k] \in Seq(S)  BY <1>0
    <3>1. k = 1 \/ flat[k - 1] \in Seq(S)  BY <2>10
    <3>2. flat[k] \in Seq(S)
      <4>1. CASE k = 1
        <5>1. flat[k] = ss[k]  BY <2>9, <4>1
        <5> QED  BY <3>0, <5>1
      <4>2. CASE k # 1
        <5>1. flat[k] = flat[k - 1] \o ss[k]  BY <2>9, <4>2
        <5>2. \A x, y \in Seq(S) : x \o y \in Seq(S)  OBVIOUS
        <5> QED  BY <3>0, <3>1, <4>2, <5>1, <5>2
      <4> QED  BY <4>1, <4>2
    <3> QED  BY <3>0, <3>2
  <2>11. 0 \in T  BY <1>0
  <2>12. n \in T
    <3>1. n \in 0..n  BY <1>0
    <3> HIDE DEF T
    <3> QED  BY <1>0, <2>10, <2>11, <3>1, Upwards
  <2> QED  BY <1>2, <2>8, <2>12
<1> QED  BY <1>1, <1>2

\* The elements of a minimal length.
LEMMA AtLeastIs ==
  ASSUME NEW S, NEW n \in Nat, NEW ss \in Seq(Seq(S))
  PROVE  AtLeast(n, ss) \in Seq({s \in Seq(S) : Len(s) >= n})
<1> DEFINE L == {s \in Seq(S) : Len(s) >= n}
           ls == [k \in DOMAIN ss |-> IF Len(ss[k]) >= n THEN <<ss[k]>> ELSE <<>>]
<1>1. Len(ss) \in Nat /\ DOMAIN ss = 1..Len(ss) /\ \A k \in 1..Len(ss) : ss[k] \in Seq(S)  OBVIOUS
<1>2. ASSUME NEW k \in 1..Len(ss) PROVE ls[k] \in Seq(L)
  <2>1. CASE Len(ss[k]) >= n
    <3>1. ss[k] \in L  BY <1>1, <2>1
    <3>2. ls[k] = <<ss[k]>>  BY <1>1, <2>1
    <3> HIDE DEF L, ls
    <3> QED  BY <3>1, <3>2
  <2>2. CASE ~(Len(ss[k]) >= n)
    <3>1. ls[k] = <<>>  BY <1>1, <2>2
    <3> HIDE DEF L, ls
    <3> QED  BY <3>1
  <2> QED  BY <2>1, <2>2
<1>3. ls \in Seq(Seq(L))
  <2>1. ls \in [1..Len(ss) -> Seq(L)]
    <3>1. DOMAIN ls = 1..Len(ss) /\ ls = [k \in DOMAIN ls |-> ls[k]]  BY <1>1
    <3> HIDE DEF L, ls
    <3> QED  BY <1>2, <3>1
  <2> HIDE DEF L, ls
  <2>2. \A V : \A f \in [1..Len(ss) -> V] : f \in Seq(V)  BY <1>1
  <2> QED  BY <2>1, <2>2
<1> HIDE DEF L, ls
<1>4. FlattenSeq(ls) \in Seq(L)  BY <1>3, FlattenIsSeq
<1> QED  BY <1>4 DEF AtLeast, L, ls

(* Reading a path: it is made of points with integer coordinates. *)
LEMMA ListIsSeq ==
  ASSUME NEW V, NEW n \in Nat, NEW f \in [1..n -> V]
  PROVE  f \in Seq(V) /\ Len(f) = n
OBVIOUS

\* Points are pairs of integers.
LEMMA PointIs ==
  /\ \A a, b \in Int : <<a, b>> \in Points
  /\ \A p \in Points : p[1] \in Int /\ p[2] \in Int
  /\ \A g \in [1..2 -> Int] : g \in Points
<1>1. ASSUME NEW g \in [1..2 -> Int] PROVE g \in Points
  <2>1. g[1] \in Int /\ g[2] \in Int /\ g = <<g[1], g[2]>>  OBVIOUS
  <2> QED  BY <2>1 DEF Points
<1> QED  BY <1>1 DEF Points

\* Plus gives a point.
LEMMA PlusIs ==
  ASSUME NEW p \in Points, NEW q \in Points
  PROVE  Plus(p, q) \in Points
BY PointIs DEF Plus

\* So does Scaled.
LEMMA ScaledIs ==
  ASSUME NEW k \in Int, NEW p \in Points
  PROVE  Scaled(k, p) \in Points
<1>1. p[1] \in Int /\ p[2] \in Int  BY PointIs
<1>2. k * p[1] \in Int /\ k * p[2] \in Int  BY <1>1
<1> QED  BY <1>2, PointIs DEF Scaled

\* The unit is an integer.
LEMMA UnitIs == Unit \in Int
<1>1. Steps \in Int  BY PathAssumption
<1>2. \A a, b \in Int : a * b \in Int  OBVIOUS
<1> QED  BY <1>1, <1>2 DEF Unit

\* Drawing a path keeps its length.
LEMMA DrawnIs ==
  ASSUME NEW ps \in Seq(Points)
  PROVE  Drawn(ps) \in Seq(Points) /\ Len(Drawn(ps)) = Len(ps)
<1>1. Len(ps) \in Nat /\ DOMAIN ps = 1..Len(ps) /\ \A k \in 1..Len(ps) : ps[k] \in Points  OBVIOUS
<1>2. \A k \in 1..Len(ps) : Scaled(Unit, ps[k]) \in Points  BY <1>1, ScaledIs, UnitIs
<1>3. Drawn(ps) \in [1..Len(ps) -> Points]  BY <1>1, <1>2 DEF Drawn
<1> QED  BY <1>1, <1>3, ListIsSeq

\* What the reader of a path keeps.
PathInv ==
  /\ path \in Seq(Tokens) /\ i \in Nat \ {0} /\ cmd \in Tokens
  /\ cur \in Points /\ start \in Points
  /\ poly \in Seq(Points) /\ contours \in Seq(Seq(Points))

\* The numbers after a command are integers.
LEMMA NumbersAre ==
  ASSUME PathInv, More
  PROVE  First \in Nat \ {0} /\ Past \in Nat \ {0} /\ Now \in Tokens /\ Numbers \in Seq(Int)
<1> DEFINE n == Len(path)
           ends == {j \in First..(n + 1) : j = n + 1 \/ ~IsNumber(path[j])}
<1>1. /\ n \in Nat /\ i \in 1..n /\ cmd \in Tokens
      /\ \A k \in 1..n : path[k] \in Tokens  BY DEF PathInv, More
<1> HIDE DEF n
<1>2. First \in 1..(n + 1)  BY <1>1 DEF First
<1>3. Now \in Tokens  BY <1>1 DEF Now
<1>4. Past \in ends
  <2>1. n + 1 \in ends /\ ends \subseteq Nat  BY <1>1, <1>2
  <2>2. Past = Min(ends)  BY DEF Past, n
  <2> HIDE DEF ends
  <2> QED  BY <2>1, <2>2, LeastElement
<1>5. Past \in First..(n + 1)  BY <1>4
<1>6. \A k \in 1..(Past - First) : path[First + k - 1].num \in Int
  <2> TAKE k \in 1..(Past - First)
  <2>1. First + k - 1 \in 1..n  BY <1>1, <1>2, <1>5
  <2>2. path[First + k - 1] \in Tokens  BY <1>1, <2>1
  <2> QED  BY <2>2 DEF Tokens
<1>7. Numbers \in [1..(Past - First) -> Int]  BY <1>6 DEF Numbers
<1>8. Past - First \in Nat  BY <1>1, <1>2, <1>5
<1>9. Numbers \in Seq(Int)  BY <1>7, <1>8, ListIsSeq
<1> QED  BY <1>1, <1>2, <1>3, <1>5, <1>9

\* So are the groups of n of them.
LEMMA GroupsAre ==
  ASSUME PathInv, More, NEW n \in {2, 4, 6}
  PROVE  Groups(n) \in Seq([1..n -> Int])
<1> DEFINE Nth(k) == IF k \in DOMAIN Numbers THEN Numbers[k] ELSE 0
           m == (Len(Numbers) + n - 1) \div n
<1>1. \A k : Nth(k) \in Int
  <2>1. \A k \in DOMAIN Numbers : Numbers[k] \in Int  BY NumbersAre
  <2> QED  BY <2>1
<1>2. m \in Nat
  <2>1. Len(Numbers) \in Nat  BY NumbersAre
  <2> QED  BY <2>1
<1>3. Groups(n) = [g \in 1..m |-> [k \in 1..n |-> Nth((g - 1) * n + k)]]  BY DEF Groups
<1> HIDE DEF Nth, m
<1>4. Groups(n) \in [1..m -> [1..n -> Int]]  BY <1>1, <1>3
<1> QED  BY <1>2, <1>4, ListIsSeq

\* The points that pairs of numbers lead to.
LEMMA PairsAre ==
  ASSUME PathInv, More
  PROVE  Groups(2) \in Seq(Points)
<1>1. Groups(2) \in Seq([1..2 -> Int])  BY GroupsAre
<1>2. [1..2 -> Int] \subseteq Points  BY PointIs
<1> HIDE DEF Points
<1> QED  BY <1>1, <1>2

\* Moving along points ends at points.
LEMMA ReachedAre ==
  ASSUME cur \in Points, NEW ps \in Seq(Points)
  PROVE  /\ Reached(ps) \in Seq(Points) /\ Len(Reached(ps)) = Len(ps)
         /\ \A k \in 1..Len(ps) :
              Reached(ps)[k] = IF Now.rel THEN Plus(IF k = 1 THEN cur ELSE Reached(ps)[k - 1], ps[k]) ELSE ps[k]
<1> DEFINE n == Len(ps)
           Step(k, p) == IF Now.rel THEN Plus(p, ps[k]) ELSE ps[k]
           Is(f) == f = [k \in 0..n |-> IF k = 0 THEN cur ELSE Step(k, f[k - 1])]
           reach == CHOOSE f : Is(f)
           Moving == [kp \in (1..n) \X Points |-> Step(kp[1], kp[2])]
<1>1. n \in Nat /\ \A k \in 1..n : ps[k] \in Points  OBVIOUS
<1>2. Reached(ps) = [k \in 1..n |-> reach[k]]  BY DEF Reached
<1> HIDE DEF n
<1>3. \A k \in 1..n : \A p \in Points : Step(k, p) \in Points  BY <1>1, PlusIs
<1> HIDE DEF Step
<1>4. PICK r \in [0..n -> Points] : Repeated(r, n, cur, Moving)
  <2>1. Moving \in [(1..n) \X Points -> Points]  BY <1>3
  <2> HIDE DEF Moving
  <2> QED  BY <1>1, <2>1, RepeatedExists
<1>5. Is(r)
  <2>1. \A k \in 0..n : r[k] = IF k = 0 THEN cur ELSE Step(k, r[k - 1])
    <3> TAKE k \in 0..n
    <3>1. CASE k = 0  BY <1>4, <3>1 DEF Repeated
    <3>2. CASE k # 0
      <4>1. k \in 1..n /\ k - 1 \in 0..n  BY <1>1, <3>2
      <4>2. r[k - 1] \in Points  BY <4>1
      <4>3. r[k] = Moving[<<k, r[k - 1]>>]  BY <1>4, <4>1 DEF Repeated
      <4>4. Moving[<<k, r[k - 1]>>] = Step(k, r[k - 1])  BY <4>1, <4>2
      <4> QED  BY <3>2, <4>3, <4>4
    <3> QED  BY <3>1, <3>2
  <2> QED  BY <2>1
<1>6. Is(reach)
  <2> HIDE DEF Is
  <2> QED  BY <1>5
<1> HIDE DEF reach
<1>7. \A k \in 0..n : reach[k] = IF k = 0 THEN cur ELSE Step(k, reach[k - 1])  BY <1>6
<1> HIDE DEF Is
<1>8. \A k \in 0..n : reach[k] \in Points
  <2> DEFINE T == {k \in 0..n : reach[k] \in Points}
  <2>1. 0 \in T  BY <1>1, <1>7
  <2>2. ASSUME NEW k \in 1..n, k - 1 \in T PROVE k \in T
    <3>1. k \in 0..n /\ k # 0  BY <1>1
    <3>2. reach[k] = Step(k, reach[k - 1])  BY <1>7, <3>1
    <3> QED  BY <1>3, <2>2, <3>1, <3>2
  <2>3. \A k \in 0..n : k \in T
    <3> HIDE DEF T
    <3> QED  BY <1>1, <2>1, <2>2, Upwards
  <2> QED  BY <2>3
<1>9. [k \in 1..n |-> reach[k]] \in [1..n -> Points]
  <2>1. \A k \in 1..n : k \in 0..n  BY <1>1
  <2> QED  BY <1>8, <2>1
<1>10. ASSUME NEW k \in 1..n
       PROVE  Reached(ps)[k] = IF Now.rel THEN Plus(IF k = 1 THEN cur ELSE Reached(ps)[k - 1], ps[k]) ELSE ps[k]
  <2>1. k \in 0..n /\ k # 0 /\ 0 \in 0..n /\ (k = 1 => k - 1 = 0) /\ (k # 1 => k - 1 \in 1..n)  BY <1>1
  <2>2. Reached(ps)[k] = Step(k, reach[k - 1])  BY <1>2, <1>7, <2>1
  <2>3. reach[k - 1] = IF k = 1 THEN cur ELSE Reached(ps)[k - 1]  BY <1>2, <1>7, <2>1
  <2> QED  BY <2>2, <2>3 DEF Step
<1> QED  BY <1>1, <1>2, <1>9, <1>10, ListIsSeq DEF n

\* The last element of a list is one of its elements.
LEMMA LastIs ==
  ASSUME NEW V, NEW s \in Seq(V), s # <<>>
  PROVE  Last(s) \in V /\ s[1] \in V
<1>1. Len(s) \in Nat /\ Len(s) # 0  OBVIOUS
<1>2. Len(s) \in 1..Len(s) /\ 1 \in 1..Len(s)  BY <1>1
<1> QED  BY <1>2 DEF Last

\* Flushing a contour of points.
LEMMA FlushedIs ==
  ASSUME PathInv
  PROVE  Flushed \in Seq(Seq(Points))
<1>1. contours \in Seq(Seq(Points)) /\ poly \in Seq(Points)  BY DEF PathInv
<1>2. (IF poly = <<>> THEN <<>> ELSE <<poly>>) \in Seq(Seq(Points))  BY <1>1
<1>3. \A x, y \in Seq(Seq(Points)) : x \o y \in Seq(Seq(Points))  OBVIOUS
<1> QED  BY <1>1, <1>2, <1>3 DEF Flushed

\* A command that draws points keeps PathInv.
LEMMA GoIs ==
  ASSUME PathInv, More, NEW to \in Seq(Points), NEW drawn \in Seq(Points), Go(to, drawn)
  PROVE  PathInv'
<1>1. cur' \in Points
  <2>1. cur' = IF to = <<>> THEN cur ELSE Last(to)  BY DEF Go
  <2> QED  BY <2>1, LastIs DEF PathInv
<1>2. poly' \in Seq(Points)
  <2>1. \A x, y \in Seq(Points) : x \o y \in Seq(Points)  OBVIOUS
  <2>2. poly' = poly \o drawn /\ poly \in Seq(Points)  BY DEF Go, PathInv
  <2> QED  BY <2>1, <2>2
<1>3. i' \in Nat \ {0} /\ cmd' \in Tokens  BY NumbersAre DEF Go
<1>4. UNCHANGED <<path, start, contours>>  BY DEF Go
<1> QED  BY <1>1, <1>2, <1>3, <1>4 DEF PathInv

\* A curve of three or four points.
LEMMA CurveIs ==
  ASSUME NEW n \in {3, 4}, NEW ps \in [1..n -> Points]
  PROVE  Curve(ps) \in Seq(Points)
<1>1. Steps \in Nat /\ Len(ps) = n /\ \A k \in 1..n : ps[k] \in Points  BY PathAssumption
<1>2. \A a, b \in Int : a * b \in Int  OBVIOUS
<1>3. ASSUME NEW k \in 1..Steps PROVE Len(ps) = 4 => Cubic(ps, k, Steps - k) \in Points
  <2> DEFINE r == Steps - k
  <2>1. k \in Int /\ r \in Int /\ 3 \in Int  BY <1>1
  <2> HIDE DEF r
  <2>2. r * r * r \in Int /\ 3 * r * r * k \in Int /\ 3 * r * k * k \in Int /\ k * k * k \in Int  BY <1>2, <2>1
  <2> SUFFICES ASSUME Len(ps) = 4 PROVE Cubic(ps, k, r) \in Points  BY DEF r
  <2>3. ps[1] \in Points /\ ps[2] \in Points /\ ps[3] \in Points /\ ps[4] \in Points
    <3>1. n = 4  BY <1>1
    <3>2. 1 \in 1..n /\ 2 \in 1..n /\ 3 \in 1..n /\ 4 \in 1..n  BY <3>1
    <3> QED  BY <1>1, <3>2
  <2> QED  BY <2>2, <2>3, ScaledIs, PlusIs DEF Cubic
<1>4. ASSUME NEW k \in 1..Steps PROVE Quadratic(ps, k, Steps - k) \in Points
  <2> DEFINE r == Steps - k
  <2>1. k \in Int /\ r \in Int /\ 2 \in Int /\ Steps \in Int  BY <1>1
  <2> HIDE DEF r
  <2>2. r * r \in Int /\ 2 * r * k \in Int /\ k * k \in Int  BY <1>2, <2>1
  <2>3. ps[1] \in Points /\ ps[2] \in Points /\ ps[3] \in Points  BY <1>1
  <2>4. Quadratic(ps, k, r) \in Points  BY <2>1, <2>2, <2>3, ScaledIs, PlusIs DEF Quadratic
  <2> QED  BY <2>4 DEF r
<1>5. Curve(ps) \in [1..Steps -> Points]  BY <1>3, <1>4 DEF Curve
<1> QED  BY <1>1, <1>5, ListIsSeq

\* Two numbers of a group are a point.
LEMMA CoupleIs ==
  ASSUME NEW n \in {2, 3}, NEW g \in [1..(2 * n) -> Int], NEW k \in 1..n
  PROVE  Couple(g, k) \in Points
<1>1. 2 * k - 1 \in 1..(2 * n) /\ 2 * k \in 1..(2 * n)  OBVIOUS
<1>2. g[2 * k - 1] \in Int /\ g[2 * k] \in Int  BY <1>1
<1> QED  BY <1>2, PointIs DEF Couple

\* The control points of a curve are points.
LEMMA SegmentIs ==
  ASSUME NEW from \in Points, NEW n \in {2, 3}, NEW g \in [1..(2 * n) -> Int]
  PROVE  Segment(from, g, n) \in [1..(n + 1) -> Points]
<1> DEFINE control == [k \in 1..n |-> IF Now.rel THEN Plus(from, Couple(g, k)) ELSE Couple(g, k)]
<1>1. control \in [1..n -> Points]  BY CoupleIs, PlusIs
<1> HIDE DEF control, Points
<1>2. control \in Seq(Points) /\ Len(control) = n  BY <1>1, ListIsSeq
<1>3. <<from>> \in Seq(Points) /\ Len(<<from>>) = 1  OBVIOUS
<1>4. \A s, t \in Seq(Points) : s \o t \in Seq(Points) /\ Len(s \o t) = Len(s) + Len(t)  OBVIOUS
<1>5. \A s \in Seq(Points) : s \in [1..Len(s) -> Points]  OBVIOUS
<1>6. <<from>> \o control \in Seq(Points) /\ Len(<<from>> \o control) = 1 + n  BY <1>2, <1>3, <1>4
<1>7. 1 + n = n + 1  OBVIOUS
<1> QED  BY <1>5, <1>6, <1>7 DEF Segment, control

\* C and Q draw points.
LEMMA CurveToKeeps ==
  ASSUME PathInv, CurveTo
  PROVE  PathInv'
<1>0. More  BY DEF CurveTo
<1>1. PICK n \in {2, 3} : n = IF Now.cmd = "C" THEN 3 ELSE 2  OBVIOUS
<1> DEFINE gs == Groups(2 * n)
           m == Len(gs)
           stops == [g \in DOMAIN gs |-> Couple(gs[g], n)]
           ends == Reached(stops)
           From(g) == IF g = 1 THEN cur ELSE ends[g - 1]
           curves == [g \in DOMAIN gs |-> Curve(Segment(From(g), gs[g], n))]
<1>2. Go(ends, FlattenSeq(curves))  BY <1>1 DEF CurveTo
<1>3. 2 * n \in {2, 4, 6} /\ n + 1 \in {3, 4} /\ n \in 1..n  OBVIOUS
<1>4. gs \in Seq([1..(2 * n) -> Int])  BY <1>0, <1>3, GroupsAre
<1> HIDE DEF gs
<1>5. m \in Nat /\ DOMAIN gs = 1..m /\ \A g \in 1..m : gs[g] \in [1..(2 * n) -> Int]  BY <1>4
<1> HIDE DEF m
<1>6. stops \in Seq(Points) /\ Len(stops) = m
  <2>1. stops \in [1..m -> Points]  BY <1>3, <1>5, CoupleIs
  <2> QED  BY <1>5, <2>1, ListIsSeq
<1>7. ends \in Seq(Points) /\ Len(ends) = m
  <2> HIDE DEF stops
  <2> QED  BY <1>6, ReachedAre DEF PathInv
<1> HIDE DEF ends
<1>8. ASSUME NEW g \in 1..m PROVE From(g) \in Points
  <2>1. CASE g = 1  BY <2>1 DEF PathInv
  <2>2. CASE g # 1
    <3>1. g - 1 \in 1..m  BY <1>5, <2>2
    <3>2. \A k \in 1..Len(ends) : ends[k] \in Points  BY <1>7
    <3> QED  BY <1>7, <2>2, <3>1, <3>2
  <2> QED  BY <2>1, <2>2
<1> HIDE DEF From
<1>9. curves \in Seq(Seq(Points))
  <2>1. \A g \in 1..m : Curve(Segment(From(g), gs[g], n)) \in Seq(Points)  BY <1>3, <1>5, <1>8, SegmentIs, CurveIs
  <2>2. curves \in [1..m -> Seq(Points)]  BY <1>5, <2>1
  <2> QED  BY <1>5, <2>2, ListIsSeq
<1> HIDE DEF curves
<1> QED  BY <1>0, <1>2, <1>7, <1>9, FlattenIsSeq, GoIs

\* H and V draw points.
LEMMA AlongIs ==
  ASSUME PathInv, More, NEW axis \in {1, 2}
  PROVE  Along(axis) \in Seq(Points)
<1> DEFINE Kept == IF Now.rel THEN 0 ELSE cur[3 - axis]
           ps == [k \in DOMAIN Numbers |-> IF axis = 1 THEN <<Numbers[k], Kept>> ELSE <<Kept, Numbers[k]>>]
<1>1. Kept \in Int
  <2>1. cur[1] \in Int /\ cur[2] \in Int  BY PointIs DEF PathInv
  <2> QED  BY <2>1
<1>2. Numbers \in Seq(Int)  BY NumbersAre
<1>3. Len(Numbers) \in Nat /\ DOMAIN Numbers = 1..Len(Numbers) /\ \A k \in 1..Len(Numbers) : Numbers[k] \in Int
  BY <1>2
<1> HIDE DEF Kept
<1>4. ps \in [1..Len(Numbers) -> Points]  BY <1>1, <1>3, PointIs
<1>5. ps \in Seq(Points)  BY <1>3, <1>4, ListIsSeq
<1>6. cur \in Points  BY DEF PathInv
<1> HIDE DEF ps
<1> QED  BY <1>5, <1>6, ReachedAre DEF Along, ps, Kept

\* Every command keeps PathInv.
LEMMA PathStepKeeps ==
  ASSUME PathInv, PathStep
  PROVE  PathInv'
<1>1. CASE MoveTo
  <2> DEFINE to == Reached(Groups(2))
  <2>1. More  BY <1>1 DEF MoveTo
  <2>2. to \in Seq(Points)  BY <2>1, PairsAre, ReachedAre DEF PathInv
  <2>3. \/ Broken
        \/ Go(<<>>, <<>>)
        \/ /\ to # <<>> /\ contours' = Flushed /\ poly' = Drawn(to) /\ start' = to[1] /\ cur' = Last(to)
           /\ i' = Past /\ cmd' = Now /\ path' = path  BY <1>1 DEF MoveTo
  <2> HIDE DEF to
  <2>4. CASE Broken  BY <2>4 DEF Broken, PathInv
  <2>5. CASE Go(<<>>, <<>>)
    <3>1. <<>> \in Seq(Points)  OBVIOUS
    <3> QED  BY <2>1, <2>5, <3>1, GoIs
  <2>6. CASE /\ to # <<>> /\ contours' = Flushed /\ poly' = Drawn(to) /\ start' = to[1] /\ cur' = Last(to)
             /\ i' = Past /\ cmd' = Now /\ path' = path
    <3>1. start' \in Points /\ cur' \in Points /\ poly' \in Seq(Points)  BY <2>2, <2>6, LastIs, DrawnIs
    <3>2. contours' \in Seq(Seq(Points))  BY <2>6, FlushedIs
    <3>3. i' \in Nat \ {0} /\ cmd' \in Tokens  BY <2>1, <2>6, NumbersAre
    <3> QED  BY <2>6, <3>1, <3>2, <3>3 DEF PathInv
  <2> QED  BY <2>3, <2>4, <2>5, <2>6
<1>2. CASE LineTo
  <2> DEFINE to == Reached(Groups(2))
  <2>1. More /\ (Broken \/ Go(to, Drawn(to)))  BY <1>2 DEF LineTo
  <2>2. to \in Seq(Points)  BY <2>1, PairsAre, ReachedAre DEF PathInv
  <2> HIDE DEF to
  <2>3. CASE Broken  BY <2>3 DEF Broken, PathInv
  <2>4. CASE Go(to, Drawn(to))  BY <2>1, <2>2, <2>4, DrawnIs, GoIs
  <2> QED  BY <2>1, <2>3, <2>4
<1>3. CASE Horizontal
  <2>1. More /\ Go(Along(1), Drawn(Along(1)))  BY <1>3 DEF Horizontal
  <2>2. Along(1) \in Seq(Points)  BY <2>1, AlongIs
  <2> QED  BY <2>1, <2>2, DrawnIs, GoIs
<1>4. CASE Vertical
  <2>1. More /\ Go(Along(2), Drawn(Along(2)))  BY <1>4 DEF Vertical
  <2>2. Along(2) \in Seq(Points)  BY <2>1, AlongIs
  <2> QED  BY <2>1, <2>2, DrawnIs, GoIs
<1>5. CASE CurveTo  BY <1>5, CurveToKeeps
<1>6. CASE ClosePath
  <2>1. More /\ cur' = start /\ contours' = Flushed /\ poly' = <<>> /\ i' = First /\ cmd' = Now
        /\ UNCHANGED <<path, start>>  BY <1>6 DEF ClosePath
  <2>2. <<>> \in Seq(Points)  OBVIOUS
  <2>3. Flushed \in Seq(Seq(Points))  BY FlushedIs
  <2> QED  BY <2>1, <2>2, <2>3, NumbersAre DEF PathInv
<1>7. CASE Unsupported  BY <1>7 DEF Unsupported, Broken, PathInv
<1>8. CASE PathEnd
  <2>1. contours' = Flushed /\ poly' = <<>> /\ UNCHANGED <<path, i, cmd, cur, start>>  BY <1>8 DEF PathEnd
  <2>2. <<>> \in Seq(Points)  OBVIOUS
  <2>3. Flushed \in Seq(Seq(Points))  BY FlushedIs
  <2> QED  BY <2>1, <2>2, <2>3 DEF PathInv
<1> QED  BY <1>1, <1>2, <1>3, <1>4, <1>5, <1>6, <1>7, <1>8 DEF PathStep

(* Reading a document: the glyphs are made of such points too. *)
Outlines == Seq(Seq(Points))
Placements == [id : Ids, x : Int, y : Int, matrix : Matrices]

\* What the reader of a document keeps.
ReaderInv ==
  /\ PathInv
  /\ events \in Seq(Tags) /\ at \in Nat \ {0}
  /\ symbols \in [Ids -> Outlines] /\ curSymbol \in Ids \cup {NoId}
  /\ phase # "idle" => curSymbol \in Ids
  /\ textDepth \in Nat /\ textMatrix \in Matrices /\ uses \in Seq(Placements)
  /\ glyphs \in Seq(Outlines)

\* A transform takes points to points.
LEMMA ApplyIs ==
  ASSUME NEW m \in Matrices, NEW p \in Points
  PROVE  Apply(m, p) \in Points
<1>1. /\ m.a \in Int /\ m.b \in Int /\ m.c \in Int /\ m.d \in Int /\ m.e \in Int /\ m.f \in Int  BY DEF Matrices
<1>2. p[1] \in Int /\ p[2] \in Int /\ Unit \in Int  BY PointIs, UnitIs
<1>3. \A a, b \in Int : a * b \in Int  OBVIOUS
<1>4. /\ m.a * p[1] \in Int /\ m.c * p[2] \in Int /\ Unit * m.e \in Int
      /\ m.b * p[1] \in Int /\ m.d * p[2] \in Int /\ Unit * m.f \in Int  BY <1>1, <1>2, <1>3
<1> QED  BY <1>4, PointIs DEF Apply

\* The outline of a symbol, at the place of a use.
LEMMA PlacedIs ==
  ASSUME symbols \in [Ids -> Outlines], NEW use \in Placements
  PROVE  [k \in DOMAIN symbols[use.id] |->
            [j \in DOMAIN symbols[use.id][k] |->
               Apply(use.matrix, Plus(symbols[use.id][k][j], Scaled(Unit, <<use.x, use.y>>)))]] \in Outlines
<1> DEFINE o == symbols[use.id]
           Moved(p) == Apply(use.matrix, Plus(p, Scaled(Unit, <<use.x, use.y>>)))
           Contour(k) == [j \in DOMAIN o[k] |-> Moved(o[k][j])]
<1>1. use.id \in Ids /\ use.x \in Int /\ use.y \in Int /\ use.matrix \in Matrices  BY DEF Placements
<1>2. o \in Outlines  BY <1>1
<1> HIDE DEF o
<1>3. \A p \in Points : Moved(p) \in Points
  <2>1. Scaled(Unit, <<use.x, use.y>>) \in Points  BY <1>1, PointIs, ScaledIs, UnitIs
  <2> QED  BY <1>1, <2>1, PlusIs, ApplyIs
<1> HIDE DEF Moved
<1>4. Len(o) \in Nat /\ DOMAIN o = 1..Len(o) /\ \A k \in 1..Len(o) : o[k] \in Seq(Points)  BY <1>2 DEF Outlines
<1>5. ASSUME NEW k \in 1..Len(o) PROVE Contour(k) \in Seq(Points)
  <2>1. o[k] \in Seq(Points)  BY <1>4
  <2>2. Len(o[k]) \in Nat /\ DOMAIN o[k] = 1..Len(o[k]) /\ \A j \in 1..Len(o[k]) : o[k][j] \in Points  BY <2>1
  <2>3. Contour(k) \in [1..Len(o[k]) -> Points]  BY <1>3, <2>2
  <2> QED  BY <2>2, <2>3, ListIsSeq
<1> HIDE DEF Contour
<1>6. [k \in DOMAIN o |-> Contour(k)] \in [1..Len(o) -> Seq(Points)]  BY <1>4, <1>5
<1>7. [k \in DOMAIN o |-> Contour(k)] \in Outlines  BY <1>4, <1>6, ListIsSeq DEF Outlines
<1> QED  BY <1>7 DEF o, Contour, Moved

\* The placed glyphs consist of points.
LEMMA PlaceGlyphsIs ==
  ASSUME ReaderInv, PlaceGlyphs
  PROVE  glyphs' \in Seq(Outlines)
<1> DEFINE Moved(v, p) == Apply(v.matrix, Plus(p, Scaled(Unit, <<v.x, v.y>>)))
           Glyph(v) == [k \in DOMAIN symbols[v.id] |->
                          [j \in DOMAIN symbols[v.id][k] |-> Moved(v, symbols[v.id][k][j])]]
           all == [n \in DOMAIN uses |-> Glyph(uses[n])]
<1>1. glyphs' = AtLeast(1, all)  BY DEF PlaceGlyphs
<1>2. Len(uses) \in Nat /\ DOMAIN uses = 1..Len(uses) /\ \A n \in 1..Len(uses) : uses[n] \in Placements
  BY DEF ReaderInv
<1>3. \A v \in Placements : Glyph(v) \in Outlines
  <2>1. symbols \in [Ids -> Outlines]  BY DEF ReaderInv
  <2> QED  BY <2>1, PlacedIs
<1> HIDE DEF Glyph
<1>4. all \in [1..Len(uses) -> Outlines]  BY <1>2, <1>3
<1>5. all \in Seq(Seq(Seq(Points)))  BY <1>2, <1>4, ListIsSeq DEF Outlines
<1> HIDE DEF all
<1>6. AtLeast(1, all) \in Seq({s \in Seq(Seq(Points)) : Len(s) >= 1})
  <2>1. 1 \in Nat  OBVIOUS
  <2> QED  BY <1>5, <2>1, AtLeastIs
<1>7. \A S, T : S \subseteq T => Seq(S) \subseteq Seq(T)  OBVIOUS
<1>8. {s \in Seq(Seq(Points)) : Len(s) >= 1} \subseteq Outlines  BY DEF Outlines
<1> QED  BY <1>1, <1>6, <1>7, <1>8

\* The element at hand is a tag.
LEMMA EventIs ==
  ASSUME ReaderInv, at <= Len(events)
  PROVE  /\ Event \in Tags
         /\ Event.id \in Ids \cup {NoId} /\ Event.d \in Seq(Tokens) /\ Event.x \in Int /\ Event.y \in Int
         /\ Event.tf \in Seq(Matrices)
<1>1. at \in 1..Len(events) /\ \A k \in 1..Len(events) : events[k] \in Tags  BY DEF ReaderInv
<1>2. Event \in Tags  BY <1>1 DEF Event
<1> QED  BY <1>2 DEF Tags

\* What a path begins with.
LEMMA StartIs == NoCommand \in Tokens /\ Origin \in Points
<1>1. NoCommand \in Tokens  BY DEF NoCommand, Tokens
<1>2. Origin \in Points
  <2>1. 0 \in Int  OBVIOUS
  <2> QED  BY <2>1, PointIs DEF Origin
<1> QED  BY <1>1, <1>2

\* ReaderInv holds when a document is opened.
LEMMA ReaderStartsRight ==
  ASSUME NEW document \in Seq(Tags), ReaderStarts(document)
  PROVE  ReaderInv
<1>1. PathInv  BY StartIs DEF PathInv, ReaderStarts, PathIdle
<1>2. Identity \in Matrices  BY DEF Identity, Matrices
<1>3. symbols \in [Ids -> Outlines]  BY DEF ReaderStarts, Outlines
<1>4. <<>> \in Seq(Placements) /\ <<>> \in Seq(Outlines)  OBVIOUS
<1>5. /\ events = document /\ at = 1 /\ curSymbol = NoId /\ textDepth = 0 /\ textMatrix = Identity
      /\ uses = <<>> /\ glyphs = <<>> /\ phase = "idle"  BY DEF ReaderStarts, PathIdle
<1> QED  BY <1>1, <1>2, <1>3, <1>4, <1>5 DEF ReaderInv

\* Every step of the reader keeps it.
LEMMA ReadGlyphsKeeps ==
  ASSUME ReaderInv, ReadGlyphs
  PROVE  ReaderInv'
<1>0. NoPath => PathInv'  BY DEF NoPath, pathVars, PathInv, ReaderInv
<1>1. CASE OpenSymbol
  <2>1. /\ at <= Len(events) /\ phase = "idle" /\ phase' = phase /\ curSymbol' = Event.id /\ at' = at + 1
        /\ PathInv' /\ UNCHANGED <<events, symbols, textDepth, textMatrix, uses, glyphs>>
    BY <1>0, <1>1 DEF OpenSymbol, Meets, Next1, NoPath, pathVars
  <2> QED  BY <2>1, EventIs DEF ReaderInv
<1>2. CASE CloseSymbol
  <2>1. /\ phase = "idle" /\ phase' = phase /\ curSymbol' = NoId /\ at' = at + 1
        /\ PathInv' /\ UNCHANGED <<events, symbols, textDepth, textMatrix, uses, glyphs>>
    BY <1>0, <1>2 DEF CloseSymbol, Meets, Next1, NoPath, pathVars
  <2> QED  BY <2>1 DEF ReaderInv
<1>3. CASE OpenPath
  <2>1. /\ at <= Len(events) /\ at' = at + 1 /\ phase = "idle"
        /\ UNCHANGED <<events, symbols, curSymbol, textDepth, textMatrix, uses, glyphs>>
        /\ \/ phase' = phase /\ PathInv'
           \/ curSymbol # NoId /\ PathBegins(Event.d)  BY <1>0, <1>3 DEF OpenPath, Meets, Next1, NoPath, pathVars
  <2>2. ASSUME PathBegins(Event.d) PROVE PathInv'
    <3>1. Event.d \in Seq(Tokens)  BY <2>1, EventIs
    <3>2. /\ path' = Event.d /\ i' = 1 /\ cmd' = NoCommand /\ cur' = Origin /\ start' = Origin
          /\ poly' = <<>> /\ contours' = <<>>  BY <2>2 DEF PathBegins
    <3> QED  BY StartIs, <3>1, <3>2 DEF PathInv
  <2> QED  BY <2>1, <2>2 DEF ReaderInv
<1>4. CASE ReadPath
  <2>1. PathStep /\ phase = "path"
        /\ UNCHANGED <<events, at, symbols, curSymbol, textDepth, textMatrix, uses, glyphs>>
    BY <1>4 DEF ReadPath, glyphVars
  <2>2. PathInv'  BY <2>1, PathStepKeeps DEF ReaderInv
  <2> QED  BY <2>1, <2>2 DEF ReaderInv
<1>5. CASE PathRead
  <2>1. /\ phase = "ended" /\ symbols' = [symbols EXCEPT ![curSymbol] = @ \o contours]
        /\ phase' = "idle" /\ path' = <<>> /\ contours' = <<>>
        /\ UNCHANGED <<i, cmd, cur, start, poly>>
        /\ UNCHANGED <<events, at, curSymbol, textDepth, textMatrix, uses, glyphs>>  BY <1>5 DEF PathRead
  <2>2. PathInv'  BY <2>1 DEF PathInv, ReaderInv
  <2>3. symbols' \in [Ids -> Outlines]
    <3>1. \A x, y \in Seq(Seq(Points)) : x \o y \in Seq(Seq(Points))  OBVIOUS
    <3>2. contours \in Outlines /\ curSymbol \in Ids /\ symbols[curSymbol] \in Outlines
      BY <2>1 DEF ReaderInv, PathInv, Outlines
    <3>3. symbols[curSymbol] \o contours \in Outlines  BY <3>1, <3>2 DEF Outlines
    <3> QED  BY <2>1, <3>3 DEF ReaderInv
  <2> QED  BY <2>1, <2>2, <2>3 DEF ReaderInv
<1>6. CASE PathRefused  BY <1>0, <1>6 DEF PathRefused, Refuse, NoPath, pathVars, ReaderInv
<1>7. CASE OpenGroup
  <2>1. /\ at <= Len(events) /\ phase' = phase /\ PathInv' /\ at' \in {at, at + 1} /\ textDepth' \in Nat
        /\ UNCHANGED <<events, symbols, curSymbol, uses, glyphs>>
        /\ textMatrix' = textMatrix \/ (Event.tf # <<>> /\ textMatrix' = Event.tf[1])
    <3>1. NoPath /\ at <= Len(events)  BY <1>7 DEF OpenGroup, Meets
    <3>2. PathInv' /\ phase' = phase  BY <1>0, <3>1 DEF NoPath, pathVars
    <3>3. CASE Refuse  BY <3>1, <3>2, <3>3 DEF Refuse, ReaderInv
    <3>4. CASE ~Refuse
      <4>1. /\ Next1 /\ UNCHANGED <<symbols, curSymbol, uses>>
            /\ IF textDepth > 0 THEN textDepth' = textDepth + 1 /\ UNCHANGED textMatrix
               ELSE IF Event.text THEN textDepth' = 1 /\ textMatrix' = Event.tf[1]
               ELSE UNCHANGED <<textDepth, textMatrix>>
            /\ ~(textDepth = 0 /\ Event.text /\ Event.tf = <<>>)  BY <1>7, <3>4 DEF OpenGroup
      <4>2. textDepth \in Nat  BY DEF ReaderInv
      <4> QED  BY <3>1, <3>2, <4>1, <4>2 DEF Next1
    <3> QED  BY <3>3, <3>4
  <2>2. textMatrix' \in Matrices
    <3>1. Event.tf \in Seq(Matrices)  BY <2>1, EventIs
    <3> QED  BY <2>1, <3>1, LastIs DEF ReaderInv
  <2> QED  BY <2>1, <2>2 DEF ReaderInv
<1>8. CASE CloseGroup  BY <1>0, <1>8 DEF CloseGroup, Next1, NoPath, pathVars, ReaderInv
<1>9. CASE Use
  <2>1. /\ at <= Len(events) /\ phase' = phase /\ PathInv' /\ at' = at + 1
        /\ UNCHANGED <<events, symbols, curSymbol, textDepth, textMatrix, glyphs>>
        /\ \/ uses' = uses
           \/ /\ Event.id # NoId
              /\ uses' = Append(uses, [id |-> Event.id, x |-> Event.x, y |-> Event.y, matrix |-> textMatrix])
    BY <1>0, <1>9 DEF Use, Meets, Next1, NoPath, pathVars
  <2>2. uses' \in Seq(Placements)
    <3> DEFINE placed == [id |-> Event.id, x |-> Event.x, y |-> Event.y, matrix |-> textMatrix]
    <3>1. ASSUME Event.id # NoId
          PROVE  placed \in Placements  BY <2>1, <3>1, EventIs DEF ReaderInv, Placements
    <3>2. \A s \in Seq(Placements) : \A x \in Placements : Append(s, x) \in Seq(Placements)  OBVIOUS
    <3> HIDE DEF placed
    <3>3. uses' = uses \/ (Event.id # NoId /\ uses' = Append(uses, placed))  BY <2>1 DEF placed
    <3> QED  BY <3>1, <3>2, <3>3 DEF ReaderInv
  <2> QED  BY <2>1, <2>2 DEF ReaderInv
<1>10. CASE OtherTag  BY <1>0, <1>10 DEF OtherTag, Next1, NoPath, pathVars, ReaderInv
<1>11. CASE Malformed  BY <1>0, <1>11 DEF Malformed, Refuse, NoPath, pathVars, ReaderInv
<1>12. CASE PlaceGlyphs
  <2>1. PathInv' /\ UNCHANGED <<phase, events, at, symbols, curSymbol, textDepth, textMatrix, uses>>
    BY <1>0, <1>12 DEF PlaceGlyphs, NoPath, pathVars
  <2> QED  BY <1>12, <2>1, PlaceGlyphsIs DEF ReaderInv
<1> QED  BY <1>1, <1>2, <1>3, <1>4, <1>5, <1>6, <1>7, <1>8, <1>9, <1>10, <1>11, <1>12 DEF ReadGlyphs

(* Lengths. *)
LEMMA SizeIs ==
  \A x \in Int : /\ Size(x) \in Nat /\ Size(0 - x) = Size(x)
                 /\ x # 0 => Size(x) >= 1
<1>1. ASSUME NEW x \in Int
      PROVE  /\ Size(x) \in Nat /\ Size(0 - x) = Size(x)
             /\ x # 0 => Size(x) >= 1
  <2>1. CASE x > 0
    <3>1. Size(x) = x /\ Size(0 - x) = x  BY <2>1 DEF Size, Sign
    <3> QED  BY <2>1, <3>1
  <2>2. CASE x < 0
    <3>1. Size(x) = 0 - x /\ Size(0 - x) = 0 - x  BY <2>2 DEF Size, Sign
    <3> QED  BY <2>2, <3>1
  <2>3. CASE x = 0
    <3>1. Size(x) = 0 /\ 0 - x = x  BY <2>3 DEF Size, Sign
    <3> QED  BY <2>3, <3>1
  <2> QED  BY <2>1, <2>2, <2>3
<1> QED  BY <1>1

\* A set of numbers up to n has a greatest element.
LEMMA GreatestElement ==
  ASSUME NEW n \in Nat, NEW S \in SUBSET (0..n), S # {}
  PROVE  Max(S) \in S /\ \A x \in S : x <= Max(S)
<1> DEFINE R == {n - x : x \in S}
<1>0. \A x \in S : x \in 0..n /\ n - x \in Nat  OBVIOUS
<1>1. R \subseteq Nat /\ R # {}
  <2>1. R \subseteq Nat  BY <1>0
  <2>2. PICK x \in S : TRUE  OBVIOUS
  <2>3. n - x \in R  OBVIOUS
  <2> QED  BY <2>1, <2>3
<1>2. Min(R) \in R /\ \A y \in R : Min(R) <= y
  <2> HIDE DEF R
  <2> QED  BY <1>1, LeastElement
<1>3. PICK m \in S : Min(R) = n - m  BY <1>2
<1>4. \A x \in S : m >= x
  <2> TAKE x \in S
  <2>1. n - x \in R  OBVIOUS
  <2>2. n - m <= n - x  BY <1>2, <1>3, <2>1
  <2> HIDE DEF R
  <2>3. m \in Int /\ x \in Int /\ n \in Int  OBVIOUS
  <2> QED  BY <2>2, <2>3
<1>5. Max(S) \in S /\ \A x \in S : Max(S) >= x  BY <1>4, Zenon DEF Max
<1>6. \A x \in S : x \in Int  OBVIOUS
<1> QED  BY <1>5, <1>6

\* A length is a natural number; it does not depend on the way it is measured,
\* and only what does not lead away has none.
LEMMA HypotIs ==
  /\ \A x, y \in Int : Hypot(x, y) \in Nat /\ Hypot(0 - x, 0 - y) = Hypot(x, y)
  /\ \A x, y \in Int : Hypot(x, y) = 0 => x = 0 /\ y = 0
<1>1. ASSUME NEW x \in Int, NEW y \in Int
      PROVE  /\ Hypot(x, y) \in Nat /\ Hypot(0 - x, 0 - y) = Hypot(x, y)
             /\ Hypot(x, y) = 0 => x = 0 /\ y = 0
  <2> DEFINE n == Size(x) + Size(y)
             S == {r \in 0..n : r * r <= x * x + y * y}
  <2>1. Size(x) \in Nat /\ Size(y) \in Nat /\ n \in Nat  BY SizeIs
  <2>2. Size(0 - x) = Size(x) /\ Size(0 - y) = Size(y)  BY SizeIs
  <2>3. (0 - x) * (0 - x) = x * x /\ (0 - y) * (0 - y) = y * y  OBVIOUS
  <2>4. x * x \in Nat /\ y * y \in Nat
    <3>1. \A z \in Int : z * z \in Nat  OBVIOUS
    <3> QED  BY <3>1
  <2>5. Hypot(x, y) = Max(S)  BY DEF Hypot
  <2>6. Hypot(0 - x, 0 - y) = Max(S)  BY <2>2, <2>3 DEF Hypot
  <2>7. 0 \in S /\ S \in SUBSET (0..n)  BY <2>1, <2>4
  <2>8. x # 0 \/ y # 0 => 1 \in S
    <3>1. \A z \in Int : z # 0 => z * z >= 1  OBVIOUS
    <3>2. x # 0 \/ y # 0 => x * x + y * y >= 1  BY <2>4, <3>1
    <3>3. x # 0 \/ y # 0 => n >= 1  BY <2>1, SizeIs
    <3> QED  BY <2>1, <3>2, <3>3
  <2> HIDE DEF n, S
  <2>9. Max(S) \in S /\ \A r \in S : r <= Max(S)  BY <2>1, <2>7, GreatestElement
  <2>10. Max(S) \in Nat
    <3>1. PICK m : m = Max(S)  OBVIOUS
    <3>2. m \in 0..n  BY <2>7, <2>9, <3>1
    <3> QED  BY <2>1, <3>1, <3>2
  <2> QED  BY <2>5, <2>6, <2>8, <2>9, <2>10
<1> QED  BY <1>1

(* Resampling: the edges of an outline, as resampleClosed walks them, and *)
(* the loop that any outline with a point becomes. *)
EdgeLength(c, k) == Hypot(Cyclic(c, k + 1)[1] - c[k][1], Cyclic(c, k + 1)[2] - c[k][2])
Lengths(c) == [k \in DOMAIN c |-> EdgeLength(c, k)]
Edges(c) == {k \in DOMAIN c : EdgeLength(c, k) > 0}
Reaching(c, m) ==
  {s \in Edges(c) : Samples * (SumTo(Lengths(c), s - 1) + EdgeLength(c, s)) >= Total(Lengths(c)) * (m - 1)}
GoneOn(c, m, k) == Total(Lengths(c)) * (m - 1) - Samples * SumTo(Lengths(c), k - 1)
SampleAlong(c, m, k, a) ==
  ((Samples * EdgeLength(c, k) - GoneOn(c, m, k)) * c[k][a] + GoneOn(c, m, k) * Cyclic(c, k + 1)[a])
    \div EdgeLength(c, k)
SampleOn(c, m, k) == <<SampleAlong(c, m, k, 1), SampleAlong(c, m, k, 2)>>

\* resampleClosed, by the names of this section.
LEMMA ResampleIs ==
  ASSUME NEW c
  PROVE  ResampleClosed(c) =
           [m \in 1..Samples |->
              Scaled(Samples, IF Edges(c) = {} THEN Scaled(Samples, c[1])
                              ELSE SampleOn(c, m, Min(Reaching(c, m))))]
BY DEF ResampleClosed, EdgeLength, Lengths, Edges, Reaching, GoneOn, SampleAlong, SampleOn

\* At every distance there is an edge with a length that reaches it.
LEMMA EdgeExists ==
  ASSUME NEW s \in Seq(Nat), NEW m \in 1..Samples,
         {k \in DOMAIN s : s[k] > 0} # {}
  PROVE  \E k \in {j \in DOMAIN s : s[j] > 0} :
           Samples * (SumTo(s, k - 1) + s[k]) >= Total(s) * (m - 1)
<1> DEFINE n == Len(s)
           P(k) == SumTo(s, k)
           target == Total(s) * (m - 1)
<1>0. /\ n \in Nat /\ DOMAIN s = 1..n /\ s \in Seq(Int) /\ \A k \in 1..n : s[k] \in Nat
      /\ Samples \in Nat /\ Samples >= 1  BY MorphAssumption
<1>1. P(0) = 0 /\ (\A k \in 1..n : P(k) = P(k - 1) + s[k]) /\ \A k \in 0..n : P(k) \in Nat  BY <1>0, SumToIs, SumIsNat
<1>2. Total(s) = P(n)  BY DEF Total
<1>3. \A a, b \in Nat : a * b \in Nat  OBVIOUS
<1> HIDE DEF n, P
<1>4. target \in Nat /\ target <= Samples * P(n)
  <2>1. n \in 0..n  BY <1>0
  <2>2. P(n) \in Nat /\ m - 1 \in Nat /\ Samples - (m - 1) \in Nat  BY <1>0, <1>1, <2>1
  <2>3. P(n) * (Samples - (m - 1)) \in Nat /\ P(n) * (m - 1) \in Nat  BY <1>3, <2>2
  <2>4. P(n) * (Samples - (m - 1)) = Samples * P(n) - P(n) * (m - 1)  BY <1>0, <2>2
  <2> QED  BY <1>0, <1>2, <2>2, <2>3, <2>4
<1> HIDE DEF target
<1>5. CASE target = 0
  <2>1. PICK k \in 1..n : s[k] > 0  BY <1>0
  <2>2. P(k) \in Nat /\ P(k) = P(k - 1) + s[k]
    <3>1. k \in 0..n  BY <1>0
    <3> QED  BY <1>1, <3>1
  <2>3. Samples * P(k) \in Nat  BY <1>0, <1>3, <2>2
  <2>4. Samples * (P(k - 1) + s[k]) >= target  BY <1>5, <2>2, <2>3
  <2> QED  BY <1>0, <2>1, <2>4 DEF P, target
<1>6. CASE target # 0
  <2> DEFINE T == {k \in 0..n : Samples * P(k) >= target}
             b == Min(T)
  <2>1. n \in T  BY <1>0, <1>1, <1>3, <1>4
  <2>2. b \in T /\ \A k \in T : b <= k
    <3>1. T \subseteq Nat  BY <1>0
    <3> HIDE DEF T
    <3> QED  BY <2>1, <3>1, LeastElement
  <2> HIDE DEF b
  <2>3. b \in 0..n /\ Samples * P(b) >= target  BY <2>2
  <2>4. b # 0  BY <1>0, <1>1, <1>4, <1>6, <2>3
  <2>5. b \in 1..n /\ b - 1 \in 0..n /\ b - 1 < b  BY <1>0, <2>3, <2>4
  <2>6. ~(Samples * P(b - 1) >= target)  BY <2>2, <2>5
  <2>7. P(b) = P(b - 1) + s[b] /\ s[b] \in Nat /\ P(b - 1) \in Nat  BY <1>0, <1>1, <2>5
  <2>8. s[b] > 0
    <3>1. P(b) # P(b - 1)  BY <2>3, <2>6
    <3> QED  BY <2>7, <3>1
  <2>9. Samples * (P(b - 1) + s[b]) >= target  BY <2>3, <2>7
  <2> QED  BY <1>0, <2>5, <2>8, <2>9 DEF P, target
<1> QED  BY <1>5, <1>6

\* Points Samples times as large as they might be.
Coarse(c) == \E ps \in [1..Samples -> Points] : c = [m \in 1..Samples |-> Scaled(Samples, ps[m])]

\* resampleClosed: the loop of an outline has Samples points, all of them
\* multiples of Samples.
LEMMA ResampledIs ==
  ASSUME NEW c \in Seq(Points), Len(c) >= 1
  PROVE  ResampleClosed(c) \in Loops /\ Coarse(ResampleClosed(c))
<1> DEFINE n == Len(c)
           At(m) == IF Edges(c) = {} THEN Scaled(Samples, c[1]) ELSE SampleOn(c, m, Min(Reaching(c, m)))
<1>0. /\ Samples \in Nat /\ Samples >= 1 /\ n \in Nat /\ n >= 1 /\ DOMAIN c = 1..n
      /\ \A k \in 1..n : c[k] \in Points  BY MorphAssumption
<1>1. ResampleClosed(c) = [m \in 1..Samples |-> Scaled(Samples, At(m))]  BY ResampleIs
<1> HIDE DEF n
<1>2. ASSUME NEW k \in 1..n
      PROVE  /\ \A a \in {1, 2} : c[k][a] \in Int /\ Cyclic(c, k + 1)[a] \in Int
             /\ EdgeLength(c, k) \in Nat
  <2>1. k % n \in 0..(n - 1)  BY <1>0
  <2>2. k + 1 - 1 = k  BY <1>0
  <2>3. Cyclic(c, k + 1) \in Points
    <3>1. ((k + 1 - 1) % n) + 1 \in 1..n  BY <1>0, <2>1, <2>2
    <3> QED  BY <1>0, <3>1 DEF Cyclic, n
  <2>4. \A a \in {1, 2} : c[k][a] \in Int /\ Cyclic(c, k + 1)[a] \in Int  BY <1>0, <2>3, PointIs
  <2>5. /\ Cyclic(c, k + 1)[1] - c[k][1] \in Int /\ Cyclic(c, k + 1)[2] - c[k][2] \in Int
    <3>1. 1 \in {1, 2} /\ 2 \in {1, 2}  OBVIOUS
    <3> QED  BY <2>4, <3>1
  <2> QED  BY <2>4, <2>5, HypotIs DEF EdgeLength
<1>3. Lengths(c) \in Seq(Nat) /\ Len(Lengths(c)) = n /\ DOMAIN Lengths(c) = 1..n
      /\ \A k \in 1..n : Lengths(c)[k] = EdgeLength(c, k)
  <2>1. Lengths(c) \in [1..n -> Nat] /\ \A k \in 1..n : Lengths(c)[k] = EdgeLength(c, k)  BY <1>0, <1>2 DEF Lengths
  <2> QED  BY <1>0, <2>1, ListIsSeq
<1>4. Total(Lengths(c)) \in Int /\ \A k \in 1..n : SumTo(Lengths(c), k - 1) \in Int
  <2>1. Lengths(c) \in Seq(Int)  BY <1>3
  <2>2. \A k \in 1..n : k - 1 \in 0..n  BY <1>0
  <2> QED  BY <1>3, <2>1, <2>2, SumToIs, TotalIsInt
<1>5. ASSUME NEW m \in 1..Samples, Edges(c) # {}
      PROVE  Min(Reaching(c, m)) \in 1..n /\ EdgeLength(c, Min(Reaching(c, m))) > 0
  <2>1. {k \in DOMAIN Lengths(c) : Lengths(c)[k] > 0} = Edges(c)  BY <1>0, <1>3 DEF Edges
  <2>2. PICK k \in Edges(c) :
               Samples * (SumTo(Lengths(c), k - 1) + Lengths(c)[k]) >= Total(Lengths(c)) * (m - 1)
    BY <1>3, <1>5, <2>1, EdgeExists
  <2>3. k \in 1..n  BY <1>0 DEF Edges
  <2>4. k \in Reaching(c, m)  BY <1>3, <2>2, <2>3 DEF Reaching
  <2>5. Reaching(c, m) \subseteq 1..n /\ \A j \in Reaching(c, m) : EdgeLength(c, j) > 0  BY <1>0 DEF Reaching, Edges
  <2>6. Reaching(c, m) \subseteq Nat  BY <1>0, <2>5
  <2>7. Min(Reaching(c, m)) \in Reaching(c, m)  BY <2>4, <2>6, LeastElement
  <2> QED  BY <2>5, <2>7
<1>6. ASSUME NEW m \in 1..Samples, NEW k \in 1..n, EdgeLength(c, k) > 0 PROVE SampleOn(c, m, k) \in Points
  <2>1. \A a, b \in Int : a * b \in Int  OBVIOUS
  <2>2. PICK g, w : g = GoneOn(c, m, k) /\ w = Samples * EdgeLength(c, k) - GoneOn(c, m, k)  OBVIOUS
  <2>3. g \in Int /\ w \in Int
    <3>1. Total(Lengths(c)) * (m - 1) \in Int /\ Samples * SumTo(Lengths(c), k - 1) \in Int  BY <1>0, <1>4, <2>1
    <3>2. GoneOn(c, m, k) \in Int  BY <3>1 DEF GoneOn
    <3>3. Samples * EdgeLength(c, k) \in Int  BY <1>0, <1>2, <2>1
    <3> QED  BY <2>2, <3>2, <3>3
  <2>4. ASSUME NEW a \in {1, 2} PROVE SampleAlong(c, m, k, a) \in Int
    <3>1. SampleAlong(c, m, k, a) = (w * c[k][a] + g * Cyclic(c, k + 1)[a]) \div EdgeLength(c, k)
      BY <2>2 DEF SampleAlong
    <3>2. w * c[k][a] + g * Cyclic(c, k + 1)[a] \in Int
      <4>1. w * c[k][a] \in Int /\ g * Cyclic(c, k + 1)[a] \in Int  BY <1>2, <2>1, <2>3
      <4> QED  BY <4>1
    <3>3. EdgeLength(c, k) \in Nat \ {0}  BY <1>2, <1>6
    <3>4. \A x \in Int : \A d \in Nat \ {0} : x \div d \in Int  OBVIOUS
    <3> QED  BY <3>1, <3>2, <3>3, <3>4
  <2> QED  BY <2>4, PointIs DEF SampleOn
<1>7. ASSUME NEW m \in 1..Samples PROVE At(m) \in Points
  <2>1. Scaled(Samples, c[1]) \in Points  BY <1>0, ScaledIs
  <2>2. Edges(c) # {} => SampleOn(c, m, Min(Reaching(c, m))) \in Points  BY <1>5, <1>6
  <2> QED  BY <2>1, <2>2
<1> HIDE DEF At
<1>8. [m \in 1..Samples |-> Scaled(Samples, At(m))] \in [1..Samples -> Points]  BY <1>0, <1>7, ScaledIs
<1>9. Coarse(ResampleClosed(c))
  <2> DEFINE ps == [m \in 1..Samples |-> At(m)]
  <2>1. ps \in [1..Samples -> Points] /\ \A m \in 1..Samples : ps[m] = At(m)  BY <1>7
  <2> HIDE DEF ps
  <2>2. ResampleClosed(c) = [m \in 1..Samples |-> Scaled(Samples, ps[m])]  BY <1>1, <2>1
  <2> QED  BY <2>1, <2>2 DEF Coarse
<1> QED  BY <1>0, <1>1, <1>8, <1>9, ListIsSeq DEF Loops

(* Alignment: two loops turn the same way, and of the places at which the *)
(* target may begin the one is taken from which its points travel least. *)
\* A squared distance is a natural number.
LEMMA ApartIs ==
  ASSUME NEW p \in Points, NEW q \in Points
  PROVE  Apart(p, q) \in Nat
<1>1. p[1] - q[1] \in Int /\ p[2] - q[2] \in Int  BY PointIs
<1>2. \A x \in Int : x * x \in Nat  OBVIOUS
<1>3. (p[1] - q[1]) * (p[1] - q[1]) \in Nat /\ (p[2] - q[2]) * (p[2] - q[2]) \in Nat  BY <1>1, <1>2
<1> QED  BY <1>3 DEF Apart

LEMMA TravelIsNat ==
  ASSUME NEW s \in Loops, NEW d \in Loops
  PROVE  Travel(s, d) \in Nat
<1> DEFINE t == [m \in DOMAIN s |-> Apart(s[m], d[m])]
<1>1. Samples \in Nat /\ DOMAIN s = 1..Samples
      /\ \A k \in 1..Samples : s[k][1] \in Int /\ s[k][2] \in Int /\ d[k][1] \in Int /\ d[k][2] \in Int  BY LoopIs
<1>2. \A k \in 1..Samples : s[k] \in Points /\ d[k] \in Points  BY LoopIs
<1>3. \A k \in 1..Samples : Apart(s[k], d[k]) \in Nat  BY <1>2, ApartIs
<1>4. t \in [1..Samples -> Nat]  BY <1>1, <1>3
<1>5. t \in Seq(Nat)  BY <1>1, <1>4
<1> HIDE DEF t
<1>6. Total(t) \in Nat  BY <1>5, TotalIsNat
<1> QED  BY <1>6 DEF Travel, t

\* One offset: its travel, or what was best before when that is no worse. A sum
\* that stops early has reached the best cost, and so has the whole one.
LEMMA TriedIs ==
  ASSUME NEW s \in Loops, NEW d \in Loops, NEW k \in 0..(Samples - 1), NEW best,
         best.cost # <<>> => best.cost[1] \in Nat
  PROVE  LET cost == Travel(s, Rotated(d, k))
         IN  Tried(s, d, k, best) = IF Reaches(cost, best.cost) THEN best ELSE [at |-> k, cost |-> <<cost>>]
<1> DEFINE n == Len(s)
           b == best.cost
           r == Rotated(d, k)
           t == [m \in DOMAIN s |-> Apart(s[m], r[m])]
           T(m) == SumTo(t, m)
           Summed(sum, m) == IF m > 1 /\ Reaches(sum, b) THEN sum ELSE sum + Apart(s[m], Cyclic(d, m + k))
           Is(f) == f = [m \in 0..n |-> IF m = 0 THEN 0 ELSE Summed(f[m - 1], m)]
           upto == CHOOSE f : Is(f)
           Sum(ky) == IF ky[1] > 1 /\ Reaches(ky[2], b) THEN ky[2] ELSE ky[2] + t[ky[1]]
           g == [ky \in (1..n) \X Nat |-> Sum(ky)]
<1>0. n \in Nat /\ n >= 1 /\ n = Samples /\ DOMAIN s = 1..n  BY LoopIs
<1>1. r \in Loops /\ \A m \in 1..n : r[m] = Cyclic(d, m + k)
  <2>1. r \in Loops /\ DOMAIN d = 1..n  BY <1>0, RotatedIs, LoopIs
  <2> QED  BY <2>1 DEF Rotated
<1>2. \A m \in 1..n : t[m] = Apart(s[m], Cyclic(d, m + k)) /\ t[m] \in Nat
  <2>1. \A m \in 1..n : s[m] \in Points /\ r[m] \in Points  BY <1>0, <1>1, LoopIs
  <2>2. \A m \in 1..n : Apart(s[m], r[m]) \in Nat  BY <2>1, ApartIs
  <2> QED  BY <1>0, <1>1, <2>2
<1>3. t \in Seq(Nat) /\ Len(t) = n /\ Travel(s, r) = T(n)
  <2>1. t \in [1..n -> Nat] /\ Travel(s, r) = Total(t)  BY <1>0, <1>2 DEF Travel
  <2> HIDE DEF t, n
  <2>2. t \in Seq(Nat) /\ Len(t) = n  BY <1>0, <2>1, ListIsSeq
  <2> QED  BY <2>1, <2>2 DEF Total
<1> HIDE DEF t
<1>4. T(0) = 0 /\ (\A m \in 1..n : T(m) = T(m - 1) + t[m]) /\ \A m \in 0..n : T(m) \in Nat
  <2>1. t \in Seq(Int)  BY <1>3
  <2> QED  BY <1>3, <2>1, SumToIs, SumIsNat
<1>5. Tried(s, d, k, best) = IF Reaches(upto[n], b) THEN best ELSE [at |-> k, cost |-> <<upto[n]>>]  BY DEF Tried
<1> HIDE DEF n, r, T
<1>6. \E f \in [0..n -> Nat] : Is(f)
  <2>1. g \in [(1..n) \X Nat -> Nat]
    <3>1. ASSUME NEW ky \in (1..n) \X Nat PROVE Sum(ky) \in Nat
      <4>1. ky[1] \in 1..n /\ ky[2] \in Nat /\ t[ky[1]] \in Nat  BY <1>2
      <4> HIDE DEF b
      <4> QED  BY <4>1
    <3> HIDE DEF Sum
    <3> QED  BY <3>1
  <2>2. PICK f \in [0..n -> Nat] : Repeated(f, n, 0, g)
    <3>1. 0 \in Nat  OBVIOUS
    <3> HIDE DEF g
    <3> QED  BY <1>0, <2>1, <3>1, RepeatedExists
  <2>3. \A m \in 0..n : f[m] = IF m = 0 THEN 0 ELSE Summed(f[m - 1], m)
    <3> TAKE m \in 0..n
    <3>1. CASE m = 0  BY <2>2, <3>1 DEF Repeated
    <3>2. CASE m # 0
      <4>1. m \in 1..n /\ f[m - 1] \in Nat  BY <1>0, <3>2
      <4>2. f[m] = g[<<m, f[m - 1]>>]  BY <2>2, <4>1 DEF Repeated
      <4>3. g[<<m, f[m - 1]>>] = Summed(f[m - 1], m)
        <5>1. t[m] = Apart(s[m], Cyclic(d, m + k))  BY <1>2, <4>1
        <5>2. PICK y \in Nat : y = f[m - 1]  BY <4>1
        <5>3. <<m, y>> \in (1..n) \X Nat /\ <<m, y>>[1] = m /\ <<m, y>>[2] = y  BY <4>1
        <5>4. g[<<m, y>>] = Sum(<<m, y>>)  BY <5>3
        <5>5. Sum(<<m, y>>) = IF m > 1 /\ Reaches(y, b) THEN y ELSE y + t[m]  BY <5>3
        <5> HIDE DEF g, Sum
        <5> QED  BY <5>1, <5>2, <5>4, <5>5
      <4> QED  BY <3>2, <4>2, <4>3
    <3> QED  BY <3>1, <3>2
  <2> HIDE DEF Summed
  <2> QED  BY <2>3
<1>7. Is(upto)
  <2> HIDE DEF Is
  <2> QED  BY <1>6
<1> HIDE DEF upto
<1>8. \A m \in 0..n : upto[m] = IF m = 0 THEN 0 ELSE Summed(upto[m - 1], m)
  <2> HIDE DEF Summed
  <2> QED  BY <1>7
<1> HIDE DEF Is, b
\* The sum is the whole one so far, or it has stopped.
<1> DEFINE Right(m) == /\ upto[m] \in Nat /\ upto[m] <= T(m)
                       /\ upto[m] = T(m) \/ Reaches(upto[m], b)
           S == {m \in 0..n : Right(m)}
<1>9. 0 \in S
  <2>1. upto[0] = 0 /\ 0 \in 0..n  BY <1>0, <1>8
  <2> QED  BY <1>4, <2>1
<1>10. ASSUME NEW m \in 1..n, m - 1 \in S PROVE m \in S
  <2>0. m \in 0..n /\ m # 0 /\ m - 1 \in 0..n  BY <1>0
  <2>1. PICK x \in Nat, y \in Nat, z \in Nat : x = upto[m - 1] /\ y = T(m - 1) /\ z = t[m]  BY <1>2, <1>4, <1>10, <2>0
  <2>2. x <= y /\ (x = y \/ Reaches(x, b))  BY <1>10, <2>1
  <2>3. T(m) = y + z  BY <1>4, <2>1
  <2>4. upto[m] = IF m > 1 /\ Reaches(x, b) THEN x ELSE x + z
    <3>1. upto[m] = Summed(upto[m - 1], m)  BY <1>8, <2>0
    <3> QED  BY <1>2, <2>1, <3>1
  <2>5. CASE m > 1 /\ Reaches(x, b)
    <3>1. upto[m] = x  BY <2>4, <2>5
    <3> QED  BY <2>0, <2>2, <2>3, <2>5, <3>1
  <2>6. CASE ~(m > 1 /\ Reaches(x, b))
    <3>1. upto[m] = x + z  BY <2>4, <2>6
    <3>2. x = y
      <4>1. CASE m = 1
        <5>1. m - 1 = 0  BY <4>1
        <5>2. upto[0] = 0 /\ T(0) = 0  BY <1>0, <1>4, <1>8
        <5> QED  BY <2>1, <5>1, <5>2
      <4>2. CASE m # 1
        <5>1. m > 1  BY <1>0, <4>2
        <5> QED  BY <2>2, <2>6, <5>1
      <4> QED  BY <4>1, <4>2
    <3> QED  BY <2>0, <2>3, <3>1, <3>2
  <2> QED  BY <2>5, <2>6
<1>11. Right(n)
  <2>1. \A m \in 0..n : m \in S
    <3> HIDE DEF S
    <3> QED  BY <1>0, <1>9, <1>10, Upwards
  <2>2. n \in 0..n  BY <1>0
  <2> QED  BY <2>1, <2>2
<1>12. PICK x \in Nat, y \in Nat : x = upto[n] /\ y = Travel(s, r)
  <2>1. n \in 0..n  BY <1>0
  <2> QED  BY <1>3, <1>4, <1>11, <2>1
<1>13. x <= y /\ (x = y \/ Reaches(x, b))  BY <1>3, <1>11, <1>12
<1>14. Reaches(x, b) => Reaches(y, b)  BY <1>13 DEF Reaches, b
<1>15. Tried(s, d, k, best) = IF Reaches(y, b) THEN best ELSE [at |-> k, cost |-> <<y>>]  BY <1>5, <1>12, <1>13, <1>14
<1> QED  BY <1>12, <1>15 DEF r, b

\* The offsets of a loop, and what the search knows after k of them.
Searched(s, d, k, best) ==
  /\ best.at \in 0..(Samples - 1) /\ (best.cost # <<>> => best.cost[1] \in Nat)
  /\ k > 0 => /\ best.cost = <<Travel(s, Rotated(d, best.at))>>
              /\ \A j \in 0..(k - 1) : Travel(s, Rotated(d, best.at)) <= Travel(s, Rotated(d, j))

\* One offset more.
LEMMA SearchGoesOn ==
  ASSUME NEW s \in Loops, NEW d \in Loops, NEW k \in 1..Samples, NEW best, Searched(s, d, k - 1, best),
         k = 1 => best.cost = <<>>
  PROVE  Searched(s, d, k, Tried(s, d, k - 1, best))
<1> DEFINE C(j) == Travel(s, Rotated(d, j))
<1>0. Samples \in Nat /\ k - 1 \in 0..(Samples - 1)  BY LoopIs
<1>1. \A j \in 0..(Samples - 1) : C(j) \in Nat  BY RotatedIs, TravelIsNat
<1>2. PICK after : after = Tried(s, d, k - 1, best)  OBVIOUS
<1>3. after = IF Reaches(C(k - 1), best.cost) THEN best ELSE [at |-> k - 1, cost |-> <<C(k - 1)>>]
  BY <1>0, <1>2, TriedIs DEF Searched
<1> HIDE DEF C
<1>4. CASE Reaches(C(k - 1), best.cost)
  <2>1. after = best /\ best.cost # <<>> /\ k - 1 > 0 /\ C(k - 1) >= best.cost[1]  BY <1>0, <1>3, <1>4 DEF Reaches
  <2>2. /\ best.at \in 0..(Samples - 1) /\ best.cost = <<C(best.at)>> /\ best.cost[1] = C(best.at)
        /\ \A j \in 0..(k - 1 - 1) : C(best.at) <= C(j)  BY <2>1 DEF Searched, C
  <2>3. \A j \in 0..(k - 1) : C(best.at) <= C(j)
    <3> TAKE j \in 0..(k - 1)
    <3>1. CASE j = k - 1  BY <1>0, <1>1, <2>1, <2>2, <3>1
    <3>2. CASE j # k - 1
      <4>1. j \in 0..(k - 1 - 1)  BY <1>0, <3>2
      <4> QED  BY <2>2, <4>1
    <3> QED  BY <3>1, <3>2
  <2>4. best.cost[1] \in Nat  BY <1>1, <2>2
  <2> QED  BY <1>2, <2>1, <2>2, <2>3, <2>4 DEF Searched, C
<1>5. CASE ~Reaches(C(k - 1), best.cost)
  <2>1. after.at = k - 1 /\ after.cost = <<C(k - 1)>> /\ after.cost[1] = C(k - 1)  BY <1>3, <1>5
  <2>2. \A j \in 0..(k - 1) : C(k - 1) <= C(j)
    <3> TAKE j \in 0..(k - 1)
    <3>1. CASE j = k - 1  BY <1>0, <1>1, <3>1
    <3>2. CASE j # k - 1
      <4>1. k - 1 > 0 /\ j \in 0..(k - 1 - 1) /\ j \in 0..(Samples - 1)  BY <1>0, <3>2
      <4>2. /\ best.cost = <<C(best.at)>> /\ best.cost # <<>> /\ best.cost[1] = C(best.at)
            /\ C(best.at) <= C(j) /\ best.at \in 0..(Samples - 1)
        <5>1. /\ best.at \in 0..(Samples - 1) /\ best.cost = <<C(best.at)>>
              /\ \A n \in 0..(k - 1 - 1) : C(best.at) <= C(n)  BY <4>1 DEF Searched, C
        <5> QED  BY <4>1, <5>1
      <4>3. ~(C(k - 1) >= C(best.at))  BY <1>5, <4>2 DEF Reaches
      <4>4. C(k - 1) \in Nat /\ C(best.at) \in Nat /\ C(j) \in Nat  BY <1>0, <1>1, <4>1, <4>2
      <4> QED  BY <4>2, <4>3, <4>4
    <3> QED  BY <3>1, <3>2
  <2>3. after.at \in 0..(Samples - 1) /\ after.cost[1] \in Nat  BY <1>0, <1>1, <2>1
  <2> QED  BY <1>2, <2>1, <2>2, <2>3 DEF Searched, C
<1> QED  BY <1>4, <1>5

\* alignLoop: the loop it returns is one of the target's turns, wound like s,
\* and no turn of it travels less.
LEMMA AlignLoopIsBest ==
  ASSUME NEW s \in Loops, NEW d \in Loops
  PROVE  LET a == AlignLoop(s, d)
         IN  /\ a \in Loops /\ SameLoop(a, d)
             /\ Sign(Area(s)) * Sign(Area(a)) >= 0
             /\ \A n \in 0..(Samples - 1) : Travel(s, a) <= Travel(s, Rotated(a, n))
<1> DEFINE wound == IF Sign(Area(s)) * Sign(Area(d)) < 0 THEN Reverse(d) ELSE d
           N == Len(d)
           Cost(k) == Travel(s, Rotated(wound, k))
           Fresh == [at |-> 0, cost |-> <<>>]
           Is(f) == f = [k \in 0..N |-> IF k = 0 THEN Fresh ELSE Tried(s, wound, k - 1, f[k - 1])]
           best == CHOOSE f : Is(f)
           a == AlignLoop(s, d)
<1>0. Samples \in Nat /\ Samples >= 1 /\ Len(d) = Samples /\ Len(s) = Samples  BY LoopIs
<1>1. wound \in Loops  BY ReversedIs
<1>2. Sign(Area(s)) * Sign(Area(wound)) >= 0
  <2>1. Area(s) \in Int /\ Area(d) \in Int  BY AreaIsInt
  <2>2. \A x, y \in Int : Sign(x) * Sign(y) < 0 => Sign(x) * Sign(-y) >= 0  BY DEF Sign
  <2>3. CASE Sign(Area(s)) * Sign(Area(d)) < 0
    <3>1. Area(wound) = -Area(d)  BY <2>3, AreaOfReversed
    <3> QED  BY <2>1, <2>2, <2>3, <3>1
  <2>4. CASE ~(Sign(Area(s)) * Sign(Area(d)) < 0)
    <3>1. \A x, y \in Int : Sign(x) * Sign(y) \in Int  BY DEF Sign
    <3> QED  BY <2>1, <2>4, <3>1
  <2> QED  BY <2>3, <2>4
<1>3. a = Rotated(wound, best[N].at)
  <2>1. ~(Len(s) # Len(d) \/ Len(d) = 0)  BY <1>0
  <2> QED  BY <2>1 DEF AlignLoop
<1>4. wound = d \/ wound = Reverse(d)  OBVIOUS
<1> HIDE DEF wound, a
<1>5. N \in Nat /\ N = Samples  BY <1>0
<1> HIDE DEF N
\* The search, offset by offset.
<1>6. \E f : Is(f)
  <2> DEFINE Costs == {<<>>} \cup {<<x>> : x \in Nat}
             V == [at : 0..(Samples - 1), cost : Costs]
             g == [ky \in (1..N) \X V |-> Tried(s, wound, ky[1] - 1, ky[2])]
  <2>1. \A c \in Costs : c # <<>> => c[1] \in Nat  OBVIOUS
  <2>2. ASSUME NEW k \in 1..N, NEW y \in V PROVE Tried(s, wound, k - 1, y) \in V
    <3>0. k - 1 \in 0..(Samples - 1)  BY <1>0, <1>5
    <3>1. PICK x \in Nat : x = Travel(s, Rotated(wound, k - 1))  BY <1>1, <3>0, RotatedIs, TravelIsNat
    <3>2. y.cost \in Costs  OBVIOUS
    <3>3. y.cost # <<>> => y.cost[1] \in Nat
      <4> HIDE DEF Costs
      <4> QED  BY <2>1, <3>2
    <3>4. Tried(s, wound, k - 1, y) = IF Reaches(x, y.cost) THEN y ELSE [at |-> k - 1, cost |-> <<x>>]
      <4> HIDE DEF V
      <4> QED  BY <1>1, <3>0, <3>1, <3>3, TriedIs
    <3>5. <<x>> \in Costs  OBVIOUS
    <3> HIDE DEF Costs
    <3>6. [at |-> k - 1, cost |-> <<x>>] \in V  BY <3>0, <3>5
    <3> QED  BY <3>4, <3>6
  <2>3. Fresh \in V
    <3>1. <<>> \in Costs /\ 0 \in 0..(Samples - 1)  BY <1>0
    <3> HIDE DEF Costs
    <3> QED  BY <3>1
  <2> HIDE DEF V, Fresh
  <2>4. g \in [(1..N) \X V -> V]
    <3>1. ASSUME NEW ky \in (1..N) \X V PROVE Tried(s, wound, ky[1] - 1, ky[2]) \in V
      <4>1. ky[1] \in 1..N /\ ky[2] \in V  OBVIOUS
      <4> QED  BY <2>2, <4>1
    <3> QED  BY <3>1
  <2>5. PICK f \in [0..N -> V] : Repeated(f, N, Fresh, g)
    <3> HIDE DEF g
    <3> QED  BY <1>5, <2>3, <2>4, RepeatedExists
  <2>6. \A k \in 0..N : f[k] = IF k = 0 THEN Fresh ELSE Tried(s, wound, k - 1, f[k - 1])
    <3> TAKE k \in 0..N
    <3>1. CASE k = 0  BY <2>5, <3>1 DEF Repeated
    <3>2. CASE k # 0
      <4>1. k \in 1..N /\ f[k - 1] \in V  BY <1>5, <3>2
      <4>2. f[k] = g[<<k, f[k - 1]>>]  BY <2>5, <4>1 DEF Repeated
      <4>3. PICK y \in V : y = f[k - 1]  BY <4>1
      <4>4. <<k, y>> \in (1..N) \X V /\ <<k, y>>[1] = k /\ <<k, y>>[2] = y  BY <4>1
      <4>5. g[<<k, y>>] = Tried(s, wound, k - 1, y)  BY <4>4
      <4> HIDE DEF g
      <4> QED  BY <3>2, <4>2, <4>3, <4>5
    <3> QED  BY <3>1, <3>2
  <2> QED  BY <2>6
<1>7. Is(best)
  <2> HIDE DEF Is
  <2> QED  BY <1>6
<1> HIDE DEF best
<1>8. \A k \in 0..N : best[k] = IF k = 0 THEN Fresh ELSE Tried(s, wound, k - 1, best[k - 1])  BY <1>7
<1> HIDE DEF Is
<1> DEFINE S == {k \in 0..N : Searched(s, wound, k, best[k])}
<1>9. best[0].cost = <<>> /\ best[0].at = 0 /\ 0 \in 0..N  BY <1>5, <1>8
<1>10. 0 \in S
  <2>1. 0 \in 0..(Samples - 1)  BY <1>0
  <2>2. Searched(s, wound, 0, best[0])  BY <1>9, <2>1 DEF Searched
  <2> QED  BY <1>9, <2>2
<1>11. ASSUME NEW k \in 1..N, k - 1 \in S PROVE k \in S
  <2>1. k \in 0..N /\ k # 0 /\ k \in 1..Samples  BY <1>5
  <2>2. best[k] = Tried(s, wound, k - 1, best[k - 1])  BY <1>8, <2>1
  <2>3. k = 1 => best[k - 1].cost = <<>>
    <3>1. k = 1 => k - 1 = 0  OBVIOUS
    <3> QED  BY <1>9, <3>1
  <2>4. Searched(s, wound, k - 1, best[k - 1])  BY <1>11
  <2>5. Searched(s, wound, k, best[k])  BY <1>1, <2>1, <2>2, <2>3, <2>4, SearchGoesOn
  <2> QED  BY <2>1, <2>5
<1>12. Searched(s, wound, N, best[N])
  <2>1. \A k \in 0..N : k \in S
    <3> HIDE DEF S
    <3> QED  BY <1>5, <1>10, <1>11, Upwards
  <2>2. N \in 0..N  BY <1>5
  <2> QED  BY <2>1, <2>2
<1>13. PICK b : b = best[N].at  OBVIOUS
<1>14. b \in 0..(Samples - 1) /\ \A j \in 0..(Samples - 1) : Cost(b) <= Cost(j)
  <2>1. N > 0  BY <1>0, <1>5
  <2> QED  BY <1>5, <1>12, <1>13, <2>1 DEF Searched
<1> HIDE DEF Cost
<1>15. a = Rotated(wound, b)  BY <1>3, <1>13
<1>16. a \in Loops  BY <1>1, <1>14, <1>15, RotatedIs
<1>17. Area(a) = Area(wound)  BY <1>1, <1>14, <1>15, AreaOfRotated
<1>18. ASSUME NEW n \in 0..(Samples - 1) PROVE Travel(s, a) <= Travel(s, Rotated(a, n))
  <2>1. PICK j \in 0..(Samples - 1) : Rotated(a, n) = Rotated(wound, j)  BY <1>1, <1>14, <1>15, RotatedTwice
  <2>2. Travel(s, a) = Cost(b) /\ Travel(s, Rotated(a, n)) = Cost(j)  BY <1>15, <2>1 DEF Cost
  <2> QED  BY <1>14, <2>2
<1>19. SameLoop(a, d)  BY <1>4, <1>14, <1>15 DEF SameLoop
<1> QED  BY <1>2, <1>16, <1>17, <1>18, <1>19 DEF a

(* The loops that a morph pairs. *)
LEMMA PointContourIs ==
  ASSUME NEW p \in Points
  PROVE  PointContour(p) \in Loops /\ IsPoint(PointContour(p))
<1>1. Samples \in Nat /\ Samples >= 1  BY MorphAssumption
<1>2. PointContour(p) \in [1..Samples -> Points]  BY DEF PointContour
<1>3. PointContour(p) \in Loops  BY <1>1, <1>2, ListIsSeq DEF Loops
<1>4. \A m \in 1..Samples : PointContour(p)[m] = p  BY DEF PointContour
<1>5. DOMAIN PointContour(p) = 1..Samples /\ 1 \in 1..Samples  BY <1>1, <1>2
<1> QED  BY <1>3, <1>4, <1>5 DEF IsPoint

\* The sum of a loop's points, and its centroid, are points.
LEMMA PointSumIs ==
  ASSUME NEW c \in Loops
  PROVE  PointSum(c) \in Points /\ Centroid(c) \in Points
<1>1. /\ Samples \in Nat /\ Samples >= 1 /\ DOMAIN c = 1..Samples
      /\ \A k \in 1..Samples : c[k][1] \in Int /\ c[k][2] \in Int  BY LoopIs
<1> DEFINE xs == [m \in DOMAIN c |-> c[m][1]]
           ys == [m \in DOMAIN c |-> c[m][2]]
<1>2. xs \in [1..Samples -> Int] /\ ys \in [1..Samples -> Int]  BY <1>1
<1>3. xs \in Seq(Int) /\ ys \in Seq(Int)  BY <1>1, <1>2, ListIsSeq
<1> HIDE DEF xs, ys
<1>4. Total(xs) \in Int /\ Total(ys) \in Int  BY <1>3, TotalIsInt
<1>5. PointSum(c) = <<Total(xs), Total(ys)>>  BY DEF PointSum, xs, ys
<1>6. Samples \in Nat \ {0}  BY <1>1
<1>7. \A x \in Int : \A n \in Nat \ {0} : x \div n \in Int  OBVIOUS
<1>8. Centroid(c) = <<Total(xs) \div Samples, Total(ys) \div Samples>>  BY <1>5 DEF Centroid
<1> QED  BY <1>4, <1>5, <1>6, <1>7, <1>8, PointIs

\* Of numbered things with a cost there is a cheapest one.
LEMMA Cheapest ==
  ASSUME NEW S \in SUBSET Nat, S # {}, NEW cost \in [S -> Nat]
  PROVE  \E k \in S : \A j \in S : cost[k] <= cost[j]
<1> DEFINE costs == {cost[k] : k \in S}
<1>1. costs \in SUBSET Nat /\ costs # {}  OBVIOUS
<1> HIDE DEF costs
<1>2. Min(costs) \in costs /\ \A x \in costs : Min(costs) <= x  BY <1>1, LeastElement
<1>3. PICK k \in S : cost[k] = Min(costs)  BY <1>2 DEF costs
<1>4. \A j \in S : cost[j] \in costs  BY DEF costs
<1> QED  BY <1>2, <1>3, <1>4

\* Among loops that are left, one is nearest.
LEMMA NearestIs ==
  ASSUME srcLoops \in Seq(Loops), dstLoops \in Seq(Loops), Len(sOut) \in Nat,
         Len(sOut) < Len(srcLoops), Unused # {}
  PROVE  Min(Nearest) \in Nearest /\ Min(Nearest) \in Unused
<1>1. Len(sOut) + 1 \in 1..Len(srcLoops) /\ DOMAIN dstLoops = 1..Len(dstLoops) /\ Len(dstLoops) \in Nat  OBVIOUS
<1>2. srcLoops[Len(sOut) + 1] \in Loops /\ \A j \in DOMAIN dstLoops : dstLoops[j] \in Loops  BY <1>1
<1>3. Unused \subseteq DOMAIN dstLoops /\ Unused \in SUBSET Nat  BY <1>1 DEF Unused
<1>4. \A j \in Unused : Far(j) \in Nat  BY <1>2, <1>3, PointSumIs, ApartIs DEF Far
<1> DEFINE cost == [j \in Unused |-> Far(j)]
<1>5. cost \in [Unused -> Nat]  BY <1>4
<1>6. PICK k \in Unused : \A j \in Unused : cost[k] <= cost[j]
  <2> HIDE DEF cost
  <2> QED  BY <1>3, <1>5, Cheapest
<1>7. k \in Nearest  BY <1>6 DEF Nearest
<1>8. Nearest \in SUBSET Nat /\ Nearest \subseteq Unused  BY <1>3 DEF Nearest
<1> QED  BY <1>7, <1>8, LeastElement

\* What a morph draws from: the outlines of a text or of a shape.
LEMMA MorphLoopsAre ==
  ASSUME NEW e, e.kind \in {"text", "path", "dot"}, e.contours \in Outlines,
         e.kind # "text" => Len(e.contours) = 1
  PROVE  MorphLoops(e) \in Seq({c \in Seq(Points) : Len(c) >= 1})
<1> DEFINE S == {c \in Seq(Points) : Len(c) >= 1}
           pts == e.contours[1]
<1>1. CASE e.kind = "text"
  <2>1. MorphLoops(e) = AtLeast(2, e.contours)  BY <1>1 DEF MorphLoops
  <2>2. AtLeast(2, e.contours) \in Seq({c \in Seq(Points) : Len(c) >= 2})
    <3>1. 2 \in Nat  OBVIOUS
    <3> QED  BY <3>1, AtLeastIs DEF Outlines
  <2>3. {c \in Seq(Points) : Len(c) >= 2} \subseteq S  OBVIOUS
  <2>4. \A V, W : V \subseteq W => Seq(V) \subseteq Seq(W)  OBVIOUS
  <2> QED  BY <2>1, <2>2, <2>3, <2>4
<1>2. CASE e.kind # "text"
  <2>0. pts \in Seq(Points)  BY <1>2 DEF Outlines
  <2> HIDE DEF pts
  <2>1. /\ MorphLoops(e) \in {<<>>, <<ThereAndBack(pts)>>, <<pts>>}
        /\ Len(pts) < 2 => MorphLoops(e) = <<>>
    <3>1. CASE Len(pts) < 2  BY <1>2, <3>1 DEF MorphLoops, pts
    <3>2. CASE ~(Len(pts) < 2)
      <4>1. Len(pts) >= 2  BY <2>0, <3>2
      <4> QED  BY <1>2, <3>2, <4>1 DEF MorphLoops, pts
    <3> QED  BY <3>1, <3>2
  <2>2. CASE Len(pts) < 2
    <3>1. MorphLoops(e) = <<>>  BY <2>1, <2>2
    <3> HIDE DEF S
    <3> QED  BY <3>1
  <2>3. CASE ~(Len(pts) < 2)
    <3>1. Len(pts) \in Nat /\ Len(pts) >= 2 /\ \A k \in 1..Len(pts) : pts[k] \in Points  BY <2>0, <2>3
    <3>2. pts \in S  BY <2>0, <3>1
    <3>3. ThereAndBack(pts) \in S
      <4> DEFINE back == [k \in 1..(Len(pts) - 2) |-> pts[Len(pts) - k]]
      <4>1. back \in [1..(Len(pts) - 2) -> Points] /\ Len(pts) - 2 \in Nat  BY <3>1
      <4>2. back \in Seq(Points)  BY <4>1, ListIsSeq
      <4>3. ThereAndBack(pts) = pts \o back  BY <2>3 DEF ThereAndBack
      <4> HIDE DEF back
      <4>4. \A s, t \in Seq(Points) : s \o t \in Seq(Points) /\ Len(s \o t) >= Len(s)  OBVIOUS
      <4>5. ThereAndBack(pts) \in Seq(Points) /\ Len(ThereAndBack(pts)) >= Len(pts)  BY <2>0, <4>2, <4>3, <4>4
      <4> QED  BY <3>1, <4>5
    <3> HIDE DEF S
    <3>4. <<>> \in Seq(S) /\ <<ThereAndBack(pts)>> \in Seq(S) /\ <<pts>> \in Seq(S)  BY <3>2, <3>3
    <3>5. MorphLoops(e) \in Seq(S)  BY <2>1, <3>4
    <3> QED  BY <3>5 DEF S
  <2> QED  BY <2>2, <2>3
<1> QED  BY <1>1, <1>2

\* Two loops side by side, of which one may be a point in the other's place.
Aligned(s, d) ==
  \/ IsPoint(s) \/ IsPoint(d)
  \/ /\ Sign(Area(s)) * Sign(Area(d)) >= 0
     /\ \A n \in 0..(Samples - 1) : Travel(s, d) <= Travel(s, Rotated(d, n))

\* What a morph keeps.
MorphInv ==
  /\ ReaderInv /\ work \in Works
  /\ srcLoops \in Seq(Loops) /\ dstLoops \in Seq(Loops)
  /\ sOut \in Seq(Loops) /\ dOut \in Seq(Loops) /\ Len(dOut) = Len(sOut)
  /\ \A k \in 1..Len(sOut) : Aligned(sOut[k], dOut[k])

\* What the text is morphed with: the contours of its drawing.
LEMMA PartnerIs ==
  ASSUME work \in Works, work.partner # <<>>
  PROVE  LET shape == work.partner[1]
         IN  /\ Partner.kind \in {"path", "dot", "text"} /\ Partner.contours \in Outlines
             /\ Len(Partner.contours) = Len(shape.contours) /\ shape.contours \in Outlines
             /\ Partner.kind # "text" => Len(Partner.contours) = 1
             /\ \A k \in 1..Len(shape.contours) : Partner.contours[k] = Drawn(shape.contours[k])
<1> DEFINE Shape == [kind : {"path", "dot", "text"}, closed : BOOLEAN, contours : Seq(Seq(Int \X Int)),
                     color : Paints, stroke : Paints, fill : Paints]
           shape == work.partner[1]
           cs == shape.contours
<1>1. shape \in Shape /\ 1 \in DOMAIN work.partner
  <2>1. work.partner \in Seq(Shape)  BY MorphAssumption
  <2> HIDE DEF Shape
  <2> QED  BY <2>1
<1>2. shape.kind # "text" => Len(cs) = 1  BY <1>1, MorphAssumption
<1>3. shape.kind \in {"path", "dot", "text"} /\ cs \in Seq(Seq(Points)) /\ {"kind", "contours"} \subseteq DOMAIN shape
  BY <1>1 DEF Points
<1>4. Partner = [shape EXCEPT !.contours = [k \in DOMAIN cs |-> Drawn(cs[k])]]  BY DEF Partner
<1>5. Partner.kind = shape.kind /\ Partner.contours = [k \in DOMAIN cs |-> Drawn(cs[k])]  BY <1>3, <1>4
<1> HIDE DEF cs, shape, Partner
<1>6. Len(cs) \in Nat /\ DOMAIN cs = 1..Len(cs) /\ \A k \in 1..Len(cs) : cs[k] \in Seq(Points)  BY <1>3
<1>7. Partner.contours \in [1..Len(cs) -> Seq(Points)] /\ \A k \in 1..Len(cs) : Partner.contours[k] = Drawn(cs[k])
  BY <1>5, <1>6, DrawnIs
<1>8. Partner.contours \in Seq(Seq(Points)) /\ Len(Partner.contours) = Len(cs)  BY <1>6, <1>7, ListIsSeq
<1> QED  BY <1>2, <1>3, <1>5, <1>7, <1>8 DEF cs, shape, Outlines

\* The outlines of both sides have a point at least.
LEMMA SidesAre ==
  ASSUME MorphInv, work.partner # <<>>
  PROVE  /\ MorphLoops(Source) \in Seq({c \in Seq(Points) : Len(c) >= 1})
         /\ MorphLoops(Target) \in Seq({c \in Seq(Points) : Len(c) >= 1})
<1>1. MorphLoops(Text) \in Seq({c \in Seq(Points) : Len(c) >= 1})
  <2>1. Text.kind = "text" /\ Text.contours = FlattenSeq(glyphs)  BY DEF Text
  <2>2. FlattenSeq(glyphs) \in Outlines  BY FlattenIsSeq DEF MorphInv, ReaderInv, Outlines
  <2> QED  BY <2>1, <2>2, MorphLoopsAre
<1>2. MorphLoops(Partner) \in Seq({c \in Seq(Points) : Len(c) >= 1})
  <2>1. /\ Partner.kind \in {"path", "dot", "text"} /\ Partner.contours \in Outlines
        /\ Partner.kind # "text" => Len(Partner.contours) = 1  BY PartnerIs DEF MorphInv
  <2> HIDE DEF Partner
  <2> QED  BY <2>1, MorphLoopsAre
<1> QED  BY <1>1, <1>2 DEF Source, Target

\* All outlines of a side, resampled.
LEMMA AllResampled ==
  ASSUME NEW ls \in Seq({c \in Seq(Points) : Len(c) >= 1})
  PROVE  /\ [k \in DOMAIN ls |-> ResampleClosed(ls[k])] \in Seq(Loops)
         /\ \A k \in DOMAIN ls : Coarse(ResampleClosed(ls[k]))
<1>1. Len(ls) \in Nat /\ DOMAIN ls = 1..Len(ls)
      /\ \A k \in 1..Len(ls) : ls[k] \in Seq(Points) /\ Len(ls[k]) >= 1
  <2> DEFINE S == {c \in Seq(Points) : Len(c) >= 1}
  <2>1. \A c \in S : c \in Seq(Points) /\ Len(c) >= 1  OBVIOUS
  <2>2. ls \in Seq(S)  OBVIOUS
  <2> HIDE DEF S
  <2>3. Len(ls) \in Nat /\ DOMAIN ls = 1..Len(ls) /\ \A k \in 1..Len(ls) : ls[k] \in S  BY <2>2
  <2> QED  BY <2>1, <2>3
<1>2. [k \in DOMAIN ls |-> ResampleClosed(ls[k])] \in [1..Len(ls) -> Loops]  BY <1>1, ResampledIs
<1>3. [k \in DOMAIN ls |-> ResampleClosed(ls[k])] \in Seq(Loops)  BY <1>1, <1>2, ListIsSeq
<1>4. \A k \in DOMAIN ls : Coarse(ResampleClosed(ls[k]))  BY <1>1, ResampledIs
<1> QED  BY <1>3, <1>4

\* MorphInv holds at first.
LEMMA MorphStarts ==
  ASSUME Init
  PROVE  MorphInv
<1>1. work \in Works /\ ReaderInv
  <2>1. work \in Works /\ ReaderStarts(work.doc)  BY DEF Init
  <2>2. work.doc \in Seq(Tags)  BY <2>1, MorphAssumption
  <2> QED  BY <2>1, <2>2, ReaderStartsRight
<1>2. srcLoops = <<>> /\ dstLoops = <<>> /\ sOut = <<>> /\ dOut = <<>>  BY DEF Init
<1> QED  BY <1>1, <1>2 DEF MorphInv

\* A step that adds a pair to the two lists.
LEMMA PairAdded ==
  ASSUME MorphInv, NEW s \in Loops, NEW d \in Loops, Aligned(s, d),
         sOut' = Append(sOut, s), dOut' = Append(dOut, d)
  PROVE  /\ sOut' \in Seq(Loops) /\ dOut' \in Seq(Loops) /\ Len(dOut') = Len(sOut')
         /\ \A k \in 1..Len(sOut') : Aligned(sOut'[k], dOut'[k])
<1> DEFINE n == Len(sOut)
<1>1. sOut \in Seq(Loops) /\ dOut \in Seq(Loops) /\ n \in Nat /\ Len(dOut) = n
      /\ \A k \in 1..n : Aligned(sOut[k], dOut[k])  BY DEF MorphInv
<1>2. \A l \in Seq(Loops) : \A c \in Loops :
        /\ Append(l, c) \in Seq(Loops) /\ Len(Append(l, c)) = Len(l) + 1
        /\ Append(l, c)[Len(l) + 1] = c
        /\ \A k \in 1..Len(l) : Append(l, c)[k] = l[k]  OBVIOUS
<1>3. /\ sOut' \in Seq(Loops) /\ Len(sOut') = n + 1 /\ sOut'[n + 1] = s /\ \A k \in 1..n : sOut'[k] = sOut[k]
      /\ dOut' \in Seq(Loops) /\ Len(dOut') = n + 1 /\ dOut'[n + 1] = d /\ \A k \in 1..n : dOut'[k] = dOut[k]
  BY <1>1, <1>2
<1> HIDE DEF n
<1>4. ASSUME NEW k \in 1..Len(sOut') PROVE Aligned(sOut'[k], dOut'[k])
  <2>1. k \in 1..n \/ k = n + 1  BY <1>1, <1>3
  <2> QED  BY <1>1, <1>3, <2>1
<1> QED  BY <1>3, <1>4

\* Every step keeps MorphInv.
LEMMA MorphNext ==
  ASSUME MorphInv, [Reading \/ Morph \/ Rest]_vars
  PROVE  MorphInv'
<1>1. CASE UNCHANGED vars  BY <1>1 DEF vars, pathVars, glyphVars, morphVars, MorphInv, ReaderInv, PathInv
<1>2. CASE Reading
  <2>1. ReaderInv'  BY <1>2, ReadGlyphsKeeps DEF Reading, MorphInv
  <2>2. UNCHANGED morphVars  BY <1>2 DEF Reading
  <2> QED  BY <2>1, <2>2 DEF MorphInv, morphVars
<1>3. CASE Morph
  <2>0. ReaderInv'  BY <1>3 DEF Morph, pathVars, glyphVars, MorphInv, ReaderInv, PathInv
  <2>1. CASE StartMorph
    <3>1. work.partner # <<>> /\ UNCHANGED <<work, sOut, dOut>>
          /\ \/ UNCHANGED <<srcLoops, dstLoops>>
             \/ /\ srcLoops' = [k \in DOMAIN MorphLoops(Source) |-> ResampleClosed(MorphLoops(Source)[k])]
                /\ dstLoops' = [k \in DOMAIN MorphLoops(Target) |-> ResampleClosed(MorphLoops(Target)[k])]
      BY <2>1 DEF StartMorph
    <3>2. srcLoops' \in Seq(Loops) /\ dstLoops' \in Seq(Loops)  BY <3>1, SidesAre, AllResampled DEF MorphInv
    <3> QED  BY <2>0, <3>1, <3>2 DEF MorphInv
  <2>2. CASE Pair
    <3> DEFINE s == srcLoops[Len(sOut) + 1]
               d == IF Unused = {} THEN PointContour(Centroid(s)) ELSE AlignLoop(s, dstLoops[Min(Nearest)])
    <3>1. /\ sOut' = Append(sOut, s) /\ dOut' = Append(dOut, d) /\ UNCHANGED <<work, srcLoops, dstLoops>>
          /\ Len(sOut) < Len(srcLoops)  BY <2>2 DEF Pair
    <3>2. s \in Loops /\ Len(sOut) \in Nat
      <4>1. srcLoops \in Seq(Loops) /\ sOut \in Seq(Loops)  BY DEF MorphInv
      <4>2. Len(sOut) + 1 \in 1..Len(srcLoops)  BY <3>1, <4>1
      <4> QED  BY <4>1, <4>2
    <3> HIDE DEF s
    <3>3. d \in Loops /\ Aligned(s, d)
      <4>1. CASE Unused = {}
        <5>1. d = PointContour(Centroid(s)) /\ Centroid(s) \in Points  BY <3>2, <4>1, PointSumIs
        <5> QED  BY <5>1, PointContourIs DEF Aligned
      <4>2. CASE Unused # {}
        <5>1. dstLoops[Min(Nearest)] \in Loops
          <6>1. Min(Nearest) \in Unused  BY <3>1, <3>2, <4>2, NearestIs DEF MorphInv
          <6>2. Unused \subseteq DOMAIN dstLoops  BY DEF Unused
          <6> QED  BY <6>1, <6>2 DEF MorphInv
        <5>2. d = AlignLoop(s, dstLoops[Min(Nearest)])  BY <4>2
        <5> HIDE DEF d
        <5> QED  BY <3>2, <5>1, <5>2, AlignLoopIsBest DEF Aligned
      <4> QED  BY <4>1, <4>2
    <3> HIDE DEF d
    <3>4. /\ sOut' \in Seq(Loops) /\ dOut' \in Seq(Loops) /\ Len(dOut') = Len(sOut')
          /\ \A k \in 1..Len(sOut') : Aligned(sOut'[k], dOut'[k])  BY <3>1, <3>2, <3>3, PairAdded
    <3> QED  BY <2>0, <3>1, <3>4 DEF MorphInv
  <2>3. CASE Grow
    <3> DEFINE d == dstLoops[Min(Unused)]
               s == PointContour(Centroid(d))
    <3>1. /\ sOut' = Append(sOut, s) /\ dOut' = Append(dOut, d) /\ UNCHANGED <<work, srcLoops, dstLoops>>
          /\ Unused # {}  BY <2>3 DEF Grow
    <3>2. d \in Loops
      <4>1. dstLoops \in Seq(Loops)  BY DEF MorphInv
      <4>2. Unused \subseteq DOMAIN dstLoops /\ DOMAIN dstLoops \subseteq Nat  BY <4>1 DEF Unused
      <4>3. Min(Unused) \in Unused  BY <3>1, <4>2, LeastElement
      <4> QED  BY <4>1, <4>2, <4>3
    <3> HIDE DEF d
    <3>3. s \in Loops /\ Aligned(s, d)  BY <3>2, PointSumIs, PointContourIs DEF Aligned
    <3> HIDE DEF s
    <3>4. /\ sOut' \in Seq(Loops) /\ dOut' \in Seq(Loops) /\ Len(dOut') = Len(sOut')
          /\ \A k \in 1..Len(sOut') : Aligned(sOut'[k], dOut'[k])  BY <3>1, <3>2, <3>3, PairAdded
    <3> QED  BY <2>0, <3>1, <3>4 DEF MorphInv
  <2>4. CASE Frame  BY <2>0, <2>4 DEF Frame, MorphInv
  <2>5. CASE MorphOver  BY <2>0, <2>5 DEF MorphOver, MorphInv
  <2> QED  BY <1>3, <2>1, <2>2, <2>3, <2>4, <2>5 DEF Morph
<1> QED  BY <1>1, <1>2, <1>3 DEF Rest

\* alignLoop: for any document, any shapes or texts on the other side and any
\* number of points, the search that gives up an offset early finds what a
\* full one would: two loops that are paired turn the same way, and the
\* target's begins where its points travel least.
THEOREM TravelIsLeast == Spec => []LeastTravel
<1>1. MorphInv => LeastTravel
  <2> SUFFICES ASSUME MorphInv, NEW k \in DOMAIN sOut, ~IsPoint(sOut[k]), ~IsPoint(dOut[k])
               PROVE  /\ Sign(Area(sOut[k])) * Sign(Area(dOut[k])) >= 0
                      /\ \A n \in 1..(Samples - 1) :
                           Travel(sOut[k], dOut[k]) <= Travel(sOut[k], Rotated(dOut[k], n))  BY DEF LeastTravel
  <2>1. k \in 1..Len(sOut)  BY DEF MorphInv
  <2>2. Aligned(sOut[k], dOut[k])  BY <2>1 DEF MorphInv
  <2>3. \A n \in 1..(Samples - 1) : n \in 0..(Samples - 1)  BY MorphAssumption
  <2> QED  BY <2>2, <2>3 DEF Aligned
<1> QED  BY <1>1, MorphStarts, MorphNext, PTL DEF Spec

(* Sums of multiples and of sums, and the centroid of a frame. *)
\* A multiple of n, divided by n.
LEMMA DivideMultiple ==
  ASSUME NEW n \in Nat \ {0}, NEW x \in Int
  PROVE  (n * x) \div n = x
<1> DEFINE y == n * x
           q == y \div n
<1>1. y \in Int /\ n * q <= y /\ y < n * q + n /\ q \in Int  OBVIOUS
<1> HIDE DEF q
<1>2. n * x - n * q = n * (x - q) /\ n * q \in Int  BY <1>1
<1> DEFINE e == x - q
<1>3. e \in Int /\ n * e >= 0 /\ n * e < n  BY <1>1, <1>2
<1> HIDE DEF e
<1>4. \A d \in Int : d >= 1 => n * d >= n  OBVIOUS
<1>5. \A d \in Int : d <= -1 => n * d <= -n  OBVIOUS
<1>6. e = 0  BY <1>3, <1>4, <1>5
<1> QED  BY <1>1, <1>6 DEF e, q

\* The total of multiples is the multiple of the total.
LEMMA TotalOfMultiple ==
  ASSUME NEW s \in Seq(Int), NEW r \in Seq(Int), Len(r) = Len(s), NEW a \in Int,
         \A k \in 1..Len(s) : r[k] = a * s[k]
  PROVE  Total(r) = a * Total(s)
<1> DEFINE n == Len(s)
           h == [k \in 0..n |-> a * SumTo(s, k)]
<1>0. n \in Nat /\ Len(r) = n /\ \A k \in 1..n : s[k] \in Int /\ r[k] = a * s[k]  OBVIOUS
<1>1. /\ SumTo(s, 0) = 0 /\ (\A k \in 1..n : SumTo(s, k) = SumTo(s, k - 1) + s[k])
      /\ \A k \in 0..n : SumTo(s, k) \in Int  BY SumToIs
<1>2. Total(s) = SumTo(s, n)  BY DEF Total
<1> HIDE DEF n
<1>3. ASSUME NEW k \in 1..n PROVE h[k] = h[k - 1] + r[k]
  <2>1. k \in 0..n /\ k - 1 \in 0..n  BY <1>0
  <2>2. PICK x \in Int, y \in Int : x = SumTo(s, k - 1) /\ y = s[k]  BY <1>0, <1>1, <2>1
  <2>3. h[k] = a * (x + y) /\ h[k - 1] = a * x /\ r[k] = a * y  BY <1>0, <1>1, <2>1, <2>2
  <2>4. a * (x + y) = a * x + a * y  OBVIOUS
  <2> HIDE DEF h
  <2> QED  BY <2>3, <2>4
<1>4. h[0] = 0 /\ h[n] = a * SumTo(s, n)
  <2>1. a * 0 = 0  OBVIOUS
  <2> QED  BY <1>0, <1>1, <2>1
<1> HIDE DEF h
<1>5. Sums(r, h, Len(r))  BY <1>0, <1>3, <1>4 DEF Sums
<1>6. Total(r) = h[n]  BY <1>0, <1>5, TotalIs
<1> QED  BY <1>2, <1>4, <1>6

\* The total of sums is the sum of the totals.
LEMMA TotalOfSum ==
  ASSUME NEW s \in Seq(Int), NEW t \in Seq(Int), NEW r \in Seq(Int), Len(t) = Len(s), Len(r) = Len(s),
         \A k \in 1..Len(s) : r[k] = s[k] + t[k]
  PROVE  Total(r) = Total(s) + Total(t)
<1> DEFINE n == Len(s)
           h == [k \in 0..n |-> SumTo(s, k) + SumTo(t, k)]
<1>0. n \in Nat /\ Len(r) = n /\ Len(t) = n
      /\ \A k \in 1..n : s[k] \in Int /\ t[k] \in Int /\ r[k] = s[k] + t[k]  OBVIOUS
<1>1. /\ SumTo(s, 0) = 0 /\ (\A k \in 1..n : SumTo(s, k) = SumTo(s, k - 1) + s[k])
      /\ \A k \in 0..n : SumTo(s, k) \in Int
      /\ SumTo(t, 0) = 0 /\ (\A k \in 1..n : SumTo(t, k) = SumTo(t, k - 1) + t[k])
      /\ \A k \in 0..n : SumTo(t, k) \in Int  BY <1>0, SumToIs
<1>2. Total(s) = SumTo(s, n) /\ Total(t) = SumTo(t, n)  BY DEF Total
<1> HIDE DEF n
<1>3. ASSUME NEW k \in 1..n PROVE h[k] = h[k - 1] + r[k]
  <2>1. k \in 0..n /\ k - 1 \in 0..n  BY <1>0
  <2>2. SumTo(s, k - 1) \in Int /\ SumTo(t, k - 1) \in Int /\ s[k] \in Int /\ t[k] \in Int  BY <1>0, <1>1, <2>1
  <2>3. h[k] = (SumTo(s, k - 1) + s[k]) + (SumTo(t, k - 1) + t[k])  BY <1>1, <2>1
  <2>4. h[k - 1] = SumTo(s, k - 1) + SumTo(t, k - 1) /\ r[k] = s[k] + t[k]  BY <1>0, <2>1
  <2> HIDE DEF h
  <2> QED  BY <2>2, <2>3, <2>4
<1>4. h[0] = 0 /\ h[n] = SumTo(s, n) + SumTo(t, n)  BY <1>0, <1>1
<1> HIDE DEF h
<1>5. Sums(r, h, Len(r))  BY <1>0, <1>3, <1>4 DEF Sums
<1>6. Total(r) = h[n]  BY <1>0, <1>5, TotalIs
<1> QED  BY <1>2, <1>4, <1>6

\* The total of n equal numbers.
LEMMA TotalOfSame ==
  ASSUME NEW s \in Seq(Int), NEW x \in Int, \A k \in 1..Len(s) : s[k] = x
  PROVE  Total(s) = Len(s) * x
<1> DEFINE n == Len(s)
           h == [k \in 0..n |-> k * x]
<1>0. n \in Nat /\ \A k \in 1..n : s[k] = x  OBVIOUS
<1> HIDE DEF n
<1>1. \A k \in Int : k * x = (k - 1) * x + x  OBVIOUS
<1>2. \A k \in 1..n : h[k] = h[k - 1] + s[k]
  <2> TAKE k \in 1..n
  <2>1. k \in 0..n /\ k - 1 \in 0..n /\ k \in Int  BY <1>0
  <2>2. h[k] = k * x /\ h[k - 1] = (k - 1) * x  BY <2>1
  <2> HIDE DEF h
  <2> QED  BY <1>0, <1>1, <2>1, <2>2
<1>3. h[0] = 0 /\ h[n] = n * x  BY <1>0
<1> HIDE DEF h
<1>4. Sums(s, h, Len(s))  BY <1>2, <1>3 DEF Sums, n
<1> QED  BY <1>3, <1>4, TotalIs DEF n

\* The sums of the coordinates of a loop.
Ordinates(c, axis) == [m \in DOMAIN c |-> c[m][axis]]
LEMMA OrdinatesAre ==
  ASSUME NEW c \in Loops
  PROVE  /\ PointSum(c) = <<Total(Ordinates(c, 1)), Total(Ordinates(c, 2))>>
         /\ \A a \in {1, 2} :
              /\ Ordinates(c, a) \in Seq(Int) /\ Len(Ordinates(c, a)) = Samples
              /\ Total(Ordinates(c, a)) \in Int
              /\ \A m \in 1..Samples : Ordinates(c, a)[m] = c[m][a]
<1>1. /\ Samples \in Nat /\ DOMAIN c = 1..Samples
      /\ \A k \in 1..Samples : c[k][1] \in Int /\ c[k][2] \in Int  BY LoopIs
<1>2. ASSUME NEW a \in {1, 2}
      PROVE  /\ Ordinates(c, a) \in Seq(Int) /\ Len(Ordinates(c, a)) = Samples
             /\ Total(Ordinates(c, a)) \in Int
             /\ \A m \in 1..Samples : Ordinates(c, a)[m] = c[m][a]
  <2>1. \A k \in 1..Samples : c[k][a] \in Int  BY <1>1
  <2>2. Ordinates(c, a) \in [1..Samples -> Int]  BY <1>1, <2>1 DEF Ordinates
  <2>3. Ordinates(c, a) \in Seq(Int) /\ Len(Ordinates(c, a)) = Samples  BY <1>1, <2>2, ListIsSeq
  <2> QED  BY <1>1, <2>3, TotalIsInt DEF Ordinates
<1>3. PointSum(c) = <<Total(Ordinates(c, 1)), Total(Ordinates(c, 2))>>  BY DEF PointSum, Ordinates
<1> QED  BY <1>2, <1>3

\* A point at the centroid of a resampled loop has the loop's centroid.
Centred(c) == PointSum(PointContour(Centroid(c))) = PointSum(c)
LEMMA CoarseIsCentred ==
  ASSUME NEW c \in Loops, Coarse(c)
  PROVE  Centred(c)
<1>0. Samples \in Nat \ {0} /\ Samples \in Int  BY MorphAssumption
<1>1. PICK ps \in [1..Samples -> Points] : c = [m \in 1..Samples |-> Scaled(Samples, ps[m])]  BY DEF Coarse
<1>2. ps \in Loops  BY <1>0, <1>1, ListIsSeq DEF Loops
<1>3. \A m \in 1..Samples : \A a \in {1, 2} : c[m][a] = Samples * ps[m][a]  BY <1>1 DEF Scaled
<1>4. \A x \in Int : (Samples * x) \div Samples = x  BY <1>0, DivideMultiple
<1>5. ASSUME NEW a \in {1, 2} PROVE Total(Ordinates(c, a)) = Samples * Total(Ordinates(ps, a))
  <2> DEFINE s == Ordinates(ps, a)
             r == Ordinates(c, a)
  <2>1. s \in Seq(Int) /\ r \in Seq(Int) /\ Len(s) = Samples /\ Len(r) = Samples  BY <1>2, OrdinatesAre
  <2>3. \A m \in 1..Samples : r[m] = Samples * s[m]
    <3> TAKE m \in 1..Samples
    <3>1. r[m] = c[m][a] /\ s[m] = ps[m][a]  BY <1>2, OrdinatesAre
    <3> QED  BY <1>3, <3>1
  <2> HIDE DEF s, r
  <2>4. Total(r) = Samples * Total(s)
    <3>1. Len(r) = Len(s) /\ \A m \in 1..Len(s) : r[m] = Samples * s[m]  BY <2>1, <2>3
    <3>2. Samples \in Int  BY <1>0
    <3> QED  BY <2>1, <3>1, <3>2, TotalOfMultiple, Zenon
  <2> QED  BY <2>4 DEF s, r
<1> DEFINE p == Centroid(c)
           q == PointContour(p)
<1>6. p \in Points /\ q \in Loops  BY PointSumIs, PointContourIs
<1>7. \A a \in {1, 2} : p[a] = Total(Ordinates(ps, a))
  <2>1. \A a \in {1, 2} : Total(Ordinates(ps, a)) \in Int  BY <1>2, OrdinatesAre
  <2>2. p = <<Total(Ordinates(c, 1)) \div Samples, Total(Ordinates(c, 2)) \div Samples>>  BY OrdinatesAre DEF Centroid
  <2>3. (Samples * Total(Ordinates(ps, 1))) \div Samples = Total(Ordinates(ps, 1))
        /\ (Samples * Total(Ordinates(ps, 2))) \div Samples = Total(Ordinates(ps, 2))  BY <1>4, <2>1
  <2> HIDE DEF p
  <2> QED  BY <1>5, <2>2, <2>3
<1>8. ASSUME NEW a \in {1, 2} PROVE Total(Ordinates(q, a)) = Samples * p[a]
  <2>1. Ordinates(q, a) \in Seq(Int) /\ Len(Ordinates(q, a)) = Samples  BY <1>6, OrdinatesAre
  <2>2. p[a] \in Int  BY <1>6, PointIs
  <2>3. \A m \in 1..Samples : Ordinates(q, a)[m] = p[a]
    <3> TAKE m \in 1..Samples
    <3>1. Ordinates(q, a)[m] = q[m][a]  BY <1>6, OrdinatesAre
    <3>2. q[m] = p  BY DEF PointContour
    <3> QED  BY <3>1, <3>2
  <2> HIDE DEF q, p
  <2> QED  BY <2>1, <2>2, <2>3, TotalOfSame
<1> HIDE DEF q, p
<1>9. PointSum(q) = PointSum(c)  BY <1>5, <1>6, <1>7, <1>8, OrdinatesAre
<1> QED  BY <1>9 DEF Centred, q, p

\* lerpLoops: between two loops with one centroid every loop has that centroid.
Between(s, d, k) == [m \in DOMAIN s |-> Plus(Scaled(Frames - k, s[m]), Scaled(k, d[m]))]
LEMMA BetweenKeepsCentroid ==
  ASSUME NEW s \in Loops, NEW d \in Loops, PointSum(s) = PointSum(d), NEW k \in 0..Frames
  PROVE  PointSum(Between(s, d, k)) = Scaled(Frames, PointSum(s))
<1> DEFINE b == Between(s, d, k)
           j == Frames - k
<1>0. /\ Frames \in Int /\ k \in Int /\ j \in Int /\ Samples \in Nat
      /\ DOMAIN s = 1..Samples
      /\ \A m \in 1..Samples : s[m] \in Points /\ d[m] \in Points  BY LoopIs, MorphAssumption
<1>1. b = [m \in 1..Samples |-> Plus(Scaled(j, s[m]), Scaled(k, d[m]))]  BY <1>0 DEF Between
<1>2. \A m \in 1..Samples : \A a \in {1, 2} : b[m][a] = j * s[m][a] + k * d[m][a]  BY <1>1 DEF Plus, Scaled
<1>3. b \in Loops
  <2>1. \A m \in 1..Samples : Plus(Scaled(j, s[m]), Scaled(k, d[m])) \in Points  BY <1>0, ScaledIs, PlusIs
  <2>2. b \in [1..Samples -> Points]  BY <1>1, <2>1
  <2> QED  BY <1>0, <2>2, ListIsSeq DEF Loops
<1> HIDE DEF b, j
<1>4. ASSUME NEW a \in {1, 2} PROVE Total(Ordinates(b, a)) = Frames * Total(Ordinates(s, a))
  <2> DEFINE x == Ordinates(s, a)
             y == Ordinates(d, a)
             r == Ordinates(b, a)
             jx == [m \in 1..Samples |-> j * x[m]]
             ky == [m \in 1..Samples |-> k * y[m]]
  <2>1. /\ x \in Seq(Int) /\ y \in Seq(Int) /\ r \in Seq(Int)
        /\ Len(x) = Samples /\ Len(y) = Samples /\ Len(r) = Samples
        /\ Total(x) \in Int /\ Total(y) \in Int
        /\ \A m \in 1..Samples : x[m] = s[m][a] /\ y[m] = d[m][a] /\ r[m] = b[m][a]  BY <1>3, OrdinatesAre
  <2>2. Total(x) = Total(y)  BY OrdinatesAre
  <2>3. \A m \in 1..Samples : x[m] \in Int /\ y[m] \in Int  BY <2>1
  <2> HIDE DEF x, y, r
  <2>4. /\ \A m \in 1..Samples : jx[m] = j * x[m] /\ jx[m] \in Int
        /\ \A m \in 1..Samples : ky[m] = k * y[m] /\ ky[m] \in Int
    <3>1. \A v, w \in Int : v * w \in Int  OBVIOUS
    <3> QED  BY <1>0, <2>3, <3>1
  <2>5. jx \in Seq(Int) /\ ky \in Seq(Int) /\ Len(jx) = Samples /\ Len(ky) = Samples
    <3>1. jx \in [1..Samples -> Int] /\ ky \in [1..Samples -> Int]  BY <2>4
    <3> QED  BY <1>0, <3>1, ListIsSeq
  <2> HIDE DEF jx, ky
  <2>6. Total(jx) = j * Total(x) /\ Total(ky) = k * Total(y)
    <3>1. \A m \in 1..Len(x) : jx[m] = j * x[m]  BY <2>1, <2>4
    <3>2. \A m \in 1..Len(y) : ky[m] = k * y[m]  BY <2>1, <2>4
    <3>3. Len(jx) = Len(x) /\ Len(ky) = Len(y) /\ j \in Int /\ k \in Int  BY <1>0, <2>1, <2>5
    <3> QED  BY <2>1, <2>5, <3>1, <3>2, <3>3, TotalOfMultiple, Zenon
  <2>7. \A m \in 1..Len(jx) : r[m] = jx[m] + ky[m]
    <3> TAKE m \in 1..Len(jx)
    <3>1. m \in 1..Samples  BY <2>5
    <3>2. r[m] = b[m][a] /\ x[m] = s[m][a] /\ y[m] = d[m][a]  BY <2>1, <3>1
    <3>3. b[m][a] = j * s[m][a] + k * d[m][a]  BY <1>2, <3>1
    <3>4. jx[m] = j * x[m] /\ ky[m] = k * y[m]  BY <2>4, <3>1
    <3> QED  BY <3>2, <3>3, <3>4
  <2>8. Total(r) = Total(jx) + Total(ky)
    <3>1. Len(r) = Len(jx) /\ Len(ky) = Len(jx)  BY <2>1, <2>5
    <3> QED  BY <2>1, <2>5, <2>7, <3>1, TotalOfSum
  <2>9. PICK t \in Int : t = Total(x) /\ t = Total(y)  BY <2>1, <2>2
  <2>10. j * t + k * t = (j + k) * t  BY <1>0
  <2>11. j + k = Frames  BY <1>0 DEF j
  <2> QED  BY <2>6, <2>8, <2>9, <2>10, <2>11 DEF x, r
<1>5. PointSum(b) = <<Total(Ordinates(b, 1)), Total(Ordinates(b, 2))>>
      /\ PointSum(s) = <<Total(Ordinates(s, 1)), Total(Ordinates(s, 2))>>  BY <1>3, OrdinatesAre
<1>6. PointSum(b) = Scaled(Frames, PointSum(s))  BY <1>4, <1>5 DEF Scaled
<1> QED  BY <1>6 DEF b

(* Every loop travels. *)
\* A pair of which one is a point, in the other's place.
InPlace(s, d) == (IsPoint(s) \/ IsPoint(d)) /\ PointSum(s) = PointSum(d)

\* Where the loops of the target have gone that are used, and that what has no
\* partner stays in its place.
Sent(to) ==
  /\ to \in Injection(used, 1..Len(sOut))
  /\ \A j \in used : SameLoop(dOut[to[j]], dstLoops[j])
  /\ \A k \in 1..Len(sOut) : k > Len(srcLoops) \/ k \notin Range(to) => InPlace(sOut[k], dOut[k])

\* What the pairing keeps: the loops of the source leave in order, those of
\* the target that are used have arrived, each at a place of its own (Sent).
TravelInv ==
  /\ MorphInv
  /\ morph = "none" => sOut = <<>> /\ dOut = <<>> /\ used = {} /\ u = 0 /\ shown = <<>>
  /\ \A k \in DOMAIN srcLoops : Centred(srcLoops[k])
  /\ \A k \in DOMAIN dstLoops : Centred(dstLoops[k])
  /\ used \subseteq DOMAIN dstLoops
  /\ Cardinality(used) <= Len(sOut)
  /\ Cardinality(used) = Len(sOut) \/ (Unused = {} /\ Len(sOut) <= Len(srcLoops))
  /\ \A k \in 1..Len(sOut) : k <= Len(srcLoops) => sOut[k] = srcLoops[k]
  /\ \E to : Sent(to)
  /\ u \in 0..Frames
  /\ shown # <<>> => /\ Len(sOut) >= Len(srcLoops) /\ Unused = {}
                     /\ \E k \in 0..Frames : shown[1].loops = LerpLoops(k)

\* A loop is the same as itself.
LEMMA SameItself ==
  ASSUME NEW c \in Loops
  PROVE  SameLoop(c, c)
<1>1. Samples \in Nat /\ Samples >= 1 /\ 0 \in 0..(Samples - 1)  BY LoopIs
<1>2. \A m \in 1..Samples : Rotated(c, 0)[m] = c[m]
  <2> TAKE m \in 1..Samples
  <2>1. Rotated(c, 0)[m] = c[Round(m, 0, Samples)]  BY <1>1, RotatedIs
  <2>2. Round(m, 0, Samples) = m  BY <1>1 DEF Round
  <2> QED  BY <2>1, <2>2
<1>3. Rotated(c, 0) = c  BY <1>1, <1>2, RotatedIs, SameLoops
<1> QED  BY <1>1, <1>3 DEF SameLoop

\* A pair that is added to the two lists, and what was there.
LEMMA ListsGrow ==
  ASSUME MorphInv, NEW s \in Loops, NEW d \in Loops,
         sOut' = Append(sOut, s), dOut' = Append(dOut, d)
  PROVE  LET n == Len(sOut)
         IN  /\ n \in Nat /\ Len(sOut') = n + 1 /\ sOut'[n + 1] = s /\ dOut'[n + 1] = d
             /\ \A k \in 1..n : sOut'[k] = sOut[k] /\ dOut'[k] = dOut[k]
<1>1. sOut \in Seq(Loops) /\ dOut \in Seq(Loops) /\ Len(sOut) \in Nat /\ Len(dOut) = Len(sOut)  BY DEF MorphInv
<1>2. \A l \in Seq(Loops) : \A c \in Loops :
        /\ Len(Append(l, c)) = Len(l) + 1
        /\ Append(l, c)[Len(l) + 1] = c
        /\ \A k \in 1..Len(l) : Append(l, c)[k] = l[k]  OBVIOUS
<1> QED  BY <1>1, <1>2

\* A loop of the target is used for the new pair.
LEMMA SentNew ==
  ASSUME MorphInv, NEW s \in Loops, NEW d \in Loops,
         sOut' = Append(sOut, s), dOut' = Append(dOut, d), UNCHANGED <<srcLoops, dstLoops>>,
         NEW to, Sent(to), NEW j, j \notin used, used' = used \cup {j},
         SameLoop(d, dstLoops[j]),
         Len(sOut) + 1 > Len(srcLoops) => InPlace(s, d)
  PROVE  \E t : Sent(t)'
<1> DEFINE n == Len(sOut)
           t == [x \in used' |-> IF x = j THEN n + 1 ELSE to[x]]
<1>1. /\ n \in Nat /\ Len(sOut') = n + 1 /\ sOut'[n + 1] = s /\ dOut'[n + 1] = d
      /\ \A k \in 1..n : sOut'[k] = sOut[k] /\ dOut'[k] = dOut[k]  BY ListsGrow
<1>2. /\ to \in [used -> 1..n] /\ \A x, y \in used : to[x] = to[y] => x = y
      /\ \A x \in used : SameLoop(dOut[to[x]], dstLoops[x])
      /\ \A k \in 1..n : k > Len(srcLoops) \/ k \notin Range(to) => InPlace(sOut[k], dOut[k])
  BY DEF Sent, Injection, IsInjective
<1> HIDE DEF n
<1>3. t \in [used' -> 1..(n + 1)]
  <2>1. \A k \in 1..n : k \in 1..(n + 1)  BY <1>1
  <2>2. n + 1 \in 1..(n + 1)  BY <1>1
  <2> QED  BY <1>2, <2>1, <2>2
<1>4. t[j] = n + 1 /\ \A x \in used : t[x] = to[x] /\ t[x] \in 1..n  BY <1>2
<1>5. DOMAIN t = used'  OBVIOUS
<1> HIDE DEF t
<1>6. \A x, y \in used' : t[x] = t[y] => x = y
  <2>1. n + 1 \notin 1..n  BY <1>1
  <2> QED  BY <1>2, <1>4, <2>1
<1>7. \A x \in used' : SameLoop(dOut'[t[x]], dstLoops[x])
  <2> TAKE x \in used'
  <2>1. CASE x = j
    <3>1. dOut'[t[x]] = d  BY <1>1, <1>4, <2>1
    <3> QED  BY <2>1, <3>1
  <2>2. CASE x # j
    <3>1. x \in used  BY <2>2
    <3>2. dOut'[t[x]] = dOut[to[x]]  BY <1>1, <1>4, <3>1
    <3> QED  BY <1>2, <3>1, <3>2
  <2> QED  BY <2>1, <2>2
<1>8. ASSUME NEW k \in 1..(n + 1), k > Len(srcLoops) \/ k \notin Range(t) PROVE InPlace(sOut'[k], dOut'[k])
  <2>1. CASE k = n + 1
    <3>1. k \in Range(t)  BY <1>4, <1>5, <2>1 DEF Range
    <3>2. n + 1 > Len(srcLoops)  BY <1>8, <2>1, <3>1
    <3> QED  BY <1>1, <2>1, <3>2 DEF n
  <2>2. CASE k # n + 1
    <3>1. k \in 1..n  BY <1>1, <2>2
    <3>2. k \in Range(to) => k \in Range(t)
      <4> SUFFICES ASSUME k \in Range(to) PROVE k \in Range(t)  OBVIOUS
      <4>1. PICK x \in used : k = to[x]  BY <1>2 DEF Range
      <4>2. t[x] = k /\ x \in DOMAIN t  BY <1>4, <1>5, <4>1
      <4> QED  BY <4>2 DEF Range
    <3> QED  BY <1>1, <1>2, <1>8, <3>1, <3>2
  <2> QED  BY <2>1, <2>2
<1>9. t \in Injection(used', 1..(n + 1))  BY <1>3, <1>6 DEF Injection, IsInjective
<1> QED  BY <1>1, <1>7, <1>8, <1>9 DEF Sent

\* No loop of the target is left for the new pair.
LEMMA SentAlone ==
  ASSUME MorphInv, NEW s \in Loops, NEW d \in Loops,
         sOut' = Append(sOut, s), dOut' = Append(dOut, d), UNCHANGED <<srcLoops, dstLoops, used>>,
         NEW to, Sent(to), InPlace(s, d)
  PROVE  Sent(to)'
<1> DEFINE n == Len(sOut)
<1>1. /\ n \in Nat /\ Len(sOut') = n + 1 /\ sOut'[n + 1] = s /\ dOut'[n + 1] = d
      /\ \A k \in 1..n : sOut'[k] = sOut[k] /\ dOut'[k] = dOut[k]  BY ListsGrow
<1>2. /\ to \in [used -> 1..n] /\ \A x, y \in used : to[x] = to[y] => x = y
      /\ \A x \in used : SameLoop(dOut[to[x]], dstLoops[x])
      /\ \A k \in 1..n : k > Len(srcLoops) \/ k \notin Range(to) => InPlace(sOut[k], dOut[k])
  BY DEF Sent, Injection, IsInjective
<1> HIDE DEF n
<1>3. to \in [used -> 1..(n + 1)]
  <2>1. \A k \in 1..n : k \in 1..(n + 1)  BY <1>1
  <2> QED  BY <1>2, <2>1
<1>4. \A x \in used : SameLoop(dOut'[to[x]], dstLoops[x])  BY <1>1, <1>2
<1>5. ASSUME NEW k \in 1..(n + 1), k > Len(srcLoops) \/ k \notin Range(to) PROVE InPlace(sOut'[k], dOut'[k])
  <2>1. k = n + 1 \/ k \in 1..n  BY <1>1
  <2> QED  BY <1>1, <1>2, <1>5, <2>1
<1>6. to \in Injection(used, 1..(n + 1))  BY <1>2, <1>3 DEF Injection, IsInjective
<1> QED  BY <1>1, <1>4, <1>5, <1>6 DEF Sent

\* A point at the centroid of a loop is in its place.
LEMMA PointInPlace ==
  ASSUME NEW c \in Loops, Centred(c)
  PROVE  /\ PointContour(Centroid(c)) \in Loops
         /\ InPlace(c, PointContour(Centroid(c))) /\ InPlace(PointContour(Centroid(c)), c)
BY PointSumIs, PointContourIs DEF InPlace, Centred

\* TravelInv holds at first.
LEMMA TravelStarts ==
  ASSUME Init
  PROVE  TravelInv
<1>1. MorphInv  BY MorphStarts
<1>2. srcLoops = <<>> /\ dstLoops = <<>> /\ used = {} /\ sOut = <<>> /\ dOut = <<>> /\ u = 0 /\ shown = <<>>
  BY DEF Init
<1>3. Cardinality({}) = 0  BY FS_EmptySet
<1>4. Len(sOut) = 0 /\ DOMAIN srcLoops = {} /\ DOMAIN dstLoops = {}  BY <1>2
<1>5. Sent([x \in {} |-> x])  BY <1>2, <1>4 DEF Sent, Injection, IsInjective
<1>6. Frames \in Nat  BY MorphAssumption
<1>7. \E to : Sent(to)  BY <1>5
<1> QED  BY <1>1, <1>2, <1>3, <1>4, <1>6, <1>7 DEF TravelInv

\* The pairs that the matching makes leave what travels so far as it was.
LEMMA PairTravels ==
  ASSUME TravelInv, MorphInv', Pair
  PROVE  TravelInv'
<1> DEFINE n == Len(sOut)
           s == srcLoops[n + 1]
<1>1. /\ MorphInv /\ morph = "match" /\ n < Len(srcLoops) /\ sOut' = Append(sOut, s)
      /\ UNCHANGED <<work, morph, srcLoops, dstLoops, u, shown>>  BY DEF Pair, TravelInv
<1>2. srcLoops \in Seq(Loops) /\ dstLoops \in Seq(Loops) /\ n \in Nat  BY <1>1 DEF MorphInv
<1>3. n + 1 \in DOMAIN srcLoops /\ s \in Loops /\ Centred(s)  BY <1>1, <1>2 DEF TravelInv
<1> HIDE DEF s
<1>4. IsFiniteSet(used) /\ Cardinality(used) \in Nat
  <2>1. DOMAIN dstLoops = 1..Len(dstLoops) /\ Len(dstLoops) \in Int  BY <1>2
  <2>2. IsFiniteSet(1..Len(dstLoops))  BY <2>1, FS_Interval
  <2>3. used \subseteq 1..Len(dstLoops)  BY <2>1 DEF TravelInv
  <2> QED  BY <2>2, <2>3, FS_Subset, FS_CardinalityType
<1>5. PICK to : Sent(to)  BY DEF TravelInv
<1>6. shown = <<>>  BY <1>1, <1>2 DEF TravelInv
<1>7. /\ used' \subseteq DOMAIN dstLoops
      /\ Cardinality(used') <= n + 1
      /\ Cardinality(used') = n + 1 \/ (DOMAIN dstLoops \ used' = {} /\ n + 1 <= Len(srcLoops))
      /\ Len(sOut') = n + 1 /\ sOut'[n + 1] = s /\ \A k \in 1..n : sOut'[k] = sOut[k]
      /\ \E t : Sent(t)'
  <2>1. CASE Unused = {}
    <3> DEFINE p == PointContour(Centroid(s))
    <3>1. dOut' = Append(dOut, p) /\ used' = used  BY <2>1 DEF Pair, s
    <3>2. p \in Loops /\ InPlace(s, p)  BY <1>3, PointInPlace
    <3> HIDE DEF p
    <3>3. Sent(to)'  BY <1>1, <1>3, <1>5, <3>1, <3>2, SentAlone
    <3>4. used \subseteq DOMAIN dstLoops /\ Cardinality(used) <= n  BY DEF TravelInv
    <3>5. Len(sOut') = n + 1 /\ sOut'[n + 1] = s /\ \A k \in 1..n : sOut'[k] = sOut[k]
      BY <1>1, <1>3, <3>1, <3>2, ListsGrow
    <3>6. DOMAIN dstLoops \ used' = {} /\ n + 1 <= Len(srcLoops)  BY <1>1, <1>2, <2>1, <3>1 DEF Unused
    <3> QED  BY <1>2, <1>4, <3>1, <3>3, <3>4, <3>5, <3>6
  <2>2. CASE Unused # {}
    <3> DEFINE j == Min(Nearest)
               d == AlignLoop(s, dstLoops[j])
    <3>1. dOut' = Append(dOut, d) /\ used' = used \cup {j}  BY <2>2 DEF Pair, s
    <3>2. j \in Unused  BY <1>1, <1>2, <2>2, NearestIs
    <3> HIDE DEF j
    <3>3. j \notin used /\ j \in DOMAIN dstLoops /\ dstLoops[j] \in Loops  BY <1>2, <3>2 DEF Unused
    <3>4. d \in Loops /\ SameLoop(d, dstLoops[j])  BY <1>3, <3>3, AlignLoopIsBest
    <3> HIDE DEF d
    <3>5. \E t : Sent(t)'
      <4>1. ~(n + 1 > Len(srcLoops))  BY <1>1, <1>2
      <4> QED  BY <1>1, <1>3, <1>5, <3>1, <3>3, <3>4, <4>1, SentNew
    <3>6. Cardinality(used) = n  BY <2>2 DEF TravelInv
    <3>7. Cardinality(used') = n + 1  BY <1>4, <3>1, <3>3, <3>6, FS_AddElement
    <3>8. Len(sOut') = n + 1 /\ sOut'[n + 1] = s /\ \A k \in 1..n : sOut'[k] = sOut[k]
      BY <1>1, <1>3, <3>1, <3>4, ListsGrow
    <3>9. used' \subseteq DOMAIN dstLoops  BY <3>1, <3>3 DEF TravelInv
    <3> QED  BY <1>2, <3>5, <3>7, <3>8, <3>9
  <2> QED  BY <2>1, <2>2
<1>8. \A k \in 1..(n + 1) : k <= Len(srcLoops) => sOut'[k] = srcLoops[k]
  <2> TAKE k \in 1..(n + 1)
  <2>1. CASE k = n + 1  BY <1>7, <2>1 DEF s
  <2>2. CASE k # n + 1
    <3>1. k \in 1..n  BY <1>2, <2>2
    <3> QED  BY <1>7, <3>1 DEF TravelInv
  <2> QED  BY <2>1, <2>2
<1> HIDE DEF n
<1> QED  BY <1>1, <1>6, <1>7, <1>8 DEF TravelInv, Unused

\* A loop that grows: it arrives, and its point is in place.
LEMMA GrowTravels ==
  ASSUME TravelInv, MorphInv', Grow
  PROVE  TravelInv'
<1> DEFINE n == Len(sOut)
           j == Min(Unused)
           d == dstLoops[j]
           p == PointContour(Centroid(d))
<1>1. /\ MorphInv /\ morph = "match" /\ n >= Len(srcLoops) /\ Unused # {}
      /\ sOut' = Append(sOut, p) /\ dOut' = Append(dOut, d) /\ used' = used \cup {j}
      /\ UNCHANGED <<work, morph, srcLoops, dstLoops, u, shown>>  BY DEF Grow, TravelInv
<1>2. srcLoops \in Seq(Loops) /\ dstLoops \in Seq(Loops) /\ n \in Nat /\ Len(srcLoops) \in Nat  BY <1>1 DEF MorphInv
<1>3. j \in Unused
  <2>1. Unused \subseteq Nat  BY <1>2 DEF Unused
  <2> QED  BY <1>1, <2>1, LeastElement
<1> HIDE DEF j
<1>4. j \notin used /\ j \in DOMAIN dstLoops /\ d \in Loops /\ Centred(d)  BY <1>2, <1>3 DEF Unused, TravelInv
<1>5. p \in Loops /\ InPlace(p, d) /\ SameLoop(d, dstLoops[j])  BY <1>4, PointInPlace, SameItself
<1> HIDE DEF p, d
<1>6. IsFiniteSet(used) /\ Cardinality(used) \in Nat
  <2>1. DOMAIN dstLoops = 1..Len(dstLoops) /\ Len(dstLoops) \in Int  BY <1>2
  <2>2. IsFiniteSet(1..Len(dstLoops))  BY <2>1, FS_Interval
  <2>3. used \subseteq 1..Len(dstLoops)  BY <2>1 DEF TravelInv
  <2> QED  BY <2>2, <2>3, FS_Subset, FS_CardinalityType
<1>7. PICK to : Sent(to)  BY DEF TravelInv
<1>8. \E t : Sent(t)'  BY <1>1, <1>4, <1>5, <1>7, SentNew
<1>9. shown = <<>>  BY <1>1 DEF TravelInv
<1>10. Cardinality(used) = n  BY <1>1 DEF TravelInv
<1>11. Cardinality(used') = n + 1  BY <1>1, <1>4, <1>6, <1>10, FS_AddElement
<1>12. Len(sOut') = n + 1 /\ \A k \in 1..n : sOut'[k] = sOut[k]  BY <1>1, <1>4, <1>5, ListsGrow
<1>13. \A k \in 1..(n + 1) : k <= Len(srcLoops) => sOut'[k] = srcLoops[k]
  <2> TAKE k \in 1..(n + 1)
  <2> SUFFICES ASSUME k <= Len(srcLoops) PROVE sOut'[k] = srcLoops[k]  OBVIOUS
  <2>1. k \in 1..n  BY <1>1, <1>2
  <2> QED  BY <1>12, <2>1 DEF TravelInv
<1>14. used' \subseteq DOMAIN dstLoops  BY <1>1, <1>4 DEF TravelInv
<1> HIDE DEF n
<1> QED  BY <1>1, <1>2, <1>8, <1>9, <1>11, <1>12, <1>13, <1>14 DEF TravelInv

\* Every step keeps TravelInv.
LEMMA TravelNext ==
  ASSUME TravelInv, [Reading \/ Morph \/ Rest]_vars
  PROVE  TravelInv'
<1>0. MorphInv'  BY MorphNext DEF TravelInv
<1>1. CASE UNCHANGED morphVars  BY <1>0, <1>1 DEF morphVars, TravelInv, Sent, Unused, LerpLoops
<1>2. CASE StartMorph
  <2>1. /\ work.partner # <<>> /\ morph = "none" /\ UNCHANGED <<used, sOut, dOut, u, shown>>
        /\ \/ morph' = "crossfade" /\ UNCHANGED <<srcLoops, dstLoops>>
           \/ /\ morph' = "match"
              /\ srcLoops' = [k \in DOMAIN MorphLoops(Source) |-> ResampleClosed(MorphLoops(Source)[k])]
              /\ dstLoops' = [k \in DOMAIN MorphLoops(Target) |-> ResampleClosed(MorphLoops(Target)[k])]
    BY <1>2 DEF StartMorph
  <2>2. sOut = <<>> /\ dOut = <<>> /\ used = {} /\ u = 0 /\ shown = <<>>  BY <2>1 DEF TravelInv
  <2>3. /\ \A k \in DOMAIN srcLoops' : Centred(srcLoops'[k])
        /\ \A k \in DOMAIN dstLoops' : Centred(dstLoops'[k])
    <3>1. CASE UNCHANGED <<srcLoops, dstLoops>>  BY <3>1 DEF TravelInv
    <3>2. ASSUME NEW ls \in Seq({c \in Seq(Points) : Len(c) >= 1})
          PROVE  LET rs == [k \in DOMAIN ls |-> ResampleClosed(ls[k])]
                 IN  \A k \in DOMAIN rs : Centred(rs[k])
      <4> DEFINE rs == [k \in DOMAIN ls |-> ResampleClosed(ls[k])]
      <4>1. rs \in Seq(Loops) /\ DOMAIN rs = DOMAIN ls
            /\ \A k \in DOMAIN ls : rs[k] = ResampleClosed(ls[k]) /\ Coarse(ResampleClosed(ls[k]))  BY AllResampled
      <4> HIDE DEF rs
      <4>2. \A k \in DOMAIN rs : rs[k] \in Loops  BY <4>1
      <4>3. \A k \in DOMAIN rs : Centred(rs[k])  BY <4>1, <4>2, CoarseIsCentred
      <4> QED  BY <4>3 DEF rs
    <3>3. /\ MorphLoops(Source) \in Seq({c \in Seq(Points) : Len(c) >= 1})
          /\ MorphLoops(Target) \in Seq({c \in Seq(Points) : Len(c) >= 1})  BY <2>1, SidesAre DEF TravelInv
    <3> QED  BY <2>1, <3>1, <3>2, <3>3
  <2>4. Cardinality({}) = 0  BY FS_EmptySet
  <2>5. Len(sOut') = 0  BY <2>1, <2>2
  <2>6. Sent([x \in {} |-> x])'  BY <2>1, <2>2, <2>5 DEF Sent, Injection, IsInjective
  <2>7. u' \in 0..Frames /\ shown' = <<>> /\ used' = {} /\ sOut' = <<>> /\ dOut' = <<>> /\ morph' # "none"
    BY <2>1, <2>2, MorphAssumption
  <2>8. \E to : Sent(to)'  BY <2>6
  <2> QED  BY <1>0, <2>3, <2>4, <2>5, <2>7, <2>8 DEF TravelInv
<1>3. CASE Pair  BY <1>0, <1>3, PairTravels
<1>4. CASE Grow  BY <1>0, <1>4, GrowTravels
<1>5. CASE Frame
  <2>1. /\ morph = "match" /\ Len(sOut) >= Len(srcLoops) /\ Unused = {} /\ u < Frames
        /\ shown'[1].loops = LerpLoops(u) /\ u' = u + 1
        /\ UNCHANGED <<work, morph, srcLoops, dstLoops, used, sOut, dOut>>  BY <1>5 DEF Frame
  <2>2. u \in 0..Frames /\ u' \in 0..Frames  BY <2>1, MorphAssumption DEF TravelInv
  <2>4. \E k \in 0..Frames : shown'[1].loops = LerpLoops(k)'
    <3>1. LerpLoops(u) = [c \in DOMAIN sOut' |-> [m \in DOMAIN sOut'[c] |->
              Plus(Scaled(Frames - u, sOut'[c][m]), Scaled(u, dOut'[c][m]))]]  BY <2>1 DEF LerpLoops
    <3> QED  BY <2>1, <2>2, <3>1 DEF LerpLoops
  <2> QED  BY <1>0, <2>1, <2>2, <2>4 DEF TravelInv, Sent, Unused
<1>6. CASE MorphOver
  <2>1. morph' = "over" /\ shown' = <<>> /\ UNCHANGED <<work, srcLoops, dstLoops, used, sOut, dOut, u>>
    BY <1>6 DEF MorphOver
  <2> QED  BY <1>0, <2>1 DEF TravelInv, Sent, Unused
<1> QED  BY <1>1, <1>2, <1>3, <1>4, <1>5, <1>6 DEF Reading, Morph, Rest, vars

\* The first part of EveryLoopTravels: the pairs.
LEMMA LoopsDoTravel == Spec => []LoopsTravel
<1>1. TravelInv => LoopsTravel
  <2> SUFFICES ASSUME TravelInv, Matched
               PROVE  /\ Len(sOut) = Len(dOut) /\ Len(sOut) = Max({Len(srcLoops), Len(dstLoops)})
                      /\ \E from \in Injection(DOMAIN srcLoops, DOMAIN sOut),
                            to \in Injection(DOMAIN dstLoops, DOMAIN dOut) :
                           /\ \A k \in DOMAIN srcLoops : SameLoop(sOut[from[k]], srcLoops[k])
                           /\ \A k \in DOMAIN dstLoops : SameLoop(dOut[to[k]], dstLoops[k])
                           /\ \A k \in DOMAIN sOut \ (Range(from) \cap Range(to)) :
                                /\ IsPoint(sOut[k]) \/ IsPoint(dOut[k])
                                /\ \/ shown = <<>>
                                   \/ PointSum(shown[1].loops[k]) = Scaled(Frames, PointSum(sOut[k]))
    BY DEF LoopsTravel
  <2> DEFINE n == Len(sOut)
  <2>1. /\ srcLoops \in Seq(Loops) /\ dstLoops \in Seq(Loops) /\ sOut \in Seq(Loops) /\ dOut \in Seq(Loops)
        /\ Len(dOut) = n  BY DEF TravelInv, MorphInv
  <2>2. n >= Len(srcLoops) /\ used = DOMAIN dstLoops  BY DEF Matched, Unused, TravelInv
  <2>3. /\ n \in Nat /\ Len(srcLoops) \in Nat /\ Len(dstLoops) \in Nat
        /\ DOMAIN srcLoops = 1..Len(srcLoops) /\ DOMAIN dstLoops = 1..Len(dstLoops)
        /\ DOMAIN sOut = 1..n /\ DOMAIN dOut = 1..n  BY <2>1
  <2>4. Cardinality(used) = Len(dstLoops)
    <3>0. \A m \in Nat : Cardinality(1..m) = IF 1 > m THEN 0 ELSE m - 1 + 1
      <4>1. 1 \in Int /\ \A m \in Nat : m \in Int  OBVIOUS
      <4> QED  BY <4>1, FS_Interval
    <3>1. Cardinality(1..Len(dstLoops)) = Len(dstLoops)  BY <2>3, <3>0
    <3> QED  BY <2>2, <2>3, <3>1
  <2>5. n = Max({Len(srcLoops), Len(dstLoops)})
    <3>1. Len(dstLoops) <= n /\ (n = Len(dstLoops) \/ n <= Len(srcLoops))  BY <2>4 DEF TravelInv
    <3> DEFINE S == {Len(srcLoops), Len(dstLoops)}
    <3>2. S \subseteq {Len(srcLoops), Len(dstLoops)} /\ S # {}  OBVIOUS
    <3>3. Max(S) \in S /\ \A z \in S : z <= Max(S)
      <4> HIDE DEF S
      <4> QED  BY <2>3, <3>2, LeastOfTwo
    <3>4. n \in S /\ \A z \in S : z <= n
      <4>1. n = Len(srcLoops) \/ n = Len(dstLoops)
        <5>1. \A a, b \in Nat : a >= b /\ a <= b => a = b  OBVIOUS
        <5> HIDE DEF n
        <5> QED  BY <2>2, <2>3, <3>1, <5>1
      <4>2. Len(srcLoops) <= n /\ Len(dstLoops) <= n  BY <2>2, <2>3, <3>1
      <4> HIDE DEF n
      <4> QED  BY <4>1, <4>2
    <3>5. \A z \in S : z \in Nat  BY <2>3
    <3> HIDE DEF S
    <3>6. Max(S) <= n /\ n <= Max(S) /\ Max(S) \in Nat  BY <3>3, <3>4, <3>5
    <3>7. n = Max(S)  BY <2>3, <3>6
    <3> QED  BY <3>7 DEF S
  <2>6. PICK to : Sent(to)  BY DEF TravelInv
  <2>7. /\ to \in Injection(DOMAIN dstLoops, DOMAIN dOut)
        /\ \A k \in DOMAIN dstLoops : SameLoop(dOut[to[k]], dstLoops[k])  BY <2>2, <2>3, <2>6 DEF Sent
  <2> DEFINE from == [k \in DOMAIN srcLoops |-> k]
  <2>8. /\ from \in Injection(DOMAIN srcLoops, DOMAIN sOut)
        /\ \A k \in DOMAIN srcLoops : from[k] = k
        /\ Range(from) = DOMAIN srcLoops  BY <2>2, <2>3 DEF Injection, IsInjective, Range
  <2> HIDE DEF from, n
  <2>9. \A k \in DOMAIN srcLoops : SameLoop(sOut[from[k]], srcLoops[k])
    <3> TAKE k \in DOMAIN srcLoops
    <3>1. k \in 1..Len(sOut) /\ k <= Len(srcLoops)  BY <2>2, <2>3 DEF n
    <3>2. sOut[k] = srcLoops[k]  BY <3>1 DEF TravelInv
    <3>3. srcLoops[k] \in Loops  BY <2>1
    <3> QED  BY <2>8, <3>2, <3>3, SameItself
  <2>10. ASSUME NEW k \in DOMAIN sOut \ (Range(from) \cap Range(to))
         PROVE  /\ IsPoint(sOut[k]) \/ IsPoint(dOut[k])
                /\ shown = <<>> \/ PointSum(shown[1].loops[k]) = Scaled(Frames, PointSum(sOut[k]))
    <3>1. k \in 1..n /\ (k > Len(srcLoops) \/ k \notin Range(to))  BY <2>3, <2>8
    <3>2. InPlace(sOut[k], dOut[k])  BY <2>6, <3>1 DEF Sent, n
    <3>3. sOut[k] \in Loops /\ dOut[k] \in Loops  BY <2>1, <2>3, <3>1
    <3>4. ASSUME shown # <<>> PROVE PointSum(shown[1].loops[k]) = Scaled(Frames, PointSum(sOut[k]))
      <4>1. PICK j \in 0..Frames : shown[1].loops = LerpLoops(j)  BY <3>4 DEF TravelInv
      <4>2. shown[1].loops[k] = Between(sOut[k], dOut[k], j)  BY <2>3, <3>1, <4>1 DEF LerpLoops, Between
      <4> QED  BY <3>2, <3>3, <4>2, BetweenKeepsCentroid DEF InPlace
    <3> QED  BY <3>2, <3>4 DEF InPlace
  <2> QED  BY <2>1, <2>5, <2>7, <2>8, <2>9, <2>10 DEF n
<1> QED  BY <1>1, TravelStarts, TravelNext, PTL DEF Spec

(* Folding an open path. A path along one axis: corner k lies at p[k], the *)
(* edge after it is l[k] long, and e[k] has been walked at its end, with *)
(* Samples steps to a unit. A place on an edge lies between its corners. *)
Walk(n, p, l, e) ==
  /\ p \in [1..(n + 1) -> Int] /\ l \in [1..n -> Nat] /\ e \in [0..n -> Int]
  /\ \A k \in 1..n : e[k] = e[k - 1] + Samples * l[k] /\ (l[k] = 0 => p[k + 1] = p[k])
OnEdge(l, e, k, t) == l[k] > 0 /\ e[k - 1] <= t /\ t <= e[k]
Place(p, l, e, k, t) == ((e[k] - t) * p[k] + (t - e[k - 1]) * p[k + 1]) \div l[k]

\* The length walked only grows.
LEMMA WalkGoesOn ==
  ASSUME NEW n \in Nat, NEW p, NEW l, NEW e, Walk(n, p, l, e)
  PROVE  \A k \in 0..n : \A j \in 0..k : e[j] <= e[k]
<1> DEFINE S == {k \in 0..n : \A j \in 0..k : e[j] <= e[k]}
<1>1. \A k \in 0..n : e[k] \in Int  BY DEF Walk
<1>2. 0 \in S
  <2>1. \A j \in 0..0 : j = 0  OBVIOUS
  <2>2. 0 \in 0..n  OBVIOUS
  <2> QED  BY <1>1, <2>1, <2>2
<1>3. ASSUME NEW k \in 1..n, k - 1 \in S PROVE k \in S
  <2>1. k \in 0..n /\ k - 1 \in 0..n  OBVIOUS
  <2>2. e[k - 1] <= e[k] /\ e[k - 1] \in Int /\ e[k] \in Int
    <3>1. e[k] = e[k - 1] + Samples * l[k] /\ l[k] \in Nat  BY DEF Walk
    <3>2. \A x \in Nat : Samples * x \in Nat  BY MorphAssumption
    <3> QED  BY <1>1, <2>1, <3>1, <3>2
  <2>3. \A j \in 0..k : e[j] <= e[k]
    <3> TAKE j \in 0..k
    <3>1. CASE j = k  BY <2>2, <3>1
    <3>2. CASE j # k
      <4>1. j \in 0..(k - 1) /\ j \in 0..n  BY <3>2
      <4>2. e[j] <= e[k - 1] /\ e[j] \in Int  BY <1>1, <1>3, <4>1
      <4> QED  BY <2>2, <4>2
    <3> QED  BY <3>1, <3>2
  <2> QED  BY <2>1, <2>3
<1>4. \A k \in 0..n : k \in S
  <2> HIDE DEF S
  <2> QED  BY <1>2, <1>3, Upwards
<1> QED  BY <1>4

\* At its ends an edge is at its corners.
LEMMA PlaceAtEnds ==
  ASSUME NEW n \in Nat, NEW p, NEW l, NEW e, Walk(n, p, l, e), NEW k \in 1..n, l[k] > 0
  PROVE  Place(p, l, e, k, e[k]) = Samples * p[k + 1] /\ Place(p, l, e, k, e[k - 1]) = Samples * p[k]
<1>1. PICK x \in Int, y \in Int, u0 \in Int, v \in Int, m \in Nat \ {0} :
            x = p[k] /\ y = p[k + 1] /\ u0 = e[k - 1] /\ v = e[k] /\ m = l[k]
  <2>1. k \in 1..(n + 1) /\ k + 1 \in 1..(n + 1) /\ k - 1 \in 0..n /\ k \in 0..n  OBVIOUS
  <2>2. p[k] \in Int /\ p[k + 1] \in Int /\ e[k - 1] \in Int /\ e[k] \in Int /\ l[k] \in Nat \ {0}  BY <2>1 DEF Walk
  <2> QED  BY <2>2
<1>2. v = u0 + Samples * m /\ Samples \in Nat  BY <1>1, MorphAssumption DEF Walk
<1>3. Samples * m \in Nat
  <2>1. \A a, b \in Nat : a * b \in Nat  OBVIOUS
  <2> QED  BY <1>2, <2>1
<1>4. v - u0 = Samples * m /\ v - v = 0 /\ u0 - u0 = 0  BY <1>2, <1>3
<1>5. Samples * x \in Int /\ Samples * y \in Int
  <2>1. \A a, b \in Int : a * b \in Int  OBVIOUS
  <2> QED  BY <1>2, <2>1
<1>6. 0 * x + (Samples * m) * y = m * (Samples * y)  BY <1>2
<1>7. (Samples * m) * x + 0 * y = m * (Samples * x)  BY <1>2
<1>8. (m * (Samples * y)) \div m = Samples * y /\ (m * (Samples * x)) \div m = Samples * x  BY <1>5, DivideMultiple
<1>9. Place(p, l, e, k, e[k]) = (0 * x + (Samples * m) * y) \div m  BY <1>1, <1>4 DEF Place
<1>10. Place(p, l, e, k, e[k - 1]) = ((Samples * m) * x + 0 * y) \div m  BY <1>1, <1>4 DEF Place
<1> QED  BY <1>1, <1>6, <1>7, <1>8, <1>9, <1>10

\* Where two edges have been walked the same length, they are at the same place.
LEMMA LaterEdge ==
  ASSUME NEW n \in Nat, NEW p, NEW l, NEW e, Walk(n, p, l, e), NEW t \in Int,
         NEW j \in 1..n, NEW k \in 1..n, j < k, OnEdge(l, e, j, t), OnEdge(l, e, k, t)
  PROVE  Place(p, l, e, j, t) = Place(p, l, e, k, t)
<1>0. /\ \A q \in 0..n : e[q] \in Int
      /\ \A q \in 1..n : l[q] \in Nat
      /\ \A q \in 1..n : e[q] = e[q - 1] + Samples * l[q] /\ (l[q] = 0 => p[q + 1] = p[q])  BY DEF Walk
<1>1. \A q \in j..(k - 1) : e[q] = t
  <2> TAKE q \in j..(k - 1)
  <2>1. q \in 0..(k - 1) /\ j \in 0..q /\ q \in 0..n /\ k - 1 \in 0..n /\ j \in 0..n  OBVIOUS
  <2>2. e[j] <= e[q] /\ e[q] <= e[k - 1]  BY <2>1, WalkGoesOn
  <2>3. t <= e[j] /\ e[k - 1] <= t /\ e[j] \in Int /\ e[q] \in Int /\ e[k - 1] \in Int  BY <1>0, <2>1 DEF OnEdge
  <2> QED  BY <2>2, <2>3
<1>2. Place(p, l, e, j, t) = Samples * p[j + 1]
  <2>1. e[j] = t /\ l[j] > 0  BY <1>1 DEF OnEdge
  <2> QED  BY <2>1, PlaceAtEnds
<1> DEFINE S == {q \in 0..k : q > j => p[q] = p[j + 1]}
<1>3. 0 \in S  OBVIOUS
<1>4. ASSUME NEW q \in 1..k, q - 1 \in S PROVE q \in S
  <2>1. CASE q <= j  BY <2>1
  <2>2. CASE q = j + 1  BY <2>2
  <2>3. CASE q > j + 1
    <3>1. PICK h \in 1..n : h = q - 1 /\ h \in j..(k - 1) /\ h - 1 \in j..(k - 1) /\ h + 1 = q
      <4>1. q - 1 \in 1..n /\ q - 1 \in j..(k - 1) /\ q - 1 - 1 \in j..(k - 1) /\ q - 1 + 1 = q  BY <2>3
      <4> QED  BY <4>1
    <3>2. p[h] = p[j + 1]  BY <1>4, <2>3, <3>1
    <3>3. e[h] = t /\ e[h - 1] = t  BY <1>1, <3>1
    <3>4. l[h] = 0
      <4>1. PICK x \in Nat : x = l[h] /\ t = t + Samples * x  BY <1>0, <3>3
      <4>2. \A y \in Nat \ {0} : t # t + Samples * y
        <5> TAKE y \in Nat \ {0}
        <5>1. Samples * y \in Nat \ {0}
          <6>1. \A a, b \in Nat \ {0} : a * b \in Nat \ {0}  OBVIOUS
          <6> QED  BY <6>1, MorphAssumption
        <5> QED  BY <5>1
      <4> QED  BY <4>1, <4>2
    <3>5. p[q] = p[h]  BY <1>0, <3>1, <3>4
    <3> QED  BY <3>2, <3>5
  <2> QED  BY <2>1, <2>2, <2>3
<1>5. k \in S
  <2>1. k \in 0..k /\ k \in Nat  OBVIOUS
  <2> HIDE DEF S
  <2> QED  BY <1>3, <1>4, <2>1, Upwards
<1>6. p[k] = p[j + 1]  BY <1>5
<1>7. Place(p, l, e, k, t) = Samples * p[k]
  <2>1. e[k - 1] = t /\ l[k] > 0  BY <1>1 DEF OnEdge
  <2> QED  BY <2>1, PlaceAtEnds
<1> QED  BY <1>2, <1>6, <1>7

\* The same, whichever edge comes first.
LEMMA SamePlace ==
  ASSUME NEW n \in Nat, NEW p, NEW l, NEW e, Walk(n, p, l, e), NEW t \in Int,
         NEW j \in 1..n, NEW k \in 1..n, OnEdge(l, e, j, t), OnEdge(l, e, k, t)
  PROVE  Place(p, l, e, j, t) = Place(p, l, e, k, t)
<1>1. CASE j < k  BY <1>1, LaterEdge
<1>2. CASE k < j  BY <1>2, LaterEdge
<1>3. CASE j = k  BY <1>3
<1> QED  BY <1>1, <1>2, <1>3

\* On a way that goes back as it came, the place after t is the one with t
\* left to walk.
LEMMA WayBack ==
  ASSUME NEW n \in Nat, NEW p, NEW l, NEW e, Walk(n, p, l, e), NEW t \in Int, NEW k \in 1..n,
         \A q \in 1..(n + 1) : p[n + 2 - q] = p[q],
         \A q \in 1..n : l[n + 1 - q] = l[q],
         \A q \in 0..n : e[n - q] = e[n] - e[q],
         OnEdge(l, e, k, t)
  PROVE  OnEdge(l, e, n + 1 - k, e[n] - t) /\ Place(p, l, e, n + 1 - k, e[n] - t) = Place(p, l, e, k, t)
<1> DEFINE j == n + 1 - k
<1>1. j \in 1..n /\ j - 1 = n - k /\ j = n - (k - 1) /\ n + 2 - (k + 1) = j /\ n + 2 - k = j + 1  OBVIOUS
<1>2. e[j - 1] = e[n] - e[k] /\ e[j] = e[n] - e[k - 1]
  <2>1. k \in 0..n /\ k - 1 \in 0..n  OBVIOUS
  <2>2. e[n - k] = e[n] - e[k] /\ e[n - (k - 1)] = e[n] - e[k - 1]  BY <2>1
  <2> QED  BY <1>1, <2>2
<1>3. p[j] = p[k + 1] /\ p[j + 1] = p[k] /\ l[j] = l[k]
  <2>1. k + 1 \in 1..(n + 1) /\ k \in 1..(n + 1)  OBVIOUS
  <2>2. p[n + 2 - (k + 1)] = p[k + 1] /\ p[n + 2 - k] = p[k]  BY <2>1
  <2> QED  BY <1>1, <2>2
<1> HIDE DEF j
<1>4. e[n] \in Int /\ e[k] \in Int /\ e[k - 1] \in Int /\ p[k] \in Int /\ p[k + 1] \in Int
  <2>1. k \in 0..n /\ k - 1 \in 0..n /\ n \in 0..n /\ k \in 1..(n + 1) /\ k + 1 \in 1..(n + 1)  OBVIOUS
  <2> QED  BY <2>1 DEF Walk
<1>5. OnEdge(l, e, j, e[n] - t)  BY <1>2, <1>3, <1>4 DEF OnEdge
<1>6. Place(p, l, e, j, e[n] - t)
        = (((e[n] - e[k - 1]) - (e[n] - t)) * p[k + 1] + ((e[n] - t) - (e[n] - e[k])) * p[k]) \div l[k]
  BY <1>2, <1>3 DEF Place
<1>7. (e[n] - t) - (e[n] - e[k]) = e[k] - t /\ (e[n] - e[k - 1]) - (e[n] - t) = t - e[k - 1]  BY <1>4
<1>8. (t - e[k - 1]) * p[k + 1] + (e[k] - t) * p[k] = (e[k] - t) * p[k] + (t - e[k - 1]) * p[k + 1]
  <2>1. PICK x \in Int, y \in Int, z \in Int, w \in Int : x = e[k] /\ y = e[k - 1] /\ z = p[k] /\ w = p[k + 1]  BY <1>4
  <2>2. (t - y) * w \in Int /\ (x - t) * z \in Int  OBVIOUS
  <2>3. (t - y) * w + (x - t) * z = (x - t) * z + (t - y) * w  BY <2>2
  <2> QED  BY <2>1, <2>3
<1> QED  BY <1>5, <1>6, <1>7, <1>8 DEF Place, j

\* A loop that is the same both ways round encloses nothing.
LEMMA MirrorIsFlat ==
  ASSUME NEW r \in Loops, \A m \in 2..Samples : r[m] = r[Samples + 2 - m]
  PROVE  Area(r) = 0
<1> DEFINE v == Reverse(r)
           k == Samples - 1
<1>1. Samples \in Nat /\ Samples >= 1 /\ k \in 0..(Samples - 1)  BY LoopIs
<1>2. v \in Loops /\ \A m \in 1..Samples : Samples + 1 - m \in 1..Samples /\ v[m] = r[Samples + 1 - m]  BY ReversedIs
<1> HIDE DEF v
<1>3. ASSUME NEW m \in 1..Samples PROVE Rotated(v, k)[m] = r[m]
  <2>1. Round(m, k, Samples) \in 1..Samples /\ Rotated(v, k)[m] = v[Round(m, k, Samples)]  BY <1>1, <1>2, RotatedIs
  <2>2. CASE m = 1
    <3>1. Round(m, k, Samples) = Samples /\ Samples + 1 - Samples = 1  BY <1>1, <2>2 DEF Round
    <3>2. v[Samples] = r[1]  BY <1>2, <2>1, <3>1
    <3> QED  BY <2>1, <2>2, <3>1, <3>2
  <2>3. CASE m # 1
    <3>1. Round(m, k, Samples) = m - 1 /\ Samples + 1 - (m - 1) = Samples + 2 - m /\ m \in 2..Samples
      BY <1>1, <2>3 DEF Round
    <3>2. v[m - 1] = r[Samples + 2 - m]  BY <1>2, <2>1, <3>1
    <3> QED  BY <2>1, <3>1, <3>2
  <2> QED  BY <2>2, <2>3
<1>4. Rotated(v, k) = r  BY <1>1, <1>2, <1>3, RotatedIs, SameLoops
<1>5. Area(r) = Area(v)  BY <1>1, <1>2, <1>4, AreaOfRotated
<1>6. Area(v) = -Area(r)  BY AreaOfReversed DEF v
<1>7. Area(r) \in Int  BY AreaIsInt
<1> QED  BY <1>5, <1>6, <1>7

\* A path that goes back as it came.
CornerAt(c, k) == IF k = Len(c) + 1 THEN c[1] ELSE c[k]
Folded(c) ==
  /\ c \in Seq(Points) /\ Len(c) >= 2
  /\ \A k \in 2..Len(c) : c[Len(c) + 2 - k] = c[k]

\* The corners of a folded path, read from either end.
LEMMA FoldedIs ==
  ASSUME NEW c, Folded(c)
  PROVE  /\ Len(c) \in Nat /\ Len(c) >= 2 /\ DOMAIN c = 1..Len(c)
         /\ \A k \in 1..(Len(c) + 1) : /\ CornerAt(c, k) \in Points
                                       /\ CornerAt(c, k)[1] \in Int /\ CornerAt(c, k)[2] \in Int
                                       /\ CornerAt(c, Len(c) + 2 - k) = CornerAt(c, k)
         /\ \A k \in 1..Len(c) : Cyclic(c, k + 1) = CornerAt(c, k + 1) /\ c[k] = CornerAt(c, k)
<1> DEFINE n == Len(c)
<1>1. n \in Nat /\ n >= 2 /\ DOMAIN c = 1..n /\ \A k \in 1..n : c[k] \in Points  BY DEF Folded
<1>1a. \A k \in 2..n : c[n + 2 - k] = c[k]  BY DEF Folded
<1>2. ASSUME NEW k \in 1..(n + 1) PROVE CornerAt(c, k) \in Points /\ CornerAt(c, n + 2 - k) = CornerAt(c, k)
  <2> HIDE DEF n
  <2>1. CASE k = 1
    <3>1. n + 2 - k = n + 1 /\ k # n + 1  BY <1>1, <2>1
    <3> QED  BY <1>1, <2>1, <3>1 DEF CornerAt, n
  <2>2. CASE k = n + 1
    <3>1. n + 2 - k = 1 /\ 1 # n + 1  BY <1>1, <2>2
    <3> QED  BY <1>1, <2>2, <3>1 DEF CornerAt, n
  <2>3. CASE k # 1 /\ k # n + 1
    <3>1. k \in 2..n /\ n + 2 - k # n + 1 /\ k \in 1..n  BY <1>1, <2>3
    <3>2. c[n + 2 - k] = c[k]  BY <1>1a, <3>1
    <3> QED  BY <1>1, <2>3, <3>1, <3>2 DEF CornerAt, n
  <2> QED  BY <2>1, <2>2, <2>3
<1>3. ASSUME NEW k \in 1..n PROVE Cyclic(c, k + 1) = CornerAt(c, k + 1) /\ c[k] = CornerAt(c, k)
  <2> HIDE DEF n
  <2>0. k + 1 - 1 = k /\ k # n + 1  BY <1>1
  <2>1. CASE k = n
    <3>1. \A j \in Nat \ {0} : j % j = 0  OBVIOUS
    <3>2. k % n = 0  BY <1>1, <2>1, <3>1
    <3>3. ((k + 1 - 1) % n) + 1 = 1  BY <2>0, <3>2
    <3>4. Cyclic(c, k + 1) = c[1]  BY <3>3 DEF Cyclic, n
    <3>5. CornerAt(c, k + 1) = c[1]
      <4>1. k + 1 = n + 1  BY <2>1
      <4> QED  BY <4>1 DEF CornerAt, n
    <3> QED  BY <2>0, <3>4, <3>5 DEF CornerAt, n
  <2>2. CASE k # n
    <3>1. \A a, b \in Nat : a < b => a % b = a  OBVIOUS
    <3>2. k % n = k  BY <1>1, <2>2, <3>1
    <3>3. k + 1 # n + 1 /\ (k + 1 - 1) % n = k  BY <1>1, <2>0, <2>2, <3>2
    <3> QED  BY <2>0, <3>3 DEF Cyclic, CornerAt, n
  <2> QED  BY <2>1, <2>2
<1>4. \A p \in Points : p[1] \in Int /\ p[2] \in Int  BY PointIs
<1> QED  BY <1>1, <1>2, <1>3, <1>4

\* Its edges: as long on the way back as on the way there.
LEMMA FoldedEdges ==
  ASSUME NEW c, Folded(c), NEW k \in 1..Len(c)
  PROVE  /\ EdgeLength(c, k) \in Nat
         /\ EdgeLength(c, Len(c) + 1 - k) = EdgeLength(c, k)
         /\ EdgeLength(c, k) = 0 => \A a \in {1, 2} : CornerAt(c, k + 1)[a] = CornerAt(c, k)[a]
<1> DEFINE n == Len(c)
           x == CornerAt(c, k + 1)[1] - CornerAt(c, k)[1]
           y == CornerAt(c, k + 1)[2] - CornerAt(c, k)[2]
           j == n + 1 - k
<1>1. n \in Nat /\ k + 1 \in 1..(n + 1) /\ k \in 1..(n + 1) /\ j \in 1..n /\ n + 2 - (k + 1) = j /\ n + 2 - k = j + 1
  BY FoldedIs
<1>2. /\ CornerAt(c, k)[1] \in Int /\ CornerAt(c, k + 1)[1] \in Int
      /\ CornerAt(c, k)[2] \in Int /\ CornerAt(c, k + 1)[2] \in Int
      /\ CornerAt(c, j) = CornerAt(c, k + 1) /\ CornerAt(c, j + 1) = CornerAt(c, k)
      /\ Cyclic(c, k + 1) = CornerAt(c, k + 1) /\ c[k] = CornerAt(c, k)
      /\ Cyclic(c, j + 1) = CornerAt(c, j + 1) /\ c[j] = CornerAt(c, j)
  <2>1. CornerAt(c, n + 2 - (k + 1)) = CornerAt(c, k + 1)  BY <1>1, FoldedIs
  <2>2. CornerAt(c, n + 2 - k) = CornerAt(c, k)  BY <1>1, FoldedIs
  <2>3. PICK h, g : h = j /\ g = j + 1  OBVIOUS
  <2>4. h = n + 2 - (k + 1) /\ g = n + 2 - k  BY <1>1, <2>3
  <2>5. CornerAt(c, h) = CornerAt(c, k + 1) /\ CornerAt(c, g) = CornerAt(c, k)  BY <2>1, <2>2, <2>4
  <2>6. CornerAt(c, j) = CornerAt(c, k + 1) /\ CornerAt(c, j + 1) = CornerAt(c, k)  BY <2>3, <2>5
  <2> HIDE DEF j
  <2> QED  BY <1>1, <2>6, FoldedIs
<1>3. x \in Int /\ y \in Int  BY <1>2
<1>4. CornerAt(c, k)[1] - CornerAt(c, k + 1)[1] = 0 - x /\ CornerAt(c, k)[2] - CornerAt(c, k + 1)[2] = 0 - y  BY <1>2
<1>5. EdgeLength(c, k) = Hypot(x, y)  BY <1>2 DEF EdgeLength
<1>6. EdgeLength(c, j) = Hypot(0 - x, 0 - y)  BY <1>2, <1>4 DEF EdgeLength
<1>7. /\ x = 0 => CornerAt(c, k + 1)[1] = CornerAt(c, k)[1]
      /\ y = 0 => CornerAt(c, k + 1)[2] = CornerAt(c, k)[2]  BY <1>2, SMTT(30)
<1> HIDE DEF x, y, j
<1>8. /\ Hypot(x, y) \in Nat /\ Hypot(0 - x, 0 - y) = Hypot(x, y)
      /\ Hypot(x, y) = 0 => x = 0 /\ y = 0  BY <1>3, HypotIs
<1>9. EdgeLength(c, k) = 0 => \A a \in {1, 2} : CornerAt(c, k + 1)[a] = CornerAt(c, k)[a]  BY <1>5, <1>7, <1>8
<1> QED  BY <1>5, <1>6, <1>8, <1>9 DEF j

\* The sums of a list that reads the same from its end.
LEMMA MirrorSums ==
  ASSUME NEW s \in Seq(Nat), \A k \in 1..Len(s) : s[Len(s) + 1 - k] = s[k]
  PROVE  \A k \in 0..Len(s) : SumTo(s, Len(s) - k) = Total(s) - SumTo(s, k)
<1> DEFINE n == Len(s)
           p == [k \in 0..n |-> SumTo(s, k)]
           S == {k \in 0..n : p[n - k] = p[n] - p[k]}
<1>1. n \in Nat /\ s \in Seq(Int) /\ \A k \in 1..n : s[k] \in Nat  OBVIOUS
<1>2. /\ \A k \in 0..n : p[k] = SumTo(s, k) /\ p[k] \in Nat
      /\ \A k \in 1..n : p[k] = p[k - 1] + s[k]
      /\ p[0] = 0  BY <1>1, SumToIs, SumIsNat
<1>3. Total(s) = p[n]  BY <1>1, <1>2 DEF Total
<1>4. \A k \in 1..n : s[n + 1 - k] = s[k]  OBVIOUS
<1> HIDE DEF p, n
<1>5. 0 \in S  BY <1>1, <1>2
<1>6. ASSUME NEW k \in 1..n, k - 1 \in S PROVE k \in S
  <2>1. PICK j \in 1..n : j = n + 1 - k /\ j - 1 = n - k /\ n - (k - 1) = j
    <3>1. n + 1 - k \in 1..n /\ n + 1 - k - 1 = n - k /\ n - (k - 1) = n + 1 - k  BY <1>1
    <3> QED  BY <1>1, <3>1
  <2>2. p[j] = p[n - k] + s[k]
    <3>1. p[j] = p[j - 1] + s[j] /\ s[j] = s[k]  BY <1>2, <1>4, <2>1
    <3> QED  BY <2>1, <3>1
  <2>3. p[j] = p[n] - p[k - 1]  BY <1>6, <2>1
  <2>4. k \in 0..n /\ k - 1 \in 0..n /\ n \in 0..n /\ n - k \in 0..n  BY <1>1
  <2>5. p[k] = p[k - 1] + s[k] /\ s[k] \in Int /\ p[k] \in Int /\ p[k - 1] \in Int /\ p[n] \in Int /\ p[n - k] \in Int
    BY <1>1, <1>2, <2>4
  <2>6. p[n - k] = p[n] - p[k]
    <3> HIDE DEF S
    <3>1. PICK a \in Int, b \in Int, d \in Int, e \in Int, v \in Int :
                a = p[n - k] /\ b = p[n] /\ d = p[k] /\ e = p[k - 1] /\ v = s[k]  BY <2>5
    <3>2. a + v = b - e /\ d = e + v  BY <2>2, <2>3, <2>5, <3>1
    <3>3. a = b - d  BY <3>2
    <3> QED  BY <3>1, <3>3
  <2> QED  BY <2>4, <2>6
<1>7. \A k \in 0..n : k \in S
  <2> HIDE DEF S
  <2> QED  BY <1>1, <1>5, <1>6, Upwards
<1>8. \A k \in 0..n : p[n - k] = SumTo(s, n - k) /\ p[k] = SumTo(s, k)
  <2>1. \A k \in 0..n : n - k \in 0..n  BY <1>1
  <2> QED  BY <1>2, <2>1
<1> QED  BY <1>3, <1>7, <1>8 DEF n

(* A folded path along one axis. *)
AtCorner(c, a) == [k \in 1..(Len(c) + 1) |-> CornerAt(c, k)[a]]
Gone(c) == [k \in 0..Len(c) |-> Samples * SumTo(Lengths(c), k)]

\* The lengths of its edges, and their sums from either end.
LEMMA LengthsAre ==
  ASSUME NEW c, Folded(c)
  PROVE  /\ Lengths(c) \in Seq(Nat) /\ Len(Lengths(c)) = Len(c)
         /\ \A k \in 1..Len(c) : Lengths(c)[k] = EdgeLength(c, k)
         /\ SumTo(Lengths(c), 0) = 0
         /\ \A k \in 1..Len(c) : SumTo(Lengths(c), k) = SumTo(Lengths(c), k - 1) + EdgeLength(c, k)
         /\ \A k \in 0..Len(c) : /\ SumTo(Lengths(c), k) \in Nat
                                 /\ SumTo(Lengths(c), Len(c) - k) = Total(Lengths(c)) - SumTo(Lengths(c), k)
         /\ Total(Lengths(c)) = SumTo(Lengths(c), Len(c)) /\ Total(Lengths(c)) \in Nat
<1> DEFINE s == Lengths(c)
           n == Len(c)
<1>1. n \in Nat /\ DOMAIN c = 1..n  BY FoldedIs
<1>2. \A k \in 1..n : EdgeLength(c, k) \in Nat /\ EdgeLength(c, n + 1 - k) = EdgeLength(c, k)  BY <1>1, FoldedEdges
<1>3. s \in [1..n -> Nat] /\ \A k \in 1..n : s[k] = EdgeLength(c, k)  BY <1>1, <1>2 DEF Lengths
<1>4. s \in Seq(Nat) /\ Len(s) = n
  <2> HIDE DEF s, n
  <2> QED  BY <1>1, <1>3, ListIsSeq
<1> HIDE DEF s
<1>5. s \in Seq(Int)  BY <1>4
<1>6. \A k \in 1..n : s[n + 1 - k] = s[k]
  <2>1. \A k \in 1..n : n + 1 - k \in 1..n  BY <1>1
  <2> HIDE DEF n
  <2> QED  BY <1>2, <1>3, <2>1
<1>7. \A k \in 0..n : SumTo(s, k) \in Nat  BY <1>4, SumIsNat
<1>8. \A k \in 0..n : SumTo(s, n - k) = Total(s) - SumTo(s, k)
  <2>1. \A k \in 1..Len(s) : s[Len(s) + 1 - k] = s[k]  BY <1>4, <1>6
  <2>2. \A k \in 0..Len(s) : SumTo(s, Len(s) - k) = Total(s) - SumTo(s, k)  BY <1>4, <2>1, MirrorSums
  <2> QED  BY <1>4, <2>2
<1>9. SumTo(s, 0) = 0 /\ \A k \in 1..n : SumTo(s, k) = SumTo(s, k - 1) + s[k]  BY <1>4, <1>5, SumToIs
<1>10. Total(s) = SumTo(s, n) /\ Total(s) \in Nat  BY <1>4, TotalIsNat DEF Total
<1> HIDE DEF n
<1>11. \A k \in 1..n : SumTo(s, k) = SumTo(s, k - 1) + EdgeLength(c, k)  BY <1>3, <1>9
<1> QED  BY <1>3, <1>4, <1>7, <1>8, <1>9, <1>10, <1>11 DEF s, n

\* Along one axis it is a walk.
LEMMA FoldedWalk ==
  ASSUME NEW c, Folded(c), NEW a \in {1, 2}
  PROVE  Walk(Len(c), AtCorner(c, a), Lengths(c), Gone(c))
<1> DEFINE n == Len(c)
           p == AtCorner(c, a)
           l == Lengths(c)
           e == Gone(c)
<1>1. n \in Nat /\ Samples \in Nat  BY FoldedIs, MorphAssumption
<1>2. \A x, y \in Int : x * y \in Int  OBVIOUS
<1>3. \A k \in 1..(n + 1) : CornerAt(c, k)[a] \in Int
  <2>1. \A k \in 1..(n + 1) : CornerAt(c, k)[1] \in Int /\ CornerAt(c, k)[2] \in Int  BY FoldedIs
  <2> QED  BY <2>1
<1>4. p \in [1..(n + 1) -> Int] /\ \A k \in 1..(n + 1) : p[k] = CornerAt(c, k)[a]  BY <1>1, <1>3 DEF AtCorner
<1>5. l \in [1..n -> Nat] /\ \A k \in 1..n : l[k] = EdgeLength(c, k)
  <2>1. DOMAIN c = 1..n /\ \A k \in 1..n : EdgeLength(c, k) \in Nat  BY FoldedIs, FoldedEdges
  <2> QED  BY <2>1 DEF Lengths
<1>6. \A k \in 0..n : SumTo(l, k) \in Nat  BY LengthsAre
<1>7. e \in [0..n -> Int] /\ \A k \in 0..n : e[k] = Samples * SumTo(l, k)  BY <1>1, <1>2, <1>6 DEF Gone
<1>7a. \A k \in 1..n : SumTo(l, k) = SumTo(l, k - 1) + EdgeLength(c, k)  BY LengthsAre
<1> HIDE DEF n, p, l, e
<1>8. ASSUME NEW k \in 1..n PROVE e[k] = e[k - 1] + Samples * l[k] /\ (l[k] = 0 => p[k + 1] = p[k])
  <2>1. k - 1 \in 0..n /\ k \in 0..n /\ k \in 1..(n + 1) /\ k + 1 \in 1..(n + 1)  BY <1>1
  <2>2. PICK w \in Nat, v \in Nat, x \in Nat : w = SumTo(l, k - 1) /\ v = SumTo(l, k) /\ x = l[k]  BY <1>5, <1>6, <2>1
  <2>3. v = w + x  BY <1>5, <1>7a, <2>2
  <2>4. e[k] = Samples * v /\ e[k - 1] = Samples * w  BY <1>7, <2>1, <2>2
  <2>5. Samples * v = Samples * w + Samples * x  BY <1>1, <2>3
  <2>6. l[k] = 0 => p[k + 1] = p[k]
    <3>1. l[k] = 0 => CornerAt(c, k + 1)[a] = CornerAt(c, k)[a]  BY <1>5, FoldedEdges DEF n
    <3> QED  BY <1>4, <2>1, <3>1
  <2> QED  BY <2>2, <2>4, <2>5, <2>6
<1> QED  BY <1>4, <1>5, <1>7, <1>8 DEF Walk, n, p, l, e

\* And the way back is the way there, backwards.
LEMMA FoldedBack ==
  ASSUME NEW c, Folded(c), NEW a \in {1, 2}
  PROVE  /\ \A k \in 1..(Len(c) + 1) : AtCorner(c, a)[Len(c) + 2 - k] = AtCorner(c, a)[k]
         /\ \A k \in 1..Len(c) : Lengths(c)[Len(c) + 1 - k] = Lengths(c)[k]
         /\ \A k \in 0..Len(c) : Gone(c)[Len(c) - k] = Gone(c)[Len(c)] - Gone(c)[k]
<1> DEFINE n == Len(c)
<1>1. n \in Nat /\ Samples \in Nat /\ DOMAIN c = 1..n  BY FoldedIs, MorphAssumption
<1>2. ASSUME NEW k \in 1..(n + 1) PROVE AtCorner(c, a)[n + 2 - k] = AtCorner(c, a)[k]
  <2>1. n + 2 - k \in 1..(n + 1)  BY <1>1
  <2>2. CornerAt(c, n + 2 - k) = CornerAt(c, k)  BY FoldedIs
  <2> HIDE DEF n
  <2> QED  BY <2>1, <2>2 DEF AtCorner, n
<1>3. ASSUME NEW k \in 1..n PROVE Lengths(c)[n + 1 - k] = Lengths(c)[k]
  <2>1. n + 1 - k \in 1..n  BY <1>1
  <2>2. EdgeLength(c, n + 1 - k) = EdgeLength(c, k)  BY FoldedEdges
  <2> HIDE DEF n
  <2> QED  BY <1>1, <2>1, <2>2 DEF Lengths
<1>4. ASSUME NEW k \in 0..n PROVE Gone(c)[n - k] = Gone(c)[n] - Gone(c)[k]
  <2>1. n - k \in 0..n /\ n \in 0..n  BY <1>1
  <2>2. PICK v \in Nat, w \in Nat : v = SumTo(Lengths(c), n) /\ w = SumTo(Lengths(c), k)  BY <2>1, LengthsAre
  <2>3. SumTo(Lengths(c), n - k) = v - w  BY <2>2, LengthsAre
  <2>4. Samples * (v - w) = Samples * v - Samples * w  BY <1>1
  <2> QED  BY <2>1, <2>2, <2>3, <2>4 DEF Gone
<1> QED  BY <1>2, <1>3, <1>4

\* resampleClosed: a sample lies on the edge it is taken from.
LEMMA SampleOnEdge ==
  ASSUME NEW c, Folded(c), Edges(c) # {}, NEW m \in 1..Samples
  PROVE  /\ Min(Reaching(c, m)) \in 1..Len(c)
         /\ OnEdge(Lengths(c), Gone(c), Min(Reaching(c, m)), Total(Lengths(c)) * (m - 1))
<1> DEFINE n == Len(c)
           s == Lengths(c)
           t == Total(s) * (m - 1)
           e == Gone(c)
           k == Min(Reaching(c, m))
<1>1. n \in Nat /\ Samples \in Nat /\ DOMAIN c = 1..n  BY FoldedIs, MorphAssumption
<1>2. /\ s \in Seq(Nat) /\ Len(s) = n /\ DOMAIN s = 1..n /\ Total(s) \in Nat /\ SumTo(s, 0) = 0
      /\ \A j \in 1..n : s[j] = EdgeLength(c, j) /\ SumTo(s, j) = SumTo(s, j - 1) + EdgeLength(c, j)
      /\ \A j \in 0..n : SumTo(s, j) \in Nat
  <2>1. s \in Seq(Nat) /\ Len(s) = n  BY LengthsAre
  <2>2. DOMAIN s = 1..n  BY <2>1
  <2> QED  BY <2>1, <2>2, LengthsAre
<1>3. \A x, y \in Nat : x * y \in Nat  OBVIOUS
<1>4. t \in Nat
  <2>1. m - 1 \in Nat  BY <1>1
  <2> QED  BY <1>2, <1>3, <2>1
<1>5. \A j \in 0..n : e[j] = Samples * SumTo(s, j) /\ e[j] \in Nat  BY <1>1, <1>2, <1>3 DEF Gone
<1>6. Edges(c) = {j \in 1..n : s[j] > 0}  BY <1>1, <1>2 DEF Edges
<1>7. Reaching(c, m) = {j \in Edges(c) : e[j] >= t}
  <2>1. \A j \in Edges(c) : Samples * (SumTo(s, j - 1) + EdgeLength(c, j)) = e[j]
    <3> TAKE j \in Edges(c)
    <3>1. j \in 1..n /\ j \in 0..n  BY <1>1, <1>6
    <3>2. SumTo(s, j) = SumTo(s, j - 1) + EdgeLength(c, j)  BY <1>2, <3>1
    <3> HIDE DEF e, s
    <3> QED  BY <1>5, <3>1, <3>2
  <2> HIDE DEF e
  <2> QED  BY <2>1 DEF Reaching
<1>8. Reaching(c, m) # {}
  <2>1. {j \in DOMAIN s : s[j] > 0} # {}  BY <1>2, <1>6
  <2>2. PICK j \in {h \in DOMAIN s : s[h] > 0} : Samples * (SumTo(s, j - 1) + s[j]) >= Total(s) * (m - 1)
    <3> HIDE DEF s
    <3> QED  BY <1>2, <2>1, EdgeExists
  <2>3. j \in Edges(c) /\ s[j] = EdgeLength(c, j)  BY <1>2, <1>6, <2>2
  <2>4. j \in Reaching(c, m)  BY <2>2, <2>3 DEF Reaching
  <2> QED  BY <2>4
<1>9. k \in Reaching(c, m) /\ \A j \in Reaching(c, m) : k <= j
  <2>1. Reaching(c, m) \subseteq Nat  BY <1>1, <1>6, <1>7
  <2> QED  BY <1>8, <2>1, LeastElement
<1> HIDE DEF k, e, t
<1>10. k \in 1..n /\ k - 1 \in 0..n /\ t <= e[k]  BY <1>1, <1>4, <1>5, <1>6, <1>7, <1>9
<1>11. e[k - 1] <= t
  <2> SUFFICES ASSUME ~(e[k - 1] <= t) PROVE FALSE  OBVIOUS
  <2> DEFINE T == {j \in 0..n : e[j] > t}
             b == Min(T)
  <2>1. e[k - 1] > t /\ k - 1 \in T  BY <1>4, <1>5, <1>10
  <2>2. b \in T /\ \A j \in T : b <= j
    <3>1. T \subseteq Nat  BY <1>1
    <3> HIDE DEF T
    <3> QED  BY <2>1, <3>1, LeastElement
  <2> HIDE DEF b
  <2>3. b \in 0..n /\ e[b] > t /\ b <= k - 1  BY <2>1, <2>2
  <2>4. b # 0
    <3>1. 0 \in 0..n  BY <1>1
    <3>2. e[0] = 0  BY <1>1, <1>2, <1>5, <3>1
    <3> QED  BY <1>4, <2>3, <3>2
  <2>5. b \in 1..n /\ b - 1 \in 0..n /\ b - 1 < b  BY <1>1, <2>3, <2>4
  <2>6. e[b - 1] <= t  BY <1>4, <1>5, <2>2, <2>5
  <2>7. s[b] > 0
    <3>1. SumTo(s, b) = SumTo(s, b - 1) + s[b] /\ s[b] \in Nat /\ SumTo(s, b - 1) \in Nat  BY <1>2, <2>5
    <3>2. e[b] = Samples * SumTo(s, b) /\ e[b - 1] = Samples * SumTo(s, b - 1)  BY <1>5, <2>3, <2>5
    <3>3. SumTo(s, b) # SumTo(s, b - 1)
      <4>1. e[b] # e[b - 1]  BY <1>4, <1>5, <2>3, <2>5, <2>6
      <4> QED  BY <3>2, <4>1
    <3> QED  BY <3>1, <3>3
  <2>8. b \in Reaching(c, m)  BY <1>4, <1>5, <1>6, <1>7, <2>3, <2>5, <2>7
  <2>9. k <= b  BY <1>9, <2>8
  <2> QED  BY <1>1, <1>10, <2>3, <2>9
<1>12. s[k] > 0  BY <1>6, <1>7, <1>9
<1> HIDE DEF s
<1> QED  BY <1>10, <1>11, <1>12 DEF OnEdge, k, e, t, s

\* A sample is a place on its edge.
LEMMA SampleIsPlace ==
  ASSUME NEW c, Folded(c), NEW m \in 1..Samples, NEW k \in 1..Len(c), NEW a \in {1, 2}
  PROVE  SampleOn(c, m, k)[a] =
           Place(AtCorner(c, a), Lengths(c), Gone(c), k, Total(Lengths(c)) * (m - 1))
<1>1. Len(c) \in Nat /\ k \in 1..(Len(c) + 1) /\ k + 1 \in 1..(Len(c) + 1) /\ k - 1 \in 0..Len(c) /\ k \in 0..Len(c)
  BY FoldedIs
<1>2. c[k] = CornerAt(c, k) /\ Cyclic(c, k + 1) = CornerAt(c, k + 1)  BY FoldedIs
<1>3. /\ AtCorner(c, a)[k] = c[k][a] /\ AtCorner(c, a)[k + 1] = Cyclic(c, k + 1)[a]
      /\ Gone(c)[k - 1] = Samples * SumTo(Lengths(c), k - 1)
      /\ Gone(c)[k] = Samples * SumTo(Lengths(c), k)
      /\ Lengths(c)[k] = EdgeLength(c, k)  BY <1>1, <1>2, LengthsAre DEF AtCorner, Gone
<1>4. PICK t, v, w, x : t = Total(Lengths(c)) * (m - 1) /\ v = SumTo(Lengths(c), k - 1)
                        /\ w = SumTo(Lengths(c), k) /\ x = EdgeLength(c, k)  OBVIOUS
<1>5. t \in Int /\ v \in Nat /\ w \in Nat /\ x \in Nat /\ w = v + x /\ Samples \in Nat
  <2>1. Total(Lengths(c)) \in Nat /\ v \in Nat /\ w \in Nat /\ w = v + x  BY <1>1, <1>4, LengthsAre
  <2>2. \A y, z \in Int : y * z \in Int  OBVIOUS
  <2> QED  BY <1>4, <2>1, <2>2, FoldedEdges, MorphAssumption
<1>6. Samples * x - (t - Samples * v) = Samples * w - t
  <2>1. Samples * w = Samples * v + Samples * x /\ Samples * v \in Int /\ Samples * x \in Int
    <3>1. \A y, z \in Int : y * z \in Int  OBVIOUS
    <3> QED  BY <1>5, <3>1
  <2> QED  BY <1>5, <2>1
<1>7. SampleAlong(c, m, k, a) = ((Samples * x - (t - Samples * v)) * c[k][a] + (t - Samples * v) * Cyclic(c, k + 1)[a]) \div x
  BY <1>4 DEF SampleAlong, GoneOn
<1>8. Place(AtCorner(c, a), Lengths(c), Gone(c), k, t)
        = ((Samples * w - t) * c[k][a] + (t - Samples * v) * Cyclic(c, k + 1)[a]) \div x  BY <1>3, <1>4 DEF Place
<1>9. SampleOn(c, m, k)[a] = SampleAlong(c, m, k, a)  BY DEF SampleOn
<1> QED  BY <1>4, <1>6, <1>7, <1>8, <1>9

\* So are its samples.
LEMMA SamplesMirrored ==
  ASSUME NEW c, Folded(c), Edges(c) # {}, NEW m \in 2..Samples
  PROVE  SampleOn(c, m, Min(Reaching(c, m)))
           = SampleOn(c, Samples + 2 - m, Min(Reaching(c, Samples + 2 - m)))
<1> DEFINE n == Len(c)
           w == Samples + 2 - m
           T == Total(Lengths(c))
           k == Min(Reaching(c, m))
           j == Min(Reaching(c, w))
           e == Gone(c)
           l == Lengths(c)
<1>1. n \in Nat /\ Samples \in Nat /\ T \in Nat /\ n \in 0..n  BY FoldedIs, LengthsAre, MorphAssumption
<1>2. m \in 1..Samples /\ w \in 1..Samples /\ w - 1 = Samples - (m - 1) /\ m - 1 \in Int  BY <1>1
<1>3. k \in 1..n /\ OnEdge(l, e, k, T * (m - 1))  BY <1>2, SampleOnEdge
<1>4. j \in 1..n /\ OnEdge(l, e, j, T * (w - 1))  BY <1>2, SampleOnEdge
<1>5. e[n] = Samples * T  BY <1>1, LengthsAre DEF Gone
<1> HIDE DEF e, l, T, n, w, k, j
<1>6. T * (w - 1) = e[n] - T * (m - 1)
  <2>1. PICK x \in Int : x = m - 1  BY <1>2
  <2>2. T * (Samples - x) = Samples * T - T * x  BY <1>1
  <2> QED  BY <1>2, <1>5, <2>1, <2>2
<1>7. T * (m - 1) \in Int /\ T * (w - 1) \in Int
  <2>1. \A x, y \in Int : x * y \in Int  OBVIOUS
  <2>2. m - 1 \in Int /\ w - 1 \in Int  BY <1>1, <1>2
  <2> QED  BY <1>1, <2>1, <2>2
<1>8. ASSUME NEW a \in {1, 2} PROVE SampleOn(c, m, k)[a] = SampleOn(c, w, j)[a]
  <2> DEFINE p == AtCorner(c, a)
  <2>1. Walk(n, p, l, e)  BY FoldedWalk DEF n, e, l
  <2>2. /\ \A q \in 1..(n + 1) : p[n + 2 - q] = p[q]
        /\ \A q \in 1..n : l[n + 1 - q] = l[q]
        /\ \A q \in 0..n : e[n - q] = e[n] - e[q]  BY FoldedBack DEF n, e, l
  <2>3. SampleOn(c, m, k)[a] = Place(p, l, e, k, T * (m - 1))  BY <1>2, <1>3, SampleIsPlace DEF n, e, l, T
  <2>4. SampleOn(c, w, j)[a] = Place(p, l, e, j, T * (w - 1))  BY <1>2, <1>4, SampleIsPlace DEF n, e, l, T
  <2> HIDE DEF p
  <2>5. /\ OnEdge(l, e, n + 1 - k, T * (w - 1))
        /\ Place(p, l, e, n + 1 - k, T * (w - 1)) = Place(p, l, e, k, T * (m - 1))
    <3>1. /\ OnEdge(l, e, n + 1 - k, e[n] - T * (m - 1))
          /\ Place(p, l, e, n + 1 - k, e[n] - T * (m - 1)) = Place(p, l, e, k, T * (m - 1))
      BY <1>1, <1>3, <1>7, <2>1, <2>2, WayBack
    <3> QED  BY <1>6, <3>1
  <2>6. Place(p, l, e, n + 1 - k, T * (w - 1)) = Place(p, l, e, j, T * (w - 1))
    <3>1. PICK q \in 1..n : q = n + 1 - k
      <4>1. n + 1 - k \in 1..n  BY <1>1, <1>3
      <4> QED  BY <4>1
    <3>2. OnEdge(l, e, q, T * (w - 1))  BY <2>5, <3>1
    <3>3. Place(p, l, e, q, T * (w - 1)) = Place(p, l, e, j, T * (w - 1))  BY <1>1, <1>4, <1>7, <2>1, <3>2, SamePlace
    <3> QED  BY <3>1, <3>3
  <2> QED  BY <2>3, <2>4, <2>5, <2>6
<1>9. \A x, h : SampleOn(c, x, h) = <<SampleOn(c, x, h)[1], SampleOn(c, x, h)[2]>>  BY DEF SampleOn
<1>10. SampleOn(c, m, k)[1] = SampleOn(c, w, j)[1] /\ SampleOn(c, m, k)[2] = SampleOn(c, w, j)[2]  BY <1>8
<1>11. SampleOn(c, m, k) = SampleOn(c, w, j)  BY <1>9, <1>10
<1> QED  BY <1>11 DEF k, j, w

\* A folded path is morphed as a loop that encloses nothing.
LEMMA FoldedIsFlat ==
  ASSUME NEW c, Folded(c)
  PROVE  Area(ResampleClosed(c)) = 0
<1> DEFINE r == ResampleClosed(c)
           One(m) == IF Edges(c) = {} THEN Scaled(Samples, c[1]) ELSE SampleOn(c, m, Min(Reaching(c, m)))
<1>1. c \in Seq(Points) /\ Len(c) >= 1
  <2>1. c \in Seq(Points) /\ Len(c) >= 2  BY DEF Folded
  <2>2. Len(c) \in Nat  BY <2>1
  <2> QED  BY <2>1, <2>2
<1>2. r \in Loops  BY <1>1, ResampledIs
<1>3. r = [m \in 1..Samples |-> Scaled(Samples, One(m))]  BY ResampleIs
<1>4. ASSUME NEW m \in 2..Samples PROVE r[m] = r[Samples + 2 - m]
  <2>1. m \in 1..Samples /\ Samples + 2 - m \in 1..Samples  BY MorphAssumption
  <2>2. One(m) = One(Samples + 2 - m)
    <3>1. CASE Edges(c) = {}  BY <3>1
    <3>2. CASE Edges(c) # {}  BY <3>2, SamplesMirrored
    <3> QED  BY <3>1, <3>2
  <2> HIDE DEF One, r
  <2>3. r[m] = Scaled(Samples, One(m)) /\ r[Samples + 2 - m] = Scaled(Samples, One(Samples + 2 - m))  BY <1>3, <2>1
  <2> QED  BY <2>2, <2>3
<1> HIDE DEF r
<1>5. Area(r) = 0  BY <1>2, <1>4, MirrorIsFlat
<1> QED  BY <1>5 DEF r

\* Two lists, one after the other.
LEMMA TwoInARow ==
  ASSUME NEW V, NEW s \in Seq(V), NEW t \in Seq(V)
  PROVE  /\ s \o t \in Seq(V) /\ Len(s \o t) = Len(s) + Len(t)
         /\ \A k \in 1..Len(s) : (s \o t)[k] = s[k]
         /\ \A k \in 1..Len(t) : (s \o t)[Len(s) + k] = t[k]
OBVIOUS

\* thereAndBack folds an open path.
LEMMA ThereAndBackFolds ==
  ASSUME NEW ps \in Seq(Points), Len(ps) >= 2
  PROVE  Folded(ThereAndBack(ps))
<1> DEFINE n == Len(ps)
           back == [k \in 1..(n - 2) |-> ps[n - k]]
           c == ThereAndBack(ps)
           N == n + (n - 2)
<1>1. n \in Nat /\ n >= 2 /\ n - 2 \in Nat /\ \A k \in 1..n : ps[k] \in Points  OBVIOUS
<1>2. back \in [1..(n - 2) -> Points] /\ \A k \in 1..(n - 2) : back[k] = ps[n - k]
  <2>1. \A k \in 1..(n - 2) : n - k \in 1..n  BY <1>1
  <2> HIDE DEF n
  <2> QED  BY <1>1, <2>1
<1>3. back \in Seq(Points) /\ Len(back) = n - 2
  <2> HIDE DEF back, n
  <2> QED  BY <1>1, <1>2, ListIsSeq
<1>4. c = ps \o back  BY <1>1 DEF ThereAndBack
<1> HIDE DEF back, c
<1>5. /\ c \in Seq(Points) /\ Len(c) = N
      /\ \A k \in 1..n : c[k] = ps[k]
      /\ \A k \in 1..(n - 2) : c[n + k] = back[k]
  <2> HIDE DEF n
  <2>1. ps \in Seq(Points) /\ back \in Seq(Points)  BY <1>3
  <2>2. ps \o back \in Seq(Points) /\ Len(ps \o back) = Len(ps) + Len(back)  BY <2>1, TwoInARow
  <2>3. \A k \in 1..Len(ps) : (ps \o back)[k] = ps[k]  BY <2>1, TwoInARow
  <2>4. \A k \in 1..Len(back) : (ps \o back)[Len(ps) + k] = back[k]  BY <2>1, TwoInARow
  <2> QED  BY <1>3, <1>4, <2>2, <2>3, <2>4 DEF n
<1> HIDE DEF n
\* The way there, and the corner on the way back that faces it.
<1>7. ASSUME NEW k \in 2..n
      PROVE  CornerAt(c, N + 2 - k) = ps[k] /\ CornerAt(c, k) = ps[k] /\ (k # n => c[N + 2 - k] = ps[k])
  <2>1. CASE k = n
    <3>2. N + 2 - k = n /\ n \in 1..n /\ n < N + 1  BY <1>1, <2>1
    <3>3. n # N + 1  BY <1>1, <3>2
    <3>4. CornerAt(c, n) = c[n]  BY <1>5, <3>3 DEF CornerAt
    <3>5. CornerAt(c, N + 2 - k) = c[n]  BY <3>2, <3>4
    <3> QED  BY <1>5, <2>1, <3>2, <3>4, <3>5
  <2>2. CASE k # n
    <3>1. PICK h \in 1..(n - 2) : h = n - k
      <4>1. n - k \in 1..(n - 2)  BY <1>1, <2>2
      <4> QED  BY <4>1
    <3>2. N + 2 - k = n + h /\ n - h = k /\ n + h # N + 1 /\ k # N + 1 /\ k \in 1..n  BY <1>1, <3>1
    <3>3. c[n + h] = ps[k]
      <4>1. c[n + h] = back[h] /\ back[h] = ps[n - h]  BY <1>2, <1>5
      <4> QED  BY <3>2, <4>1
    <3>4. CornerAt(c, n + h) = c[n + h] /\ CornerAt(c, k) = c[k]  BY <1>5, <3>2 DEF CornerAt
    <3>5. c[N + 2 - k] = c[n + h] /\ CornerAt(c, N + 2 - k) = CornerAt(c, n + h)  BY <3>2
    <3> QED  BY <1>5, <3>2, <3>3, <3>4, <3>5
  <2> QED  BY <2>1, <2>2
<1>9. ASSUME NEW k \in 2..N PROVE c[N + 2 - k] = c[k]
  <2>1. CASE k = n
    <3>1. N + 2 - k = k  BY <1>1, <2>1
    <3> QED  BY <3>1
  <2>2. CASE k < n
    <3>1. k \in 2..n /\ k \in 1..n /\ k # n  BY <1>1, <2>2
    <3> QED  BY <1>5, <1>7, <3>1
  <2>3. CASE k > n
    <3>1. PICK h \in 2..n : h = N + 2 - k /\ h # n /\ k = N + 2 - h
      <4>1. N + 2 - k \in 2..n /\ N + 2 - k # n /\ k = N + 2 - (N + 2 - k)  BY <1>1, <2>3
      <4> QED  BY <4>1
    <3>2. c[N + 2 - h] = ps[h] /\ c[h] = ps[h]
      <4>1. h \in 1..n  BY <1>1
      <4> QED  BY <1>5, <1>7, <3>1, <4>1
    <3> QED  BY <3>1, <3>2
  <2> QED  BY <1>1, <2>1, <2>2, <2>3
<1>10. N >= 2  BY <1>1
<1> QED  BY <1>5, <1>9, <1>10 DEF Folded, c

\* The open path a text is morphed with.
LEMMA OpenPathFolds ==
  ASSUME work \in Works, work.partner # <<>>, Partner.kind = "path", ~Partner.closed,
         MorphLoops(Partner) # <<>>
  PROVE  Folded(MorphLoops(Partner)[1])
<1> DEFINE ps == Partner.contours[1]
<1>1. Partner.contours \in Seq(Seq(Points)) /\ Len(Partner.contours) = 1  BY PartnerIs DEF Outlines
<1>2. ps \in Seq(Points) /\ Len(ps) \in Nat  BY <1>1
<1> HIDE DEF Partner
<1>3. Len(ps) >= 2
  <2> SUFFICES ASSUME Len(ps) < 2 PROVE FALSE  BY <1>2
  <2>1. MorphLoops(Partner) = <<>>  BY DEF MorphLoops
  <2> QED  BY <2>1
<1>4. MorphLoops(Partner) = <<ThereAndBack(ps)>>
  <2>1. ~(Len(ps) < 2)  BY <1>2, <1>3
  <2> QED  BY <1>3, <2>1 DEF MorphLoops
<1> HIDE DEF ps
<1> QED  BY <1>2, <1>3, <1>4, ThereAndBackFolds

\* The loop of an open path encloses nothing, from the start of the morph.
FlatInv ==
  morph = "match" /\ Partner.kind = "path" /\ ~Partner.closed =>
    Area((IF work.textFirst THEN dstLoops ELSE srcLoops)[1]) = 0

\* Every step keeps FlatInv.
LEMMA FlatNext ==
  ASSUME MorphInv, FlatInv, [Reading \/ Morph \/ Rest]_vars
  PROVE  FlatInv'
<1>1. CASE UNCHANGED <<work, morph, srcLoops, dstLoops>>
  <2>1. Partner' = Partner  BY <1>1 DEF Partner
  <2> HIDE DEF Partner
  <2> QED  BY <1>1, <2>1 DEF FlatInv, Partner
<1>2. CASE StartMorph
  <2>1. SUFFICES ASSUME morph' = "match", Partner.kind = "path", ~Partner.closed
                 PROVE  Area((IF work.textFirst THEN dstLoops' ELSE srcLoops')[1]) = 0
    <3>1. work' = work  BY <1>2 DEF StartMorph
    <3>2. Partner' = Partner  BY <3>1 DEF Partner
    <3> QED  BY <3>1, <3>2 DEF FlatInv
  <2>2. /\ work.partner # <<>> /\ MorphLoops(Source) # <<>> /\ MorphLoops(Target) # <<>>
        /\ srcLoops' = [k \in DOMAIN MorphLoops(Source) |-> ResampleClosed(MorphLoops(Source)[k])]
        /\ dstLoops' = [k \in DOMAIN MorphLoops(Target) |-> ResampleClosed(MorphLoops(Target)[k])]
    BY <1>2, <2>1 DEF StartMorph
  <2> DEFINE ls == MorphLoops(Partner)
             rs == IF work.textFirst THEN dstLoops' ELSE srcLoops'
  <2>3. ls # <<>> /\ rs = [k \in DOMAIN ls |-> ResampleClosed(ls[k])]
    <3>1. CASE work.textFirst  BY <2>2, <3>1 DEF Target
    <3>2. CASE ~work.textFirst  BY <2>2, <3>2 DEF Source
    <3> QED  BY <3>1, <3>2
  <2>4. Folded(ls[1])  BY <2>1, <2>2, <2>3, OpenPathFolds DEF MorphInv
  <2>5. 1 \in DOMAIN ls
    <3>1. ls \in Seq({c \in Seq(Points) : Len(c) >= 1})  BY <2>2, SidesAre DEF Source, Target
    <3> HIDE DEF ls
    <3>2. Len(ls) \in Nat /\ Len(ls) # 0 /\ DOMAIN ls = 1..Len(ls)  BY <2>3, <3>1
    <3> QED  BY <3>2
  <2> HIDE DEF ls, rs
  <2>6. rs[1] = ResampleClosed(ls[1])  BY <2>3, <2>5
  <2>7. Area(rs[1]) = 0  BY <2>4, <2>6, FoldedIsFlat
  <2> QED  BY <2>7 DEF rs
<1>3. CASE MorphOver
  <2>1. morph' = "over"  BY <1>3 DEF MorphOver
  <2> QED  BY <2>1 DEF FlatInv
<1>4. Reading \/ Rest \/ Pair \/ Grow \/ Frame => UNCHANGED <<work, morph, srcLoops, dstLoops>>
  BY DEF Reading, Rest, vars, morphVars, Pair, Grow, Frame
<1>5. UNCHANGED vars => UNCHANGED <<work, morph, srcLoops, dstLoops>>  BY DEF vars, morphVars
<1> QED  BY <1>1, <1>2, <1>3, <1>4, <1>5 DEF Morph

\* The second: the loop of an open path.
LEMMA OpenPathsAreFlat == Spec => []OpenPathsStayFlat
<1>1. Init => FlatInv  BY DEF Init, FlatInv
<1>2. FlatInv => OpenPathsStayFlat  BY DEF FlatInv, OpenPathsStayFlat, Matched
<1> QED  BY <1>1, <1>2, MorphStarts, MorphNext, FlatNext, PTL DEF Spec

\* matchLoops, lerpLoops and thereAndBack: for any documents, shapes and texts,
\* with any corners and any number of loops on either side, and any number of
\* points and frames, every loop of either side travels once, a loop without a
\* partner keeps its centroid in every frame, and the loop of an open path
\* encloses nothing.
THEOREM EveryLoopDoes == Spec => []EveryLoopTravels
BY LoopsDoTravel, OpenPathsAreFlat, PTL DEF EveryLoopTravels

(* What a path says: tokens to segments, segments to points. *)
Names == {"", "L", "Z"} \cup STRING
Commands == [cmd : Names, rel : BOOLEAN, num : Int]
Segments == [c : Names, rel : BOOLEAN, xs : Seq(Int)]
SplitState == [by : Commands, xs : Seq(Int), odd : BOOLEAN, segs : Seq(Segments)]
Gap == [c |-> "Z", rel |-> FALSE, xs |-> <<>>]

\* The parts of a splitting.
LEMMA SplitParts ==
  ASSUME NEW s \in SplitState
  PROVE  /\ s.by \in Commands /\ s.xs \in Seq(Int) /\ s.odd \in BOOLEAN /\ s.segs \in Seq(Segments)
         /\ s = [by |-> s.by, xs |-> s.xs, odd |-> s.odd, segs |-> s.segs]
         /\ s.by.cmd \in Names /\ s.by.rel \in BOOLEAN /\ s.by.num \in Int
         /\ s.by = [cmd |-> s.by.cmd, rel |-> s.by.rel, num |-> s.by.num]
<1>1. /\ s.by \in Commands /\ s.xs \in Seq(Int) /\ s.odd \in BOOLEAN /\ s.segs \in Seq(Segments)
      /\ s = [by |-> s.by, xs |-> s.xs, odd |-> s.odd, segs |-> s.segs]  BY DEF SplitState
<1> DEFINE b == s.by
<1>2. b \in Commands  BY <1>1
<1> HIDE DEF b
<1>3. b.cmd \in Names /\ b.rel \in BOOLEAN /\ b.num \in Int /\ b = [cmd |-> b.cmd, rel |-> b.rel, num |-> b.num]
  BY <1>2 DEF Commands
<1> QED  BY <1>1, <1>3 DEF b

\* A token can be the command in force.
LEMMA TokensAreCommands == Tokens \subseteq Commands
BY DEF Tokens, Commands, Names

\* What is made of the parts.
LEMMA SplitMade ==
  ASSUME NEW by \in Commands, NEW xs \in Seq(Int), NEW odd \in BOOLEAN, NEW segs \in Seq(Segments)
  PROVE  [by |-> by, xs |-> xs, odd |-> odd, segs |-> segs] \in SplitState
BY DEF SplitState

\* A command with its operands is a segment, and so is the gap that Z leaves.
LEMMA SegmentMade ==
  /\ \A c \in Names, rel \in BOOLEAN, xs \in Seq(Int) : [c |-> c, rel |-> rel, xs |-> xs] \in Segments
  /\ Gap \in Segments
<1>1. \A c \in Names, rel \in BOOLEAN, xs \in Seq(Int) : [c |-> c, rel |-> rel, xs |-> xs] \in Segments
  BY DEF Segments
<1>2. "Z" \in Names  BY DEF Names
<1>3. FALSE \in BOOLEAN /\ <<>> \in Seq(Int)  OBVIOUS
<1> QED  BY <1>1, <1>2, <1>3 DEF Gap

\* A command comes into force; Z is a segment by itself.
LEMMA TokenCommands ==
  ASSUME NEW s \in SplitState, NEW tok \in Tokens, ~IsNumber(tok)
  PROVE  /\ WithToken(s, tok) \in SplitState
         /\ WithToken(s, tok).by = tok /\ WithToken(s, tok).xs = s.xs
         /\ WithToken(s, tok).odd = (s.odd \/ s.xs # <<>>)
         /\ WithToken(s, tok).segs = IF tok.cmd = "Z" THEN Append(s.segs, Gap) ELSE s.segs
<1> DEFINE segs == IF tok.cmd = "Z" THEN Append(s.segs, Gap) ELSE s.segs
           odd == s.odd \/ s.xs # <<>>
           w == [by |-> tok, xs |-> s.xs, odd |-> odd, segs |-> segs]
<1>1. WithToken(s, tok) = w
  <2>1. s = [by |-> s.by, xs |-> s.xs, odd |-> s.odd, segs |-> s.segs]  BY SplitParts
  <2> QED  BY <2>1 DEF WithToken, Gap
<1>2. segs \in Seq(Segments)
  <2>1. s.segs \in Seq(Segments) /\ Gap \in Segments  BY SplitParts, SegmentMade
  <2> QED  BY <2>1
<1>3. odd \in BOOLEAN  BY SplitParts
<1>4. w.by = tok /\ w.xs = s.xs /\ w.odd = odd /\ w.segs = segs  OBVIOUS
<1>5. w \in SplitState
  <2> HIDE DEF segs, odd
  <2> QED  BY <1>2, <1>3, SplitParts, SplitMade, TokensAreCommands
<1> HIDE DEF w
<1> QED  BY <1>1, <1>4, <1>5

\* A number waits for those it belongs with.
LEMMA TokenWaits ==
  ASSUME NEW s \in SplitState, NEW tok \in Tokens, IsNumber(tok), Len(s.xs) + 1 < Arity(s.by.cmd)
  PROVE  /\ WithToken(s, tok) \in SplitState
         /\ WithToken(s, tok).by = s.by /\ WithToken(s, tok).xs = Append(s.xs, tok.num)
         /\ WithToken(s, tok).odd = s.odd /\ WithToken(s, tok).segs = s.segs
<1> DEFINE xs == Append(s.xs, tok.num)
           w == [by |-> s.by, xs |-> xs, odd |-> s.odd, segs |-> s.segs]
<1>1. WithToken(s, tok) = w
  <2>1. s = [by |-> s.by, xs |-> s.xs, odd |-> s.odd, segs |-> s.segs]  BY SplitParts
  <2> QED  BY <2>1 DEF WithToken
<1>2. xs \in Seq(Int)
  <2>1. s.xs \in Seq(Int) /\ tok.num \in Int  BY SplitParts DEF Tokens
  <2> QED  BY <2>1
<1>3. w.by = s.by /\ w.xs = xs /\ w.odd = s.odd /\ w.segs = s.segs  OBVIOUS
<1>4. w \in SplitState
  <2> HIDE DEF xs
  <2> QED  BY <1>2, SplitParts, SplitMade
<1> HIDE DEF w
<1> QED  BY <1>1, <1>3, <1>4

\* The last of them completes a segment; after an M they are those of an L.
LEMMA TokenCompletes ==
  ASSUME NEW s \in SplitState, NEW tok \in Tokens, IsNumber(tok), ~(Len(s.xs) + 1 < Arity(s.by.cmd))
  PROVE  /\ WithToken(s, tok) \in SplitState
         /\ WithToken(s, tok).by.cmd = (IF s.by.cmd = "M" THEN "L" ELSE s.by.cmd)
         /\ WithToken(s, tok).by.rel = s.by.rel /\ WithToken(s, tok).xs = <<>>
         /\ WithToken(s, tok).odd = (s.odd \/ Arity(s.by.cmd) = 0)
         /\ WithToken(s, tok).segs =
              Append(s.segs, [c |-> s.by.cmd, rel |-> s.by.rel, xs |-> Append(s.xs, tok.num)])
<1> DEFINE cmd1 == IF s.by.cmd = "M" THEN "L" ELSE s.by.cmd
           by == [cmd |-> cmd1, rel |-> s.by.rel, num |-> s.by.num]
           odd == s.odd \/ Arity(s.by.cmd) = 0
           seg == [c |-> s.by.cmd, rel |-> s.by.rel, xs |-> Append(s.xs, tok.num)]
           w == [by |-> by, xs |-> <<>>, odd |-> odd, segs |-> Append(s.segs, seg)]
<1>1. WithToken(s, tok) = w
  <2>1. s = [by |-> s.by, xs |-> s.xs, odd |-> s.odd, segs |-> s.segs]
        /\ s.by = [cmd |-> s.by.cmd, rel |-> s.by.rel, num |-> s.by.num]  BY SplitParts
  <2>2. [s.by EXCEPT !.cmd = cmd1] = by  BY <2>1
  <2>3. WithToken(s, tok) = [s EXCEPT !.xs = <<>>, !.odd = odd, !.segs = Append(s.segs, seg), !.by = [s.by EXCEPT !.cmd = cmd1]]
    BY <2>1 DEF WithToken
  <2> HIDE DEF by, odd, seg
  <2> QED  BY <2>1, <2>2, <2>3
<1>2. by \in Commands
  <2>1. "L" \in Names  BY DEF Names
  <2>2. cmd1 \in Names /\ s.by.rel \in BOOLEAN /\ s.by.num \in Int  BY <2>1, SplitParts
  <2> HIDE DEF cmd1
  <2> QED  BY <2>2 DEF Commands
<1>3. seg \in Segments
  <2>1. s.xs \in Seq(Int) /\ tok.num \in Int  BY SplitParts DEF Tokens
  <2>2. Append(s.xs, tok.num) \in Seq(Int)  BY <2>1
  <2> QED  BY <2>2, SplitParts, SegmentMade
<1>4. Append(s.segs, seg) \in Seq(Segments)
  <2>1. s.segs \in Seq(Segments)  BY SplitParts
  <2> HIDE DEF seg
  <2> QED  BY <1>3, <2>1
<1>5. w.by = by /\ w.xs = <<>> /\ w.odd = odd /\ w.segs = Append(s.segs, seg)  OBVIOUS
<1>6. by.cmd = cmd1 /\ by.rel = s.by.rel  OBVIOUS
<1>7. odd \in BOOLEAN /\ <<>> \in Seq(Int)  BY SplitParts
<1>8. w \in SplitState
  <2> HIDE DEF by, odd, seg
  <2> QED  BY <1>2, <1>4, <1>7, SplitMade
<1> HIDE DEF w, by
<1> QED  BY <1>1, <1>5, <1>6, <1>8

\* Any token leaves a splitting.
LEMMA TokenIs ==
  ASSUME NEW s \in SplitState, NEW tok \in Tokens
  PROVE  WithToken(s, tok) \in SplitState
BY TokenCommands, TokenWaits, TokenCompletes

\* Every prefix of a path is split.
LEMMA SplitsAre ==
  ASSUME NEW d \in Seq(Tokens)
  PROVE  /\ Splits(d) \in [0..Len(d) -> SplitState] /\ Splits(d)[0] = Unread
         /\ \A k \in 1..Len(d) : Splits(d)[k] = WithToken(Splits(d)[k - 1], d[k])
<1> DEFINE n == Len(d)
           Is(f) == f = [k \in 0..n |-> IF k = 0 THEN Unread ELSE WithToken(f[k - 1], d[k])]
           split == CHOOSE f : Is(f)
           Reading1 == [ks \in (1..n) \X SplitState |-> WithToken(ks[2], d[ks[1]])]
<1>0. n \in Nat /\ \A k \in 1..n : d[k] \in Tokens  OBVIOUS
<1>1. Splits(d) = split  BY DEF Splits
<1> HIDE DEF n
<1>2. Unread \in SplitState
  <2>1. <<>> \in Seq(Int) /\ <<>> \in Seq(Segments)  OBVIOUS
  <2> QED  BY <2>1, StartIs, TokensAreCommands DEF Unread, SplitState
<1>3. PICK r \in [0..n -> SplitState] : Repeated(r, n, Unread, Reading1)
  <2>1. Reading1 \in [(1..n) \X SplitState -> SplitState]  BY <1>0, TokenIs
  <2> HIDE DEF Reading1
  <2> QED  BY <1>0, <1>2, <2>1, RepeatedExists
<1>4. r[0] = Unread /\ \A k \in 1..n : r[k] = WithToken(r[k - 1], d[k])
  <2>1. ASSUME NEW k \in 1..n PROVE r[k] = WithToken(r[k - 1], d[k])
    <3>1. k - 1 \in 0..n /\ r[k - 1] \in SplitState  BY <1>0
    <3>2. r[k] = Reading1[<<k, r[k - 1]>>]  BY <1>3 DEF Repeated
    <3>3. Reading1[<<k, r[k - 1]>>] = WithToken(r[k - 1], d[k])  BY <3>1
    <3> QED  BY <3>2, <3>3
  <2> QED  BY <1>3, <2>1 DEF Repeated
<1>5. Is(r)
  <2>1. \A k \in 0..n : r[k] = IF k = 0 THEN Unread ELSE WithToken(r[k - 1], d[k])
    <3>1. \A k \in 0..n : k # 0 => k \in 1..n  BY <1>0
    <3> QED  BY <1>4, <3>1
  <2> QED  BY <2>1
<1>6. Is(split)
  <2> HIDE DEF Is
  <2> QED  BY <1>5
<1> HIDE DEF split
<1>7. split[0] = Unread /\ \A k \in 1..n : split[k] = WithToken(split[k - 1], d[k])
  <2>1. 0 \in 0..n /\ \A k \in 1..n : k \in 0..n /\ k # 0  BY <1>0
  <2> QED  BY <1>6, <2>1
<1>8. split = [k \in 0..n |-> split[k]]
  <2>1. DOMAIN split = 0..n  BY <1>6
  <2> HIDE DEF Is
  <2>2. \E b : split = [k \in 0..n |-> b[k]]  BY <1>6 DEF Is
  <2> QED  BY <2>1, <2>2
<1>9. \A k \in 0..n : split[k] \in SplitState
  <2> DEFINE T == {k \in 0..n : split[k] \in SplitState}
  <2>1. 0 \in T  BY <1>0, <1>2, <1>7
  <2>2. ASSUME NEW k \in 1..n, k - 1 \in T PROVE k \in T
    <3>1. k \in 0..n /\ split[k] = WithToken(split[k - 1], d[k]) /\ d[k] \in Tokens  BY <1>0, <1>7
    <3> QED  BY <2>2, <3>1, TokenIs
  <2>3. \A k \in 0..n : k \in T
    <3> HIDE DEF T
    <3> QED  BY <1>0, <2>1, <2>2, Upwards
  <2> QED  BY <2>3
<1> HIDE DEF Is
<1> QED  BY <1>1, <1>7, <1>8, <1>9 DEF n

\* A token leaves the segments before it alone.
LEMMA TokenGrows ==
  ASSUME NEW s \in SplitState, NEW tok \in Tokens
  PROVE  LET w == WithToken(s, tok)
         IN  /\ Len(s.segs) <= Len(w.segs) /\ \A j \in 1..Len(s.segs) : w.segs[j] = s.segs[j]
             /\ s.odd => w.odd
<1> DEFINE w == WithToken(s, tok)
<1>1. s.segs \in Seq(Segments)  BY SplitParts
<1>2. (s.odd => w.odd) /\ (w.segs = s.segs \/ \E x \in Segments : w.segs = Append(s.segs, x))
  <2>1. CASE ~IsNumber(tok)
    <3>1. (s.odd => w.odd) /\ (w.segs = s.segs \/ w.segs = Append(s.segs, Gap))  BY <2>1, TokenCommands
    <3> HIDE DEF w
    <3> QED  BY <3>1, SegmentMade
  <2>2. CASE IsNumber(tok) /\ Len(s.xs) + 1 < Arity(s.by.cmd)  BY <2>2, TokenWaits
  <2>3. CASE IsNumber(tok) /\ ~(Len(s.xs) + 1 < Arity(s.by.cmd))
    <3> DEFINE seg == [c |-> s.by.cmd, rel |-> s.by.rel, xs |-> Append(s.xs, tok.num)]
    <3>1. (s.odd => w.odd) /\ w.segs = Append(s.segs, seg)  BY <2>3, TokenCompletes
    <3>2. seg \in Segments
      <4>1. s.xs \in Seq(Int) /\ tok.num \in Int  BY SplitParts DEF Tokens
      <4>2. Append(s.xs, tok.num) \in Seq(Int)  BY <4>1
      <4> QED  BY <4>2, SplitParts, SegmentMade
    <3> HIDE DEF w, seg
    <3> QED  BY <3>1, <3>2
  <2> QED  BY <2>1, <2>2, <2>3
<1> HIDE DEF w
<1>3. Len(s.segs) <= Len(w.segs) /\ \A j \in 1..Len(s.segs) : w.segs[j] = s.segs[j]  BY <1>1, <1>2
<1> QED  BY <1>2, <1>3 DEF w

\* So the segments of a part of a path are the first segments of the path.
LEMMA SplitGrows ==
  ASSUME NEW d \in Seq(Tokens), NEW k \in 0..Len(d), NEW m \in k..Len(d)
  PROVE  /\ Len(Splits(d)[k].segs) <= Len(Splits(d)[m].segs)
         /\ \A j \in 1..Len(Splits(d)[k].segs) : Splits(d)[m].segs[j] = Splits(d)[k].segs[j]
         /\ Splits(d)[k].odd => Splits(d)[m].odd
<1> DEFINE S == Splits(d)
           n == Len(d)
           P(x) == /\ Len(S[k].segs) <= Len(S[x].segs)
                   /\ \A j \in 1..Len(S[k].segs) : S[x].segs[j] = S[k].segs[j]
                   /\ S[k].odd => S[x].odd
           T == {x \in 0..n : x < k \/ P(x)}
<1>1. n \in Nat /\ k \in 0..n /\ m \in 0..n /\ k <= m /\ \A x \in 1..n : d[x] \in Tokens  OBVIOUS
<1>2. S \in [0..n -> SplitState] /\ \A x \in 1..n : S[x] = WithToken(S[x - 1], d[x])  BY SplitsAre
<1> HIDE DEF S, n
<1>3. \A x \in 0..n : S[x].segs \in Seq(Segments)  BY <1>2, SplitParts
<1>4. P(k)
  <2>1. Len(S[k].segs) \in Nat  BY <1>1, <1>3
  <2> QED  BY <2>1
<1>5. 0 \in T
  <2>1. 0 \in 0..n /\ (0 < k \/ k = 0)  BY <1>1
  <2> QED  BY <1>4, <2>1
<1>6. ASSUME NEW x \in 1..n, x - 1 \in T PROVE x \in T
  <2>1. x \in 0..n /\ x - 1 \in 0..n /\ (x < k \/ x = k \/ ~(x - 1 < k))  BY <1>1
  <2>2. CASE ~(x - 1 < k)
    <3>1. P(x - 1)  BY <1>6, <2>2
    <3>2. /\ Len(S[x - 1].segs) <= Len(S[x].segs)
          /\ \A j \in 1..Len(S[x - 1].segs) : S[x].segs[j] = S[x - 1].segs[j]
          /\ S[x - 1].odd => S[x].odd
      <4>1. S[x - 1] \in SplitState /\ d[x] \in Tokens /\ S[x] = WithToken(S[x - 1], d[x])  BY <1>1, <1>2, <2>1
      <4>2. LET w == WithToken(S[x - 1], d[x])
            IN  /\ Len(S[x - 1].segs) <= Len(w.segs) /\ \A j \in 1..Len(S[x - 1].segs) : w.segs[j] = S[x - 1].segs[j]
                /\ S[x - 1].odd => w.odd  BY <4>1, TokenGrows
      <4> QED  BY <4>1, <4>2
    <3>3. Len(S[k].segs) \in Nat /\ Len(S[x - 1].segs) \in Nat /\ Len(S[x].segs) \in Nat  BY <1>1, <1>3, <2>1
    <3>4. Len(S[k].segs) <= Len(S[x].segs)
      <4>1. Len(S[k].segs) <= Len(S[x - 1].segs) /\ Len(S[x - 1].segs) <= Len(S[x].segs)  BY <3>1, <3>2
      <4> DEFINE a == Len(S[k].segs)
                 b == Len(S[x - 1].segs)
                 c == Len(S[x].segs)
      <4>2. a \in Nat /\ b \in Nat /\ c \in Nat /\ a <= b /\ b <= c  BY <3>3, <4>1
      <4> HIDE DEF a, b, c
      <4>3. a <= c  BY <4>2
      <4> QED  BY <4>3 DEF a, c
    <3>5. ASSUME NEW j \in 1..Len(S[k].segs) PROVE S[x].segs[j] = S[k].segs[j]
      <4>1. j \in 1..Len(S[x - 1].segs)  BY <3>1, <3>3
      <4> QED  BY <3>1, <3>2, <4>1
    <3> QED  BY <2>1, <3>1, <3>2, <3>4, <3>5
  <2> QED  BY <1>4, <2>1, <2>2
<1>7. m \in T
  <2>1. \A x \in 0..n : x \in T
    <3> HIDE DEF T
    <3> QED  BY <1>1, <1>5, <1>6, Upwards
  <2> QED  BY <1>1, <2>1
<1>8. ~(m < k)  BY <1>1
<1> QED  BY <1>7, <1>8 DEF S

\* In a regular path every command begins anew and every number has its
\* command.
LEMMA RegularIs ==
  ASSUME NEW d \in Seq(Tokens), Regular(d)
  PROVE  /\ \A k \in 1..Len(d) : ~IsNumber(d[k]) => Splits(d)[k - 1].xs = <<>>
         /\ \A k \in 1..Len(d) : IsNumber(d[k]) => Arity(Splits(d)[k - 1].by.cmd) # 0
         /\ Splits(d)[Len(d)].xs = <<>>
<1> DEFINE S == Splits(d)
           n == Len(d)
<1>1. n \in Nat /\ \A x \in 1..n : d[x] \in Tokens  OBVIOUS
<1>2. S \in [0..n -> SplitState] /\ \A x \in 1..n : S[x] = WithToken(S[x - 1], d[x])  BY SplitsAre
<1>3. ~S[n].odd /\ S[n].xs = <<>>  BY DEF Regular, Split
<1>4. \A x \in 0..n : ~S[x].odd
  <2>1. \A x \in 0..n : n \in x..n  BY <1>1
  <2> QED  BY <1>3, <2>1, SplitGrows
<1> HIDE DEF S, n
<1>5. ASSUME NEW k \in 1..n
      PROVE  /\ ~IsNumber(d[k]) => S[k - 1].xs = <<>>
             /\ IsNumber(d[k]) => Arity(S[k - 1].by.cmd) # 0
  <2>1. k \in 0..n /\ k - 1 \in 0..n  BY <1>1
  <2>2. S[k - 1] \in SplitState /\ S[k] = WithToken(S[k - 1], d[k]) /\ ~S[k].odd /\ d[k] \in Tokens
    BY <1>1, <1>2, <1>4, <2>1
  <2>3. ASSUME IsNumber(d[k]), Arity(S[k - 1].by.cmd) = 0 PROVE FALSE
    <3>1. Len(S[k - 1].xs) \in Nat  BY <2>2, SplitParts
    <3>2. ~(Len(S[k - 1].xs) + 1 < Arity(S[k - 1].by.cmd))  BY <2>3, <3>1
    <3>3. WithToken(S[k - 1], d[k]).odd = (S[k - 1].odd \/ Arity(S[k - 1].by.cmd) = 0)
      BY <2>2, <2>3, <3>2, TokenCompletes
    <3> QED  BY <2>2, <2>3, <3>3
  <2>4. ASSUME ~IsNumber(d[k]) PROVE S[k - 1].xs = <<>>
    <3>1. WithToken(S[k - 1], d[k]).odd = (S[k - 1].odd \/ S[k - 1].xs # <<>>)  BY <2>2, <2>4, TokenCommands
    <3> QED  BY <2>2, <3>1
  <2> QED  BY <2>3, <2>4
<1> QED  BY <1>3, <1>5 DEF S, n

NumbersAt(d, n, t) == [k \in 1..t |-> d[n + k].num]

\* Fewer numbers than a segment takes wait.
LEMMA NumbersWait ==
  ASSUME NEW d \in Seq(Tokens), NEW n \in 0..Len(d), Splits(d)[n].xs = <<>>,
         NEW r \in Nat, r < Arity(Splits(d)[n].by.cmd), n + r <= Len(d),
         \A k \in 1..r : IsNumber(d[n + k])
  PROVE  /\ Splits(d)[n + r].by = Splits(d)[n].by /\ Splits(d)[n + r].segs = Splits(d)[n].segs
         /\ Splits(d)[n + r].xs = NumbersAt(d, n, r)
<1> DEFINE S == Splits(d)
           a == Arity(S[n].by.cmd)
           T == {t \in 0..r : /\ S[n + t].by = S[n].by /\ S[n + t].segs = S[n].segs
                              /\ S[n + t].xs = NumbersAt(d, n, t)}
<1>1. Len(d) \in Nat /\ n \in Nat /\ \A x \in 1..Len(d) : d[x] \in Tokens  OBVIOUS
<1>2. S \in [0..Len(d) -> SplitState] /\ \A x \in 1..Len(d) : S[x] = WithToken(S[x - 1], d[x])  BY SplitsAre
<1>3. S[n].xs = <<>> /\ r < a  OBVIOUS
<1>4. a \in Nat  BY DEF Arity
<1> HIDE DEF S, a
<1>5. 0 \in T
  <2>1. NumbersAt(d, n, 0) = <<>>  BY DEF NumbersAt
  <2>2. n + 0 = n /\ 0 \in 0..r  BY <1>1
  <2> QED  BY <1>3, <2>1, <2>2
<1>6. ASSUME NEW t \in 1..r, t - 1 \in T PROVE t \in T
  <2>1. n + t \in 1..Len(d) /\ n + t - 1 = n + (t - 1) /\ n + (t - 1) \in 0..Len(d) /\ t - 1 \in Nat /\ t \in 0..r
    BY <1>1
  <2>2. S[n + (t - 1)].by = S[n].by /\ S[n + (t - 1)].segs = S[n].segs /\ S[n + (t - 1)].xs = NumbersAt(d, n, t - 1)
    BY <1>6
  <2>3. S[n + t] = WithToken(S[n + (t - 1)], d[n + t]) /\ S[n + (t - 1)] \in SplitState /\ d[n + t] \in Tokens
    BY <1>1, <1>2, <2>1
  <2>4. IsNumber(d[n + t])  OBVIOUS
  <2>5. Len(NumbersAt(d, n, t - 1)) = t - 1  BY <2>1 DEF NumbersAt
  <2>6. Len(S[n + (t - 1)].xs) + 1 < Arity(S[n + (t - 1)].by.cmd)  BY <1>3, <1>4, <2>2, <2>5 DEF a
  <2>7. /\ S[n + t].by = S[n].by /\ S[n + t].segs = S[n].segs
        /\ S[n + t].xs = Append(NumbersAt(d, n, t - 1), d[n + t].num)
    <3> DEFINE s == S[n + (t - 1)]
               w == WithToken(s, d[n + t])
    <3>1. s \in SplitState /\ d[n + t] \in Tokens /\ IsNumber(d[n + t]) /\ Len(s.xs) + 1 < Arity(s.by.cmd)
      BY <2>3, <2>4, <2>6
    <3> HIDE DEF s
    <3>2. w.by = s.by /\ w.xs = Append(s.xs, d[n + t].num) /\ w.segs = s.segs  BY <3>1, TokenWaits
    <3>3. S[n + t] = w  BY <2>3 DEF s
    <3> HIDE DEF w
    <3> QED  BY <2>2, <3>2, <3>3 DEF s
  <2>8. Append(NumbersAt(d, n, t - 1), d[n + t].num) = NumbersAt(d, n, t)
    <3> DEFINE b == NumbersAt(d, n, t - 1)
               N(k) == d[n + k].num
    <3>2. b = [k \in 1..(t - 1) |-> N(k)] /\ NumbersAt(d, n, t) = [k \in 1..t |-> N(k)]  BY DEF NumbersAt
    <3>3. N(t) = d[n + t].num  OBVIOUS
    <3> HIDE DEF N
    <3>4. Append([k \in 1..(t - 1) |-> N(k)], N(t)) = [k \in 1..t |-> N(k)]  BY <2>1
    <3> QED  BY <3>2, <3>3, <3>4
  <2> QED  BY <2>1, <2>7, <2>8
<1>7. r \in T
  <2>1. \A t \in 0..r : t \in T
    <3> HIDE DEF T
    <3> QED  BY <1>5, <1>6, Upwards
  <2>2. r \in 0..r  OBVIOUS
  <2> QED  BY <2>1, <2>2
<1> QED  BY <1>7 DEF S

\* One number more.
LEMMA NumbersGrow ==
  ASSUME NEW d, NEW n, NEW t \in Nat \ {0}
  PROVE  Append(NumbersAt(d, n, t - 1), d[n + t].num) = NumbersAt(d, n, t)
<1> DEFINE N(k) == d[n + k].num
<1>1. NumbersAt(d, n, t - 1) = [k \in 1..(t - 1) |-> N(k)] /\ NumbersAt(d, n, t) = [k \in 1..t |-> N(k)]
  BY DEF NumbersAt
<1>2. N(t) = d[n + t].num  OBVIOUS
<1> HIDE DEF N
<1>3. Append([k \in 1..(t - 1) |-> N(k)], N(t)) = [k \in 1..t |-> N(k)]
  <2>1. t - 1 \in Nat /\ \A k \in 1..t : k = t \/ k \in 1..(t - 1)  OBVIOUS
  <2> QED  BY <2>1
<1> QED  BY <1>1, <1>2, <1>3

\* As many as a segment takes complete it.
LEMMA NumbersComplete ==
  ASSUME NEW d \in Seq(Tokens), NEW n \in 0..Len(d), Splits(d)[n].xs = <<>>,
         NEW a \in Nat \ {0}, a = Arity(Splits(d)[n].by.cmd), n + a <= Len(d),
         \A k \in 1..a : IsNumber(d[n + k])
  PROVE  LET s == Splits(d)[n]
             w == Splits(d)[n + a]
         IN  /\ w.xs = <<>> /\ w.by.cmd = (IF s.by.cmd = "M" THEN "L" ELSE s.by.cmd) /\ w.by.rel = s.by.rel
             /\ w.segs = Append(s.segs, [c |-> s.by.cmd, rel |-> s.by.rel, xs |-> NumbersAt(d, n, a)])
<1> DEFINE S == Splits(d)
           m == n + (a - 1)
           tok == d[n + a]
<1>1. Len(d) \in Nat /\ n \in Nat /\ \A x \in 1..Len(d) : d[x] \in Tokens  OBVIOUS
<1>2. S \in [0..Len(d) -> SplitState] /\ \A x \in 1..Len(d) : S[x] = WithToken(S[x - 1], d[x])  BY SplitsAre
<1>3. S[m].by = S[n].by /\ S[m].segs = S[n].segs /\ S[m].xs = NumbersAt(d, n, a - 1)
  <2>1. a - 1 \in Nat /\ a - 1 < a /\ n + (a - 1) <= Len(d) /\ \A k \in 1..(a - 1) : k \in 1..a  BY <1>1
  <2> HIDE DEF S, m
  <2>2. \A k \in 1..(a - 1) : IsNumber(d[n + k])  BY <2>1
  <2> QED  BY <2>1, <2>2, NumbersWait DEF S, m
<1>4. m \in 0..Len(d) /\ n + a \in 1..Len(d) /\ (n + a) - 1 = m  BY <1>1
<1>5. S[n + a] = WithToken(S[m], tok) /\ S[m] \in SplitState /\ tok \in Tokens /\ IsNumber(tok)
  <2>1. a \in 1..a  OBVIOUS
  <2> QED  BY <1>1, <1>2, <1>4, <2>1
<1> HIDE DEF S, m
<1>6. Len(NumbersAt(d, n, a - 1)) = a - 1
  <2>1. a - 1 \in Nat  OBVIOUS
  <2> QED  BY <2>1 DEF NumbersAt
<1>7. ~(Len(S[m].xs) + 1 < Arity(S[m].by.cmd))
  <2>1. Arity(S[m].by.cmd) = a /\ Len(S[m].xs) = a - 1  BY <1>3, <1>6 DEF S
  <2> QED  BY <2>1
<1>8. /\ S[n + a].xs = <<>> /\ S[n + a].by.cmd = (IF S[m].by.cmd = "M" THEN "L" ELSE S[m].by.cmd)
      /\ S[n + a].by.rel = S[m].by.rel
      /\ S[n + a].segs = Append(S[m].segs, [c |-> S[m].by.cmd, rel |-> S[m].by.rel, xs |-> Append(S[m].xs, tok.num)])
  <2> HIDE DEF tok
  <2> DEFINE s == S[m]
             w == WithToken(s, tok)
  <2>1. s \in SplitState /\ tok \in Tokens /\ IsNumber(tok) /\ ~(Len(s.xs) + 1 < Arity(s.by.cmd))  BY <1>5, <1>7
  <2>2. S[n + a] = w  BY <1>5
  <2> HIDE DEF s
  <2>3. /\ w.xs = <<>> /\ w.by.cmd = (IF s.by.cmd = "M" THEN "L" ELSE s.by.cmd)
        /\ w.by.rel = s.by.rel
        /\ w.segs = Append(s.segs, [c |-> s.by.cmd, rel |-> s.by.rel, xs |-> Append(s.xs, tok.num)])
    BY <2>1, TokenCompletes
  <2> HIDE DEF w
  <2> QED  BY <2>2, <2>3 DEF s
<1>9. Append(S[m].xs, tok.num) = NumbersAt(d, n, a)  BY <1>3, NumbersGrow
<1> QED  BY <1>3, <1>8, <1>9 DEF S

\* The segments of a command: its numbers in groups; after the first group
\* an M is an L.
Operand(d, k, g, a) == NumbersAt(d, k + (g - 1) * a, a)
GroupSegment(d, k, g) ==
  [c |-> IF d[k].cmd = "M" /\ g > 1 THEN "L" ELSE d[k].cmd, rel |-> d[k].rel,
   xs |-> Operand(d, k, g, Arity(d[k].cmd))]
Taking == {"M", "L", "H", "V", "C", "Q"}

\* The number of operands of a command.
LEMMA ArityIs ==
  /\ \A c \in Taking : Arity(c) \in {1, 2, 4, 6}
  /\ Arity("M") = 2 /\ Arity("L") = 2 /\ Arity("H") = 1 /\ Arity("V") = 1 /\ Arity("C") = 6 /\ Arity("Q") = 4
  /\ \A c : c \notin Taking => Arity(c) = 0
BY DEF Arity, Taking

\* The numbers of a group stand behind those of the groups before it.
LEMMA GroupsFit ==
  ASSUME NEW a \in {1, 2, 4, 6}, NEW m \in Nat
  PROVE  /\ m \div a \in Nat /\ m % a \in 0..(a - 1) /\ m = (m \div a) * a + (m % a)
         /\ (m \div a) * a \in 0..m
         /\ \A g \in 1..(m \div a) : (g - 1) * a \in Nat /\ (g - 1) * a + a = g * a /\ g * a \in 0..m
<1>1. m \div a \in Nat /\ m % a \in 0..(a - 1) /\ m = (m \div a) * a + (m % a)
  <2>1. CASE a = 1  BY <2>1
  <2>2. CASE a = 2  BY <2>2
  <2>3. CASE a = 4  BY <2>3
  <2>4. CASE a = 6  BY <2>4
  <2> QED  BY <2>1, <2>2, <2>3, <2>4
<1> DEFINE q == m \div a
<1>2. q \in Nat /\ q * a <= m
  <2>1. q * a \in Nat
    <3>1. q \in Nat /\ a \in Nat  BY <1>1
    <3> HIDE DEF q
    <3> QED  BY <3>1
  <2> QED  BY <1>1, <2>1
<1> HIDE DEF q
<1>3. \A g \in 1..q : (g - 1) * a \in Nat /\ (g - 1) * a + a = g * a /\ g * a \in 0..m
  <2>1. CASE a = 1  BY <1>2, <2>1
  <2>2. CASE a = 2  BY <1>2, <2>2
  <2>3. CASE a = 4  BY <1>2, <2>3
  <2>4. CASE a = 6  BY <1>2, <2>4
  <2> QED  BY <2>1, <2>2, <2>3, <2>4
<1>4. q * a \in 0..m
  <2>1. q * a \in Nat  BY <1>2
  <2> QED  BY <1>2, <2>1
<1> QED  BY <1>1, <1>3, <1>4 DEF q

\* One group more.
LEMMA GroupsGrow ==
  ASSUME NEW d, NEW k, NEW s \in Seq(Segments), NEW g \in Nat \ {0},
         \A x \in 1..g : GroupSegment(d, k, x) \in Segments
  PROVE  Append(s \o [x \in 1..(g - 1) |-> GroupSegment(d, k, x)], GroupSegment(d, k, g))
           = s \o [x \in 1..g |-> GroupSegment(d, k, x)]
<1> DEFINE G(x) == GroupSegment(d, k, x)
<1>1. g - 1 \in Nat /\ \A x \in 1..(g - 1) : x \in 1..g  OBVIOUS
<1>2. g \in 1..g  OBVIOUS
<1>3. \A x \in 1..g : G(x) \in Segments  OBVIOUS
<1> HIDE DEF G
<1>4. [x \in 1..(g - 1) |-> G(x)] \in Seq(Segments) /\ Len([x \in 1..(g - 1) |-> G(x)]) = g - 1
  <2>1. [x \in 1..(g - 1) |-> G(x)] \in [1..(g - 1) -> Segments]  BY <1>1, <1>3
  <2> QED  BY <1>1, <2>1, ListIsSeq
<1>5. Append([x \in 1..(g - 1) |-> G(x)], G(g)) = [x \in 1..g |-> G(x)]
  <2>1. \A x \in 1..g : x = g \/ x \in 1..(g - 1)  OBVIOUS
  <2> QED  BY <1>1, <2>1
<1>7. G(g) \in Segments  BY <1>2, <1>3
<1>8. Append(s \o [x \in 1..(g - 1) |-> G(x)], G(g)) = s \o [x \in 1..g |-> G(x)]
  <2> DEFINE w == [x \in 1..(g - 1) |-> G(x)]
  <2>1. w \in Seq(Segments)  BY <1>4
  <2>2. Append(w, G(g)) = [x \in 1..g |-> G(x)]  BY <1>5
  <2> HIDE DEF w
  <2>3. Append(s \o w, G(g)) = s \o Append(w, G(g))
    <3> DEFINE x == G(g)
    <3>1. x \in Segments  BY <1>7
    <3> HIDE DEF x
    <3>2. Append(s \o w, x) = s \o Append(w, x)  BY <2>1, <3>1
    <3> QED  BY <3>2 DEF x
  <2> QED  BY <2>2, <2>3 DEF w
<1> QED  BY <1>8 DEF G

\* The numbers of a group are integers.
LEMMA OperandIs ==
  ASSUME NEW d \in Seq(Tokens), NEW n \in 0..Len(d), NEW a \in Nat, n + a <= Len(d)
  PROVE  NumbersAt(d, n, a) \in Seq(Int) /\ Len(NumbersAt(d, n, a)) = a
<1>1. ASSUME NEW x \in 1..a PROVE d[n + x].num \in Int
  <2>1. n + x \in 1..Len(d)  OBVIOUS
  <2>2. d[n + x] \in Tokens  BY <2>1
  <2> QED  BY <2>2 DEF Tokens
<1>2. NumbersAt(d, n, a) \in [1..a -> Int]  BY <1>1 DEF NumbersAt
<1> QED  BY <1>2, ListIsSeq

\* What a command with its numbers adds to the segments.
LEMMA TurnSplits ==
  ASSUME NEW d \in Seq(Tokens), Regular(d), NEW k \in 1..Len(d), ~IsNumber(d[k]), d[k].cmd \in Taking,
         NEW m \in Nat, k + m <= Len(d), \A x \in 1..m : IsNumber(d[k + x]),
         k + m = Len(d) \/ ~IsNumber(d[k + m + 1])
  PROVE  LET a == Arity(d[k].cmd)
             q == m \div a
         IN  /\ m = q * a /\ \A g \in 1..q : GroupSegment(d, k, g) \in Segments
             /\ Splits(d)[k + m].segs = Splits(d)[k - 1].segs \o [g \in 1..q |-> GroupSegment(d, k, g)]
<1> DEFINE S == Splits(d)
           c == d[k].cmd
           a == Arity(c)
           q == m \div a
           old == S[k - 1].segs
           T == {g \in 0..q :
                   /\ S[k + g * a].xs = <<>> /\ S[k + g * a].by.rel = d[k].rel
                   /\ S[k + g * a].by.cmd = IF c = "M" /\ g > 0 THEN "L" ELSE c
                   /\ S[k + g * a].segs = old \o [x \in 1..g |-> GroupSegment(d, k, x)]}
<1>1. Len(d) \in Nat /\ k \in Nat /\ k \in 0..Len(d) /\ k - 1 \in 0..Len(d) /\ \A x \in 1..Len(d) : d[x] \in Tokens
  OBVIOUS
<1>2. S \in [0..Len(d) -> SplitState] /\ \A x \in 1..Len(d) : S[x] = WithToken(S[x - 1], d[x])  BY SplitsAre
<1>3. /\ \A x \in 1..Len(d) : ~IsNumber(d[x]) => S[x - 1].xs = <<>>
      /\ S[Len(d)].xs = <<>>  BY RegularIs
<1>4. c \in Taking /\ c \in Names /\ d[k].rel \in BOOLEAN  BY <1>1 DEF Tokens, Names
<1>5. a \in {1, 2, 4, 6} /\ a \in Nat \ {0} /\ a = Arity(IF c = "M" THEN "L" ELSE c)  BY <1>4, ArityIs
<1> HIDE DEF S, a
<1>6. q \in Nat /\ m % a \in 0..(a - 1) /\ m = q * a + (m % a) /\ q * a \in 0..m
      /\ \A g \in 1..q : (g - 1) * a \in Nat /\ (g - 1) * a + a = g * a /\ g * a \in 0..m
  <2>1. a \in {1, 2, 4, 6} /\ m \in Nat  BY <1>5
  <2>2. /\ m \div a \in Nat /\ m % a \in 0..(a - 1) /\ m = (m \div a) * a + (m % a)
        /\ (m \div a) * a \in 0..m
        /\ \A g \in 1..(m \div a) : (g - 1) * a \in Nat /\ (g - 1) * a + a = g * a /\ g * a \in 0..m
    BY <2>1, GroupsFit, Zenon
  <2> QED  BY <2>2, Zenon
<1> HIDE DEF q
<1>7. old \in Seq(Segments)  BY <1>1, <1>2, SplitParts
<1>8. ASSUME NEW g \in 1..q PROVE GroupSegment(d, k, g) \in Segments
  <2>1. (g - 1) * a \in Nat /\ (g - 1) * a + a = g * a /\ g * a \in 0..m  BY <1>6
  <2> DEFINE b == (g - 1) * a
  <2>2. b \in Nat /\ k + b \in 0..Len(d) /\ a \in Nat /\ (k + b) + a <= Len(d)
    <3>1. b \in Nat /\ b + a <= m  BY <2>1
    <3> HIDE DEF b
    <3>2. a \in Nat  BY <1>5
    <3> QED  BY <1>1, <3>1, <3>2
  <2>3. Operand(d, k, g, a) \in Seq(Int)
    <3> HIDE DEF b
    <3>1. NumbersAt(d, k + b, a) \in Seq(Int)  BY <2>2, OperandIs
    <3> QED  BY <3>1 DEF b, Operand
  <2>4. "L" \in Names  BY DEF Names
  <2> DEFINE c1 == IF c = "M" /\ g > 1 THEN "L" ELSE c
  <2>5. c1 \in Names  BY <1>4, <2>4
  <2>6. GroupSegment(d, k, g) = [c |-> c1, rel |-> d[k].rel, xs |-> Operand(d, k, g, a)]  BY DEF GroupSegment, a
  <2> HIDE DEF c1
  <2> QED  BY <1>4, <2>3, <2>5, <2>6, SegmentMade
<1>9. 0 \in T
  <2>1. S[k].xs = <<>> /\ S[k].by = d[k] /\ S[k].segs = old
    <3> DEFINE s == S[k - 1]
               w == WithToken(s, d[k])
    <3>1. s \in SplitState /\ d[k] \in Tokens /\ ~IsNumber(d[k]) /\ S[k] = w /\ s.xs = <<>>  BY <1>1, <1>2, <1>3
    <3> HIDE DEF s
    <3>2. w.by = d[k] /\ w.xs = s.xs /\ w.segs = IF d[k].cmd = "Z" THEN Append(s.segs, Gap) ELSE s.segs
      BY <3>1, TokenCommands
    <3>3. d[k].cmd # "Z"  BY <1>4 DEF Taking
    <3> HIDE DEF w
    <3> QED  BY <3>1, <3>2, <3>3 DEF s
  <2>2. k + 0 * a = k /\ 0 \in 0..q  BY <1>1, <1>5, <1>6
  <2>3. old \o [x \in 1..0 |-> GroupSegment(d, k, x)] = old  BY <1>7
  <2>4. S[k + 0 * a] = S[k] /\ ~(0 > 0)  BY <2>2
  <2>5. S[k].by.cmd = c /\ S[k].by.rel = d[k].rel  BY <2>1
  <2> HIDE DEF old, c
  <2> QED  BY <2>1, <2>2, <2>3, <2>4, <2>5
<1>10. ASSUME NEW g \in 1..q, g - 1 \in T PROVE g \in T
  <2> DEFINE b == (g - 1) * a
             n == k + b
  <2>1. b \in Nat /\ b + a = g * a /\ b + a \in 0..m  BY <1>6
  <2>2. /\ S[n].xs = <<>> /\ S[n].by.rel = d[k].rel
        /\ S[n].by.cmd = IF c = "M" /\ g - 1 > 0 THEN "L" ELSE c
        /\ S[n].segs = old \o [x \in 1..(g - 1) |-> GroupSegment(d, k, x)]  BY <1>10
  <2>3. a = Arity(S[n].by.cmd)  BY <1>5, <2>2 DEF a
  <2> HIDE DEF b
  <2>4. n \in 0..Len(d) /\ a \in Nat \ {0} /\ n + a <= Len(d)
    <3>1. b + a <= m /\ a \in Nat \ {0} /\ b \in Nat  BY <1>5, <2>1
    <3> QED  BY <1>1, <3>1
  <2>5. \A x \in 1..a : IsNumber(d[n + x])
    <3> TAKE x \in 1..a
    <3>1. b + x \in 1..m /\ k + (b + x) = n + x  BY <1>1, <1>5, <2>1
    <3>2. IsNumber(d[k + (b + x)])  BY <3>1
    <3> QED  BY <3>1, <3>2
  <2> HIDE DEF n
  <2>6. /\ S[n + a].xs = <<>> /\ S[n + a].by.cmd = (IF S[n].by.cmd = "M" THEN "L" ELSE S[n].by.cmd)
        /\ S[n + a].by.rel = S[n].by.rel
        /\ S[n + a].segs = Append(S[n].segs, [c |-> S[n].by.cmd, rel |-> S[n].by.rel, xs |-> NumbersAt(d, n, a)])
    BY <2>2, <2>3, <2>4, <2>5, NumbersComplete DEF S
  <2>7. [c |-> S[n].by.cmd, rel |-> S[n].by.rel, xs |-> NumbersAt(d, n, a)] = GroupSegment(d, k, g)
    <3>1. NumbersAt(d, n, a) = Operand(d, k, g, Arity(d[k].cmd))  BY DEF n, b, Operand, a
    <3>2. S[n].by.cmd = IF d[k].cmd = "M" /\ g > 1 THEN "L" ELSE d[k].cmd
      <4>1. g - 1 > 0 <=> g > 1  OBVIOUS
      <4> QED  BY <2>2, <4>1
    <3> QED  BY <2>2, <3>1, <3>2 DEF GroupSegment
  <2>8. \A x \in 1..g : GroupSegment(d, k, x) \in Segments
    <3>1. \A x \in 1..g : x \in 1..q  BY <1>6
    <3> QED  BY <1>8, <3>1
  <2>9. S[n + a].segs = old \o [x \in 1..g |-> GroupSegment(d, k, x)]
    <3>1. S[n + a].segs = Append(old \o [x \in 1..(g - 1) |-> GroupSegment(d, k, x)], GroupSegment(d, k, g))
      BY <2>2, <2>6, <2>7
    <3>2. g \in Nat \ {0}  BY <1>6
    <3> HIDE DEF old
    <3> QED  BY <1>7, <2>8, <3>1, <3>2, GroupsGrow, ZenonT(30)
  <2>10. S[n + a].by.cmd = IF c = "M" /\ g > 0 THEN "L" ELSE c
    <3>1. g > 0  BY <1>6
    <3> HIDE DEF c
    <3> QED  BY <2>2, <2>6, <3>1
  <2>11. n + a = k + g * a
    <3>1. n + a = k + (b + a)  BY <1>1, <1>5, <2>1 DEF n
    <3> QED  BY <2>1, <3>1
  <2>12. g \in 0..q  BY <1>6
  <2> HIDE DEF c, old
  <2> QED  BY <2>2, <2>6, <2>9, <2>10, <2>11, <2>12
<1>11. q \in T
  <2>1. q \in 0..q  BY <1>6
  <2> HIDE DEF T
  <2> QED  BY <1>6, <1>9, <1>10, <2>1, Upwards
<1> DEFINE b == q * a
           r == m % a
           n == k + b
<1>12. /\ S[n].xs = <<>> /\ S[n].segs = old \o [x \in 1..q |-> GroupSegment(d, k, x)]
       /\ S[n].by.cmd = IF c = "M" /\ q > 0 THEN "L" ELSE c  BY <1>11
<1> HIDE DEF T
<1>13. b \in Nat /\ r \in Nat /\ r < a /\ m = b + r /\ a \in Nat /\ a = Arity(S[n].by.cmd)
  <2>1. a = Arity(S[n].by.cmd)  BY <1>5, <1>12 DEF a
  <2>2. b \in Nat /\ r \in Nat /\ r < a /\ m = b + r
    <3>1. a \in Nat /\ r \in 0..(a - 1) /\ m = b + r /\ b \in 0..m  BY <1>5, <1>6
    <3> HIDE DEF b, r
    <3> QED  BY <3>1
  <2> HIDE DEF n, c, b, r
  <2> QED  BY <1>5, <2>1, <2>2
<1> HIDE DEF b, r
<1>14. r = 0
  <2> SUFFICES ASSUME r # 0 PROVE FALSE  OBVIOUS
  <2>1. n \in 0..Len(d) /\ n + r <= Len(d) /\ n + r = k + m  BY <1>1, <1>13
  <2>2. \A x \in 1..r : IsNumber(d[n + x])
    <3> TAKE x \in 1..r
    <3>1. b + x \in 1..m /\ k + (b + x) = n + x  BY <1>1, <1>13
    <3>2. IsNumber(d[k + (b + x)])  BY <3>1
    <3> QED  BY <3>1, <3>2
  <2> HIDE DEF n
  <2>3. S[n + r].xs = NumbersAt(d, n, r)  BY <1>12, <1>13, <2>1, <2>2, NumbersWait DEF S
  <2>4. NumbersAt(d, n, r) # <<>>
    <3>1. Len(NumbersAt(d, n, r)) = r  BY <1>13 DEF NumbersAt
    <3> QED  BY <3>1
  <2>5. S[k + m].xs = <<>>
    <3>1. CASE k + m = Len(d)  BY <1>3, <3>1
    <3>2. CASE ~IsNumber(d[k + m + 1]) /\ k + m # Len(d)
      <4>1. k + m + 1 \in 1..Len(d) /\ (k + m + 1) - 1 = k + m  BY <1>1, <3>2
      <4> QED  BY <1>3, <3>2, <4>1
    <3> QED  BY <3>1, <3>2
  <2> QED  BY <2>1, <2>3, <2>4, <2>5
<1>15. m = q * a /\ n = k + m  BY <1>1, <1>13, <1>14 DEF b
<1> QED  BY <1>8, <1>12, <1>15 DEF S, a, q

WellMade(s) == s \in Segments /\ (s.c = "Z" \/ (s.c \in Taking /\ Len(s.xs) = Arity(s.c)))

\* The segments of a regular path have the operands of their commands.
LEMMA SegmentsWellMade ==
  ASSUME NEW d \in Seq(Tokens), Regular(d)
  PROVE  Split(d).segs \in Seq(Segments) /\ \A j \in 1..Len(Split(d).segs) : WellMade(Split(d).segs[j])
<1> DEFINE S == Splits(d)
           n == Len(d)
           P(k) == /\ S[k].xs = <<>> \/ Len(S[k].xs) < Arity(S[k].by.cmd)
                   /\ \A j \in 1..Len(S[k].segs) : WellMade(S[k].segs[j])
           T == {k \in 0..n : P(k)}
<1>1. n \in Nat /\ \A x \in 1..n : d[x] \in Tokens  OBVIOUS
<1>2. S \in [0..n -> SplitState] /\ S[0] = Unread /\ \A x \in 1..n : S[x] = WithToken(S[x - 1], d[x])  BY SplitsAre
<1>3. /\ \A x \in 1..n : ~IsNumber(d[x]) => S[x - 1].xs = <<>>
      /\ \A x \in 1..n : IsNumber(d[x]) => Arity(S[x - 1].by.cmd) # 0  BY RegularIs
<1> HIDE DEF S, n
<1>4. P(0)
  <2>1. S[0].xs = <<>> /\ S[0].segs = <<>>  BY <1>2 DEF Unread
  <2> QED  BY <2>1
<1>5. ASSUME NEW k \in 1..n, P(k - 1) PROVE P(k)
  <2> DEFINE s == S[k - 1]
             tok == d[k]
             w == WithToken(s, tok)
  <2>1. s \in SplitState /\ tok \in Tokens /\ S[k] = w
    <3>1. k - 1 \in 0..n  BY <1>1
    <3> QED  BY <1>1, <1>2, <3>1
  <2>2. /\ s.xs = <<>> \/ Len(s.xs) < Arity(s.by.cmd)
        /\ \A j \in 1..Len(s.segs) : WellMade(s.segs[j])  BY <1>5
  <2>3. (~IsNumber(tok) => s.xs = <<>>) /\ (IsNumber(tok) => Arity(s.by.cmd) # 0)  BY <1>3
  <2> HIDE DEF P, s, tok
  <2>4. s.segs \in Seq(Segments) /\ s.xs \in Seq(Int) /\ s.by.cmd \in Names /\ s.by.rel \in BOOLEAN
    BY <2>1, SplitParts
  <2>5. ASSUME NEW g, WellMade(g), w.segs = Append(s.segs, g)
        PROVE  \A j \in 1..Len(w.segs) : WellMade(w.segs[j])
    <3>1. g \in Segments  BY <2>5 DEF WellMade
    <3>2. Len(w.segs) = Len(s.segs) + 1 /\ w.segs[Len(s.segs) + 1] = g
          /\ \A j \in 1..Len(s.segs) : w.segs[j] = s.segs[j]  BY <2>4, <2>5, <3>1
    <3>3. Len(s.segs) \in Nat  BY <2>4
    <3> HIDE DEF w
    <3> QED  BY <2>2, <2>5, <3>2, <3>3
  <2>6. CASE ~IsNumber(tok)
    <3>1. w.xs = s.xs /\ w.segs = IF tok.cmd = "Z" THEN Append(s.segs, Gap) ELSE s.segs  BY <2>1, <2>6, TokenCommands
    <3>2. WellMade(Gap)
      <4>1. Gap.c = "Z"  BY DEF Gap
      <4> QED  BY <4>1, SegmentMade DEF WellMade
    <3> HIDE DEF w
    <3> QED  BY <2>1, <2>2, <2>3, <2>5, <2>6, <3>1, <3>2 DEF P
  <2>7. CASE IsNumber(tok) /\ Len(s.xs) + 1 < Arity(s.by.cmd)
    <3>1. w.by = s.by /\ w.xs = Append(s.xs, tok.num) /\ w.segs = s.segs  BY <2>1, <2>7, TokenWaits
    <3>2. Len(Append(s.xs, tok.num)) = Len(s.xs) + 1  BY <2>4
    <3> HIDE DEF w
    <3> QED  BY <2>1, <2>2, <2>7, <3>1, <3>2 DEF P
  <2>8. CASE IsNumber(tok) /\ ~(Len(s.xs) + 1 < Arity(s.by.cmd))
    <3> DEFINE g == [c |-> s.by.cmd, rel |-> s.by.rel, xs |-> Append(s.xs, tok.num)]
    <3>1. w.xs = <<>> /\ w.segs = Append(s.segs, g)  BY <2>1, <2>8, TokenCompletes
    <3>2. s.by.cmd \in Taking /\ Arity(s.by.cmd) \in {1, 2, 4, 6}  BY <2>3, <2>8, ArityIs
    <3>3. Append(s.xs, tok.num) \in Seq(Int) /\ Len(Append(s.xs, tok.num)) = Len(s.xs) + 1
      <4>1. tok.num \in Int  BY <2>1 DEF Tokens
      <4> QED  BY <2>4, <4>1
    <3>4. Len(s.xs) + 1 = Arity(s.by.cmd)
      <4>1. Len(s.xs) \in Nat /\ (s.xs = <<>> => Len(s.xs) = 0)  BY <2>4
      <4> QED  BY <2>2, <2>8, <3>2, <4>1
    <3>5. g.c = s.by.cmd /\ Len(g.xs) = Arity(g.c)  BY <3>3, <3>4
    <3>6. g \in Segments  BY <2>4, <3>3, SegmentMade
    <3> HIDE DEF g
    <3>7. WellMade(g)  BY <3>2, <3>5, <3>6 DEF WellMade
    <3> HIDE DEF w
    <3> QED  BY <2>1, <2>5, <3>1, <3>7 DEF P
  <2> QED  BY <2>6, <2>7, <2>8
<1>6. n \in T
  <2>1. 0 \in T /\ \A k \in 1..n : k - 1 \in T => k \in T
    <3>1. 0 \in 0..n /\ \A k \in 1..n : k \in 0..n  BY <1>1
    <3> QED  BY <1>4, <1>5, <3>1
  <2>2. n \in 0..n  BY <1>1
  <2> HIDE DEF T
  <2> QED  BY <1>1, <2>1, <2>2, Upwards
<1>7. S[n].segs \in Seq(Segments)
  <2>1. n \in 0..n  BY <1>1
  <2> QED  BY <1>2, <2>1, SplitParts
<1> QED  BY <1>6, <1>7 DEF S, n, Split

\* A list of lists is joined one by one.
LEMMA FlattenRun ==
  ASSUME NEW S, NEW ss \in Seq(Seq(S))
  PROVE  \E r \in [0..Len(ss) -> Seq(S)] :
           /\ r[0] = <<>> /\ \A k \in 1..Len(ss) : r[k] = r[k - 1] \o ss[k]
           /\ FlattenSeq(ss) = r[Len(ss)]
<1> DEFINE n == Len(ss)
           Is(f) == f = [k \in 1..n |-> IF k = 1 THEN ss[k] ELSE f[k - 1] \o ss[k]]
           flat == CHOOSE f : Is(f)
           Joining == [ky \in (1..n) \X Seq(S) |-> ky[2] \o ss[ky[1]]]
<1>0. n \in Nat /\ \A k \in 1..n : ss[k] \in Seq(S)  OBVIOUS
<1>1. PICK r \in [0..n -> Seq(S)] : Repeated(r, n, <<>>, Joining)
  <2>1. Joining \in [(1..n) \X Seq(S) -> Seq(S)]
    <3>1. ASSUME NEW ky \in (1..n) \X Seq(S) PROVE ky[2] \o ss[ky[1]] \in Seq(S)
      <4>1. ky[2] \in Seq(S) /\ ss[ky[1]] \in Seq(S)  BY <1>0
      <4> HIDE DEF n
      <4> QED  BY <4>1
    <3> QED  BY <3>1
  <2>2. <<>> \in Seq(S)  OBVIOUS
  <2> HIDE DEF n, Joining
  <2> QED  BY <1>0, <2>1, <2>2, RepeatedExists
<1>2. r[0] = <<>> /\ \A k \in 1..n : r[k] = r[k - 1] \o ss[k]
  <2>1. ASSUME NEW k \in 1..n PROVE r[k] = r[k - 1] \o ss[k]
    <3>0. k - 1 \in 0..n  BY <1>0
    <3>1. r[k - 1] \in Seq(S) /\ r[k] = Joining[<<k, r[k - 1]>>]  BY <1>1, <3>0 DEF Repeated
    <3>2. Joining[<<k, r[k - 1]>>] = r[k - 1] \o ss[k]  BY <3>1 DEF Joining
    <3> QED  BY <3>1, <3>2
  <2> QED  BY <1>1, <2>1 DEF Repeated
<1>3. CASE n = 0
  <2>1. FlattenSeq(ss) = ss /\ ss = <<>>  BY <1>3 DEF FlattenSeq
  <2> QED  BY <1>2, <1>3, <2>1
<1>4. CASE n # 0
  <2> HIDE DEF n, Joining
  <2>1. r[1] = ss[1]
    <3>1. 1 \in 1..n /\ 1 - 1 = 0  BY <1>0, <1>4
    <3>2. r[1] = r[1 - 1] \o ss[1] /\ ss[1] \in Seq(S)  BY <1>0, <1>2, <3>1
    <3>3. \A t \in Seq(S) : <<>> \o t = t  OBVIOUS
    <3> QED  BY <1>2, <3>1, <3>2, <3>3
  <2>2. Is([k \in 1..n |-> r[k]])
    <3> DEFINE f == [k \in 1..n |-> r[k]]
    <3>1. \A k \in 1..n : f[k] = IF k = 1 THEN ss[k] ELSE f[k - 1] \o ss[k]
      <4> TAKE k \in 1..n
      <4>1. k # 1 => f[k - 1] = r[k - 1]  BY <1>0
      <4>2. f[k] = r[k]  OBVIOUS
      <4> HIDE DEF f
      <4> QED  BY <1>2, <2>1, <4>1, <4>2
    <3> QED  BY <3>1
  <2>3. Is(flat)
    <3> HIDE DEF Is
    <3> QED  BY <2>2
  <2>4. FlattenSeq(ss) = flat[n]  BY <1>4 DEF FlattenSeq, n
  <2> HIDE DEF flat
  <2>5. \A k \in 1..n : flat[k] = IF k = 1 THEN ss[k] ELSE flat[k - 1] \o ss[k]  BY <2>3
  <2> HIDE DEF Is
  <2> DEFINE T == {k \in 0..n : k = 0 \/ flat[k] = r[k]}
  <2>6. ASSUME NEW k \in 1..n, k - 1 \in T PROVE k \in T
    <3>1. k \in 0..n /\ (k = 1 \/ flat[k - 1] = r[k - 1])  BY <1>0, <2>6
    <3>2. flat[k] = r[k]  BY <1>2, <2>1, <2>5, <3>1
    <3> QED  BY <3>1, <3>2
  <2>7. n \in T
    <3>1. n \in 0..n /\ 0 \in T  BY <1>0
    <3> HIDE DEF T
    <3> QED  BY <1>0, <2>6, <3>1, Upwards
  <2>8. flat[n] = r[n]  BY <1>4, <2>7
  <2> QED  BY <1>2, <2>4, <2>8 DEF n
<1> QED  BY <1>3, <1>4

\* One list more.
LEMMA FlattenGrows ==
  ASSUME NEW S, NEW ss \in Seq(Seq(S)), NEW tt \in Seq(Seq(S)), Len(tt) = Len(ss) + 1,
         \A k \in 1..Len(ss) : tt[k] = ss[k]
  PROVE  FlattenSeq(tt) = FlattenSeq(ss) \o tt[Len(tt)]
<1> DEFINE n == Len(ss)
           m == Len(tt)
<1>1. n \in Nat /\ m = n + 1  OBVIOUS
<1>2. PICK r \in [0..n -> Seq(S)] :
        /\ r[0] = <<>> /\ \A k \in 1..n : r[k] = r[k - 1] \o ss[k]
        /\ FlattenSeq(ss) = r[n]  BY FlattenRun
<1>3. PICK q \in [0..m -> Seq(S)] :
        /\ q[0] = <<>> /\ \A k \in 1..m : q[k] = q[k - 1] \o tt[k]
        /\ FlattenSeq(tt) = q[m]  BY FlattenRun
<1>4. \A k \in 1..n : tt[k] = ss[k]  OBVIOUS
<1> HIDE DEF n, m
<1> DEFINE T == {k \in 0..n : q[k] = r[k]}
<1>5. ASSUME NEW k \in 1..n, k - 1 \in T PROVE k \in T
  <2>1. k \in 0..n /\ k \in 1..m /\ q[k - 1] = r[k - 1]  BY <1>1, <1>5, SMTT(30)
  <2> QED  BY <1>2, <1>3, <1>4, <2>1
<1>6. n \in T
  <2>1. n \in 0..n /\ 0 \in T  BY <1>1, <1>2, <1>3
  <2> HIDE DEF T
  <2> QED  BY <1>1, <1>5, <2>1, Upwards
<1>7. m \in 1..m /\ m - 1 = n  BY <1>1
<1>8. q[m] = q[n] \o tt[m]  BY <1>3, <1>7
<1> QED  BY <1>2, <1>3, <1>6, <1>8 DEF m

\* The first m of a list of lists, joined.
Joined(f, m) == FlattenSeq([k \in 1..m |-> f[k]])

\* One list more is joined to what the others gave.
LEMMA JoinedIs ==
  ASSUME NEW S, NEW n \in Nat, NEW f \in [1..n -> Seq(S)]
  PROVE  /\ Joined(f, 0) = <<>> /\ Joined(f, n) = FlattenSeq(f)
         /\ \A m \in 0..n : Joined(f, m) \in Seq(S)
         /\ \A m \in 1..n : Joined(f, m) = Joined(f, m - 1) \o f[m]
<1> DEFINE U(m) == [k \in 1..m |-> f[k]]
<1>1. ASSUME NEW m \in 0..n PROVE U(m) \in Seq(Seq(S)) /\ Len(U(m)) = m /\ \A k \in 1..m : U(m)[k] = f[k]
  <2>1. m \in Nat /\ \A k \in 1..m : k \in 1..n  OBVIOUS
  <2>2. U(m) \in [1..m -> Seq(S)]  BY <2>1
  <2> QED  BY <2>1, <2>2, ListIsSeq
<1>2. Joined(f, 0) = <<>>
  <2>1. U(0) = <<>>  OBVIOUS
  <2>2. FlattenSeq(<<>>) = <<>>  BY DEF FlattenSeq
  <2> QED  BY <2>1, <2>2 DEF Joined
<1>3. U(n) = f  OBVIOUS
<1>4. \A m : Joined(f, m) = FlattenSeq(U(m))  BY DEF Joined
<1> HIDE DEF U
<1>5. \A m \in 0..n : Joined(f, m) \in Seq(S)  BY <1>1, <1>4, FlattenIsSeq
<1>6. ASSUME NEW m \in 1..n PROVE Joined(f, m) = Joined(f, m - 1) \o f[m]
  <2>1. m \in 0..n /\ m - 1 \in 0..n /\ m = (m - 1) + 1 /\ m \in 1..m /\ \A k \in 1..(m - 1) : k \in 1..m  OBVIOUS
  <2> DEFINE ss == U(m - 1)
             tt == U(m)
  <2>2. /\ ss \in Seq(Seq(S)) /\ Len(ss) = m - 1 /\ \A k \in 1..(m - 1) : ss[k] = f[k]
        /\ tt \in Seq(Seq(S)) /\ Len(tt) = m /\ \A k \in 1..m : tt[k] = f[k]  BY <1>1, <2>1
  <2> HIDE DEF ss, tt
  <2>3. Len(tt) = Len(ss) + 1 /\ \A k \in 1..Len(ss) : tt[k] = ss[k]  BY <2>1, <2>2
  <2>4. FlattenSeq(tt) = FlattenSeq(ss) \o tt[Len(tt)]  BY <2>2, <2>3, FlattenGrows
  <2> QED  BY <1>4, <2>1, <2>2, <2>4 DEF ss, tt
<1> QED  BY <1>2, <1>3, <1>4, <1>5, <1>6

\* Lists of one element each.
LEMMA JoinedSingles ==
  ASSUME NEW S, NEW x \in Seq(S), NEW f, DOMAIN f = 1..Len(x), \A k \in 1..Len(x) : f[k] = <<x[k]>>,
         f = [k \in DOMAIN f |-> f[k]]
  PROVE  FlattenSeq(f) = x
<1> DEFINE n == Len(x)
           T == {m \in 0..n : Joined(f, m) = [k \in 1..m |-> x[k]]}
<1>1. n \in Nat /\ \A k \in 1..n : x[k] \in S  OBVIOUS
<1>2. f \in [1..n -> Seq(S)]
  <2>1. \A k \in 1..n : <<x[k]>> \in Seq(S)  BY <1>1
  <2>2. \A k \in 1..n : f[k] \in Seq(S)  BY <2>1
  <2> HIDE DEF n
  <2>3. f = [k \in 1..n |-> f[k]]  BY DEF n
  <2> QED  BY <2>2, <2>3
<1>3. x = [k \in 1..n |-> x[k]]  OBVIOUS
<1>4. \A k \in 1..n : f[k] = <<x[k]>>  OBVIOUS
<1> HIDE DEF n
<1>5. 0 \in T
  <2>1. Joined(f, 0) = <<>>  BY <1>1, <1>2, JoinedIs
  <2>2. [k \in 1..0 |-> x[k]] = <<>>  OBVIOUS
  <2>3. 0 \in 0..n  BY <1>1
  <2>4. Joined(f, 0) = [k \in 1..0 |-> x[k]]  BY <2>1, <2>2, Zenon
  <2> QED  BY <2>3, <2>4, Zenon
<1>6. ASSUME NEW m \in 1..n, m - 1 \in T PROVE m \in T
  <2>1. Joined(f, m) = Joined(f, m - 1) \o f[m]  BY <1>1, <1>2, JoinedIs
  <2>2. Joined(f, m - 1) = [k \in 1..(m - 1) |-> x[k]]  BY <1>6
  <2>3. [k \in 1..(m - 1) |-> x[k]] \o <<x[m]>> = [k \in 1..m |-> x[k]]
    <3>1. m \in Nat /\ m - 1 \in Nat /\ \A k \in 1..m : k = m \/ k \in 1..(m - 1)  BY <1>1
    <3> DEFINE w == [k \in 1..(m - 1) |-> x[k]]
    <3>2. w \in Seq(S) /\ Len(w) = m - 1
      <4>1. \A k \in 1..(m - 1) : k \in 1..n  BY <1>1
      <4>2. w \in [1..(m - 1) -> S]  BY <1>1, <4>1
      <4> QED  BY <3>1, <4>2, ListIsSeq
    <3>3. \A k \in 1..(m - 1) : w[k] = x[k]  OBVIOUS
    <3>4. x[m] \in S  BY <1>1
    <3> HIDE DEF w
    <3> DEFINE b == x[m]
    <3>5. Append(w, b) = [k \in 1..m |-> x[k]]  BY <3>1, <3>2, <3>3
    <3>6. b \in S  BY <3>4
    <3> HIDE DEF b
    <3>7. w \o <<b>> = Append(w, b)  BY <3>2, <3>6
    <3> QED  BY <3>5, <3>7 DEF w, b
  <2>4. m \in 0..n  BY <1>1
  <2> QED  BY <1>4, <2>1, <2>2, <2>3, <2>4
<1>7. n \in T
  <2>1. n \in 0..n  BY <1>1
  <2> HIDE DEF T
  <2> QED  BY <1>1, <1>5, <1>6, <2>1, Upwards
<1>8. Joined(f, n) = FlattenSeq(f)  BY <1>1, <1>2, JoinedIs
<1> QED  BY <1>3, <1>7, <1>8

(* Where segments end. *)
\* Where segment k ends, by the ends of the segments before it.
Heads(segs, k) == {m \in 1..(k - 1) : segs[m].c = "M"}
Begun(es, k) == IF k = 1 THEN Origin ELSE es[k - 1]
Base(segs, es, k) == IF segs[k].rel THEN Begun(es, k) ELSE Origin
EndAt(segs, es, k) ==
  LET s == segs[k]
      prev == Begun(es, k)
      from == Base(segs, es, k)
      n == Len(s.xs)
  IN  CASE s.c = "Z" -> IF Heads(segs, k) = {} THEN Origin ELSE es[Max(Heads(segs, k))]
        [] s.c = "H" -> <<from[1] + s.xs[1], prev[2]>>
        [] s.c = "V" -> <<prev[1], from[2] + s.xs[1]>>
        [] OTHER -> Plus(from, <<s.xs[n - 1], s.xs[n]>>)

\* It is a point.
LEMMA EndIs ==
  ASSUME NEW segs, NEW k \in Nat \ {0}, NEW es, \A j \in 1..(k - 1) : es[j] \in Points, WellMade(segs[k])
  PROVE  /\ EndAt(segs, es, k) \in Points /\ Begun(es, k) \in Points /\ Base(segs, es, k) \in Points
         /\ Heads(segs, k) # {} => Max(Heads(segs, k)) \in Heads(segs, k)
<1> DEFINE s == segs[k]
           prev == Begun(es, k)
           from == Base(segs, es, k)
           n == Len(s.xs)
           heads == Heads(segs, k)
<1>1. Origin \in Points  BY StartIs
<1>2. prev \in Points
  <2>1. k # 1 => k - 1 \in 1..(k - 1)  OBVIOUS
  <2> QED  BY <1>1, <2>1 DEF Begun
<1>3. from \in Points  BY <1>1, <1>2 DEF Base
<1>4. heads # {} => Max(heads) \in heads
  <2>1. heads \subseteq 0..(k - 1) /\ k - 1 \in Nat  BY DEF Heads
  <2> HIDE DEF heads
  <2> QED  BY <2>1, GreatestElement
<1>5. s \in Segments /\ (s.c = "Z" \/ (s.c \in Taking /\ n = Arity(s.c)))  BY DEF WellMade
<1>6. s.xs \in Seq(Int) /\ n \in Nat  BY <1>5 DEF Segments
<1>7. prev[1] \in Int /\ prev[2] \in Int /\ from[1] \in Int /\ from[2] \in Int  BY <1>2, <1>3, PointIs
<1>8. CASE s.c = "Z"
  <2>1. EndAt(segs, es, k) = IF heads = {} THEN Origin ELSE es[Max(heads)]  BY <1>8 DEF EndAt
  <2>2. heads # {} => Max(heads) \in 1..(k - 1)  BY <1>4 DEF Heads
  <2> HIDE DEF heads
  <2>3. EndAt(segs, es, k) \in Points  BY <1>1, <2>1, <2>2
  <2> QED  BY <1>2, <1>3, <1>4, <2>3 DEF heads
<1>9. CASE s.c = "H" \/ s.c = "V"
  <2>1. n = 1  BY <1>5, <1>9, ArityIs
  <2>2. s.xs[1] \in Int  BY <1>6, <2>1
  <2>3. EndAt(segs, es, k) = <<from[1] + s.xs[1], prev[2]>> \/ EndAt(segs, es, k) = <<prev[1], from[2] + s.xs[1]>>
    BY <1>9 DEF EndAt
  <2>4. from[1] + s.xs[1] \in Int /\ from[2] + s.xs[1] \in Int  BY <1>7, <2>2
  <2>5. EndAt(segs, es, k) \in Points  BY <1>7, <2>3, <2>4, PointIs
  <2> QED  BY <1>2, <1>3, <1>4, <2>5
<1>10. CASE s.c \notin {"Z", "H", "V"}
  <2>1. n \in {2, 4, 6}
    <3>1. s.c \in {"M", "L", "C", "Q"}  BY <1>5, <1>10 DEF Taking
    <3> QED  BY <1>5, <1>10, <3>1, ArityIs
  <2>2. s.xs[n - 1] \in Int /\ s.xs[n] \in Int
    <3>1. n - 1 \in 1..n /\ n \in 1..n
      <4> HIDE DEF n
      <4> QED  BY <2>1
    <3> QED  BY <1>6, <3>1
  <2>3. EndAt(segs, es, k) = Plus(from, <<s.xs[n - 1], s.xs[n]>>)  BY <1>10 DEF EndAt
  <2>4. EndAt(segs, es, k) \in Points  BY <1>3, <2>2, <2>3, PointIs, PlusIs
  <2> QED  BY <1>2, <1>3, <1>4, <2>4
<1> QED  BY <1>8, <1>9, <1>10

\* Only the ends before it matter.
LEMMA EndNextIs ==
  ASSUME NEW segs \in Seq(Segments), NEW es \in Seq(Points), Len(es) < Len(segs), NEW fs,
         \A j \in 1..Len(es) : fs[j] = es[j],
         \A j \in 1..Len(segs) : WellMade(segs[j])
  PROVE  EndNext(segs, es) = EndAt(segs, fs, Len(es) + 1) /\ EndNext(segs, es) \in Points
<1> DEFINE k == Len(es) + 1
<1>1. k \in Nat \ {0} /\ DOMAIN es = 1..(k - 1) /\ k \in 1..Len(segs) /\ \A j \in 1..(k - 1) : es[j] \in Points
  OBVIOUS
<1>2. \A j \in 1..(k - 1) : fs[j] = es[j]  OBVIOUS
<1>3. Begun(es, k) = IF es = <<>> THEN Origin ELSE Last(es)
  <2>1. (es = <<>> <=> k = 1) /\ k - 1 = Len(es)  OBVIOUS
  <2> QED  BY <2>1 DEF Begun, Last
<1>4. EndNext(segs, es) = EndAt(segs, es, k)
  <2>1. {m \in DOMAIN es : segs[m].c = "M"} = Heads(segs, k)  BY <1>1 DEF Heads
  <2> QED  BY <1>3, <2>1 DEF EndNext, EndAt, Base
<1>5. EndAt(segs, es, k) \in Points /\ (Heads(segs, k) # {} => Max(Heads(segs, k)) \in Heads(segs, k))
  <2> HIDE DEF k
  <2>1. WellMade(segs[k])  BY <1>1
  <2> QED  BY <1>1, <2>1, EndIs
<1>6. EndAt(segs, es, k) = EndAt(segs, fs, k)
  <2> HIDE DEF k
  <2>1. Begun(es, k) = Begun(fs, k)
    <3>1. k # 1 => k - 1 \in 1..(k - 1)  BY <1>1
    <3> QED  BY <1>2, <3>1 DEF Begun
  <2>2. Base(segs, es, k) = Base(segs, fs, k)  BY <2>1 DEF Base
  <2>3. Heads(segs, k) # {} => es[Max(Heads(segs, k))] = fs[Max(Heads(segs, k))]
    <3>1. Heads(segs, k) \subseteq 1..(k - 1)  BY DEF Heads
    <3> QED  BY <1>2, <1>5, <3>1
  <2> QED  BY <2>1, <2>2, <2>3 DEF EndAt
<1> QED  BY <1>4, <1>5, <1>6

\* The ends of all segments.
LEMMA EndsAre ==
  ASSUME NEW segs \in Seq(Segments), \A j \in 1..Len(segs) : WellMade(segs[j])
  PROVE  /\ Ends(segs) \in Seq(Points) /\ Len(Ends(segs)) = Len(segs)
         /\ \A k \in 1..Len(segs) : Ends(segs)[k] = EndAt(segs, Ends(segs), k) /\ Ends(segs)[k] \in Points
<1> DEFINE n == Len(segs)
           Is(f) == f = [k \in 0..n |-> IF k = 0 THEN <<>> ELSE Append(f[k - 1], EndNext(segs, f[k - 1]))]
           ends == CHOOSE f : Is(f)
           Good(es) == es \in Seq(Points) /\ Len(es) < n
           Adding1 == [ke \in (1..n) \X Seq(Points) |->
                         IF Good(ke[2]) THEN Append(ke[2], EndNext(segs, ke[2])) ELSE <<>>]
<1>1. n \in Nat  OBVIOUS
<1>2. Ends(segs) = ends[n]  BY DEF Ends
<1>3. \A es : Good(es) => EndNext(segs, es) \in Points  BY EndNextIs
<1> HIDE DEF n
<1>4. \A es : Good(es) => Append(es, EndNext(segs, es)) \in Seq(Points)
                          /\ Len(Append(es, EndNext(segs, es))) = Len(es) + 1
                          /\ \A j \in 1..Len(es) : Append(es, EndNext(segs, es))[j] = es[j]
                          /\ Append(es, EndNext(segs, es))[Len(es) + 1] = EndNext(segs, es)
  <2> TAKE es
  <2> HAVE Good(es)
  <2> DEFINE p == EndNext(segs, es)
  <2>1. p \in Points /\ es \in Seq(Points)  BY <1>3
  <2> HIDE DEF p, Points
  <2>2. /\ Append(es, p) \in Seq(Points) /\ Len(Append(es, p)) = Len(es) + 1
        /\ \A j \in 1..Len(es) : Append(es, p)[j] = es[j]
        /\ Append(es, p)[Len(es) + 1] = p  BY <2>1
  <2> QED  BY <2>2 DEF p
<1>5. PICK r \in [0..n -> Seq(Points)] : Repeated(r, n, <<>>, Adding1)
  <2>1. <<>> \in Seq(Points)  OBVIOUS
  <2>2. Adding1 \in [(1..n) \X Seq(Points) -> Seq(Points)]
    <3> HIDE DEF Good
    <3> QED  BY <1>4, <2>1
  <2> HIDE DEF Adding1
  <2> QED  BY <1>1, <2>1, <2>2, RepeatedExists
<1> DEFINE T == {k \in 0..n : Len(r[k]) = k}
<1>6. ASSUME NEW k \in 1..n, k - 1 \in T PROVE k \in T /\ r[k] = Append(r[k - 1], EndNext(segs, r[k - 1]))
  <2>1. k \in 0..n /\ k - 1 \in 0..n /\ k - 1 < n /\ (k - 1) + 1 = k  BY <1>1
  <2>2. Good(r[k - 1]) /\ Len(r[k - 1]) = k - 1  BY <1>5, <1>6, <2>1
  <2>3. r[k] = Adding1[<<k, r[k - 1]>>]  BY <1>5 DEF Repeated
  <2>4. Adding1[<<k, r[k - 1]>>] = Append(r[k - 1], EndNext(segs, r[k - 1]))
    <3>1. r[k - 1] \in Seq(Points)  BY <1>5, <2>1
    <3> HIDE DEF Good
    <3> QED  BY <2>2, <3>1
  <2>5. Len(r[k]) = k
    <3> HIDE DEF Good
    <3> QED  BY <1>4, <2>1, <2>2, <2>3, <2>4
  <2> QED  BY <2>1, <2>3, <2>4, <2>5
<1>7. \A k \in 0..n : k \in T
  <2>1. 0 \in T
    <3>1. r[0] = <<>>  BY <1>5 DEF Repeated
    <3> QED  BY <1>1, <3>1
  <2> HIDE DEF T
  <2> QED  BY <1>1, <1>6, <2>1, Upwards
<1>8. Is(r)
  <2>1. \A k \in 1..n : r[k] = Append(r[k - 1], EndNext(segs, r[k - 1]))
    <3>1. \A k \in 1..n : k - 1 \in 0..n  BY <1>1
    <3> HIDE DEF T
    <3> QED  BY <1>6, <1>7, <3>1
  <2>2. r[0] = <<>>  BY <1>5 DEF Repeated
  <2>3. \A k \in 0..n : r[k] = IF k = 0 THEN <<>> ELSE Append(r[k - 1], EndNext(segs, r[k - 1]))
    <3>1. \A k \in 0..n : k # 0 => k \in 1..n  BY <1>1
    <3> QED  BY <2>1, <2>2, <3>1
  <2> QED  BY <1>5, <2>3
<1>9. Is(ends)
  <2> HIDE DEF Is
  <2> QED  BY <1>8
<1> HIDE DEF ends, T
<1>10. ends[0] = <<>> /\ \A k \in 1..n : ends[k] = Append(ends[k - 1], EndNext(segs, ends[k - 1]))
  <2>1. \A k \in 0..n : ends[k] = IF k = 0 THEN <<>> ELSE Append(ends[k - 1], EndNext(segs, ends[k - 1]))  BY <1>9
  <2>2. 0 \in 0..n /\ \A k \in 1..n : k \in 0..n /\ k # 0  BY <1>1
  <2> HIDE DEF Is
  <2> QED  BY <2>1, <2>2
<1> HIDE DEF Is
<1> DEFINE U == {k \in 0..n : /\ ends[k] \in Seq(Points) /\ Len(ends[k]) = k
                              /\ \A j \in 1..k : ends[k][j] = EndNext(segs, ends[j - 1])
                              /\ \A j \in 0..k : \A m \in 1..j : ends[k][m] = ends[j][m]}
<1>11. ASSUME NEW k \in 1..n, k - 1 \in U PROVE k \in U
  <2> DEFINE es == ends[k - 1]
             fs == ends[k]
  <2>1. k \in 0..n /\ k - 1 \in 0..n /\ k - 1 < n /\ (k - 1) + 1 = k  BY <1>1
  <2>2. /\ es \in Seq(Points) /\ Len(es) = k - 1 /\ \A j \in 1..(k - 1) : es[j] = EndNext(segs, ends[j - 1])
        /\ \A j \in 0..(k - 1) : \A m \in 1..j : es[m] = ends[j][m]  BY <1>11
  <2>3. Good(es)  BY <2>1, <2>2
  <2>4. fs = Append(es, EndNext(segs, es))  BY <1>10
  <2>5. fs \in Seq(Points) /\ Len(fs) = k /\ (\A j \in 1..(k - 1) : fs[j] = es[j]) /\ fs[k] = EndNext(segs, es)
    <3> HIDE DEF Good, es, fs
    <3> QED  BY <1>4, <2>1, <2>2, <2>3, <2>4
  <2>6. \A j \in 1..k : fs[j] = EndNext(segs, ends[j - 1])
    <3>1. \A j \in 1..k : j = k \/ j \in 1..(k - 1)  BY <1>1
    <3> HIDE DEF fs
    <3> QED  BY <2>2, <2>5, <3>1
  <2>7. \A j \in 0..k : \A m \in 1..j : fs[m] = ends[j][m]
    <3> TAKE j \in 0..k
    <3> TAKE m \in 1..j
    <3>1. j = k \/ (j \in 0..(k - 1) /\ m \in 1..(k - 1))  BY <1>1
    <3>2. CASE j = k  BY <3>2
    <3>3. CASE j \in 0..(k - 1) /\ m \in 1..(k - 1)
      <4> HIDE DEF fs, es
      <4> QED  BY <2>2, <2>5, <3>3
    <3> QED  BY <3>1, <3>2, <3>3
  <2> HIDE DEF es
  <2> QED  BY <2>1, <2>5, <2>6, <2>7
<1>12. \A k \in 0..n : k \in U
  <2>1. 0 \in U
    <3>1. 0 \in 0..n /\ (\A j \in 1..0 : FALSE) /\ \A j \in 0..0 : j = 0  BY <1>1
    <3>2. <<>> \in Seq(Points) /\ Len(<<>>) = 0  OBVIOUS
    <3> QED  BY <1>10, <3>1, <3>2
  <2> HIDE DEF U
  <2> QED  BY <1>1, <1>11, <2>1, Upwards
<1> DEFINE E == ends[n]
<1>13. /\ E \in Seq(Points) /\ Len(E) = n /\ \A j \in 1..n : E[j] = EndNext(segs, ends[j - 1])
       /\ \A j \in 0..n : \A m \in 1..j : E[m] = ends[j][m]
  <2>1. n \in 0..n  BY <1>1
  <2> QED  BY <1>12, <2>1
<1>14. ASSUME NEW k \in 1..n PROVE E[k] = EndAt(segs, E, k) /\ E[k] \in Points
  <2> DEFINE es == ends[k - 1]
  <2>1. k - 1 \in 0..n /\ k - 1 < n /\ (k - 1) + 1 = k  BY <1>1
  <2>2. es \in Seq(Points) /\ Len(es) = k - 1  BY <1>12, <2>1
  <2>3. E[k] = EndNext(segs, es) /\ \A j \in 1..(k - 1) : E[j] = es[j]  BY <1>13, <2>1
  <2> HIDE DEF es, E
  <2>4. EndNext(segs, es) = EndAt(segs, E, k) /\ EndNext(segs, es) \in Points
    <3>1. Len(es) < Len(segs) /\ Len(es) + 1 = k  BY <2>1, <2>2 DEF n
    <3>2. \A j \in 1..Len(es) : E[j] = es[j]  BY <2>2, <2>3
    <3>3. EndNext(segs, es) = EndAt(segs, E, Len(es) + 1) /\ EndNext(segs, es) \in Points
      BY <2>2, <3>1, <3>2, EndNextIs
    <3> QED  BY <3>1, <3>3
  <2> QED  BY <2>3, <2>4
<1> QED  BY <1>2, <1>13, <1>14 DEF n

\* The points between neighbours.
LEMMA NearerIs ==
  ASSUME NEW t \in Int, NEW ps \in Seq(Points)
  PROVE  /\ Nearer(t, ps) \in Seq(Points)
         /\ ps # <<>> => Len(Nearer(t, ps)) = Len(ps) - 1
         /\ \A j \in 1..(Len(ps) - 1) :
              Nearer(t, ps)[j] = Plus(Scaled(Steps - t, ps[j]), Scaled(t, ps[j + 1]))
<1> DEFINE n == Len(ps) - 1
           P(j) == Plus(Scaled(Steps - t, ps[j]), Scaled(t, ps[j + 1]))
<1>1. ps = <<>> \/ n \in Nat  OBVIOUS
<1>2. ASSUME NEW j \in 1..n PROVE P(j) \in Points
  <2>1. ps[j] \in Points /\ ps[j + 1] \in Points
    <3>1. j \in 1..Len(ps) /\ j + 1 \in 1..Len(ps)  OBVIOUS
    <3> HIDE DEF Points
    <3> QED  BY <3>1
  <2>2. Steps - t \in Int  BY PathAssumption
  <2> QED  BY <2>1, <2>2, ScaledIs, PlusIs
<1>3. Nearer(t, ps) = [j \in 1..n |-> P(j)]  BY DEF Nearer
<1>4. ps = <<>> => Nearer(t, ps) = <<>>
  <2>1. ps = <<>> => \A j : j \notin 1..n  OBVIOUS
  <2> HIDE DEF n, P
  <2> QED  BY <1>3, <2>1
<1>5. CASE ps = <<>>
  <2>1. <<>> \in Seq(Points) /\ \A j : j \notin 1..n  BY <1>5
  <2> QED  BY <1>4, <1>5, <2>1
<1>6. CASE n \in Nat /\ ps # <<>>
  <2> HIDE DEF n, P
  <2>1. Nearer(t, ps) \in [1..n -> Points]  BY <1>2, <1>3
  <2>2. Nearer(t, ps) \in Seq(Points) /\ Len(Nearer(t, ps)) = n  BY <1>6, <2>1, ListIsSeq
  <2>3. \A j \in 1..n : Nearer(t, ps)[j] = P(j)  BY <1>3
  <2> QED  BY <2>2, <2>3 DEF n, P
<1> QED  BY <1>1, <1>5, <1>6

\* What is left of a few points after so many times.
LEMMA NearIs ==
  ASSUME NEW t \in Int, NEW ctrl \in Seq(Points), NEW m \in Nat, Len(ctrl) - 1 = m
  PROVE  \E near \in [0..m -> Seq(Points)] :
           /\ near[0] = ctrl
           /\ \A n \in 1..m : near[n] = Nearer(t, near[n - 1])
           /\ PointAt(t, ctrl) = Scaled(IF Len(ctrl) = 3 THEN Steps ELSE 1, near[m][1])
<1> DEFINE Is(f) == f = [n \in 0..m |-> IF n = 0 THEN ctrl ELSE Nearer(t, f[n - 1])]
           near == CHOOSE f : Is(f)
           Nearing == [np \in (1..m) \X Seq(Points) |-> Nearer(t, np[2])]
<1>1. m \in Nat  OBVIOUS
<1>2. PointAt(t, ctrl) = Scaled(IF Len(ctrl) = 3 THEN Steps ELSE 1, near[m][1])
  <2> QED  BY DEF PointAt
<1>3. PICK r \in [0..m -> Seq(Points)] : Repeated(r, m, ctrl, Nearing)
  <2>1. Nearing \in [(1..m) \X Seq(Points) -> Seq(Points)]
    <3>1. \A np \in (1..m) \X Seq(Points) : Nearer(t, np[2]) \in Seq(Points)
      <4>1. \A np \in (1..m) \X Seq(Points) : np[2] \in Seq(Points)  OBVIOUS
      <4> QED  BY <4>1, NearerIs
    <3> QED  BY <3>1
  <2> HIDE DEF Nearing
  <2> QED  BY <1>1, <2>1, RepeatedExists
<1>4. r[0] = ctrl /\ \A n \in 1..m : r[n] = Nearer(t, r[n - 1])
  <2>1. ASSUME NEW n \in 1..m PROVE r[n] = Nearer(t, r[n - 1])
    <3>1. n - 1 \in 0..m  BY <1>1
    <3>2. r[n - 1] \in Seq(Points)  BY <3>1
    <3>3. r[n] = Nearing[<<n, r[n - 1]>>]  BY <1>3 DEF Repeated
    <3>4. Nearing[<<n, r[n - 1]>>] = Nearer(t, r[n - 1])  BY <3>2
    <3> QED  BY <3>3, <3>4
  <2> QED  BY <1>3, <2>1 DEF Repeated
<1>5. Is(r)
  <2>1. \A n \in 0..m : r[n] = IF n = 0 THEN ctrl ELSE Nearer(t, r[n - 1])
    <3>1. \A n \in 0..m : n # 0 => n \in 1..m  BY <1>1
    <3> QED  BY <1>4, <3>1
  <2> QED  BY <1>3, <2>1
<1>6. Is(near)
  <2> HIDE DEF Is
  <2> QED  BY <1>5
<1> HIDE DEF near
<1>7. near[0] = ctrl /\ \A n \in 1..m : near[n] = Nearer(t, near[n - 1])
  <2>1. \A n \in 0..m : near[n] = IF n = 0 THEN ctrl ELSE Nearer(t, near[n - 1])  BY <1>6
  <2>2. 0 \in 0..m /\ \A n \in 1..m : n \in 0..m /\ n # 0  BY <1>1
  <2> HIDE DEF Is
  <2> QED  BY <2>1, <2>2
<1>8. near = [n \in 0..m |-> near[n]]
  <2>1. DOMAIN near = 0..m  BY <1>6
  <2>2. \E b : near = [n \in 0..m |-> b[n]]  BY <1>6
  <2> HIDE DEF Is
  <2> QED  BY <2>1, <2>2
<1> HIDE DEF Is
<1>9. \A n \in 0..m : near[n] \in Seq(Points)
  <2> DEFINE T == {n \in 0..m : near[n] \in Seq(Points)}
  <2>1. 0 \in T
    <3>1. 0 \in 0..m  BY <1>1
    <3> QED  BY <1>7, <3>1
  <2>2. ASSUME NEW n \in 1..m, n - 1 \in T PROVE n \in T
    <3>1. n \in 0..m /\ near[n - 1] \in Seq(Points)  BY <1>1, <2>2
    <3> QED  BY <1>7, <3>1, NearerIs
  <2>3. \A n \in 0..m : n \in T
    <3> HIDE DEF T
    <3> QED  BY <1>1, <2>1, <2>2, Upwards
  <2> QED  BY <2>3
<1>10. near \in [0..m -> Seq(Points)]  BY <1>8, <1>9
<1> QED  BY <1>2, <1>7, <1>10

\* De Casteljau's points are those of the polynomials.
LEMMA Blend ==
  ASSUME NEW r \in Int, NEW t \in Int, NEW a \in Int, NEW b \in Int, NEW c \in Int, NEW d \in Int
  PROVE  /\ r * (r * a + t * b) + t * (r * b + t * c) = ((r * r) * a + (2 * r * t) * b) + (t * t) * c
         /\ r * (r * (r * a + t * b) + t * (r * b + t * c)) + t * (r * (r * b + t * c) + t * (r * c + t * d))
              = ((r * r * r) * a + (3 * r * r * t) * b) + ((3 * r * t * t) * c + (t * t * t) * d)
OBVIOUS

(* Curves: de Casteljau's construction and the polynomials. *)
Mix(t, p, q) == Plus(Scaled(Steps - t, p), Scaled(t, q))

\* A mean of two points is a point.
LEMMA MixIs ==
  ASSUME NEW t \in Int, NEW p \in Points, NEW q \in Points
  PROVE  /\ Mix(t, p, q) \in Points /\ Steps - t \in Int
         /\ Mix(t, p, q) = <<(Steps - t) * p[1] + t * q[1], (Steps - t) * p[2] + t * q[2]>>
         /\ Mix(t, p, q)[1] = (Steps - t) * p[1] + t * q[1]
         /\ Mix(t, p, q)[2] = (Steps - t) * p[2] + t * q[2]
<1>1. Steps - t \in Int  BY PathAssumption
<1>2. Mix(t, p, q) \in Points  BY <1>1, ScaledIs, PlusIs DEF Mix
<1>3. Mix(t, p, q) = <<(Steps - t) * p[1] + t * q[1], (Steps - t) * p[2] + t * q[2]>>  BY DEF Mix, Plus, Scaled
<1> QED  BY <1>1, <1>2, <1>3

\* De Casteljau's construction on three points is the quadratic that
\* flattenQuadratic evaluates.
LEMMA ThreePoints ==
  ASSUME NEW t \in Int, NEW ps \in Seq(Points), Len(ps) = 3
  PROVE  PointAt(t, ps) = Quadratic(ps, t, Steps - t)
<1> DEFINE r == Steps - t
           a == ps[1]
           b == ps[2]
           c == ps[3]
<1>1. a \in Points /\ b \in Points /\ c \in Points /\ ps # <<>> /\ Len(ps) - 1 = 2  OBVIOUS
<1>2. r \in Int /\ Steps \in Int  BY PathAssumption
<1>3. PICK near \in [0..2 -> Seq(Points)] :
        /\ near[0] = ps
        /\ \A n \in 1..2 : near[n] = Nearer(t, near[n - 1])
        /\ PointAt(t, ps) = Scaled(Steps, near[2][1])
  <2>1. 2 \in Nat  OBVIOUS
  <2>2. \E near \in [0..2 -> Seq(Points)] :
          /\ near[0] = ps
          /\ \A n \in 1..2 : near[n] = Nearer(t, near[n - 1])
          /\ PointAt(t, ps) = Scaled(IF Len(ps) = 3 THEN Steps ELSE 1, near[2][1])  BY <1>1, <2>1, NearIs, Zenon
  <2>3. (IF Len(ps) = 3 THEN Steps ELSE 1) = Steps  BY <1>1
  <2> QED  BY <2>2, <2>3, Zenon
<1>4. near[1] \in Seq(Points) /\ Len(near[1]) = 2 /\ near[1][1] = Mix(t, a, b) /\ near[1][2] = Mix(t, b, c)
  <2>1. near[1] = Nearer(t, ps)
    <3>1. 1 \in 1..2 /\ 1 - 1 = 0  OBVIOUS
    <3> QED  BY <1>3, <3>1
  <2>2. 1 \in 1..2 /\ 2 \in 1..2 /\ 1 + 1 = 2 /\ 2 + 1 = 3 /\ 3 - 1 = 2  OBVIOUS
  <2>3. /\ Nearer(t, ps) \in Seq(Points) /\ Len(Nearer(t, ps)) = Len(ps) - 1
        /\ \A j \in 1..(Len(ps) - 1) : Nearer(t, ps)[j] = Plus(Scaled(Steps - t, ps[j]), Scaled(t, ps[j + 1]))
    BY <1>1, NearerIs
  <2>4. \A j \in 1..2 : Nearer(t, ps)[j] = Mix(t, ps[j], ps[j + 1])  BY <1>1, <2>3 DEF Mix
  <2> QED  BY <1>1, <2>1, <2>2, <2>3, <2>4
<1>5. near[2][1] = Mix(t, Mix(t, a, b), Mix(t, b, c))
  <2> DEFINE qs == near[1]
  <2>1. near[2] = Nearer(t, qs)
    <3>1. 2 \in 1..2 /\ 2 - 1 = 1  OBVIOUS
    <3> QED  BY <1>3, <3>1
  <2>2. qs \in Seq(Points) /\ Len(qs) = 2 /\ qs[1] = Mix(t, a, b) /\ qs[2] = Mix(t, b, c)  BY <1>4
  <2> HIDE DEF qs
  <2>3. \A j \in 1..(Len(qs) - 1) : Nearer(t, qs)[j] = Mix(t, qs[j], qs[j + 1])  BY <2>2, NearerIs DEF Mix
  <2>4. 1 \in 1..(Len(qs) - 1) /\ 1 + 1 = 2  BY <2>2
  <2> QED  BY <2>1, <2>2, <2>3, <2>4
<1> HIDE DEF a, b, c, r
<1>6. ASSUME NEW x \in {1, 2}
      PROVE  Mix(t, Mix(t, a, b), Mix(t, b, c))[x] = ((r * r) * a[x] + (2 * r * t) * b[x]) + (t * t) * c[x]
  <2>1. Mix(t, a, b) \in Points /\ Mix(t, b, c) \in Points  BY <1>1, MixIs
  <2>2. /\ Mix(t, a, b)[x] = r * a[x] + t * b[x] /\ Mix(t, b, c)[x] = r * b[x] + t * c[x]
        /\ Mix(t, Mix(t, a, b), Mix(t, b, c))[x] = r * Mix(t, a, b)[x] + t * Mix(t, b, c)[x]
    BY <1>1, <2>1, MixIs DEF r
  <2>3. a[x] \in Int /\ b[x] \in Int /\ c[x] \in Int  BY <1>1, PointIs
  <2>4. r * (r * a[x] + t * b[x]) + t * (r * b[x] + t * c[x])
          = ((r * r) * a[x] + (2 * r * t) * b[x]) + (t * t) * c[x]
    <3> DEFINE p == a[x]
               q == b[x]
               v == c[x]
    <3>1. p \in Int /\ q \in Int /\ v \in Int /\ 0 \in Int  BY <2>3
    <3> HIDE DEF p, q, v
    <3>2. r * (r * p + t * q) + t * (r * q + t * v) = ((r * r) * p + (2 * r * t) * q) + (t * t) * v
      BY <1>2, <3>1, Blend
    <3> QED  BY <3>2 DEF p, q, v
  <2> QED  BY <2>2, <2>4, Zenon
<1>7. Scaled(Steps, near[2][1]) = Quadratic(ps, t, r)
  <2> DEFINE m == near[2][1]
  <2>1. m[1] = ((r * r) * a[1] + (2 * r * t) * b[1]) + (t * t) * c[1]
        /\ m[2] = ((r * r) * a[2] + (2 * r * t) * b[2]) + (t * t) * c[2]  BY <1>5, <1>6
  <2>2. Quadratic(ps, t, r) =
          <<Steps * (((r * r) * a[1] + (2 * r * t) * b[1]) + (t * t) * c[1]),
            Steps * (((r * r) * a[2] + (2 * r * t) * b[2]) + (t * t) * c[2])>>
    BY DEF Quadratic, Scaled, Plus, a, b, c
  <2> HIDE DEF m
  <2>3. Scaled(Steps, m) = <<Steps * m[1], Steps * m[2]>>  BY DEF Scaled
  <2> QED  BY <2>1, <2>2, <2>3 DEF m
<1> QED  BY <1>3, <1>7 DEF r

\* On four points it is the cubic that flattenCubic evaluates.
LEMMA FourPoints ==
  ASSUME NEW t \in Int, NEW ps \in Seq(Points), Len(ps) = 4
  PROVE  PointAt(t, ps) = Cubic(ps, t, Steps - t)
<1> DEFINE r == Steps - t
           a == ps[1]
           b == ps[2]
           c == ps[3]
           d == ps[4]
           ab == Mix(t, a, b)
           bc == Mix(t, b, c)
           cd == Mix(t, c, d)
           abc == Mix(t, ab, bc)
           bcd == Mix(t, bc, cd)
<1>1. a \in Points /\ b \in Points /\ c \in Points /\ d \in Points /\ ps # <<>> /\ Len(ps) - 1 = 3 /\ Len(ps) # 3
  <2>1. 1 \in 1..Len(ps) /\ 2 \in 1..Len(ps) /\ 3 \in 1..Len(ps) /\ 4 \in 1..Len(ps)  OBVIOUS
  <2>2. \A j \in 1..Len(ps) : ps[j] \in Points  BY SMTT(30)
  <2>3. ps # <<>> /\ Len(ps) - 1 = 3 /\ Len(ps) # 3  OBVIOUS
  <2> QED  BY <2>1, <2>2, <2>3
<1>2. r \in Int /\ Steps \in Int  BY PathAssumption
<1>3. PICK near \in [0..3 -> Seq(Points)] :
        /\ near[0] = ps
        /\ \A n \in 1..3 : near[n] = Nearer(t, near[n - 1])
        /\ PointAt(t, ps) = Scaled(1, near[3][1])
  <2>1. 3 \in Nat  OBVIOUS
  <2>2. \E near \in [0..3 -> Seq(Points)] :
          /\ near[0] = ps
          /\ \A n \in 1..3 : near[n] = Nearer(t, near[n - 1])
          /\ PointAt(t, ps) = Scaled(IF Len(ps) = 3 THEN Steps ELSE 1, near[3][1])  BY <1>1, <2>1, NearIs, ZenonT(30)
  <2>3. (IF Len(ps) = 3 THEN Steps ELSE 1) = 1  BY <1>1
  <2> QED  BY <2>2, <2>3, Zenon
<1> HIDE DEF ab, bc, cd, abc, bcd
<1>4. near[1] \in Seq(Points) /\ Len(near[1]) = 3 /\ near[1][1] = ab /\ near[1][2] = bc /\ near[1][3] = cd
  <2>1. near[1] = Nearer(t, ps)
    <3>1. 1 \in 1..3 /\ 1 - 1 = 0  OBVIOUS
    <3> QED  BY <1>3, <3>1
  <2>2. 1 \in 1..3 /\ 2 \in 1..3 /\ 3 \in 1..3 /\ 1 + 1 = 2 /\ 2 + 1 = 3 /\ 3 + 1 = 4  OBVIOUS
  <2>3. /\ Nearer(t, ps) \in Seq(Points) /\ Len(Nearer(t, ps)) = Len(ps) - 1
        /\ \A j \in 1..(Len(ps) - 1) : Nearer(t, ps)[j] = Plus(Scaled(Steps - t, ps[j]), Scaled(t, ps[j + 1]))
    BY <1>1, NearerIs
  <2>4. \A j \in 1..3 : Nearer(t, ps)[j] = Mix(t, ps[j], ps[j + 1])  BY <1>1, <2>3 DEF Mix
  <2> QED  BY <1>1, <2>1, <2>2, <2>3, <2>4 DEF ab, bc, cd
<1>5. near[2] \in Seq(Points) /\ Len(near[2]) = 2 /\ near[2][1] = abc /\ near[2][2] = bcd
  <2> DEFINE qs == near[1]
  <2>1. near[2] = Nearer(t, qs)
    <3>1. 2 \in 1..3 /\ 2 - 1 = 1  OBVIOUS
    <3> QED  BY <1>3, <3>1
  <2>2. qs \in Seq(Points) /\ Len(qs) = 3 /\ qs[1] = ab /\ qs[2] = bc /\ qs[3] = cd /\ qs # <<>>  BY <1>4
  <2> HIDE DEF qs
  <2>3. /\ Nearer(t, qs) \in Seq(Points) /\ Len(Nearer(t, qs)) = Len(qs) - 1
        /\ \A j \in 1..(Len(qs) - 1) : Nearer(t, qs)[j] = Mix(t, qs[j], qs[j + 1])  BY <2>2, NearerIs DEF Mix
  <2>4. 1 \in 1..(Len(qs) - 1) /\ 2 \in 1..(Len(qs) - 1) /\ 1 + 1 = 2 /\ 2 + 1 = 3 /\ Len(qs) - 1 = 2  BY <2>2
  <2> QED  BY <2>1, <2>2, <2>3, <2>4 DEF abc, bcd
<1>6. near[3][1] = Mix(t, abc, bcd)
  <2> DEFINE qs == near[2]
  <2>1. near[3] = Nearer(t, qs)
    <3>1. 3 \in 1..3 /\ 3 - 1 = 2  OBVIOUS
    <3> QED  BY <1>3, <3>1
  <2>2. qs \in Seq(Points) /\ Len(qs) = 2 /\ qs[1] = abc /\ qs[2] = bcd  BY <1>5
  <2> HIDE DEF qs
  <2>3. \A j \in 1..(Len(qs) - 1) : Nearer(t, qs)[j] = Mix(t, qs[j], qs[j + 1])  BY <2>2, NearerIs DEF Mix
  <2>4. 1 \in 1..(Len(qs) - 1) /\ 1 + 1 = 2  BY <2>2
  <2> QED  BY <2>1, <2>2, <2>3, <2>4
<1> HIDE DEF a, b, c, d, r
<1>7. ab \in Points /\ bc \in Points /\ cd \in Points  BY <1>1, MixIs DEF ab, bc, cd
<1>8. abc \in Points /\ bcd \in Points  BY <1>7, MixIs DEF abc, bcd
<1>9. ASSUME NEW x \in {1, 2} PROVE Mix(t, abc, bcd)[x] = ((r * r * r) * a[x] + (3 * r * r * t) * b[x])
                                     + ((3 * r * t * t) * c[x] + (t * t * t) * d[x])
  <2>1. ab[x] = r * a[x] + t * b[x] /\ bc[x] = r * b[x] + t * c[x] /\ cd[x] = r * c[x] + t * d[x]
    BY <1>1, MixIs DEF r, ab, bc, cd
  <2>2. abc[x] = r * ab[x] + t * bc[x] /\ bcd[x] = r * bc[x] + t * cd[x]  BY <1>7, MixIs DEF r, abc, bcd
  <2>3. Mix(t, abc, bcd)[x] = r * abc[x] + t * bcd[x]  BY <1>8, MixIs DEF r
  <2>4. a[x] \in Int /\ b[x] \in Int /\ c[x] \in Int /\ d[x] \in Int  BY <1>1, PointIs
  <2>5. r * (r * (r * a[x] + t * b[x]) + t * (r * b[x] + t * c[x]))
            + t * (r * (r * b[x] + t * c[x]) + t * (r * c[x] + t * d[x]))
          = ((r * r * r) * a[x] + (3 * r * r * t) * b[x]) + ((3 * r * t * t) * c[x] + (t * t * t) * d[x])
    <3> DEFINE p == a[x]
               q == b[x]
               v == c[x]
               w == d[x]
    <3>1. p \in Int /\ q \in Int /\ v \in Int /\ w \in Int  BY <2>4
    <3> HIDE DEF p, q, v, w
    <3>2. r * (r * (r * p + t * q) + t * (r * q + t * v)) + t * (r * (r * q + t * v) + t * (r * v + t * w))
            = ((r * r * r) * p + (3 * r * r * t) * q) + ((3 * r * t * t) * v + (t * t * t) * w)  BY <1>2, <3>1, Blend
    <3> QED  BY <3>2 DEF p, q, v, w
  <2> QED  BY <2>1, <2>2, <2>3, <2>5, Zenon
<1>10. Scaled(1, near[3][1]) = Cubic(ps, t, r)
  <2> DEFINE m == near[3][1]
  <2>1. m[1] = ((r * r * r) * a[1] + (3 * r * r * t) * b[1]) + ((3 * r * t * t) * c[1] + (t * t * t) * d[1])
        /\ m[2] = ((r * r * r) * a[2] + (3 * r * r * t) * b[2]) + ((3 * r * t * t) * c[2] + (t * t * t) * d[2])
    BY <1>6, <1>9
  <2>2. Cubic(ps, t, r) =
          <<((r * r * r) * a[1] + (3 * r * r * t) * b[1]) + ((3 * r * t * t) * c[1] + (t * t * t) * d[1]),
            ((r * r * r) * a[2] + (3 * r * r * t) * b[2]) + ((3 * r * t * t) * c[2] + (t * t * t) * d[2])>>
    BY DEF Cubic, Scaled, Plus, a, b, c, d
  <2>3. m \in Points  BY <1>6, <1>8, MixIs
  <2> HIDE DEF m
  <2>4. Scaled(1, m) = <<m[1], m[2]>>
    <3>1. m[1] \in Int /\ m[2] \in Int  BY <2>3, PointIs
    <3>2. 1 * m[1] = m[1] /\ 1 * m[2] = m[2]  BY <3>1
    <3> QED  BY <3>2 DEF Scaled
  <2> QED  BY <2>1, <2>2, <2>4 DEF m
<1> QED  BY <1>3, <1>10 DEF r

\* The points of a curve are those of the construction.
LEMMA CurvesAre ==
  ASSUME NEW n \in {3, 4}, NEW ctrl \in [1..n -> Points]
  PROVE  [t \in 1..Steps |-> PointAt(t, ctrl)] = Curve(ctrl)
<1>1. ctrl \in Seq(Points) /\ Len(ctrl) = n
  <2>1. n \in Nat  OBVIOUS
  <2> QED  BY <2>1, ListIsSeq
<1>2. \A t \in 1..Steps : t \in Int  OBVIOUS
<1>3. CASE n = 3
  <2>1. \A t \in 1..Steps : PointAt(t, ctrl) = Quadratic(ctrl, t, Steps - t)  BY <1>1, <1>2, <1>3, ThreePoints
  <2>2. Len(ctrl) # 4  BY <1>1, <1>3
  <2> QED  BY <2>1, <2>2 DEF Curve
<1>4. CASE n = 4
  <2>1. \A t \in 1..Steps : PointAt(t, ctrl) = Cubic(ctrl, t, Steps - t)  BY <1>1, <1>2, <1>4, FourPoints
  <2> QED  BY <1>1, <1>4, <2>1 DEF Curve
<1> QED  BY <1>3, <1>4

(* What segments draw, and the contours they make. *)
\* The control points of segment k, where it begins first.
Control(segs, es, k) ==
  <<Begun(es, k)>> \o [j \in 1..(Len(segs[k].xs) \div 2) |->
                         Plus(Base(segs, es, k), <<segs[k].xs[2 * j - 1], segs[k].xs[2 * j]>>)]

\* The points of each segment.
LEMMA PointsOfAre ==
  ASSUME NEW segs \in Seq(Segments), \A j \in 1..Len(segs) : WellMade(segs[j]), NEW k \in 1..Len(segs)
  PROVE  /\ PointsOf(segs, k) \in Seq(Points)
         /\ segs[k].c = "Z" => PointsOf(segs, k) = <<>>
         /\ segs[k].c \in {"M", "L", "H", "V"} => PointsOf(segs, k) = <<Scaled(Unit, Ends(segs)[k])>>
         /\ segs[k].c \in {"C", "Q"} => PointsOf(segs, k) = Curve(Control(segs, Ends(segs), k))
<1> DEFINE s == segs[k]
           E == Ends(segs)
           prev == Begun(E, k)
           from == Base(segs, E, k)
           ctrl == Control(segs, E, k)
           P(j) == Plus(from, <<s.xs[2 * j - 1], s.xs[2 * j]>>)
<1>1. k \in Nat \ {0} /\ WellMade(s) /\ Len(segs) \in Nat  OBVIOUS
<1>2. \A j \in 1..Len(segs) : E[j] \in Points  BY EndsAre
<1> HIDE DEF E
<1>3. prev \in Points /\ from \in Points
  <2>1. \A j \in 1..(k - 1) : E[j] \in Points
    <3>1. \A j \in 1..(k - 1) : j \in 1..Len(segs)  BY <1>1
    <3> QED  BY <1>2, <3>1
  <2> HIDE DEF prev, from
  <2>2. EndAt(segs, E, k) \in Points /\ Begun(E, k) \in Points /\ Base(segs, E, k) \in Points  BY <1>1, <2>1, EndIs
  <2> QED  BY <2>2 DEF prev, from
<1>4. s \in Segments /\ (s.c = "Z" \/ (s.c \in Taking /\ Len(s.xs) = Arity(s.c)))  BY <1>1 DEF WellMade
<1>5. s.c = "Z" => PointsOf(segs, k) = <<>>  BY DEF PointsOf
<1>6. s.c \in {"M", "L", "H", "V"} => PointsOf(segs, k) = <<Scaled(Unit, E[k])>>  BY DEF PointsOf, E
<1>7. ASSUME s.c \in {"C", "Q"} PROVE PointsOf(segs, k) = Curve(ctrl) /\ Curve(ctrl) \in Seq(Points)
  <2>1. PICK n \in {2, 3} : Len(s.xs) = 2 * n
    <3>1. CASE s.c = "C"
      <4>1. s.c # "Z"  BY <3>1
      <4>2. Len(s.xs) = Arity("C")  BY <1>4, <3>1, <4>1
      <4>3. Arity("C") = 2 * 3  BY ArityIs
      <4> QED  BY <4>2, <4>3
    <3>2. CASE s.c = "Q"
      <4>1. s.c # "Z"  BY <3>2
      <4>2. Len(s.xs) = Arity("Q")  BY <1>4, <3>2, <4>1
      <4>3. Arity("Q") = 2 * 2  BY ArityIs
      <4> QED  BY <4>2, <4>3
    <3> QED  BY <1>7, <3>1, <3>2
  <2>2. s.xs \in Seq(Int)  BY <1>4 DEF Segments
  <2>3. Len(s.xs) \div 2 = n
    <3>1. n \in Nat  OBVIOUS
    <3> QED  BY <2>1, <3>1
  <2>4. ASSUME NEW j \in 1..n PROVE P(j) \in Points
    <3>1. 2 * j - 1 \in 1..Len(s.xs) /\ 2 * j \in 1..Len(s.xs)  BY <2>1
    <3>2. s.xs[2 * j - 1] \in Int /\ s.xs[2 * j] \in Int  BY <2>2, <3>1
    <3> QED  BY <1>3, <3>2, PointIs, PlusIs
  <2>5. ctrl = <<prev>> \o [j \in 1..n |-> P(j)]  BY <2>3 DEF Control
  <2>6. ctrl \in [1..(n + 1) -> Points]
    <3> HIDE DEF ctrl, P, prev
    <3> DEFINE w == [j \in 1..n |-> P(j)]
    <3>1. w \in [1..n -> Points]  BY <2>4
    <3> HIDE DEF w, Points
    <3>2. w \in Seq(Points) /\ Len(w) = n  BY <3>1, ListIsSeq
    <3>3. <<prev>> \in Seq(Points) /\ Len(<<prev>>) = 1  BY <1>3
    <3>4. \A a, b \in Seq(Points) : a \o b \in Seq(Points) /\ Len(a \o b) = Len(a) + Len(b)  OBVIOUS
    <3>5. \A a \in Seq(Points) : a \in [1..Len(a) -> Points]  OBVIOUS
    <3>6. <<prev>> \o w \in Seq(Points) /\ Len(<<prev>> \o w) = 1 + n  BY <3>2, <3>3, <3>4
    <3>7. 1 + n = n + 1  OBVIOUS
    <3> QED  BY <2>5, <3>5, <3>6, <3>7 DEF w
  <2>7. PointsOf(segs, k) = [t \in 1..Steps |-> PointAt(t, ctrl)]
    <3>1. s.c # "Z"  BY <1>7
    <3> QED  BY <1>7, <3>1 DEF PointsOf, Control, Begun, Base, E
  <2>8. n + 1 \in {3, 4}  OBVIOUS
  <2> HIDE DEF ctrl
  <2>9. [t \in 1..Steps |-> PointAt(t, ctrl)] = Curve(ctrl) /\ Curve(ctrl) \in Seq(Points)
    BY <2>6, <2>8, CurvesAre, CurveIs
  <2> QED  BY <2>7, <2>9
<1>8. PointsOf(segs, k) \in Seq(Points)
  <2>1. s.c \in {"Z"} \cup {"M", "L", "H", "V"} \cup {"C", "Q"}  BY <1>4 DEF Taking
  <2>2. CASE s.c = "Z"
    <3>1. <<>> \in Seq(Points)  OBVIOUS
    <3> QED  BY <1>5, <2>2, <3>1
  <2>3. CASE s.c \in {"M", "L", "H", "V"}
    <3>1. Scaled(Unit, E[k]) \in Points  BY <1>2, ScaledIs, UnitIs
    <3>2. \A p \in Points : <<p>> \in Seq(Points)  OBVIOUS
    <3> QED  BY <1>6, <2>3, <3>1, <3>2
  <2>4. CASE s.c \in {"C", "Q"}  BY <1>7, <2>4
  <2> QED  BY <2>1, <2>2, <2>3, <2>4
<1> QED  BY <1>5, <1>6, <1>7, <1>8 DEF E

\* A segment more.
LEMMA WithSegmentIs ==
  ASSUME NEW cs \in Outlines, NEW c, NEW ps \in Seq(Points)
  PROVE  /\ WithSegment(cs, c, ps) \in Outlines
         /\ c = "M" => WithSegment(cs, c, ps) = cs \o <<ps>>
         /\ c # "M" /\ ps = <<>> => WithSegment(cs, c, ps) = cs
<1> DEFINE V == Seq(Points)
           n == Len(cs)
<1>1. cs \in Seq(V) /\ n \in Nat  BY DEF Outlines
<1>2. \A a, b \in V : a \o b \in V  OBVIOUS
<1>3. \A a \in V : a \o <<>> = a  OBVIOUS
<1>4. ps \in V  OBVIOUS
<1> HIDE DEF V, n
<1>5. c = "M" => WithSegment(cs, c, ps) = cs \o <<ps>> /\ WithSegment(cs, c, ps) \in Seq(V)
  <2>1. Append(cs, ps) = cs \o <<ps>> /\ Append(cs, ps) \in Seq(V)  BY <1>1, <1>4
  <2> QED  BY <2>1 DEF WithSegment
<1> DEFINE w == [cs EXCEPT ![n] = @ \o ps]
<1>6. c # "M" => WithSegment(cs, c, ps) = w  BY DEF WithSegment, n
<1>7. DOMAIN cs = 1..n /\ \A k \in 1..n : cs[k] \in V  BY <1>1 DEF n
<1>8. w \in Seq(V) /\ Len(w) = n /\ \A k \in 1..n : w[k] = IF k = n THEN cs[n] \o ps ELSE cs[k]
  <2>1. \A k \in 1..n : w[k] = IF k = n THEN cs[n] \o ps ELSE cs[k]  BY <1>7
  <2>2. \A k \in 1..n : w[k] \in V
    <3>1. \A k \in 1..n : cs[k] \o ps \in V  BY <1>2, <1>4, <1>7
    <3> HIDE DEF w
    <3> QED  BY <1>7, <2>1, <3>1
  <2>3. w = [k \in 1..n |-> w[k]]  BY <1>7
  <2> HIDE DEF w
  <2>4. w \in [1..n -> V]  BY <2>2, <2>3
  <2> QED  BY <1>1, <2>1, <2>4, ListIsSeq
<1> HIDE DEF w
<1>9. ps = <<>> => w = cs
  <2>1. ps = <<>> => \A k \in 1..n : w[k] = cs[k]  BY <1>3, <1>7, <1>8
  <2>2. Len(cs) = n  BY DEF n
  <2> QED  BY <1>1, <1>8, <2>1, <2>2
<1> QED  BY <1>5, <1>6, <1>8, <1>9 DEF V, Outlines

\* The contours up to each segment.
LEMMA OutlinesAre ==
  ASSUME NEW segs \in Seq(Segments), \A j \in 1..Len(segs) : WellMade(segs[j])
  PROVE  /\ OutlinesTo(segs) \in [0..Len(segs) -> Outlines] /\ OutlinesTo(segs)[0] = <<>>
         /\ \A k \in 1..Len(segs) :
              OutlinesTo(segs)[k] = WithSegment(OutlinesTo(segs)[k - 1], segs[k].c, PointsOf(segs, k))
<1> DEFINE n == Len(segs)
           Is(f) == f = [k \in 0..n |-> IF k = 0 THEN <<>>
                                        ELSE WithSegment(f[k - 1], segs[k].c, PointsOf(segs, k))]
           outs == CHOOSE f : Is(f)
           Drawing1 == [kc \in (1..n) \X Outlines |-> WithSegment(kc[2], segs[kc[1]].c, PointsOf(segs, kc[1]))]
<1>1. n \in Nat  OBVIOUS
<1>2. OutlinesTo(segs) = outs  BY DEF OutlinesTo
<1>3. \A k \in 1..n : PointsOf(segs, k) \in Seq(Points)  BY PointsOfAre
<1> HIDE DEF n
<1>4. \A k \in 1..n, cs \in Outlines : WithSegment(cs, segs[k].c, PointsOf(segs, k)) \in Outlines
  BY <1>3, WithSegmentIs
<1>5. <<>> \in Outlines
  <2>1. <<>> \in Seq(Seq(Points))  OBVIOUS
  <2> QED  BY <2>1 DEF Outlines
<1>6. PICK r \in [0..n -> Outlines] : Repeated(r, n, <<>>, Drawing1)
  <2>1. Drawing1 \in [(1..n) \X Outlines -> Outlines]  BY <1>4
  <2> HIDE DEF Drawing1
  <2> QED  BY <1>1, <1>5, <2>1, RepeatedExists
<1>7. \A k \in 1..n : r[k] = WithSegment(r[k - 1], segs[k].c, PointsOf(segs, k))
  <2> TAKE k \in 1..n
  <2>1. k - 1 \in 0..n  BY <1>1
  <2>2. r[k - 1] \in Outlines  BY <2>1
  <2>3. r[k] = Drawing1[<<k, r[k - 1]>>]  BY <1>6 DEF Repeated
  <2>4. Drawing1[<<k, r[k - 1]>>] = WithSegment(r[k - 1], segs[k].c, PointsOf(segs, k))  BY <2>2
  <2> QED  BY <2>3, <2>4
<1>8. Is(r)
  <2>1. \A k \in 0..n : r[k] = IF k = 0 THEN <<>> ELSE WithSegment(r[k - 1], segs[k].c, PointsOf(segs, k))
    <3>1. \A k \in 0..n : k # 0 => k \in 1..n  BY <1>1
    <3>2. r[0] = <<>>  BY <1>6 DEF Repeated
    <3> QED  BY <1>7, <3>1, <3>2
  <2> QED  BY <1>6, <2>1
<1>9. Is(outs)
  <2> HIDE DEF Is
  <2> QED  BY <1>8
<1> HIDE DEF outs
<1>10. outs[0] = <<>> /\ \A k \in 1..n : outs[k] = WithSegment(outs[k - 1], segs[k].c, PointsOf(segs, k))
  <2>1. \A k \in 0..n : outs[k] = IF k = 0 THEN <<>> ELSE WithSegment(outs[k - 1], segs[k].c, PointsOf(segs, k))
    BY <1>9
  <2>2. 0 \in 0..n /\ \A k \in 1..n : k \in 0..n /\ k # 0  BY <1>1
  <2> HIDE DEF Is
  <2> QED  BY <2>1, <2>2
<1>11. outs = [k \in 0..n |-> outs[k]]
  <2>1. DOMAIN outs = 0..n  BY <1>9
  <2>2. \E b : outs = [k \in 0..n |-> b[k]]  BY <1>9
  <2> HIDE DEF Is
  <2> QED  BY <2>1, <2>2
<1> HIDE DEF Is
<1>12. \A k \in 0..n : outs[k] \in Outlines
  <2> DEFINE T == {k \in 0..n : outs[k] \in Outlines}
  <2>1. 0 \in T
    <3>1. 0 \in 0..n  BY <1>1
    <3> QED  BY <1>5, <1>10, <3>1
  <2>2. ASSUME NEW k \in 1..n, k - 1 \in T PROVE k \in T
    <3>1. k \in 0..n /\ outs[k - 1] \in Outlines  BY <1>1, <2>2
    <3> QED  BY <1>4, <1>10, <3>1
  <2>3. \A k \in 0..n : k \in T
    <3> HIDE DEF T
    <3> QED  BY <1>1, <2>1, <2>2, Upwards
  <2> QED  BY <2>3
<1>13. outs \in [0..n -> Outlines]  BY <1>11, <1>12
<1> QED  BY <1>2, <1>10, <1>13 DEF n

\* The numbers behind a command.
LEMMA NumbersEnd ==
  ASSUME PathInv, More
  PROVE  /\ First \in 1..(Len(path) + 1) /\ Past \in First..(Len(path) + 1)
         /\ Past = Len(path) + 1 \/ ~IsNumber(path[Past])
         /\ \A j \in First..(Past - 1) : IsNumber(path[j])
         /\ Len(Numbers) = Past - First
         /\ \A x \in 1..Len(Numbers) : Numbers[x] = path[First + x - 1].num
<1> DEFINE n == Len(path)
           ends == {j \in First..(n + 1) : j = n + 1 \/ ~IsNumber(path[j])}
<1>1. n \in Nat /\ i \in 1..n  BY DEF PathInv, More
<1> HIDE DEF n
<1>2. First \in 1..(n + 1)  BY <1>1 DEF First
<1>3. Past \in ends /\ \A j \in ends : Past <= j
  <2>1. n + 1 \in ends /\ ends \subseteq Nat  BY <1>1, <1>2
  <2>2. Past = Min(ends)  BY DEF Past, n
  <2> HIDE DEF ends
  <2> QED  BY <2>1, <2>2, LeastElement
<1>4. Past \in First..(n + 1) /\ (Past = n + 1 \/ ~IsNumber(path[Past]))  BY <1>3
<1>5. \A j \in First..(Past - 1) : IsNumber(path[j])
  <2> TAKE j \in First..(Past - 1)
  <2>1. j \in First..(n + 1) /\ ~(Past <= j)  BY <1>1, <1>2, <1>4
  <2> QED  BY <1>3, <2>1
<1>6. Past - First \in Nat  BY <1>2, <1>4
<1>7. Len(Numbers) = Past - First /\ \A x \in 1..Len(Numbers) : Numbers[x] = path[First + x - 1].num
  BY <1>6 DEF Numbers
<1> QED  BY <1>2, <1>4, <1>5, <1>7 DEF n

\* The segments read so far are the first of all.
Sofar == Len(Splits(path)[i - 1].segs)

\* Reading on changes none of them.
LEMMA PrefixIs ==
  ASSUME NEW d \in Seq(Tokens), NEW k \in 0..Len(d)
  PROVE  /\ Len(Splits(d)[k].segs) \in 0..Len(Split(d).segs)
         /\ \A j \in 1..Len(Splits(d)[k].segs) : Split(d).segs[j] = Splits(d)[k].segs[j]
<1>1. Len(d) \in k..Len(d) /\ Len(d) \in 0..Len(d)  OBVIOUS
<1>2. Splits(d)[k] \in SplitState /\ Splits(d)[Len(d)] \in SplitState  BY <1>1, SplitsAre
<1>3. Len(Splits(d)[k].segs) \in Nat /\ Len(Splits(d)[Len(d)].segs) \in Nat
  <2>1. Splits(d)[k].segs \in Seq(Segments) /\ Splits(d)[Len(d)].segs \in Seq(Segments)  BY <1>2, SplitParts
  <2> QED  BY <2>1
<1>4. /\ Len(Splits(d)[k].segs) <= Len(Splits(d)[Len(d)].segs)
      /\ \A j \in 1..Len(Splits(d)[k].segs) : Splits(d)[Len(d)].segs[j] = Splits(d)[k].segs[j]  BY <1>1, SplitGrows
<1> QED  BY <1>3, <1>4 DEF Split

\* What a turn of a command that takes numbers adds.
LEMMA TurnIs ==
  ASSUME PathInv, More, Regular(path), ~IsNumber(path[i]), Now.cmd \in Taking
  PROVE  LET segs == Split(path).segs
             a == Arity(Now.cmd)
             q == Len(Numbers) \div a
         IN  /\ Past \in 1..(Len(path) + 1) /\ (Past <= Len(path) => ~IsNumber(path[Past]))
             /\ a \in {1, 2, 4, 6} /\ q \in Nat /\ Len(Numbers) = q * a /\ Sofar \in Nat
             /\ Sofar + q = Len(Splits(path)[Past - 1].segs) /\ Sofar + q <= Len(segs)
             /\ \A g \in 1..q :
                  LET s == segs[Sofar + g]
                  IN  /\ s.c = IF Now.cmd = "M" /\ g > 1 THEN "L" ELSE Now.cmd
                      /\ s.rel = Now.rel /\ Len(s.xs) = a
                      /\ \A x \in 1..a : (g - 1) * a + x \in 1..Len(Numbers) /\ s.xs[x] = Numbers[(g - 1) * a + x]
<1> DEFINE segs == Split(path).segs
           a == Arity(Now.cmd)
           m == Len(Numbers)
           q == m \div a
           n == Len(path)
           old == Splits(path)[i - 1].segs
           G(g) == GroupSegment(path, i, g)
           w == [g \in 1..q |-> G(g)]
<1>1. path \in Seq(Tokens) /\ n \in Nat /\ i \in 1..n /\ i - 1 \in 0..n  BY DEF PathInv, More
<1>2. Now = path[i] /\ First = i + 1  BY DEF Now, First
<1> HIDE DEF n
<1>3. /\ Past \in First..(n + 1) /\ (Past = n + 1 \/ ~IsNumber(path[Past]))
      /\ \A j \in First..(Past - 1) : IsNumber(path[j])
      /\ m = Past - First
      /\ \A x \in 1..m : Numbers[x] = path[First + x - 1].num  BY NumbersEnd DEF n
<1> HIDE DEF m
<1>4. m \in Nat /\ i + m = Past - 1 /\ i + m <= n /\ i + m \in 0..n /\ Past \in 1..(n + 1)  BY <1>1, <1>2, <1>3
<1>5. \A x \in 1..m : IsNumber(path[i + x])
  <2> TAKE x \in 1..m
  <2>1. i + x \in First..(Past - 1)  BY <1>1, <1>2, <1>3, <1>4
  <2> QED  BY <1>3, <2>1
<1>6. i + m = n \/ ~IsNumber(path[i + m + 1])
  <2>1. i + m + 1 = Past  BY <1>1, <1>3, <1>4
  <2> QED  BY <1>1, <1>3, <1>4, <2>1
<1>7. /\ m = q * a /\ \A g \in 1..q : G(g) \in Segments
      /\ Splits(path)[i + m].segs = old \o w
  <2>1. i + m <= Len(path) /\ (i + m = Len(path) \/ ~IsNumber(path[i + m + 1])) /\ i \in 1..Len(path)
    BY <1>1, <1>4, <1>6 DEF n
  <2>2. path[i].cmd \in Taking  BY <1>2
  <2> HIDE DEF w, G
  <2>3. LET a1 == Arity(path[i].cmd)
            q1 == m \div a1
        IN  /\ m = q1 * a1 /\ \A g \in 1..q1 : GroupSegment(path, i, g) \in Segments
            /\ Splits(path)[i + m].segs = Splits(path)[i - 1].segs \o [g \in 1..q1 |-> GroupSegment(path, i, g)]
    BY <1>1, <1>4, <1>5, <2>1, <2>2, TurnSplits
  <2> QED  BY <1>2, <2>3 DEF G, w
<1>8. a \in {1, 2, 4, 6}  BY ArityIs
<1>9. q \in Nat /\ \A g \in 1..q : (g - 1) * a \in Nat /\ (g - 1) * a + a = g * a /\ g * a \in 0..m
  <2> HIDE DEF a
  <2> QED  BY <1>4, <1>8, GroupsFit
<1> HIDE DEF q
<1>10. old \in Seq(Segments)
  <2>1. i - 1 \in 0..Len(path)  BY <1>1 DEF n
  <2>2. Splits(path)[i - 1] \in SplitState  BY <1>1, <2>1, SplitsAre
  <2> QED  BY <2>2, SplitParts
<1> DEFINE all == Splits(path)[i + m].segs
<1>11. Len(all) = Len(old) + q /\ \A g \in 1..q : all[Len(old) + g] = G(g)
  <2> HIDE DEF G, old
  <2>1. w \in [1..q -> Segments]  BY <1>7
  <2> HIDE DEF w
  <2>2. w \in Seq(Segments) /\ Len(w) = q  BY <1>9, <2>1, ListIsSeq
  <2>3. /\ Len(old \o w) = Len(old) + Len(w)
        /\ \A g \in 1..Len(w) : (old \o w)[Len(old) + g] = w[g]
    <3> HIDE DEF q
    <3> QED  BY <1>10, <2>2
  <2>4. \A g \in 1..q : w[g] = G(g)  BY DEF w
  <2>5. all = old \o w  BY <1>7
  <2> HIDE DEF all
  <2> QED  BY <2>2, <2>3, <2>4, <2>5
<1>12. Len(all) \in 0..Len(segs) /\ \A j \in 1..Len(all) : segs[j] = all[j]
  <2>1. i + m \in 0..Len(path)  BY <1>4 DEF n
  <2> QED  BY <1>1, <2>1, PrefixIs
<1>13. Len(old) \in Nat /\ Len(segs) \in Nat
  <2>1. segs \in Seq(Segments)  BY <1>1, SegmentsWellMade
  <2> HIDE DEF old, segs
  <2> QED  BY <1>10, <2>1
<1> HIDE DEF G, w, segs, all
<1>14. \A g \in 1..q : segs[Len(old) + g] = G(g)
  <2> TAKE g \in 1..q
  <2>1. Len(old) + g \in 1..Len(all)
    <3> HIDE DEF old
    <3> QED  BY <1>9, <1>11, <1>13
  <2> QED  BY <1>11, <1>12, <2>1
<1> DEFINE k == Len(old)
<1>15. Sofar = k  BY DEF Sofar
<1>16. k + q = Len(Splits(path)[Past - 1].segs) /\ k + q <= Len(segs)
  <2>1. k + q = Len(all) /\ Len(all) <= Len(segs)  BY <1>11, <1>12
  <2> QED  BY <1>4, <2>1 DEF all
<1> HIDE DEF old, k
<1>17. ASSUME NEW g \in 1..q PROVE LET s == segs[k + g]
              IN  /\ s.c = IF Now.cmd = "M" /\ g > 1 THEN "L" ELSE Now.cmd
                  /\ s.rel = Now.rel /\ Len(s.xs) = a
                  /\ \A x \in 1..a : (g - 1) * a + x \in 1..m /\ s.xs[x] = Numbers[(g - 1) * a + x]
  <2> DEFINE b == (g - 1) * a
  <2>1. b \in Nat /\ b + a <= m
    <3>1. b \in Nat /\ b + a = g * a /\ g * a \in 0..m  BY <1>9
    <3> HIDE DEF b
    <3> QED  BY <1>4, <3>1
  <2>2. segs[k + g] = G(g)  BY <1>14 DEF k
  <2>3. G(g) = [c |-> IF Now.cmd = "M" /\ g > 1 THEN "L" ELSE Now.cmd, rel |-> Now.rel, xs |-> NumbersAt(path, i + b, a)]
    BY <1>2 DEF G, GroupSegment, Operand
  <2>4. a \in Nat  BY <1>8
  <2>5. Len(NumbersAt(path, i + b, a)) = a /\ \A x \in 1..a : NumbersAt(path, i + b, a)[x] = path[(i + b) + x].num
    <3> HIDE DEF a, b
    <3> QED  BY <2>4 DEF NumbersAt
  <2>6. \A x \in 1..a : b + x \in 1..m /\ Numbers[b + x] = path[(i + b) + x].num
    <3> HIDE DEF a, b
    <3> TAKE x \in 1..a
    <3>1. b + x \in 1..m  BY <1>4, <2>1, <2>4
    <3>2. First + (b + x) - 1 = (i + b) + x  BY <1>1, <1>2, <2>1
    <3> QED  BY <1>3, <3>1, <3>2
  <2>7. /\ G(g).c = IF Now.cmd = "M" /\ g > 1 THEN "L" ELSE Now.cmd
        /\ G(g).rel = Now.rel /\ G(g).xs = NumbersAt(path, i + b, a)  BY <2>3
  <2> HIDE DEF b, a
  <2>8. /\ G(g).c = IF Now.cmd = "M" /\ g > 1 THEN "L" ELSE Now.cmd
        /\ G(g).rel = Now.rel /\ Len(G(g).xs) = a
        /\ \A x \in 1..a : b + x \in 1..m /\ G(g).xs[x] = Numbers[b + x]  BY <2>5, <2>6, <2>7
  <2> QED  BY <2>2, <2>8 DEF b
<1>18. Past \in 1..(n + 1) /\ (Past <= n => ~IsNumber(path[Past]))  BY <1>1, <1>3, <1>4
<1>19. m = q * a  BY <1>7 DEF q
<1>20. k \in Nat  BY <1>13 DEF k
<1> HIDE DEF a
<1>21. /\ Past \in 1..(n + 1) /\ (Past <= n => ~IsNumber(path[Past]))
       /\ a \in {1, 2, 4, 6} /\ q \in Nat /\ m = q * a /\ Sofar \in Nat
       /\ Sofar + q = Len(Splits(path)[Past - 1].segs) /\ Sofar + q <= Len(segs)
       /\ \A g \in 1..q :
            LET s == segs[Sofar + g]
            IN  /\ s.c = IF Now.cmd = "M" /\ g > 1 THEN "L" ELSE Now.cmd
                /\ s.rel = Now.rel /\ Len(s.xs) = a
                /\ \A x \in 1..a : (g - 1) * a + x \in 1..m /\ s.xs[x] = Numbers[(g - 1) * a + x]
  BY <1>8, <1>9, <1>15, <1>16, <1>17, <1>18, <1>19, <1>20, Zenon
<1> QED  BY <1>21, Zenon DEF q, a, m, n, segs

\* A list with an element more, and two lists joined: names that keep the
\* provers from unfolding them.
Added(ss, x) == Append(ss, x)
Onto(x, y) == x \o y
\* The contours when the one that is drawn, if any, is complete.
WithDrawn(cs, p) == IF p = <<>> THEN cs ELSE Added(cs, p)

\* Where the subpath of segment k begins.
BegunAt(segs, es, k) == IF Heads(segs, k) = {} THEN Origin ELSE es[Max(Heads(segs, k))]

(* The reader of a path, turn by turn. *)
\* A reader after n segments: where it is, where its subpath began, and what it
\* has drawn: contours that are complete and the one it draws.
After(segs, n, here, begun, done, drawing) ==
  /\ here = Begun(Ends(segs), n + 1)
  /\ begun = BegunAt(segs, Ends(segs), n + 1)
  /\ WithDrawn(done, drawing) = OutlinesTo(segs)[n]
  /\ drawing = <<>> <=> (n = 0 \/ segs[n].c = "Z")

\* The reader of a regular path, between its turns and at its end.
PathRuns ==
  phase = "path" /\ Regular(path) =>
    /\ i \in 1..(Len(path) + 1) /\ (i <= Len(path) => ~IsNumber(path[i]))
    /\ After(Split(path).segs, Sofar, cur, start, contours, poly)
PathDone == phase = "ended" /\ Regular(path) => contours = Outline(path)

\* Nothing is added to the origin.
LEMMA PlusOrigin ==
  ASSUME NEW p \in Points
  PROVE  Plus(Origin, p) = p
<1>1. p = <<p[1], p[2]>> /\ p[1] \in Int /\ p[2] \in Int  BY PointIs DEF Points
<1>2. 0 + p[1] = p[1] /\ 0 + p[2] = p[2]  BY <1>1
<1>3. Plus(Origin, p) = <<0 + p[1], 0 + p[2]>>  BY DEF Plus, Origin
<1> QED  BY <1>1, <1>2, <1>3

\* Moving along the points of a turn ends where its segments end.
LEMMA ReachedEnds ==
  ASSUME cur \in Points, NEW ps \in Seq(Points), NEW n \in Nat, NEW E, cur = Begun(E, n + 1),
         \A g \in 1..Len(ps) : \A p \in Points :
           p = Begun(E, n + g) => E[n + g] = IF Now.rel THEN Plus(p, ps[g]) ELSE ps[g]
  PROVE  \A g \in 1..Len(ps) : Reached(ps)[g] = E[n + g]
<1> DEFINE q == Len(ps)
           R == Reached(ps)
           T == {g \in 0..q : g = 0 \/ R[g] = E[n + g]}
<1>1. q \in Nat /\ n \in Nat  OBVIOUS
<1>2. /\ \A g \in 1..q : R[g] \in Points
      /\ \A g \in 1..q : R[g] = IF Now.rel THEN Plus(IF g = 1 THEN cur ELSE R[g - 1], ps[g]) ELSE ps[g]
  <2>1. R \in Seq(Points) /\ Len(R) = q  BY ReachedAre
  <2>2. \A g \in 1..q : R[g] \in Points
    <3> HIDE DEF R, Points
    <3> QED  BY <2>1
  <2>3. \A g \in 1..q : R[g] = IF Now.rel THEN Plus(IF g = 1 THEN cur ELSE R[g - 1], ps[g]) ELSE ps[g]  BY ReachedAre
  <2> QED  BY <2>2, <2>3
<1>3. \A g \in 1..q : \A p \in Points :
           p = Begun(E, n + g) => E[n + g] = IF Now.rel THEN Plus(p, ps[g]) ELSE ps[g]  OBVIOUS
<1> HIDE DEF q, R
<1>4. ASSUME NEW g \in 1..q, g - 1 \in T PROVE g \in T
  <2> DEFINE p == IF g = 1 THEN cur ELSE R[g - 1]
  <2>1. g \in 0..q /\ (g # 1 => g - 1 \in 1..q /\ n + (g - 1) = (n + g) - 1 /\ n + g # 1)  BY <1>1
  <2>2. p \in Points /\ p = Begun(E, n + g)
    <3>1. CASE g = 1  BY <3>1
    <3>2. CASE g # 1
      <4>1. R[g - 1] = E[n + (g - 1)]  BY <1>4, <2>1, <3>2
      <4>2. Begun(E, n + g) = E[(n + g) - 1]  BY <2>1, <3>2 DEF Begun
      <4> QED  BY <1>2, <2>1, <3>2, <4>1, <4>2
    <3> QED  BY <3>1, <3>2
  <2> HIDE DEF p
  <2>3. E[n + g] = IF Now.rel THEN Plus(p, ps[g]) ELSE ps[g]  BY <1>3, <2>2
  <2>4. R[g] = IF Now.rel THEN Plus(p, ps[g]) ELSE ps[g]  BY <1>2 DEF p
  <2> QED  BY <2>1, <2>3, <2>4
<1>5. \A g \in 0..q : g \in T
  <2>1. 0 \in T  BY <1>1
  <2> HIDE DEF T
  <2> QED  BY <1>1, <1>4, <2>1, Upwards
<1>6. \A g \in 1..q : g \in 0..q /\ g # 0  BY <1>1
<1>7. \A g \in 1..q : R[g] = E[n + g]  BY <1>5, <1>6
<1> QED  BY <1>7 DEF q, R

\* The last element, replaced.
LEMMA ReplaceLast ==
  ASSUME NEW V, NEW bs \in Seq(V), NEW x \in V, NEW y \in V
  PROVE  Append(bs, x)[Len(Append(bs, x))] = x /\ [Append(bs, x) EXCEPT ![Len(Append(bs, x))] = y] = Append(bs, y)
<1> DEFINE cs == Append(bs, x)
           ds == Append(bs, y)
<1>1. /\ cs \in Seq(V) /\ ds \in Seq(V) /\ Len(cs) = Len(bs) + 1 /\ Len(ds) = Len(bs) + 1
      /\ cs[Len(bs) + 1] = x /\ ds[Len(bs) + 1] = y
      /\ \A k \in 1..Len(bs) : cs[k] = bs[k] /\ ds[k] = bs[k]  OBVIOUS
<1>2. Len(bs) \in Nat  OBVIOUS
<1> HIDE DEF cs, ds
<1>3. [cs EXCEPT ![Len(cs)] = y] = ds
  <2> DEFINE w == [cs EXCEPT ![Len(cs)] = y]
  <2>1. w = [k \in 1..Len(cs) |-> IF k = Len(cs) THEN y ELSE cs[k]]
    <3>1. cs \in [1..Len(cs) -> V]  BY <1>1
    <3>2. DOMAIN cs = 1..Len(cs)  BY <3>1
    <3> QED  BY <3>2
  <2>2. w \in Seq(V) /\ Len(w) = Len(cs)  BY <1>1, <1>2, <2>1
  <2>3. \A k \in 1..Len(cs) : w[k] = IF k = Len(cs) THEN y ELSE cs[k]  BY <2>1
  <2> HIDE DEF w
  <2>4. \A k \in 1..Len(cs) : w[k] = ds[k]  BY <1>1, <1>2, <2>3
  <2> QED  BY <1>1, <2>2, <2>4 DEF w
<1> QED  BY <1>1, <1>3 DEF cs, ds

\* Joining lists one by one.
LEMMA JoinThree ==
  ASSUME NEW S, NEW x \in Seq(S), NEW y \in Seq(S), NEW z \in Seq(S)
  PROVE  (x \o y) \o z = x \o (y \o z)
<1> QED  OBVIOUS

\* The same of lists of points.
LEMMA JoinPoints ==
  ASSUME NEW x \in Seq(Points), NEW y \in Seq(Points), NEW z \in Seq(Points)
  PROVE  Onto(Onto(x, y), z) = Onto(x, Onto(y, z)) /\ Onto(x, y) \in Seq(Points)
<1> DEFINE S == Points
<1> HIDE DEF S
<1>1. x \in Seq(S) /\ y \in Seq(S) /\ z \in Seq(S)  BY DEF S
<1>2. (x \o y) \o z = x \o (y \o z)  BY <1>1, JoinThree
<1>3. x \o y \in Seq(S)  BY <1>1
<1> QED  BY <1>2, <1>3 DEF S, Onto

\* Joining nothing.
LEMMA JoinNothing ==
  ASSUME NEW x \in Seq(Points)
  PROVE  /\ Onto(<<>>, x) = x /\ Onto(x, <<>>) = x
         /\ \A y \in Seq(Points) : x # <<>> => Onto(x, y) # <<>>
<1> DEFINE S == Points
<1> HIDE DEF S
<1>1. x \in Seq(S)  BY DEF S
<1>2. <<>> \o x = x /\ x \o <<>> = x  BY <1>1
<1>3. ASSUME NEW y \in Seq(S), x # <<>> PROVE x \o y # <<>>
  <2>1. Len(x) # 0 /\ Len(x \o y) = Len(x) + Len(y) /\ Len(x) \in Nat /\ Len(y) \in Nat  BY <1>1, <1>3
  <2> QED  BY <2>1
<1> QED  BY <1>2, <1>3 DEF S, Onto

\* A segment that begins no contour adds to the last one.
LEMMA DrawnOn ==
  ASSUME NEW bs \in Outlines, NEW x \in Seq(Points), NEW p \in Seq(Points), NEW c, c # "M"
  PROVE  WithSegment(Added(bs, x), c, p) = Added(bs, Onto(x, p))
<1> DEFINE V == Seq(Points)
           y == Onto(x, p)
           cs == Added(bs, x)
<1>1. y \in V  BY JoinPoints
<1>2. bs \in Seq(V) /\ x \in V  BY DEF Outlines
<1>3. WithSegment(cs, c, p) = [cs EXCEPT ![Len(cs)] = cs[Len(cs)] \o p]
  <2> HIDE DEF cs
  <2> QED  BY DEF WithSegment
<1> HIDE DEF V, y
<1>4. cs[Len(cs)] = x /\ [cs EXCEPT ![Len(cs)] = y] = Append(bs, y)  BY <1>1, <1>2, ReplaceLast DEF Added
<1>5. cs[Len(cs)] \o p = y  BY <1>4 DEF y, Onto
<1> HIDE DEF cs
<1>6. WithSegment(cs, c, p) = Append(bs, y)  BY <1>3, <1>4, <1>5
<1> QED  BY <1>6 DEF cs, y, Added

\* f is what the q segments behind the first n draw; the first of them alone
\* may begin a contour.
Turned(segs, n, q, f) ==
  /\ segs \in Seq(Segments) /\ \A j \in 1..Len(segs) : WellMade(segs[j])
  /\ n \in Nat /\ q \in Nat \ {0} /\ n + q <= Len(segs)
  /\ f \in [1..q -> Seq(Points)] /\ \A g \in 1..q : f[g] = PointsOf(segs, n + g)
  /\ \A g \in 2..q : segs[n + g].c # "M"

\* They draw one contour on.
LEMMA TurnDraws ==
  ASSUME NEW segs, NEW n, NEW q, NEW f, Turned(segs, n, q, f), NEW bs \in Outlines, NEW b \in Seq(Points),
         OutlinesTo(segs)[n + 1] = Added(bs, Onto(b, f[1]))
  PROVE  OutlinesTo(segs)[n + q] = Added(bs, Onto(b, FlattenSeq(f)))
<1> DEFINE O == OutlinesTo(segs)
           V == Seq(Points)
           T == {g \in 0..q : g = 0 \/ O[n + g] = Added(bs, Onto(b, Joined(f, g)))}
<1>0. /\ segs \in Seq(Segments) /\ \A j \in 1..Len(segs) : WellMade(segs[j])
      /\ n \in Nat /\ q \in Nat \ {0} /\ n + q <= Len(segs)
      /\ f \in [1..q -> Seq(Points)] /\ \A g \in 1..q : f[g] = PointsOf(segs, n + g)
      /\ \A g \in 2..q : segs[n + g].c # "M"  BY DEF Turned
<1>1. /\ O \in [0..Len(segs) -> Outlines]
      /\ \A k \in 1..Len(segs) : O[k] = WithSegment(O[k - 1], segs[k].c, PointsOf(segs, k))  BY <1>0, OutlinesAre
<1>2. O[n + 1] = Added(bs, Onto(b, f[1]))  OBVIOUS
<1>3. f \in [1..q -> Seq(Points)] /\ b \in Seq(Points) /\ q \in Nat  BY <1>0
<1> HIDE DEF O
<1>4. /\ Joined(f, 0) = <<>> /\ Joined(f, q) = FlattenSeq(f)
      /\ \A m \in 0..q : Joined(f, m) \in Seq(Points)
      /\ \A m \in 1..q : Joined(f, m) = Onto(Joined(f, m - 1), f[m])  BY <1>3, JoinedIs DEF Onto
<1>5. ASSUME NEW g \in 1..q, g - 1 \in T PROVE g \in T
  <2>1. g \in 0..q /\ g - 1 \in 0..q /\ f[g] \in Seq(Points)
    <3>1. g \in 0..q /\ g - 1 \in 0..q  BY <1>3
    <3>2. f[g] \in Seq(Points)  BY <1>0
    <3> QED  BY <3>1, <3>2
  <2>2. Joined(f, g) = Onto(Joined(f, g - 1), f[g])  BY <1>4
  <2>3. CASE g = 1
    <3>1. g - 1 = 0  BY <2>3
    <3>2. Joined(f, g) = Onto(<<>>, f[1])  BY <1>4, <2>2, <2>3, <3>1
    <3>3. Joined(f, g) = f[1]  BY <2>1, <2>3, <3>2, JoinNothing
    <3> QED  BY <1>2, <2>1, <2>3, <3>3
  <2>4. CASE g # 1
    <3> DEFINE cs == O[n + (g - 1)]
               p == f[g]
               c == segs[n + g].c
               y == Joined(f, g - 1)
               x == Onto(b, y)
    <3>1. /\ n + g \in 1..Len(segs) /\ (n + g) - 1 = n + (g - 1) /\ n + (g - 1) \in 0..Len(segs)
          /\ g \in 2..q /\ g - 1 # 0  BY <1>0, <2>4
    <3>2. cs = Added(bs, x)  BY <1>5, <3>1
    <3>3. O[n + g] = WithSegment(cs, c, p)  BY <1>0, <1>1, <3>1
    <3>4. c # "M"  BY <1>0, <3>1
    <3>5. y \in V /\ p \in V /\ b \in V /\ Joined(f, g) = Onto(y, p)  BY <1>3, <1>4, <2>1, <2>2
    <3>6. x \in V /\ Onto(x, p) = Onto(b, Onto(y, p))
      <4> HIDE DEF y, p
      <4>1. y \in Seq(Points) /\ p \in Seq(Points) /\ b \in Seq(Points)  BY <3>5
      <4> QED  BY <4>1, JoinPoints
    <3>7. bs \in Outlines  OBVIOUS
    <3> HIDE DEF x, p, c
    <3>8. WithSegment(Added(bs, x), c, p) = Added(bs, Onto(x, p))  BY <3>4, <3>5, <3>6, <3>7, DrawnOn
    <3>9. O[n + g] = Added(bs, Onto(b, Joined(f, g)))  BY <3>2, <3>3, <3>5, <3>6, <3>8
    <3> QED  BY <2>1, <3>9
  <2> QED  BY <2>3, <2>4
<1>6. q \in T
  <2>1. 0 \in T /\ q \in 0..q  BY <1>3
  <2> HIDE DEF T
  <2> QED  BY <1>3, <1>5, <2>1, Upwards
<1> QED  BY <1>0, <1>4, <1>6 DEF O

\* Flushing the contour that is drawn.
LEMMA FlushIs ==
  ASSUME NEW cs \in Outlines, NEW p \in Seq(Points)
  PROVE  /\ cs \o (IF p = <<>> THEN <<>> ELSE <<p>>) = WithDrawn(cs, p)
         /\ WithDrawn(cs, p) \in Outlines
<1> DEFINE V == Seq(Points)
<1>1. cs \in Seq(V) /\ p \in V  BY DEF Outlines
<1> HIDE DEF V
<1>2. cs \o <<>> = cs /\ cs \o <<p>> = Append(cs, p) /\ Append(cs, p) \in Seq(V)  BY <1>1
<1> QED  BY <1>2 DEF WithDrawn, Added, Outlines, V

\* Behind segments that begin no subpath, the subpath is still the same.
LEMMA BegunSame ==
  ASSUME NEW segs, NEW E, NEW k \in Nat \ {0}, NEW m \in Nat, k <= m,
         \A j \in k..(m - 1) : segs[j].c # "M"
  PROVE  BegunAt(segs, E, m) = BegunAt(segs, E, k)
<1>1. Heads(segs, m) = Heads(segs, k)
  <2>1. \A j \in 1..(m - 1) : segs[j].c = "M" => j \in 1..(k - 1)
    <3> TAKE j \in 1..(m - 1)
    <3>1. j \in 1..(k - 1) \/ j \in k..(m - 1)  OBVIOUS
    <3> QED  BY <3>1
  <2>2. \A j \in 1..(k - 1) : j \in 1..(m - 1)  OBVIOUS
  <2> QED  BY <2>1, <2>2 DEF Heads
<1> QED  BY <1>1 DEF BegunAt

\* One that begins a subpath begins it where it ends.
LEMMA BegunNew ==
  ASSUME NEW segs, NEW E, NEW n \in Nat, segs[n + 1].c = "M"
  PROVE  BegunAt(segs, E, n + 2) = E[n + 1]
<1> DEFINE H == Heads(segs, n + 2)
<1>1. n + 1 \in H /\ H \subseteq 0..(n + 1) /\ \A x \in H : x <= n + 1
  <2>1. (n + 2) - 1 = n + 1 /\ n + 1 \in 1..(n + 1)  OBVIOUS
  <2> QED  BY <2>1 DEF Heads
<1>2. Heads(segs, n + 2) = H  OBVIOUS
<1> HIDE DEF H
<1>3. Max(H) \in H /\ \A x \in H : x <= Max(H)
  <2>1. n + 1 \in Nat /\ H # {}  BY <1>1
  <2> QED  BY <1>1, <2>1, GreatestElement
<1>4. Max(H) = n + 1
  <2> DEFINE x == Max(H)
  <2>1. x \in 0..(n + 1) /\ x <= n + 1 /\ n + 1 <= x  BY <1>1, <1>3
  <2> HIDE DEF x
  <2>2. x = n + 1  BY <2>1
  <2> QED  BY <2>2 DEF x
<1> QED  BY <1>1, <1>2, <1>4 DEF BegunAt

\* Numbers in groups of as many as a segment takes.
LEMMA GroupsHold ==
  ASSUME PathInv, More, NEW a \in {2, 4, 6}, NEW q \in Nat, Len(Numbers) = q * a,
         \A g \in 1..q : \A x \in 1..a : (g - 1) * a + x \in 1..Len(Numbers)
  PROVE  /\ Groups(a) \in Seq([1..a -> Int]) /\ Len(Groups(a)) = q /\ DOMAIN Groups(a) = 1..q
         /\ \A g \in 1..q : \A x \in 1..a : Groups(a)[g][x] = Numbers[(g - 1) * a + x]
<1> DEFINE Nth(k) == IF k \in DOMAIN Numbers THEN Numbers[k] ELSE 0
           m == (Len(Numbers) + a - 1) \div a
<1>1. Groups(a) \in Seq([1..a -> Int])  BY GroupsAre
<1>2. Groups(a) = [g \in 1..m |-> [k \in 1..a |-> Nth((g - 1) * a + k)]]  BY DEF Groups
<1>3. m = q
  <2>1. CASE a = 2
    <3>1. (q * 2 + 2 - 1) \div 2 = q  OBVIOUS
    <3> QED  BY <2>1, <3>1
  <2>2. CASE a = 4
    <3>1. (q * 4 + 4 - 1) \div 4 = q  OBVIOUS
    <3> QED  BY <2>2, <3>1
  <2>3. CASE a = 6
    <3>1. (q * 6 + 6 - 1) \div 6 = q  OBVIOUS
    <3> QED  BY <2>3, <3>1
  <2> QED  BY <2>1, <2>2, <2>3
<1>4. DOMAIN Numbers = 1..Len(Numbers)  BY NumbersAre
<1>5. ASSUME NEW g \in 1..q, NEW x \in 1..a PROVE Groups(a)[g][x] = Numbers[(g - 1) * a + x]
  <2>1. (g - 1) * a + x \in DOMAIN Numbers  BY <1>4
  <2>2. Groups(a)[g][x] = Nth((g - 1) * a + x)
    <3> HIDE DEF Nth, m
    <3> QED  BY <1>2, <1>3
  <2> QED  BY <2>1, <2>2
<1>6. DOMAIN Groups(a) = 1..q
  <2> HIDE DEF Nth, m
  <2> QED  BY <1>2, <1>3
<1>7. Len(Groups(a)) = q
  <2> DEFINE W == [1..a -> Int]
             gs == Groups(a)
  <2>1. gs \in Seq(W) /\ DOMAIN gs = 1..q  BY <1>1, <1>6
  <2> HIDE DEF W, gs
  <2>2. DOMAIN gs = 1..Len(gs) /\ Len(gs) \in Nat  BY <2>1
  <2>3. Len(gs) = q  BY <2>1, <2>2
  <2> QED  BY <2>3 DEF gs
<1> QED  BY <1>1, <1>5, <1>6, <1>7

\* Segments that go on with a contour.
LEMMA DrawsOn ==
  ASSUME NEW segs, NEW n, NEW q, NEW f, Turned(segs, n, q, f), n # 0, segs[n].c # "Z",
         \A g \in 1..q : segs[n + g].c \notin {"M", "Z"},
         NEW c, NEW s, NEW cs \in Outlines, NEW p \in Seq(Points), After(segs, n, c, s, cs, p),
         NEW to, Len(to) = q, \A g \in 1..q : to[g] = Ends(segs)[n + g]
  PROVE  After(segs, n + q, Last(to), s, cs, Onto(p, FlattenSeq(f)))
<1> DEFINE E == Ends(segs)
           r == Onto(p, FlattenSeq(f))
           O == OutlinesTo(segs)
<1>0. /\ segs \in Seq(Segments) /\ \A j \in 1..Len(segs) : WellMade(segs[j])
      /\ n \in Nat /\ q \in Nat \ {0} /\ n + q <= Len(segs)
      /\ f \in [1..q -> Seq(Points)] /\ \A g \in 1..q : f[g] = PointsOf(segs, n + g)  BY DEF Turned
<1>1. q \in 1..q /\ 1 \in 1..q /\ n + q \in Nat /\ n \in Nat  BY <1>0
<1>2. Last(to) = Begun(E, (n + q) + 1)
  <2>1. Last(to) = to[q]  BY DEF Last
  <2>2. Begun(E, (n + q) + 1) = E[n + q]
    <3>1. (n + q) + 1 # 1 /\ ((n + q) + 1) - 1 = n + q  BY <1>0
    <3> QED  BY <3>1 DEF Begun
  <2> QED  BY <1>1, <2>1, <2>2
<1>3. s = BegunAt(segs, E, (n + q) + 1)
  <2>1. s = BegunAt(segs, E, n + 1)  BY DEF After
  <2>2. \A k \in (n + 1)..(n + q) : segs[k].c # "M"
    <3> TAKE k \in (n + 1)..(n + q)
    <3>1. k - n \in 1..q /\ n + (k - n) = k  BY <1>0
    <3>2. segs[n + (k - n)].c \notin {"M", "Z"}  BY <3>1
    <3> QED  BY <3>1, <3>2
  <2> DEFINE k == n + 1
             m == (n + q) + 1
  <2>3. k <= m /\ m \in Nat /\ k \in Nat \ {0} /\ m - 1 = n + q  BY <1>0
  <2>4. \A j \in k..(m - 1) : segs[j].c # "M"  BY <2>2, <2>3
  <2> HIDE DEF E, k, m
  <2>5. BegunAt(segs, E, m) = BegunAt(segs, E, k)  BY <2>3, <2>4, BegunSame
  <2> QED  BY <2>1, <2>5 DEF k, m
<1>4. p # <<>> /\ Added(cs, p) = O[n]
  <2>1. p # <<>>  BY DEF After
  <2>2. WithDrawn(cs, p) = O[n]  BY DEF After
  <2> HIDE DEF O
  <2> QED  BY <2>1, <2>2 DEF WithDrawn
<1>5. O[n + 1] = Added(cs, Onto(p, f[1]))
  <2> DEFINE c1 == segs[n + 1].c
             f1 == f[1]
  <2>1. f1 \in Seq(Points) /\ f1 = PointsOf(segs, n + 1)  BY <1>0, <1>1
  <2>2. c1 # "M"  BY <1>1
  <2>3. n + 1 \in 1..Len(segs) /\ (n + 1) - 1 = n  BY <1>0
  <2>4. O[n + 1] = WithSegment(O[n], c1, PointsOf(segs, n + 1))  BY <1>0, <2>3, OutlinesAre
  <2> HIDE DEF c1, f1, O
  <2>5. WithSegment(Added(cs, p), c1, f1) = Added(cs, Onto(p, f1))  BY <2>1, <2>2, DrawnOn
  <2>6. O[n + 1] = Added(cs, Onto(p, f1))  BY <1>4, <2>1, <2>4, <2>5
  <2> QED  BY <2>6 DEF f1
<1>6. O[n + q] = Added(cs, r)
  <2>1. OutlinesTo(segs)[n + 1] = Added(cs, Onto(p, f[1]))  BY <1>5
  <2> HIDE DEF O
  <2>2. OutlinesTo(segs)[n + q] = Added(cs, Onto(p, FlattenSeq(f)))  BY <2>1, TurnDraws
  <2> QED  BY <2>2 DEF O
<1>7. r # <<>>
  <2>1. FlattenSeq(f) \in Seq(Points)
    <3>1. f \in Seq(Seq(Points))  BY <1>0, ListIsSeq
    <3> QED  BY <3>1, FlattenIsSeq
  <2> QED  BY <1>4, <2>1, JoinNothing
<1>8. n + q # 0 /\ segs[n + q].c # "Z"
  <2>1. segs[n + q].c # "Z"  BY <1>1
  <2>2. n + q # 0  BY <1>0
  <2> QED  BY <2>1, <2>2
<1> HIDE DEF r, O, E
<1>9. After(segs, n + q, Last(to), s, cs, r)  BY <1>2, <1>3, <1>6, <1>7, <1>8 DEF After, E, O, WithDrawn
<1> QED  BY <1>9 DEF r

\* Segments that begin a contour.
LEMMA DrawsNew ==
  ASSUME NEW segs, NEW n, NEW q, NEW f, Turned(segs, n, q, f), segs[n + 1].c = "M",
         \A g \in 2..q : segs[n + g].c = "L",
         NEW c, NEW s, NEW cs \in Outlines, NEW p \in Seq(Points), After(segs, n, c, s, cs, p),
         NEW to \in Seq(Points), Len(to) = q, \A g \in 1..q : to[g] = Ends(segs)[n + g]
  PROVE  After(segs, n + q, Last(to), to[1], WithDrawn(cs, p), Drawn(to))
<1> DEFINE E == Ends(segs)
           O == OutlinesTo(segs)
           ds == WithDrawn(cs, p)
           r == Drawn(to)
<1>0. /\ segs \in Seq(Segments) /\ \A j \in 1..Len(segs) : WellMade(segs[j])
      /\ n \in Nat /\ q \in Nat \ {0} /\ n + q <= Len(segs)
      /\ f \in [1..q -> Seq(Points)] /\ \A g \in 1..q : f[g] = PointsOf(segs, n + g)  BY DEF Turned
<1>1. q \in 1..q /\ 1 \in 1..q /\ n + q \in Nat  BY <1>0
<1>2. Last(to) = Begun(E, (n + q) + 1)
  <2>1. Last(to) = to[q]  BY DEF Last
  <2>2. Begun(E, (n + q) + 1) = E[n + q]
    <3>1. (n + q) + 1 # 1 /\ ((n + q) + 1) - 1 = n + q  BY <1>0
    <3> QED  BY <3>1 DEF Begun
  <2> QED  BY <1>1, <2>1, <2>2
<1>3. to[1] = BegunAt(segs, E, (n + q) + 1)
  <2>1. to[1] = E[n + 1]  BY <1>1
  <2> DEFINE k == n + 2
             m == (n + q) + 1
  <2>2. k <= m /\ m \in Nat /\ k \in Nat \ {0} /\ m - 1 = n + q  BY <1>0
  <2>3. \A j \in k..(m - 1) : segs[j].c # "M"
    <3> TAKE j \in k..(m - 1)
    <3>1. j - n \in 2..q /\ n + (j - n) = j  BY <1>0
    <3>2. segs[n + (j - n)].c = "L"  BY <3>1
    <3> QED  BY <3>1, <3>2
  <2> HIDE DEF E
  <2>4. BegunAt(segs, E, n + 2) = E[n + 1]  BY <1>0, BegunNew
  <2> HIDE DEF k, m
  <2>5. BegunAt(segs, E, m) = BegunAt(segs, E, k)  BY <2>2, <2>3, BegunSame
  <2> QED  BY <2>1, <2>4, <2>5 DEF k, m
<1>4. ds = O[n] /\ ds \in Outlines  BY FlushIs DEF After
<1>5. \A g \in 1..q : f[g] = <<Scaled(Unit, to[g])>>
  <2> TAKE g \in 1..q
  <2>1. n + g \in 1..Len(segs)  BY <1>0
  <2>2. segs[n + g].c \in {"M", "L", "H", "V"} /\ to[g] = E[n + g]
    <3>1. g = 1 \/ g \in 2..q  BY <1>0
    <3> QED  BY <3>1
  <2>3. PointsOf(segs, n + g) = <<Scaled(Unit, E[n + g])>>  BY <1>0, <2>1, <2>2, PointsOfAre
  <2> QED  BY <1>0, <2>2, <2>3
<1>6. n + q # 0 /\ segs[n + q].c # "Z"
  <2>1. q = 1 \/ q \in 2..q  BY <1>0
  <2>2. segs[n + q].c # "Z"  BY <2>1
  <2>3. n + q # 0  BY <1>0
  <2> QED  BY <2>2, <2>3
<1>7. r \in Seq(Points) /\ Len(r) = q /\ \A g \in 1..q : r[g] = Scaled(Unit, to[g])
  <2>1. DOMAIN to = 1..q  OBVIOUS
  <2> QED  BY <2>1, DrawnIs DEF Drawn
<1>8. FlattenSeq(f) = r
  <2>1. DOMAIN f = 1..Len(r) /\ f = [k \in DOMAIN f |-> f[k]]  BY <1>0, <1>7
  <2>2. \A k \in 1..Len(r) : f[k] = <<r[k]>>  BY <1>5, <1>7
  <2> HIDE DEF r
  <2> QED  BY <1>7, <2>1, <2>2, JoinedSingles
<1>9. O[n + 1] = Added(ds, Onto(<<>>, f[1]))
  <2> DEFINE f1 == f[1]
  <2>1. f1 \in Seq(Points) /\ f1 = PointsOf(segs, n + 1)  BY <1>0, <1>1
  <2>2. n + 1 \in 1..Len(segs) /\ (n + 1) - 1 = n  BY <1>0
  <2>3. O[n + 1] = WithSegment(O[n], "M", PointsOf(segs, n + 1))
    <3>1. \A k \in 1..Len(segs) : O[k] = WithSegment(O[k - 1], segs[k].c, PointsOf(segs, k))  BY <1>0, OutlinesAre
    <3> HIDE DEF O
    <3>2. O[n + 1] = WithSegment(O[n], segs[n + 1].c, PointsOf(segs, n + 1))  BY <2>2, <3>1
    <3> QED  BY <3>2
  <2> HIDE DEF f1, O, ds
  <2>4. O[n + 1] = Added(ds, f1)  BY <1>4, <2>1, <2>3 DEF WithSegment, Added
  <2>5. Onto(<<>>, f1) = f1  BY <2>1, JoinNothing
  <2>6. O[n + 1] = Added(ds, Onto(<<>>, f1))  BY <2>4, <2>5
  <2> QED  BY <2>6 DEF f1
<1>10. O[n + q] = Added(ds, r)
  <2> DEFINE b == <<>>
  <2>1. b \in Seq(Points)  OBVIOUS
  <2>2. OutlinesTo(segs)[n + 1] = Added(ds, Onto(b, f[1]))  BY <1>9
  <2> HIDE DEF b, ds, O
  <2>3. OutlinesTo(segs)[n + q] = Added(ds, Onto(b, FlattenSeq(f)))  BY <1>4, <2>1, <2>2, TurnDraws
  <2>4. Onto(b, r) = r  BY <1>7, JoinNothing DEF b
  <2> QED  BY <1>8, <2>3, <2>4 DEF O
<1>11. r # <<>>
  <2> HIDE DEF r
  <2> QED  BY <1>0, <1>7
<1> HIDE DEF r, O, E, ds
<1>13. After(segs, n + q, Last(to), to[1], ds, r)  BY <1>2, <1>3, <1>6, <1>10, <1>11 DEF After, E, O, WithDrawn
<1> QED  BY <1>13 DEF r, ds

\* Where a segment ends, by its last point.
LastPoint(s) == <<s.xs[Len(s.xs) - 1], s.xs[Len(s.xs)]>>

\* A relative one is added to where the segment before it ended.
LEMMA EndsAtPoint ==
  ASSUME NEW segs \in Seq(Segments), \A j \in 1..Len(segs) : WellMade(segs[j]), NEW k \in 1..Len(segs),
         segs[k].c \notin {"Z", "H", "V"}, NEW x \in Points, x = LastPoint(segs[k])
  PROVE  Ends(segs)[k] = IF segs[k].rel THEN Plus(Begun(Ends(segs), k), x) ELSE x
<1> DEFINE E == Ends(segs)
<1>1. E[k] = EndAt(segs, E, k)  BY EndsAre
<1>2. EndAt(segs, E, k) = Plus(Base(segs, E, k), x)
  <2> HIDE DEF E
  <2> QED  BY DEF EndAt, LastPoint
<1> HIDE DEF E
<1>3. Plus(Origin, x) = x  BY PlusOrigin
<1>4. E[k] = IF segs[k].rel THEN Plus(Begun(E, k), x) ELSE x  BY <1>1, <1>2, <1>3 DEF Base
<1> QED  BY <1>4 DEF E

\* Where one ends that moves along an axis.
LEMMA EndsAlong ==
  ASSUME NEW segs \in Seq(Segments), \A j \in 1..Len(segs) : WellMade(segs[j]), NEW k \in 1..Len(segs),
         NEW p \in Points, p = Begun(Ends(segs), k), NEW x \in Int, x = segs[k].xs[1]
  PROVE  /\ segs[k].c = "H" => Ends(segs)[k] = <<IF segs[k].rel THEN p[1] + x ELSE x, p[2]>>
         /\ segs[k].c = "V" => Ends(segs)[k] = <<p[1], IF segs[k].rel THEN p[2] + x ELSE x>>
<1> DEFINE E == Ends(segs)
           from == Base(segs, E, k)
<1>1. E[k] = EndAt(segs, E, k)  BY EndsAre
<1>2. p = Begun(E, k)  OBVIOUS
<1> HIDE DEF E
<1>3. /\ from[1] + x = IF segs[k].rel THEN p[1] + x ELSE x
      /\ from[2] + x = IF segs[k].rel THEN p[2] + x ELSE x
  <2>1. CASE segs[k].rel
    <3>1. from = p  BY <1>2, <2>1 DEF Base
    <3> QED  BY <2>1, <3>1
  <2>2. CASE ~segs[k].rel
    <3>1. from = Origin  BY <2>2 DEF Base
    <3>2. from[1] = 0 /\ from[2] = 0  BY <3>1 DEF Origin
    <3> QED  BY <2>2, <3>2
  <2> QED  BY <2>1, <2>2
<1>4. segs[k].c = "H" => EndAt(segs, E, k) = <<from[1] + x, p[2]>>  BY <1>2 DEF EndAt
<1>5. segs[k].c = "V" => EndAt(segs, E, k) = <<p[1], from[2] + x>>  BY <1>2 DEF EndAt
<1> HIDE DEF from
<1>6. /\ segs[k].c = "H" => E[k] = <<IF segs[k].rel THEN p[1] + x ELSE x, p[2]>>
      /\ segs[k].c = "V" => E[k] = <<p[1], IF segs[k].rel THEN p[2] + x ELSE x>>  BY <1>1, <1>3, <1>4, <1>5
<1> QED  BY <1>6 DEF E

\* What a command with its numbers adds: q segments of a numbers behind the
\* first n.
Adds(segs, n, q, a) ==
  /\ segs = Split(path).segs /\ n = Sofar /\ a = Arity(Now.cmd) /\ a \in {1, 2, 4, 6}
  /\ segs \in Seq(Segments) /\ \A j \in 1..Len(segs) : WellMade(segs[j])
  /\ n \in Nat /\ q \in Nat /\ n + q <= Len(segs) /\ n + q = Len(Splits(path)[Past - 1].segs)
  /\ Len(Numbers) = q * a
  /\ \A g \in 1..q :
       /\ segs[n + g].c = (IF Now.cmd = "M" /\ g > 1 THEN "L" ELSE Now.cmd)
       /\ segs[n + g].rel = Now.rel /\ Len(segs[n + g].xs) = a
       /\ \A x \in 1..a : /\ (g - 1) * a + x \in 1..Len(Numbers)
                          /\ segs[n + g].xs[x] = Numbers[(g - 1) * a + x]

\* Every turn with a command that takes numbers adds its segments.
LEMMA TurnAdds ==
  ASSUME PathInv, More, Regular(path), ~IsNumber(path[i]), Now.cmd \in Taking
  PROVE  /\ \E segs, n, q, a : Adds(segs, n, q, a)
         /\ Past \in 1..(Len(path) + 1) /\ (Past <= Len(path) => ~IsNumber(path[Past]))
<1> DEFINE segs == Split(path).segs
           n == Sofar
           a == Arity(Now.cmd)
           q == Len(Numbers) \div a
<1>1. path \in Seq(Tokens)  BY DEF PathInv
<1>2. segs \in Seq(Segments) /\ \A j \in 1..Len(segs) : WellMade(segs[j])  BY <1>1, SegmentsWellMade
<1>3. /\ Past \in 1..(Len(path) + 1) /\ (Past <= Len(path) => ~IsNumber(path[Past]))
      /\ a \in {1, 2, 4, 6} /\ q \in Nat /\ Len(Numbers) = q * a /\ n \in Nat
      /\ n + q = Len(Splits(path)[Past - 1].segs) /\ n + q <= Len(segs)
      /\ \A g \in 1..q :
           LET s == segs[n + g]
           IN  /\ s.c = IF Now.cmd = "M" /\ g > 1 THEN "L" ELSE Now.cmd
               /\ s.rel = Now.rel /\ Len(s.xs) = a
               /\ \A x \in 1..a : (g - 1) * a + x \in 1..Len(Numbers) /\ s.xs[x] = Numbers[(g - 1) * a + x]
  BY TurnIs, Zenon
<1>4. Adds(segs, n, q, a)
  <2> HIDE DEF q
  <2> QED  BY <1>2, <1>3, Zenon DEF Adds
<1> QED  BY <1>3, <1>4, Zenon

\* The parts of Adds.
LEMMA AddsIs ==
  ASSUME NEW segs, NEW n, NEW q, NEW a, Adds(segs, n, q, a)
  PROVE  /\ segs \in Seq(Segments) /\ \A j \in 1..Len(segs) : WellMade(segs[j])
         /\ n \in Nat /\ q \in Nat /\ n + q <= Len(segs) /\ a \in {1, 2, 4, 6} /\ Len(Numbers) = q * a
         /\ \A g \in 1..q : n + g \in 1..Len(segs)
         /\ \A g \in 1..q : segs[n + g].rel = Now.rel /\ Len(segs[n + g].xs) = a
         /\ \A g \in 1..q : segs[n + g].c = (IF Now.cmd = "M" /\ g > 1 THEN "L" ELSE Now.cmd)
         /\ \A g \in 1..q : \A x \in 1..a : /\ (g - 1) * a + x \in 1..Len(Numbers)
                                            /\ segs[n + g].xs[x] = Numbers[(g - 1) * a + x]
<1>1. n \in Nat /\ q \in Nat /\ n + q <= Len(segs) /\ segs \in Seq(Segments)  BY DEF Adds
<1>2. \A g \in 1..q : n + g \in 1..Len(segs)
  <2>1. Len(segs) \in Nat  BY <1>1
  <2> QED  BY <1>1, <2>1
<1> QED  BY <1>2, Zenon DEF Adds

\* Groups of numbers are the operands of the segments.
Grouped(gs, segs, n, q, a) ==
  /\ gs \in Seq([1..a -> Int]) /\ Len(gs) = q /\ DOMAIN gs = 1..q
  /\ \A g \in 1..q : gs[g] \in [1..a -> Int]
  /\ \A g \in 1..q : \A x \in 1..a : gs[g][x] = segs[n + g].xs[x]

\* The groups of a turn are grouped as its segments are.
LEMMA GroupsAdd ==
  ASSUME PathInv, More, NEW segs, NEW n, NEW q, NEW a \in {2, 4, 6}, Adds(segs, n, q, a)
  PROVE  Grouped(Groups(a), segs, n, q, a)
<1>1. /\ q \in Nat /\ Len(Numbers) = q * a
      /\ \A g \in 1..q : \A x \in 1..a : (g - 1) * a + x \in 1..Len(Numbers)
      /\ \A g \in 1..q : \A x \in 1..a : segs[n + g].xs[x] = Numbers[(g - 1) * a + x]  BY Zenon DEF Adds
<1>2. /\ Groups(a) \in Seq([1..a -> Int]) /\ Len(Groups(a)) = q /\ DOMAIN Groups(a) = 1..q
      /\ \A g \in 1..q : \A x \in 1..a : Groups(a)[g][x] = Numbers[(g - 1) * a + x]  BY <1>1, GroupsHold
<1>3. \A g \in 1..q : Groups(a)[g] \in [1..a -> Int]
  <2> DEFINE W == [1..a -> Int]
             gs == Groups(a)
  <2>1. gs \in Seq(W) /\ Len(gs) = q  BY <1>2
  <2> HIDE DEF W, gs
  <2>2. \A g \in 1..Len(gs) : gs[g] \in W  BY <2>1
  <2> QED  BY <2>1, <2>2 DEF W, gs
<1>4. ASSUME NEW g \in 1..q, NEW x \in 1..a
      PROVE  Groups(a)[g][x] = segs[n + g].xs[x]  BY <1>1, <1>2, ZenonT(30)
<1> QED  BY <1>2, <1>3, <1>4, Zenon DEF Grouped

\* The last points of q segments behind the first n.
LastPoints(segs, n, q, ps) == ps \in Seq(Points) /\ Len(ps) = q /\ \A g \in 1..q : ps[g] = LastPoint(segs[n + g])
\* Moving along points that are the last points of the segments.
LEMMA PointsReach ==
  ASSUME PathInv, NEW segs, NEW n, NEW q, NEW a, Adds(segs, n, q, a), Now.cmd \in {"M", "L", "C", "Q"},
         cur = Begun(Ends(segs), n + 1), NEW ps, LastPoints(segs, n, q, ps)
  PROVE  /\ Reached(ps) \in Seq(Points) /\ Len(Reached(ps)) = q
         /\ \A g \in 1..q : Reached(ps)[g] = Ends(segs)[n + g]
<1> DEFINE E == Ends(segs)
<1>1. /\ segs \in Seq(Segments) /\ \A j \in 1..Len(segs) : WellMade(segs[j])
      /\ n \in Nat /\ q \in Nat
      /\ \A g \in 1..q : n + g \in 1..Len(segs)
      /\ \A g \in 1..q : segs[n + g].rel = Now.rel
      /\ \A g \in 1..q : segs[n + g].c = (IF Now.cmd = "M" /\ g > 1 THEN "L" ELSE Now.cmd)  BY AddsIs
<1>2. cur \in Points  BY DEF PathInv
<1>3. ps \in Seq(Points) /\ Len(ps) = q /\ \A g \in 1..q : ps[g] = LastPoint(segs[n + g])  BY DEF LastPoints
<1>4. \A g \in 1..q : ps[g] \in Points
  <2> HIDE DEF Points
  <2> QED  BY <1>3
<1>5. ASSUME NEW g \in 1..q, NEW p \in Points, p = Begun(E, n + g)
      PROVE  E[n + g] = IF Now.rel THEN Plus(p, ps[g]) ELSE ps[g]
  <2> DEFINE x == ps[g]
             k == n + g
  <2>1. x \in Points /\ x = LastPoint(segs[k])  BY <1>3, <1>4
  <2>2. k \in 1..Len(segs) /\ segs[k].rel = Now.rel  BY <1>1
  <2>3. segs[k].c \notin {"Z", "H", "V"}
    <3>1. segs[k].c = Now.cmd \/ segs[k].c = "L"  BY <1>1
    <3> QED  BY <3>1
  <2> HIDE DEF x, k
  <2>4. Ends(segs)[k] = IF segs[k].rel THEN Plus(Begun(Ends(segs), k), x) ELSE x
    BY <1>1, <2>1, <2>2, <2>3, EndsAtPoint
  <2> QED  BY <1>5, <2>2, <2>4 DEF x, k
<1>6. Reached(ps) \in Seq(Points) /\ Len(Reached(ps)) = q  BY <1>2, <1>3, ReachedAre
<1> HIDE DEF E
<1>7. \A g \in 1..Len(ps) : \A p \in Points :
        p = Begun(E, n + g) => E[n + g] = IF Now.rel THEN Plus(p, ps[g]) ELSE ps[g]  BY <1>3, <1>5
<1>8. cur = Begun(E, n + 1)  BY DEF E
<1>9. \A g \in 1..Len(ps) : Reached(ps)[g] = E[n + g]  BY <1>1, <1>2, <1>3, <1>7, <1>8, ReachedEnds
<1> QED  BY <1>3, <1>6, <1>9 DEF E

\* Where the points of M and L are.
LEMMA PairsReach ==
  ASSUME PathInv, More, NEW segs, NEW n, NEW q, Adds(segs, n, q, 2), Now.cmd \in {"M", "L"},
         cur = Begun(Ends(segs), n + 1)
  PROVE  /\ Reached(Groups(2)) \in Seq(Points) /\ Len(Reached(Groups(2))) = q
         /\ \A g \in 1..q : Reached(Groups(2))[g] = Ends(segs)[n + g]
<1> DEFINE ps == Groups(2)
<1>1. ps \in Seq(Points)  BY PairsAre
<1>2. /\ Len(ps) = q /\ \A g \in 1..q : ps[g] \in [1..2 -> Int]
      /\ \A g \in 1..q : \A x \in 1..2 : ps[g][x] = segs[n + g].xs[x]
  <2> DEFINE a == 2
  <2>1. a \in {2, 4, 6} /\ Adds(segs, n, q, a)  OBVIOUS
  <2> HIDE DEF a
  <2>2. Grouped(Groups(a), segs, n, q, a)  BY <2>1, GroupsAdd
  <2> QED  BY <2>2 DEF a, Grouped
<1>3. ASSUME NEW g \in 1..q PROVE ps[g] = LastPoint(segs[n + g])
  <2> DEFINE w == ps[g]
             s == segs[n + g]
  <2>1. w \in [1..2 -> Int] /\ w[1] = s.xs[1] /\ w[2] = s.xs[2]  BY <1>2
  <2>2. Len(s.xs) = 2
    <3> DEFINE a == 2
    <3>1. Adds(segs, n, q, a)  OBVIOUS
    <3> HIDE DEF a, s
    <3>2. Len(segs[n + g].xs) = a  BY <3>1, AddsIs
    <3> QED  BY <3>2 DEF a, s
  <2> HIDE DEF w, ps, s
  <2>3. w = <<w[1], w[2]>>  BY <2>1
  <2>4. 2 - 1 = 1  OBVIOUS
  <2> QED  BY <2>1, <2>2, <2>3, <2>4 DEF LastPoint, w, s
<1>4. LastPoints(segs, n, q, ps)  BY <1>1, <1>2, <1>3 DEF LastPoints
<1> HIDE DEF ps
<1>5. Now.cmd \in {"M", "L", "C", "Q"}  OBVIOUS
<1>6. /\ Reached(ps) \in Seq(Points) /\ Len(Reached(ps)) = q
      /\ \A g \in 1..q : Reached(ps)[g] = Ends(segs)[n + g]
  <2> DEFINE a == 2
  <2>1. Adds(segs, n, q, a)  OBVIOUS
  <2> HIDE DEF a
  <2> QED  BY <1>4, <1>5, <2>1, PointsReach
<1> QED  BY <1>6 DEF ps

\* Where the points of H and V are: the other coordinate stays.
Turns(axis) == Now.cmd = (IF axis = 1 THEN "H" ELSE "V")
Arrives(segs, n, q, to) == to \in Seq(Points) /\ Len(to) = q /\ \A g \in 1..q : to[g] = Ends(segs)[n + g]

\* Horizontal and Vertical arrive where their segments end.
LEMMA AlongReaches ==
  ASSUME PathInv, More, NEW segs, NEW n, NEW q, NEW a, Adds(segs, n, q, a), a = 1, NEW axis \in {1, 2},
         Turns(axis), cur = Begun(Ends(segs), n + 1)
  PROVE  Arrives(segs, n, q, Along(axis))
<1> DEFINE E == Ends(segs)
           o == 3 - axis
           Kept == IF Now.rel THEN 0 ELSE cur[o]
           ps == [k \in DOMAIN Numbers |-> IF axis = 1 THEN <<Numbers[k], Kept>> ELSE <<Kept, Numbers[k]>>]
           T == {g \in 0..q : g = 0 \/ E[n + g][o] = cur[o]}
<1>1. /\ segs \in Seq(Segments) /\ \A j \in 1..Len(segs) : WellMade(segs[j])
      /\ n \in Nat /\ q \in Nat /\ Len(Numbers) = q * 1
      /\ \A g \in 1..q : n + g \in 1..Len(segs)
      /\ \A g \in 1..q : segs[n + g].rel = Now.rel
      /\ \A g \in 1..q : segs[n + g].c = (IF Now.cmd = "M" /\ g > 1 THEN "L" ELSE Now.cmd)
      /\ \A g \in 1..q : \A x \in 1..1 : segs[n + g].xs[x] = Numbers[(g - 1) * 1 + x]
  <2>2. /\ segs \in Seq(Segments) /\ \A j \in 1..Len(segs) : WellMade(segs[j])
        /\ n \in Nat /\ q \in Nat /\ Len(Numbers) = q * a
        /\ \A g \in 1..q : n + g \in 1..Len(segs)
        /\ \A g \in 1..q : segs[n + g].rel = Now.rel
        /\ \A g \in 1..q : segs[n + g].c = (IF Now.cmd = "M" /\ g > 1 THEN "L" ELSE Now.cmd)  BY AddsIs
  <2>3. \A g \in 1..q : \A x \in 1..a : segs[n + g].xs[x] = Numbers[(g - 1) * a + x]  BY Zenon DEF Adds
  <2> QED  BY <2>2, <2>3
<1>0. Now.cmd = (IF axis = 1 THEN "H" ELSE "V")  BY DEF Turns
<1>2. cur \in Points /\ cur[1] \in Int /\ cur[2] \in Int
  <2>1. cur \in Points  BY DEF PathInv
  <2> QED  BY <2>1, PointIs
<1>3. Len(Numbers) = q /\ DOMAIN Numbers = 1..q /\ \A g \in 1..q : Numbers[g] \in Int
  <2>1. Numbers \in Seq(Int)  BY NumbersAre
  <2>2. Len(Numbers) = q  BY <1>1
  <2> HIDE DEF Points
  <2> QED  BY <2>1, <2>2
<1>4. \A g \in 1..q : segs[n + g].xs[1] = Numbers[g] /\ segs[n + g].c = (IF axis = 1 THEN "H" ELSE "V")
  <2> TAKE g \in 1..q
  <2>1. 1 \in 1..1 /\ (g - 1) * 1 + 1 = g  BY <1>1
  <2>2. segs[n + g].xs[1] = Numbers[(g - 1) * 1 + 1]  BY <1>1, <2>1
  <2>3. segs[n + g].c = Now.cmd
    <3>1. Now.cmd # "M"  BY <1>0
    <3> QED  BY <1>1, <3>1
  <2> QED  BY <1>0, <2>1, <2>2, <2>3
<1>5. cur = Begun(E, n + 1) /\ \A k \in 1..Len(segs) : E[k] \in Points  BY <1>1, EndsAre
<1> HIDE DEF E
<1>6. \A g \in 1..q : Begun(E, n + g) \in Points
  <2> TAKE g \in 1..q
  <2>1. CASE g = 1  BY <1>2, <1>5, <2>1
  <2>2. CASE g # 1
    <3>1. g - 1 \in 1..q /\ n + (g - 1) = (n + g) - 1 /\ n + g # 1  BY <1>1, <2>2
    <3>2. (n + g) - 1 \in 1..Len(segs)  BY <1>1, <3>1
    <3> QED  BY <1>5, <3>1, <3>2 DEF Begun
  <2> QED  BY <2>1, <2>2
<1>7. ASSUME NEW g \in 1..q, NEW p \in Points, p = Begun(E, n + g)
      PROVE  /\ axis = 1 => E[n + g] = <<IF Now.rel THEN p[1] + Numbers[g] ELSE Numbers[g], p[2]>>
             /\ axis = 2 => E[n + g] = <<p[1], IF Now.rel THEN p[2] + Numbers[g] ELSE Numbers[g]>>
  <2> DEFINE k == n + g
             x == Numbers[g]
  <2>1. k \in 1..Len(segs) /\ segs[k].rel = Now.rel /\ x = segs[k].xs[1] /\ x \in Int
        /\ segs[k].c = (IF axis = 1 THEN "H" ELSE "V")  BY <1>1, <1>3, <1>4
  <2>2. p = Begun(Ends(segs), k)  BY <1>7 DEF E
  <2> HIDE DEF k, x
  <2>3. /\ segs[k].c = "H" => Ends(segs)[k] = <<IF segs[k].rel THEN p[1] + x ELSE x, p[2]>>
        /\ segs[k].c = "V" => Ends(segs)[k] = <<p[1], IF segs[k].rel THEN p[2] + x ELSE x>>
    BY <1>1, <2>1, <2>2, EndsAlong, SMTT(30)
  <2> QED  BY <2>1, <2>3 DEF E, k, x
<1>8. ASSUME NEW g \in 1..q PROVE Begun(E, n + g)[o] = cur[o]
  <2>1. ASSUME NEW h \in 1..q, h - 1 \in T PROVE h \in T
    <3>1. h \in 0..q /\ h - 1 \in 0..q  BY <1>1
    <3> DEFINE p == Begun(E, n + h)
    <3>2. p \in Points  BY <1>6
    <3>3. p[o] = cur[o]
      <4>1. CASE h = 1  BY <1>5, <4>1
      <4>2. CASE h # 1
        <5>1. h - 1 # 0 /\ n + (h - 1) = (n + h) - 1 /\ n + h # 1  BY <1>1, <4>2
        <5>2. E[n + (h - 1)][o] = cur[o]  BY <2>1, <5>1
        <5> QED  BY <5>1, <5>2 DEF Begun
      <4> QED  BY <4>1, <4>2
    <3> HIDE DEF p
    <3>4. E[n + h][o] = p[o]
      <4>1. p = Begun(E, n + h)  BY DEF p
      <4>2. CASE axis = 1
        <5>1. E[n + h] = <<IF Now.rel THEN p[1] + Numbers[h] ELSE Numbers[h], p[2]>>  BY <1>7, <3>2, <4>1, <4>2
        <5> QED  BY <4>2, <5>1
      <4>3. CASE axis = 2
        <5>1. E[n + h] = <<p[1], IF Now.rel THEN p[2] + Numbers[h] ELSE Numbers[h]>>  BY <1>7, <3>2, <4>1, <4>3
        <5> QED  BY <4>3, <5>1
      <4> QED  BY <4>2, <4>3
    <3> QED  BY <3>1, <3>3, <3>4
  <2>2. \A h \in 0..q : h \in T
    <3>1. 0 \in T  BY <1>1
    <3> HIDE DEF T
    <3> QED  BY <1>1, <2>1, <3>1, Upwards
  <2>3. CASE g = 1  BY <1>5, <2>3
  <2>4. CASE g # 1
    <3>1. g - 1 # 0 /\ g - 1 \in 0..q /\ n + (g - 1) = (n + g) - 1 /\ n + g # 1  BY <1>1, <2>4
    <3>2. E[n + (g - 1)][o] = cur[o]  BY <2>2, <3>1
    <3> QED  BY <3>1, <3>2 DEF Begun
  <2> QED  BY <2>3, <2>4
<1>9. ps \in Seq(Points) /\ Len(ps) = q
  <2>1. Kept \in Int  BY <1>2
  <2> HIDE DEF Kept
  <2>2. ps \in [1..q -> Points]  BY <1>3, <2>1, PointIs
  <2> QED  BY <1>1, <2>2, ListIsSeq
<1>10. ASSUME NEW g \in 1..q, NEW p \in Points, p = Begun(E, n + g)
       PROVE  E[n + g] = IF Now.rel THEN Plus(p, ps[g]) ELSE ps[g]
  <2>1. p[1] \in Int /\ p[2] \in Int /\ p[1] + 0 = p[1] /\ p[2] + 0 = p[2]
    <3>1. p[1] \in Int /\ p[2] \in Int  BY PointIs
    <3> QED  BY <3>1
  <2>2. ps[g] = IF axis = 1 THEN <<Numbers[g], Kept>> ELSE <<Kept, Numbers[g]>>  BY <1>3
  <2>3. p[o] = cur[o]  BY <1>8, <1>10
  <2>4. CASE axis = 1
    <3>1. E[n + g] = <<IF Now.rel THEN p[1] + Numbers[g] ELSE Numbers[g], p[2]>>  BY <1>7, <1>10, <2>4
    <3>2. ps[g] = <<Numbers[g], Kept>> /\ p[2] = cur[2] /\ Kept = IF Now.rel THEN 0 ELSE cur[2]  BY <2>2, <2>3, <2>4
    <3> HIDE DEF ps, Kept
    <3> QED  BY <2>1, <3>1, <3>2 DEF Plus
  <2>5. CASE axis = 2
    <3>1. E[n + g] = <<p[1], IF Now.rel THEN p[2] + Numbers[g] ELSE Numbers[g]>>  BY <1>7, <1>10, <2>5
    <3>2. ps[g] = <<Kept, Numbers[g]>> /\ p[1] = cur[1] /\ Kept = IF Now.rel THEN 0 ELSE cur[1]  BY <2>2, <2>3, <2>5
    <3> HIDE DEF ps, Kept
    <3> QED  BY <2>1, <3>1, <3>2 DEF Plus
  <2> QED  BY <2>4, <2>5
<1>11. Along(axis) = Reached(ps)  BY DEF Along
<1> HIDE DEF ps
<1>12. Reached(ps) \in Seq(Points) /\ Len(Reached(ps)) = q  BY <1>2, <1>9, ReachedAre
<1>13. \A g \in 1..Len(ps) : \A p \in Points :
         p = Begun(E, n + g) => E[n + g] = IF Now.rel THEN Plus(p, ps[g]) ELSE ps[g]  BY <1>9, <1>10
<1>14. cur \in Points /\ ps \in Seq(Points) /\ n \in Nat /\ cur = Begun(E, n + 1)  BY <1>1, <1>2, <1>5, <1>9
<1> HIDE DEF E
<1>15. \A g \in 1..Len(ps) : Reached(ps)[g] = E[n + g]  BY ONLY <1>13, <1>14, ReachedEnds, ZenonT(30)
<1> QED  BY <1>9, <1>11, <1>12, <1>15 DEF E, Arrives

\* The control points of C and Q are those of the segment.
LEMMA ControlsAre ==
  ASSUME NEW segs, NEW E, NEW k, NEW m \in {2, 3}, Len(segs[k].xs) = 2 * m, segs[k].rel = Now.rel,
         NEW from, from = Begun(E, k), NEW g \in [1..(2 * m) -> Int], \A x \in 1..(2 * m) : g[x] = segs[k].xs[x],
         \A j \in 1..m : Couple(g, j) \in Points
  PROVE  Segment(from, g, m) = Control(segs, E, k)
<1> DEFINE xs == segs[k].xs
           base == Base(segs, E, k)
<1>1. Len(xs) \div 2 = m
  <2>1. m \in Nat  OBVIOUS
  <2> QED  BY <2>1
<1>2. ASSUME NEW j \in 1..m
      PROVE  (IF Now.rel THEN Plus(from, Couple(g, j)) ELSE Couple(g, j)) = Plus(base, <<xs[2 * j - 1], xs[2 * j]>>)
  <2>1. 2 * j - 1 \in 1..(2 * m) /\ 2 * j \in 1..(2 * m)  OBVIOUS
  <2>2. Couple(g, j) = <<xs[2 * j - 1], xs[2 * j]>>  BY <2>1 DEF Couple
  <2>3. Plus(Origin, Couple(g, j)) = Couple(g, j)  BY PlusOrigin
  <2> DEFINE y == Couple(g, j)
             z == <<xs[2 * j - 1], xs[2 * j]>>
  <2> HIDE DEF y, z
  <2>4. (IF Now.rel THEN Plus(from, y) ELSE y) = Plus(base, z)  BY <2>2, <2>3 DEF Base, y, z
  <2> QED  BY <2>4 DEF y, z
<1> DEFINE us == [j \in 1..m |-> IF Now.rel THEN Plus(from, Couple(g, j)) ELSE Couple(g, j)]
           vs == [j \in 1..(Len(xs) \div 2) |-> Plus(base, <<xs[2 * j - 1], xs[2 * j]>>)]
<1>3. us = vs  BY <1>1, <1>2
<1>4. Segment(from, g, m) = <<from>> \o us  BY DEF Segment
<1>5. Control(segs, E, k) = <<from>> \o vs  BY DEF Control
<1> HIDE DEF us, vs
<1> QED  BY <1>3, <1>4, <1>5

\* Where the points of C and Q are, and what they draw.
Draws(segs, n, q, f) ==
  /\ DOMAIN f = 1..q /\ f = [g \in DOMAIN f |-> f[g]]
  /\ \A g \in 1..q : f[g] = PointsOf(segs, n + g) /\ f[g] \in Seq(Points)
Bends(m) == Now.cmd = (IF m = 3 THEN "C" ELSE "Q")
Tips(gs, m) == [g \in DOMAIN gs |-> Couple(gs[g], m)]
Bows(gs, ends, m) == [g \in DOMAIN gs |-> Curve(Segment(IF g = 1 THEN cur ELSE ends[g - 1], gs[g], m))]

\* CurveTo arrives where its segments end, and draws what they draw.
LEMMA CurvesReach ==
  ASSUME PathInv, More, NEW segs, NEW n, NEW q, NEW m \in {2, 3}, NEW a, a = 2 * m, Adds(segs, n, q, a),
         Bends(m), cur = Begun(Ends(segs), n + 1),
         NEW gs, gs = Groups(a), NEW ends, ends = Reached(Tips(gs, m)), NEW fs, fs = Bows(gs, ends, m)
  PROVE  Arrives(segs, n, q, ends) /\ Draws(segs, n, q, fs)
<1> DEFINE E == Ends(segs)
           ps == Tips(gs, m)
<1>0. a \in {4, 6} /\ a \in {2, 4, 6} /\ Adds(segs, n, q, a) /\ gs = Groups(a)  OBVIOUS
<1>1. /\ segs \in Seq(Segments) /\ \A j \in 1..Len(segs) : WellMade(segs[j])
      /\ n \in Nat /\ q \in Nat
      /\ \A g \in 1..q : n + g \in 1..Len(segs)
      /\ \A g \in 1..q : segs[n + g].rel = Now.rel /\ Len(segs[n + g].xs) = a
      /\ \A g \in 1..q : segs[n + g].c = (IF Now.cmd = "M" /\ g > 1 THEN "L" ELSE Now.cmd)  BY <1>0, AddsIs, SMTT(30)
<1>2. Grouped(gs, segs, n, q, a)  BY <1>0, GroupsAdd
<1>3. /\ DOMAIN gs = 1..q /\ \A g \in 1..q : gs[g] \in [1..a -> Int]
      /\ \A g \in 1..q : \A x \in 1..a : gs[g][x] = segs[n + g].xs[x]  BY <1>2 DEF Grouped
<1>4. ASSUME NEW g \in 1..q
      PROVE  /\ \A j \in 1..m : Couple(gs[g], j) \in Points
             /\ Couple(gs[g], m) = LastPoint(segs[n + g])
  <2> DEFINE w == gs[g]
  <2>1. w \in [1..a -> Int] /\ \A x \in 1..a : w[x] = segs[n + g].xs[x]  BY <1>3
  <2> HIDE DEF w
  <2>2. \A j \in 1..m : Couple(w, j) \in Points
    <3>1. w \in [1..(2 * m) -> Int]  BY <2>1
    <3> QED  BY <3>1, CoupleIs
  <2>3. Couple(w, m) = <<w[a - 1], w[a]>>  BY DEF Couple
  <2>4. a - 1 \in 1..a /\ a \in 1..a  BY <1>0
  <2>5. Len(segs[n + g].xs) = a  BY <1>1
  <2>6. Couple(w, m) = LastPoint(segs[n + g])  BY <2>1, <2>3, <2>4, <2>5 DEF LastPoint
  <2> QED  BY <2>2, <2>6 DEF w
<1>5. ps \in Seq(Points) /\ Len(ps) = q /\ \A g \in 1..q : ps[g] = LastPoint(segs[n + g])
  <2>1. m \in 1..m  OBVIOUS
  <2>2. \A g \in 1..q : Couple(gs[g], m) \in Points  BY <1>4, <2>1
  <2>3. ps \in [1..q -> Points]
    <3> HIDE DEF Points
    <3> QED  BY <1>3, <2>2 DEF Tips
  <2>4. ps \in Seq(Points) /\ Len(ps) = q  BY <1>1, <2>3, ListIsSeq
  <2>5. \A g \in 1..q : ps[g] = Couple(gs[g], m)  BY <1>3 DEF Tips
  <2> QED  BY <1>4, <2>4, <2>5
<1>6. ends = Reached(ps)  OBVIOUS
<1> HIDE DEF ps
<1>7. Now.cmd \in {"M", "L", "C", "Q"} /\ Now.cmd \in {"C", "Q"}  BY DEF Bends
<1>8. ends \in Seq(Points) /\ Len(ends) = q /\ \A g \in 1..q : ends[g] = Ends(segs)[n + g]
  <2>1. ps \in Seq(Points) /\ Len(ps) = q  BY <1>5
  <2>2. LastPoints(segs, n, q, ps)  BY <1>5 DEF LastPoints
  <2>3. /\ Reached(ps) \in Seq(Points) /\ Len(Reached(ps)) = q
        /\ \A g \in 1..q : Reached(ps)[g] = Ends(segs)[n + g]  BY <1>0, <1>7, <2>1, <2>2, PointsReach
  <2> QED  BY <1>6, <2>3
<1> DEFINE From(g) == IF g = 1 THEN cur ELSE ends[g - 1]
<1>9. DOMAIN fs = 1..q /\ fs = [g \in DOMAIN fs |-> fs[g]] /\ \A g \in 1..q : fs[g] = Curve(Segment(From(g), gs[g], m))
  BY <1>3 DEF Bows
<1>10. ASSUME NEW g \in 1..q PROVE From(g) = Begun(E, n + g)
  <2>1. CASE g = 1  BY <2>1
  <2>2. CASE g # 1
    <3>1. g - 1 \in 1..q /\ n + (g - 1) = (n + g) - 1 /\ n + g # 1  BY <1>1, <2>2
    <3>2. ends[g - 1] = E[(n + g) - 1]
      <4>1. ends[g - 1] = E[n + (g - 1)]  BY <1>8, <3>1
      <4> QED  BY <3>1, <4>1
    <3> HIDE DEF E
    <3> QED  BY <2>2, <3>1, <3>2 DEF Begun
  <2> QED  BY <2>1, <2>2
<1>11. ASSUME NEW g \in 1..q PROVE fs[g] = PointsOf(segs, n + g) /\ fs[g] \in Seq(Points)
  <2> DEFINE k == n + g
             w == gs[g]
             from == From(g)
  <2>1. k \in 1..Len(segs) /\ Len(segs[k].xs) = 2 * m /\ segs[k].rel = Now.rel  BY <1>1
  <2>2. w \in [1..(2 * m) -> Int] /\ \A x \in 1..(2 * m) : w[x] = segs[k].xs[x]  BY <1>3
  <2>3. \A j \in 1..m : Couple(w, j) \in Points  BY <1>4
  <2>4. from = Begun(E, k)  BY <1>10
  <2>5. segs[k].c \in {"C", "Q"}
    <3>1. Now.cmd \in {"C", "Q"}  BY <1>7
    <3>2. segs[k].c = Now.cmd  BY <1>1, <3>1
    <3> QED  BY <3>1, <3>2
  <2>6. fs[g] = Curve(Segment(from, w, m))  BY <1>9
  <2> HIDE DEF k, w, from, E
  <2>7. Segment(from, w, m) = Control(segs, E, k)  BY <2>1, <2>2, <2>3, <2>4, ControlsAre, ZenonT(30)
  <2>8. PointsOf(segs, k) = Curve(Control(segs, E, k)) /\ PointsOf(segs, k) \in Seq(Points)
    BY <1>1, <2>1, <2>5, PointsOfAre DEF E
  <2> QED  BY <2>6, <2>7, <2>8 DEF k
<1>12. Arrives(segs, n, q, ends)  BY <1>8, Zenon DEF Arrives
<1>13. Draws(segs, n, q, fs)  BY <1>9, <1>11, Zenon DEF Draws
<1> QED  BY <1>12, <1>13

\* A turn leaves the reader at the segments it has added.
LEMMA TurnArrives ==
  ASSUME NEW segs, NEW n, NEW q, NEW a, Adds(segs, n, q, a), path' = path, i' = Past,
         Past \in 1..(Len(path) + 1), Past <= Len(path) => ~IsNumber(path[Past]),
         After(segs, n + q, cur', start', contours', poly')
  PROVE  PathRuns'
<1>1. segs = Split(path').segs /\ n + q = Len(Splits(path')[i' - 1].segs)
  <2>1. segs = Split(path).segs /\ n + q = Len(Splits(path)[Past - 1].segs)  BY Zenon DEF Adds
  <2> QED  BY <2>1
<1>2. n + q = Sofar'  BY <1>1 DEF Sofar
<1>3. After(Split(path').segs, Sofar', cur', start', contours', poly')  BY <1>1, <1>2
<1>4. i' \in 1..(Len(path') + 1) /\ (i' <= Len(path') => ~IsNumber(path'[i']))  OBVIOUS
<1> QED  BY <1>3, <1>4, Zenon DEF PathRuns

\* A command without numbers adds nothing.
LEMMA NothingAdded ==
  ASSUME NEW segs, NEW n, NEW q, NEW a, Adds(segs, n, q, a), q = 0, path' = path, i' = Past,
         Past \in 1..(Len(path) + 1), Past <= Len(path) => ~IsNumber(path[Past]),
         After(segs, n, cur, start, contours, poly),
         cur' = cur /\ start' = start /\ contours' = contours /\ poly' = poly
  PROVE  PathRuns'
<1>1. n + q = n  BY AddsIs
<1>2. After(segs, n + q, cur', start', contours', poly')  BY <1>1
<1> QED  BY <1>2, TurnArrives

\* Behind nothing and behind Z a subpath begins.
LEMMA BegunFirst ==
  ASSUME PathInv, Regular(path), NEW segs, segs = Split(path).segs, NEW n \in Nat, n + 1 <= Len(segs),
         segs[n + 1].c \notin {"M", "Z"}
  PROVE  n # 0 /\ segs[n].c # "Z"
<1>1. path \in Seq(Tokens)  BY DEF PathInv
<1>2. segs \in Seq(Segments)  BY <1>1, SegmentsWellMade
<1>3. \A k \in DOMAIN segs : (k = 1 \/ segs[k - 1].c = "Z") => segs[k].c \in {"M", "Z"}  BY DEF Regular
<1>4. n + 1 \in DOMAIN segs /\ (n + 1) - 1 = n /\ (n = 0 => n + 1 = 1)  BY <1>2
<1> QED  BY <1>3, <1>4

\* A turn that goes on with a contour.
LEMMA GoTurn ==
  ASSUME PathInv, Regular(path), NEW segs, NEW n, NEW q, NEW a, Adds(segs, n, q, a),
         Now.cmd \in {"L", "H", "V", "C", "Q"},
         Past \in 1..(Len(path) + 1), Past <= Len(path) => ~IsNumber(path[Past]),
         After(segs, n, cur, start, contours, poly),
         NEW to \in Seq(Points), Len(to) = q, \A g \in 1..q : to[g] = Ends(segs)[n + g],
         NEW f, DOMAIN f = 1..q, f = [g \in DOMAIN f |-> f[g]],
         \A g \in 1..q : f[g] = PointsOf(segs, n + g) /\ f[g] \in Seq(Points),
         Go(to, FlattenSeq(f))
  PROVE  PathRuns'
<1>1. /\ cur' = (IF to = <<>> THEN cur ELSE Last(to)) /\ poly' = Onto(poly, FlattenSeq(f))
      /\ i' = Past /\ path' = path /\ start' = start /\ contours' = contours  BY DEF Go, Onto
<1>2. /\ segs \in Seq(Segments) /\ \A j \in 1..Len(segs) : WellMade(segs[j])
      /\ n \in Nat /\ q \in Nat /\ n + q <= Len(segs)  BY AddsIs
<1>3. \A g \in 1..q : segs[n + g].c = Now.cmd
  <2>1. \A g \in 1..q : segs[n + g].c = (IF Now.cmd = "M" /\ g > 1 THEN "L" ELSE Now.cmd)  BY AddsIs
  <2>2. Now.cmd # "M"  OBVIOUS
  <2> QED  BY <2>1, <2>2
<1>4. poly \in Seq(Points) /\ contours \in Outlines  BY DEF PathInv, Outlines
<1>5. CASE q = 0
  <2>1. to = <<>>  BY <1>5
  <2>2. f = <<>>
    <3>1. 1..q = {}  BY <1>5
    <3> QED  BY <3>1
  <2>3. FlattenSeq(f) = <<>>  BY <2>2 DEF FlattenSeq
  <2>4. Onto(poly, <<>>) = poly  BY <1>4, JoinNothing
  <2>5. cur' = cur /\ start' = start /\ contours' = contours /\ poly' = poly  BY <1>1, <2>1, <2>3, <2>4
  <2> QED  BY <1>1, <1>5, <2>5, NothingAdded
<1>6. CASE q # 0
  <2>1. q \in Nat \ {0} /\ 1 \in 1..q /\ n + 1 <= Len(segs)  BY <1>2, <1>6
  <2>2. segs[n + 1].c \notin {"M", "Z"}  BY <1>3, <2>1
  <2>3. n # 0 /\ segs[n].c # "Z"
    <3>1. segs = Split(path).segs  BY DEF Adds
    <3> QED  BY <1>2, <2>1, <2>2, <3>1, BegunFirst
  <2>4. f \in [1..q -> Seq(Points)]
    <3>1. \A g \in 1..q : f[g] \in Seq(Points)  OBVIOUS
    <3>2. f = [g \in 1..q |-> f[g]]  OBVIOUS
    <3> DEFINE V == Seq(Points)
    <3> HIDE DEF V
    <3>3. \A g \in 1..q : f[g] \in V  BY <3>1 DEF V
    <3>4. f \in [1..q -> V]  BY <3>2, <3>3
    <3> QED  BY <3>4 DEF V
  <2>5. \A g \in 1..q : segs[n + g].c \notin {"M", "Z"}  BY <1>3
  <2>6. Turned(segs, n, q, f)
    <3>1. \A g \in 2..q : segs[n + g].c # "M"
      <4> TAKE g \in 2..q
      <4>1. g \in 1..q  BY <1>2
      <4> QED  BY <2>5, <4>1
    <3>2. \A g \in 1..q : f[g] = PointsOf(segs, n + g)  OBVIOUS
    <3> QED  BY <1>2, <2>1, <2>4, <3>1, <3>2, Zenon DEF Turned
  <2>7. After(segs, n + q, Last(to), start, contours, Onto(poly, FlattenSeq(f)))  BY <1>4, <2>3, <2>5, <2>6, DrawsOn
  <2>8. to # <<>>  BY <1>6
  <2>9. After(segs, n + q, cur', start', contours', poly')  BY <1>1, <2>7, <2>8
  <2> QED  BY <1>1, <2>9, TurnArrives
<1> QED  BY <1>5, <1>6

\* What the segments of a turn draw.
DrawnBy(segs, n, q) == [g \in 1..q |-> PointsOf(segs, n + g)]

\* A line draws the point it ends at.
LEMMA LinesDraw ==
  ASSUME NEW segs, NEW n, NEW q, NEW a, Adds(segs, n, q, a), Now.cmd \in {"M", "L", "H", "V"},
         NEW to \in Seq(Points), Len(to) = q, \A g \in 1..q : to[g] = Ends(segs)[n + g]
  PROVE  /\ DOMAIN DrawnBy(segs, n, q) = 1..q
         /\ DrawnBy(segs, n, q) = [g \in DOMAIN DrawnBy(segs, n, q) |-> DrawnBy(segs, n, q)[g]]
         /\ \A g \in 1..q : DrawnBy(segs, n, q)[g] = PointsOf(segs, n + g) /\ DrawnBy(segs, n, q)[g] \in Seq(Points)
         /\ Drawn(to) = FlattenSeq(DrawnBy(segs, n, q))
<1> DEFINE f == DrawnBy(segs, n, q)
           r == Drawn(to)
<1>1. /\ segs \in Seq(Segments) /\ \A j \in 1..Len(segs) : WellMade(segs[j])
      /\ n \in Nat /\ q \in Nat /\ n + q <= Len(segs)
      /\ \A g \in 1..q : n + g \in 1..Len(segs)
      /\ \A g \in 1..q : segs[n + g].c = (IF Now.cmd = "M" /\ g > 1 THEN "L" ELSE Now.cmd)  BY AddsIs
<1>2. DOMAIN f = 1..q /\ f = [g \in DOMAIN f |-> f[g]] /\ \A g \in 1..q : f[g] = PointsOf(segs, n + g)  BY DEF DrawnBy
<1>3. ASSUME NEW g \in 1..q PROVE f[g] = <<Scaled(Unit, to[g])>> /\ f[g] \in Seq(Points)
  <2> DEFINE k == n + g
  <2>1. k \in 1..Len(segs) /\ to[g] = Ends(segs)[k] /\ f[g] = PointsOf(segs, k)  BY <1>1, <1>2
  <2>2. segs[k].c \in {"M", "L", "H", "V"}
    <3>1. segs[k].c = Now.cmd \/ segs[k].c = "L"  BY <1>1
    <3> QED  BY <3>1
  <2> HIDE DEF k
  <2>3. PointsOf(segs, k) \in Seq(Points) /\ PointsOf(segs, k) = <<Scaled(Unit, Ends(segs)[k])>>
    BY <1>1, <2>1, <2>2, PointsOfAre
  <2> QED  BY <2>1, <2>3
<1> HIDE DEF f
<1>4. r \in Seq(Points) /\ Len(r) = q /\ \A g \in 1..q : r[g] = Scaled(Unit, to[g])
  <2>1. DOMAIN to = 1..q  OBVIOUS
  <2> QED  BY <2>1, DrawnIs DEF Drawn
<1>5. FlattenSeq(f) = r
  <2>1. DOMAIN f = 1..Len(r)  BY <1>2, <1>4
  <2>2. \A k \in 1..Len(r) : f[k] = <<r[k]>>  BY <1>3, <1>4
  <2> HIDE DEF r
  <2> QED  BY <1>2, <1>4, <2>1, <2>2, JoinedSingles
<1> QED  BY <1>2, <1>3, <1>5 DEF f

\* Where a turn of a command that takes numbers begins.
LEMMA TurnBegins ==
  ASSUME PathInv, PathRuns, More, Regular(path), Now.cmd \in Taking
  PROVE  /\ \E segs, n, q, a : /\ Adds(segs, n, q, a)
                               /\ After(segs, n, cur, start, contours, poly) /\ cur = Begun(Ends(segs), n + 1)
         /\ Past \in 1..(Len(path) + 1) /\ (Past <= Len(path) => ~IsNumber(path[Past]))
<1>1. phase = "path" /\ i <= Len(path)  BY DEF More
<1>2. ~IsNumber(path[i]) /\ After(Split(path).segs, Sofar, cur, start, contours, poly)  BY <1>1 DEF PathRuns
<1>3. /\ \E segs, n, q, a : Adds(segs, n, q, a)
      /\ Past \in 1..(Len(path) + 1) /\ (Past <= Len(path) => ~IsNumber(path[Past]))  BY <1>2, TurnAdds
<1>4. PICK segs, n, q, a : Adds(segs, n, q, a)  BY <1>3
<1>5. segs = Split(path).segs /\ n = Sofar  BY <1>4 DEF Adds
<1>6. After(segs, n, cur, start, contours, poly)  BY <1>2, <1>5
<1>7. cur = Begun(Ends(segs), n + 1)  BY <1>6 DEF After
<1> QED  BY <1>3, <1>4, <1>6, <1>7, Zenon

\* Where a turn starts and where it leaves off, as names.
Leaves == Past \in 1..(Len(path) + 1) /\ (Past <= Len(path) => ~IsNumber(path[Past]))
Starts(segs, n) == After(segs, n, cur, start, contours, poly) /\ cur = Begun(Ends(segs), n + 1)

\* A turn that arrives and draws as its segments do keeps PathRuns.
LEMMA GoesOn ==
  ASSUME PathInv, Regular(path), Leaves, Now.cmd \in {"L", "H", "V", "C", "Q"},
         NEW segs, NEW n, NEW q, NEW a, Adds(segs, n, q, a), Starts(segs, n),
         NEW to, Arrives(segs, n, q, to), NEW f, Draws(segs, n, q, f), NEW ps, ps = FlattenSeq(f), Go(to, ps)
  PROVE  PathRuns'
<1>1. Past \in 1..(Len(path) + 1) /\ (Past <= Len(path) => ~IsNumber(path[Past]))  BY Zenon DEF Leaves
<1>2. After(segs, n, cur, start, contours, poly)  BY Zenon DEF Starts
<1>3. to \in Seq(Points) /\ Len(to) = q /\ \A g \in 1..q : to[g] = Ends(segs)[n + g]  BY Zenon DEF Arrives
<1>4. /\ DOMAIN f = 1..q /\ f = [g \in DOMAIN f |-> f[g]]
      /\ \A g \in 1..q : f[g] = PointsOf(segs, n + g) /\ f[g] \in Seq(Points)  BY Zenon DEF Draws
<1>5. Go(to, FlattenSeq(f))  OBVIOUS
<1> QED  BY <1>1, <1>2, <1>3, <1>4, <1>5, GoTurn

\* Lines draw what the segments draw.
LEMMA LinesGo ==
  ASSUME PathInv, Regular(path), Leaves, Now.cmd \in {"L", "H", "V"},
         NEW segs, NEW n, NEW q, NEW a, Adds(segs, n, q, a), Starts(segs, n),
         NEW to, Arrives(segs, n, q, to), Go(to, Drawn(to))
  PROVE  PathRuns'
<1>1. Now.cmd \in {"M", "L", "H", "V"} /\ Now.cmd \in {"L", "H", "V", "C", "Q"}  OBVIOUS
<1>2. to \in Seq(Points) /\ Len(to) = q /\ \A g \in 1..q : to[g] = Ends(segs)[n + g]  BY Zenon DEF Arrives
<1>3. Draws(segs, n, q, DrawnBy(segs, n, q)) /\ Drawn(to) = FlattenSeq(DrawnBy(segs, n, q))
  BY <1>1, <1>2, LinesDraw DEF Draws
<1>4. PICK f : f = DrawnBy(segs, n, q)  OBVIOUS
<1>5. PICK ps : ps = Drawn(to)  OBVIOUS
<1>6. Draws(segs, n, q, f) /\ ps = FlattenSeq(f) /\ Go(to, ps)  BY <1>3, <1>4, <1>5
<1> QED  BY <1>1, <1>6, GoesOn

\* L, H and V.
LEMMA LinesTurn ==
  ASSUME PathInv, PathRuns, More, Regular(path), LineTo \/ Horizontal \/ Vertical
  PROVE  PathRuns' \/ Broken
<1>1. Now.cmd \in {"L", "H", "V"} /\ Now.cmd \in Taking  BY DEF LineTo, Horizontal, Vertical, Taking
<1>2. PICK segs, n, q, a : Adds(segs, n, q, a) /\ Starts(segs, n)  BY <1>1, TurnBegins DEF Starts
<1>3. Leaves  BY <1>1, TurnBegins DEF Leaves
<1>4. a = Arity(Now.cmd) /\ cur = Begun(Ends(segs), n + 1)  BY <1>2 DEF Adds, Starts
<1>5. ASSUME NEW to, Arrives(segs, n, q, to), Go(to, Drawn(to))
      PROVE  PathRuns'  BY <1>1, <1>2, <1>3, <1>5, LinesGo
<1>6. CASE LineTo
  <2>1. Now.cmd = "L" /\ a = 2  BY <1>4, <1>6, ArityIs DEF LineTo
  <2>2. PICK to \in {Reached(Groups(2))} : Broken \/ Go(to, Drawn(to))  BY <1>6 DEF LineTo
  <2>3. Arrives(segs, n, q, to)
    <3>1. Adds(segs, n, q, 2)  BY <1>2, <2>1
    <3>2. Now.cmd \in {"M", "L"}  BY <2>1
    <3>3. to = Reached(Groups(2))  OBVIOUS
    <3> QED  BY <1>4, <3>1, <3>2, <3>3, PairsReach DEF Arrives
  <2> QED  BY <1>5, <2>2, <2>3
<1>7. CASE Horizontal
  <2>1. Now.cmd = "H" /\ a = 1  BY <1>4, <1>7, ArityIs DEF Horizontal
  <2>2. PICK to \in {Along(1)} : Go(to, Drawn(to))  BY <1>7 DEF Horizontal
  <2>3. Arrives(segs, n, q, to)
    <3>1. PICK axis : axis = 1  OBVIOUS
    <3>2. axis \in {1, 2} /\ Turns(axis) /\ to = Along(axis)  BY <2>1, <3>1 DEF Turns
    <3>3. Adds(segs, n, q, a) /\ a = 1  BY <1>2, <2>1
    <3> QED  BY <1>4, <3>2, <3>3, AlongReaches
  <2> QED  BY <1>5, <2>2, <2>3
<1>8. CASE Vertical
  <2>1. Now.cmd = "V" /\ a = 1  BY <1>4, <1>8, ArityIs DEF Vertical
  <2>2. PICK to \in {Along(2)} : Go(to, Drawn(to))  BY <1>8 DEF Vertical
  <2>3. Arrives(segs, n, q, to)
    <3>1. PICK axis : axis = 2  OBVIOUS
    <3>2. axis \in {1, 2} /\ Turns(axis) /\ to = Along(axis)  BY <2>1, <3>1 DEF Turns
    <3>3. Adds(segs, n, q, a) /\ a = 1  BY <1>2, <2>1
    <3> QED  BY <1>4, <3>2, <3>3, AlongReaches
  <2> QED  BY <1>5, <2>2, <2>3
<1> QED  BY <1>6, <1>7, <1>8

\* C and Q.
LEMMA BowsGo ==
  ASSUME PathInv, PathRuns, More, Regular(path), NEW m \in {2, 3}, Bends(m), NEW a, a = 2 * m, a = Arity(Now.cmd),
         Now.cmd \in {"L", "H", "V", "C", "Q"}, Now.cmd \in Taking,
         NEW gs, gs = Groups(a), NEW ends, ends = Reached(Tips(gs, m)), NEW fs, fs = Bows(gs, ends, m),
         Go(ends, FlattenSeq(fs))
  PROVE  PathRuns'
<1>1. PICK segs, n, q, b : Adds(segs, n, q, b) /\ Starts(segs, n)  BY TurnBegins DEF Starts
<1>2. Leaves  BY TurnBegins DEF Leaves
<1>3. b = a /\ cur = Begun(Ends(segs), n + 1)  BY <1>1 DEF Adds, Starts
<1>4. Adds(segs, n, q, a)  BY <1>1, <1>3
<1>5. Arrives(segs, n, q, ends) /\ Draws(segs, n, q, fs)  BY <1>3, <1>4, CurvesReach
<1>6. PICK ps : ps = FlattenSeq(fs)  OBVIOUS
<1>7. Go(ends, ps)  BY <1>6
<1> QED  BY <1>1, <1>2, <1>4, <1>5, <1>6, <1>7, GoesOn

\* A turn with C or Q keeps it.
LEMMA CurveTurn ==
  ASSUME PathInv, PathRuns, More, Regular(path), CurveTo
  PROVE  PathRuns'
<1> DEFINE n == IF Now.cmd = "C" THEN 3 ELSE 2
<1>1. PICK gs \in {Groups(2 * n)} :
        \E ends \in {Reached([g \in DOMAIN gs |-> Couple(gs[g], n)])} :
          Go(ends, FlattenSeq([g \in DOMAIN gs |-> Curve(Segment(IF g = 1 THEN cur ELSE ends[g - 1], gs[g], n))]))
  BY DEF CurveTo
<1>2. PICK ends \in {Reached([g \in DOMAIN gs |-> Couple(gs[g], n)])} :
          Go(ends, FlattenSeq([g \in DOMAIN gs |-> Curve(Segment(IF g = 1 THEN cur ELSE ends[g - 1], gs[g], n))]))
  BY <1>1
<1>3. PICK m : m = n  OBVIOUS
<1>4. PICK a : a = 2 * m  OBVIOUS
<1>5. Now.cmd \in {"C", "Q"}  BY DEF CurveTo
<1>6. m \in {2, 3} /\ Bends(m) /\ a = Arity(Now.cmd) /\ Now.cmd \in {"L", "H", "V", "C", "Q"} /\ Now.cmd \in Taking
  BY <1>3, <1>4, <1>5, ArityIs DEF Bends, Taking
<1>7. gs = Groups(a) /\ ends = Reached(Tips(gs, m))  BY <1>3, <1>4 DEF Tips
<1>8. PICK fs : fs = Bows(gs, ends, m)  OBVIOUS
<1>9. Go(ends, FlattenSeq(fs))  BY <1>2, <1>3, <1>8 DEF Bows
<1> HIDE DEF n
<1> QED  BY <1>4, <1>6, <1>7, <1>8, <1>9, BowsGo

\* A move begins a contour.
LEMMA MoveDraws ==
  ASSUME PathInv, NEW segs, NEW n, NEW q, NEW a, Adds(segs, n, q, a), Starts(segs, n), Now.cmd = "M", q # 0,
         NEW to, Arrives(segs, n, q, to)
  PROVE  After(segs, n + q, Last(to), to[1], WithDrawn(contours, poly), Drawn(to))
<1>1. to \in Seq(Points) /\ Len(to) = q /\ \A g \in 1..q : to[g] = Ends(segs)[n + g]  BY Zenon DEF Arrives
<1>2. /\ segs \in Seq(Segments) /\ \A j \in 1..Len(segs) : WellMade(segs[j])
      /\ n \in Nat /\ q \in Nat /\ n + q <= Len(segs)
      /\ \A g \in 1..q : segs[n + g].c = (IF Now.cmd = "M" /\ g > 1 THEN "L" ELSE Now.cmd)  BY AddsIs
<1>3. PICK f : f = DrawnBy(segs, n, q)  OBVIOUS
<1>4. Draws(segs, n, q, f)
  <2>1. Now.cmd \in {"M", "L", "H", "V"}  OBVIOUS
  <2> QED  BY <1>1, <1>3, <2>1, LinesDraw DEF Draws
<1>5. /\ DOMAIN f = 1..q /\ f = [g \in DOMAIN f |-> f[g]]
      /\ \A g \in 1..q : f[g] = PointsOf(segs, n + g) /\ f[g] \in Seq(Points)  BY <1>4, Zenon DEF Draws
<1>6. f \in [1..q -> Seq(Points)]
  <2> DEFINE V == Seq(Points)
  <2> HIDE DEF V
  <2>1. \A g \in 1..q : f[g] \in V  BY <1>5 DEF V
  <2>2. f \in [1..q -> V]  BY <1>5, <2>1
  <2> QED  BY <2>2 DEF V
<1>7. \A g \in 2..q : segs[n + g].c = "L"
  <2> TAKE g \in 2..q
  <2>1. g \in 1..q /\ g > 1  BY <1>2
  <2> QED  BY <1>2, <2>1
<1>8. segs[n + 1].c = "M"
  <2>1. 1 \in 1..q /\ ~(1 > 1)  BY <1>2
  <2> QED  BY <1>2, <2>1
<1>9. Turned(segs, n, q, f)
  <2>1. \A g \in 2..q : segs[n + g].c # "M"  BY <1>7
  <2>2. q \in Nat \ {0}  BY <1>2
  <2>3. \A g \in 1..q : f[g] = PointsOf(segs, n + g)  BY <1>5
  <2> QED  BY <1>2, <1>6, <2>1, <2>2, <2>3, Zenon DEF Turned
<1>10. contours \in Outlines /\ poly \in Seq(Points)  BY DEF PathInv, Outlines
<1>11. After(segs, n, cur, start, contours, poly)  BY Zenon DEF Starts
<1> QED  BY <1>1, <1>7, <1>8, <1>9, <1>10, <1>11, DrawsNew

\* M.
LEMMA MoveTurn ==
  ASSUME PathInv, PathRuns, More, Regular(path), MoveTo
  PROVE  PathRuns' \/ Broken
<1>1. Now.cmd = "M" /\ Now.cmd \in Taking /\ Now.cmd \in {"M", "L"}  BY DEF MoveTo, Taking
<1>2. PICK segs, n, q, a : Adds(segs, n, q, a) /\ Starts(segs, n)  BY <1>1, TurnBegins DEF Starts
<1>3. Past \in 1..(Len(path) + 1) /\ (Past <= Len(path) => ~IsNumber(path[Past]))  BY <1>1, TurnBegins
<1>4. a = 2 /\ cur = Begun(Ends(segs), n + 1) /\ After(segs, n, cur, start, contours, poly)
  <2>1. a = Arity(Now.cmd) /\ cur = Begun(Ends(segs), n + 1) /\ After(segs, n, cur, start, contours, poly)
    BY <1>2, Zenon DEF Adds, Starts
  <2> QED  BY <1>1, <2>1, ArityIs
<1>5. PICK to \in {Reached(Groups(2))} :
       \/ Broken
       \/ to = <<>> /\ Go(<<>>, <<>>)
       \/ /\ to # <<>> /\ contours' = Flushed /\ poly' = Drawn(to)
          /\ start' = to[1] /\ cur' = Last(to) /\ i' = Past /\ path' = path  BY DEF MoveTo
<1>6. Arrives(segs, n, q, to)
  <2>1. Adds(segs, n, q, 2)  BY <1>2, <1>4
  <2>2. to = Reached(Groups(2))  OBVIOUS
  <2> QED  BY <1>1, <1>4, <2>1, <2>2, PairsReach DEF Arrives
<1>7. q \in Nat /\ Len(to) = q /\ to \in Seq(Points)
  <2>1. q \in Nat  BY <1>2, AddsIs
  <2> QED  BY <1>6, <2>1, Zenon DEF Arrives
<1>8. poly \in Seq(Points) /\ contours \in Outlines  BY DEF PathInv, Outlines
<1>9. CASE to = <<>> /\ Go(<<>>, <<>>)
  <2>1. q = 0  BY <1>7, <1>9
  <2>2. Onto(poly, <<>>) = poly  BY <1>8, JoinNothing
  <2>3. cur' = cur /\ start' = start /\ contours' = contours /\ poly' = poly /\ path' = path /\ i' = Past
    BY <1>9, <2>2 DEF Go, Onto
  <2> QED  BY <1>2, <1>3, <1>4, <2>1, <2>3, NothingAdded
<1>10. CASE /\ to # <<>> /\ contours' = Flushed /\ poly' = Drawn(to)
            /\ start' = to[1] /\ cur' = Last(to) /\ i' = Past /\ path' = path
  <2>1. q # 0
    <3> HIDE DEF Points
    <3> QED  BY <1>7, <1>10
  <2>2. After(segs, n + q, Last(to), to[1], WithDrawn(contours, poly), Drawn(to))
    BY <1>1, <1>2, <1>6, <2>1, MoveDraws
  <2>3. contours' = WithDrawn(contours, poly)  BY <1>8, <1>10, FlushIs DEF Flushed
  <2>4. After(segs, n + q, cur', start', contours', poly')  BY <1>10, <2>2, <2>3
  <2> QED  BY <1>2, <1>3, <1>10, <2>4, TurnArrives
<1> QED  BY <1>5, <1>9, <1>10

\* Z goes back to where the subpath began and completes the contour.
LEMMA GapDraws ==
  ASSUME NEW segs \in Seq(Segments), \A j \in 1..Len(segs) : WellMade(segs[j]),
         NEW n \in Nat, NEW m \in 1..Len(segs), m = n + 1, segs[m].c = "Z",
         NEW c, NEW s, NEW cs \in Outlines, NEW p \in Seq(Points), After(segs, n, c, s, cs, p)
  PROVE  After(segs, m, s, s, WithDrawn(cs, p), <<>>)
<1> DEFINE E == Ends(segs)
           O == OutlinesTo(segs)
           ds == WithDrawn(cs, p)
<1>1. s = BegunAt(segs, E, m) /\ ds = O[n]  BY DEF After
<1>2. E[m] = EndAt(segs, E, m)  BY EndsAre
<1> HIDE DEF E, O, ds
<1>3. E[m] = s
  <2>1. EndAt(segs, E, m) = BegunAt(segs, E, m)  BY DEF EndAt, BegunAt
  <2> QED  BY <1>1, <1>2, <2>1
<1>4. s = Begun(E, m + 1)
  <2>1. m + 1 # 1 /\ (m + 1) - 1 = m  OBVIOUS
  <2> QED  BY <1>3, <2>1 DEF Begun
<1>5. s = BegunAt(segs, E, m + 1)
  <2>1. m \in Nat \ {0} /\ m + 1 \in Nat /\ m <= m + 1  OBVIOUS
  <2>2. \A j \in m..((m + 1) - 1) : segs[j].c # "M"
    <3> TAKE j \in m..((m + 1) - 1)
    <3>1. j = m  OBVIOUS
    <3> QED  BY <3>1
  <2> DEFINE k == m + 1
  <2> HIDE DEF k
  <2>3. BegunAt(segs, E, k) = BegunAt(segs, E, m)  BY <2>1, <2>2, BegunSame DEF k
  <2> QED  BY <1>1, <2>3 DEF k
<1>6. ds \in Outlines  BY FlushIs DEF ds
<1>7. O[m] = ds
  <2>1. O[m] = WithSegment(O[m - 1], segs[m].c, PointsOf(segs, m))  BY OutlinesAre DEF O
  <2>2. PointsOf(segs, m) = <<>> /\ PointsOf(segs, m) \in Seq(Points)  BY PointsOfAre
  <2>3. m - 1 = n  OBVIOUS
  <2> DEFINE z == segs[m].c
             ps == PointsOf(segs, m)
  <2>4. z # "M" /\ ps = <<>> /\ ps \in Seq(Points) /\ O[m] = WithSegment(ds, z, ps)  BY <1>1, <2>1, <2>2, <2>3
  <2> HIDE DEF z, ps
  <2>5. WithSegment(ds, z, ps) = ds  BY <1>6, <2>4, WithSegmentIs, Zenon
  <2> QED  BY <2>4, <2>5
<1>8. WithDrawn(ds, <<>>) = ds  BY DEF WithDrawn
<1>9. WithDrawn(ds, <<>>) = OutlinesTo(segs)[m]  BY <1>7, <1>8 DEF O
<1>10. s = Begun(Ends(segs), m + 1) /\ s = BegunAt(segs, Ends(segs), m + 1)  BY <1>4, <1>5 DEF E
<1>11. WithDrawn(WithDrawn(cs, p), <<>>) = OutlinesTo(segs)[m]  BY <1>9 DEF ds
<1> QED  BY <1>10, <1>11 DEF After

\* What Z adds to the segments.
LEMMA GapAdded ==
  ASSUME NEW d \in Seq(Tokens), Regular(d), NEW k \in 1..Len(d), ~IsNumber(d[k]), d[k].cmd = "Z",
         NEW n, n = Len(Splits(d)[k - 1].segs)
  PROVE  /\ n \in Nat /\ Len(Splits(d)[k].segs) = n + 1 /\ n + 1 \in 1..Len(Split(d).segs)
         /\ Split(d).segs[n + 1].c = "Z"
         /\ k + 1 <= Len(d) => ~IsNumber(d[k + 1])
<1> DEFINE s == Splits(d)[k - 1]
           w == Splits(d)[k]
<1>1. k - 1 \in 0..Len(d) /\ k \in 0..Len(d) /\ d[k] \in Tokens
  <2> HIDE DEF Tokens
  <2> QED  OBVIOUS
<1>2. s \in SplitState /\ w \in SplitState /\ w = WithToken(s, d[k])  BY <1>1, SplitsAre
<1> HIDE DEF s, w
<1>3. w.by = d[k] /\ w.segs = Append(s.segs, Gap)  BY <1>1, <1>2, TokenCommands
<1>4. s.segs \in Seq(Segments)  BY <1>2, SplitParts
<1>5. n \in Nat /\ Len(w.segs) = n + 1 /\ w.segs[n + 1] = Gap
  <2> DEFINE x == s.segs
  <2>1. n = Len(x) /\ x \in Seq(Segments) /\ w.segs = Append(x, Gap)  BY <1>3, <1>4 DEF s
  <2> HIDE DEF x, Gap, Segments
  <2> QED  BY <2>1
<1>6. Len(w.segs) \in 0..Len(Split(d).segs) /\ \A j \in 1..Len(w.segs) : Split(d).segs[j] = w.segs[j]
  BY <1>1, PrefixIs DEF w
<1>7. Len(Split(d).segs) \in Nat
  <2>1. Split(d).segs \in Seq(Segments)  BY SegmentsWellMade
  <2> QED  BY <2>1
<1>8. n + 1 \in 1..Len(Split(d).segs) /\ Split(d).segs[n + 1] = Gap
  <2> DEFINE m == n + 1
  <2>1. m \in 1..Len(w.segs) /\ m \in 1..Len(Split(d).segs)  BY <1>5, <1>6, <1>7
  <2>2. w.segs[m] = Gap  BY <1>5
  <2> HIDE DEF m
  <2>3. Split(d).segs[m] = Gap  BY <1>6, <2>1, <2>2
  <2> QED  BY <2>1, <2>3 DEF m
<1>9. ASSUME k + 1 <= Len(d), IsNumber(d[k + 1]) PROVE FALSE
  <2> DEFINE j == k + 1
  <2>1. j \in 1..Len(d) /\ j - 1 = k /\ IsNumber(d[j])  BY <1>9
  <2> HIDE DEF j
  <2>2. Arity(Splits(d)[j - 1].by.cmd) # 0  BY <2>1, RegularIs
  <2>3. Arity(w.by.cmd) # 0  BY <2>1, <2>2 DEF w
  <2>4. w.by.cmd = "Z"  BY <1>3
  <2> QED  BY <2>3, <2>4 DEF Arity
<1>10. Gap.c = "Z"  BY DEF Gap
<1> QED  BY <1>5, <1>8, <1>9, <1>10 DEF w

\* Z.
LEMMA CloseTurn ==
  ASSUME PathInv, PathRuns, More, Regular(path), ClosePath
  PROVE  PathRuns'
<1>1. /\ phase = "path" /\ i <= Len(path) /\ ~IsNumber(path[i])
      /\ After(Split(path).segs, Sofar, cur, start, contours, poly)  BY DEF More, PathRuns
<1>2. path \in Seq(Tokens) /\ i \in 1..Len(path)  BY <1>1 DEF PathInv
<1>3. Now = path[i] /\ First = i + 1  BY <1>1 DEF Now, First
<1>4. /\ path[i].cmd = "Z" /\ cur' = start /\ contours' = Flushed /\ poly' = <<>> /\ i' = i + 1
      /\ path' = path /\ start' = start  BY <1>3 DEF ClosePath
<1>5. PICK segs : segs = Split(path).segs  OBVIOUS
<1>6. PICK n : n = Sofar  OBVIOUS
<1>7. /\ n \in Nat /\ Len(Splits(path)[i].segs) = n + 1 /\ n + 1 \in 1..Len(segs)
      /\ segs[n + 1].c = "Z" /\ (i + 1 <= Len(path) => ~IsNumber(path[i + 1]))
  BY <1>1, <1>2, <1>4, <1>5, <1>6, GapAdded DEF Sofar
<1>8. PICK m : m = n + 1  OBVIOUS
<1>9. segs \in Seq(Segments) /\ \A j \in 1..Len(segs) : WellMade(segs[j])  BY <1>2, <1>5, SegmentsWellMade
<1>10. poly \in Seq(Points) /\ contours \in Outlines  BY DEF PathInv, Outlines
<1>11. After(segs, n, cur, start, contours, poly)  BY <1>1, <1>5, <1>6
<1>12. After(segs, m, start, start, WithDrawn(contours, poly), <<>>)
  <2>1. m \in 1..Len(segs) /\ segs[m].c = "Z"  BY <1>7, <1>8
  <2> QED  BY <1>7, <1>8, <1>9, <1>10, <1>11, <2>1, GapDraws
<1>13. contours' = WithDrawn(contours, poly)  BY <1>4, <1>10, FlushIs DEF Flushed
<1>14. After(segs, m, cur', start', contours', poly')  BY <1>4, <1>12, <1>13
<1>15. Sofar' = m
  <2>1. i' - 1 = i  BY <1>2, <1>4
  <2> QED  BY <1>4, <1>7, <1>8, <2>1 DEF Sofar
<1>16. Split(path').segs = segs  BY <1>4, <1>5
<1>17. i' \in 1..(Len(path') + 1) /\ (i' <= Len(path') => ~IsNumber(path'[i']))  BY <1>2, <1>4, <1>7
<1> QED  BY <1>14, <1>15, <1>16, <1>17 DEF PathRuns

\* The reader of a path before its first turn.
LEMMA PathOpens ==
  ASSUME NEW d \in Seq(Tokens), PathBegins(d)
  PROVE  PathRuns' /\ PathDone'
<1>1. /\ path' = d /\ i' = 1 /\ cur' = Origin /\ start' = Origin /\ poly' = <<>> /\ contours' = <<>> /\ phase' = "path"
  BY DEF PathBegins
<1>2. PathDone'  BY <1>1 DEF PathDone
<1>3. ASSUME Regular(d)
      PROVE  /\ 1 <= Len(d) => ~IsNumber(d[1])
             /\ Sofar' = 0 /\ After(Split(d).segs, 0, Origin, Origin, <<>>, <<>>)
  <2>1. Splits(d)[0] = Unread  BY SplitsAre
  <2>2. ASSUME 1 <= Len(d), IsNumber(d[1]) PROVE FALSE
    <3> DEFINE k == 1
    <3>1. k \in 1..Len(d) /\ IsNumber(d[k]) /\ k - 1 = 0  BY <2>2
    <3> HIDE DEF k
    <3>2. Arity(Splits(d)[k - 1].by.cmd) # 0  BY <1>3, <3>1, RegularIs
    <3>3. Unread.by.cmd = ""  BY DEF Unread, NoCommand
    <3> QED  BY <2>1, <3>1, <3>2, <3>3 DEF Arity
  <2>3. Sofar' = 0
    <3>1. i' - 1 = 0  BY <1>1
    <3>2. Unread.segs = <<>>  BY DEF Unread
    <3> QED  BY <1>1, <2>1, <3>1, <3>2 DEF Sofar
  <2>4. PICK segs : segs = Split(d).segs  OBVIOUS
  <2>5. OutlinesTo(segs)[0] = <<>>  BY <1>3, <2>4, SegmentsWellMade, OutlinesAre
  <2>6. Heads(segs, 1) = {}
    <3>1. 1..(1 - 1) = {}  OBVIOUS
    <3> QED  BY <3>1 DEF Heads
  <2>7. 0 + 1 = 1  OBVIOUS
  <2>8. After(segs, 0, Origin, Origin, <<>>, <<>>)
    <3>1. Origin = Begun(Ends(segs), 0 + 1) /\ Origin = BegunAt(segs, Ends(segs), 0 + 1)
      BY <2>6, <2>7 DEF Begun, BegunAt
    <3>2. WithDrawn(<<>>, <<>>) = OutlinesTo(segs)[0]  BY <2>5 DEF WithDrawn
    <3> QED  BY <3>1, <3>2 DEF After
  <2> QED  BY <2>2, <2>3, <2>4, <2>8
<1>4. PathRuns'
  <2>1. ASSUME Regular(path)'
        PROVE  /\ i' \in 1..(Len(path') + 1) /\ (i' <= Len(path') => ~IsNumber(path'[i']))
               /\ After(Split(path').segs, Sofar', cur', start', contours', poly')
    <3>1. Regular(d)  BY <1>1, <2>1
    <3>2. Len(d) \in Nat  OBVIOUS
    <3> QED  BY <1>1, <1>3, <3>1, <3>2
  <2> QED  BY <2>1 DEF PathRuns
<1> QED  BY <1>2, <1>4

\* The reader of a path at its end.
LEMMA PathCloses ==
  ASSUME PathInv, PathRuns, Regular(path), PathEnd
  PROVE  contours' = Outline(path)
<1>1. phase = "path" /\ i > Len(path) /\ contours' = Flushed  BY DEF PathEnd
<1>2. path \in Seq(Tokens) /\ poly \in Seq(Points) /\ contours \in Outlines  BY DEF PathInv, Outlines
<1>3. i \in 1..(Len(path) + 1) /\ After(Split(path).segs, Sofar, cur, start, contours, poly)  BY <1>1 DEF PathRuns
<1>4. i - 1 = Len(path)
  <2>1. Len(path) \in Nat  BY <1>2
  <2> QED  BY <1>1, <1>3, <2>1
<1>5. Sofar = Len(Split(path).segs)  BY <1>4 DEF Sofar, Split
<1>6. WithDrawn(contours, poly) = OutlinesTo(Split(path).segs)[Len(Split(path).segs)]  BY <1>3, <1>5 DEF After
<1>7. contours' = WithDrawn(contours, poly)  BY <1>1, <1>2, FlushIs DEF Flushed
<1> QED  BY <1>6, <1>7 DEF Outline

\* Every turn.
LEMMA PathStepReads ==
  ASSUME PathInv, PathRuns, phase = "path", PathStep
  PROVE  path' = path /\ phase' \in {"path", "ended", "bad"} /\ PathRuns' /\ PathDone'
<1>1. path' = path /\ phase' \in {"path", "ended", "bad"} /\ (phase' = "ended" => PathEnd)
  BY DEF PathStep, MoveTo, LineTo, Horizontal, Vertical, CurveTo, ClosePath, Unsupported, PathEnd, Go, Broken
<1>2. CASE ~Regular(path)  BY <1>1, <1>2 DEF PathRuns, PathDone
<1>3. CASE Regular(path)
  <2>1. PathDone'
    <3>1. phase' = "ended" => contours' = Outline(path)  BY <1>1, <1>3, PathCloses
    <3> QED  BY <1>1, <3>1 DEF PathDone
  <2>2. Broken \/ PathEnd => PathRuns'
    <3>1. Broken \/ PathEnd => phase' # "path"  BY DEF Broken, PathEnd
    <3> QED  BY <3>1 DEF PathRuns
  <2>3. MoveTo => PathRuns' \/ Broken  BY <1>3, MoveTurn DEF MoveTo
  <2>4. LineTo \/ Horizontal \/ Vertical => PathRuns' \/ Broken  BY <1>3, LinesTurn DEF LineTo, Horizontal, Vertical
  <2>5. CurveTo => PathRuns'  BY <1>3, CurveTurn DEF CurveTo
  <2>6. ClosePath => PathRuns'  BY <1>3, CloseTurn DEF ClosePath
  <2>7. Unsupported => Broken  BY DEF Unsupported
  <2>8. PathRuns'  BY <2>2, <2>3, <2>4, <2>5, <2>6, <2>7, Zenon DEF PathStep
  <2> QED  BY <1>1, <2>1, <2>8
<1> QED  BY <1>2, <1>3

(* A document: which elements are open. *)
\* How many of j to k are in Q.
Counted(Q, j, k) == Cardinality({n \in j..k : n \in Q})

\* Counting goes up by one or not at all.
LEMMA CountGrows ==
  ASSUME NEW Q, NEW j \in Nat, NEW k \in Nat, j <= k + 1
  PROVE  /\ Counted(Q, j, k) \in Int
         /\ Counted(Q, j, k + 1) = Counted(Q, j, k) + (IF k + 1 \in Q THEN 1 ELSE 0)
<1> DEFINE A == {n \in j..k : n \in Q}
           B == {n \in j..(k + 1) : n \in Q}
           m == k + 1
<1>1. IsFiniteSet(A)
  <2>1. IsFiniteSet(j..k)  BY FS_Interval
  <2>2. A \in SUBSET (j..k)  OBVIOUS
  <2> QED  BY <2>1, <2>2, FS_Subset
<1>2. Cardinality(A) \in Int
  <2>1. Cardinality(A) \in Nat  BY <1>1, FS_CardinalityType
  <2> QED  BY <2>1
<1>3. B = IF m \in Q THEN A \cup {m} ELSE A
  <2>1. j..m = (j..k) \cup {m}  OBVIOUS
  <2> HIDE DEF m
  <2> QED  BY <2>1 DEF m
<1>4. m \notin A  OBVIOUS
<1> HIDE DEF A, B, m
<1>5. Cardinality(A \cup {m}) = Cardinality(A) + 1  BY <1>1, <1>4, FS_AddElement
<1>6. Cardinality(B) = Cardinality(A) + (IF m \in Q THEN 1 ELSE 0)
  <2>1. CASE m \in Q  BY <1>2, <1>3, <1>5, <2>1
  <2>2. CASE m \notin Q  BY <1>2, <1>3, <2>2
  <2> QED  BY <2>1, <2>2
<1> QED  BY <1>2, <1>6 DEF A, B, m, Counted

\* What an element more does to the depth of another.
Change(j, n) == IF events[n].tag # events[j].tag THEN 0 ELSE IF events[n].open THEN 1 ELSE -1

\* An element more, and how deep an earlier one is.
LEMMA DepthGrows ==
  ASSUME events \in Seq(Tags), NEW j \in Nat, NEW k \in Nat, j <= k + 1, k + 1 \in 1..Len(events)
  PROVE  Depth(j, k) \in Int /\ Depth(j, k + 1) = Depth(j, k) + Change(j, k + 1)
<1> DEFINE m == k + 1
           Up == {n \in j..m : events[n].tag = events[j].tag /\ events[n].open}
           Down == {n \in j..m : events[n].tag = events[j].tag /\ ~events[n].open}
           U(x) == Counted(Up, j, x)
           D(x) == Counted(Down, j, x)
<1>1. \A n \in j..k : n \in j..m  OBVIOUS
<1>2. m \in j..m  OBVIOUS
<1>3. Depth(j, k) = U(k) - D(k) /\ Depth(j, m) = U(m) - D(m)
  <2>1. {n \in j..k : n \in Up} = {n \in j..k : events[n].tag = events[j].tag /\ events[n].open}
    <3> HIDE DEF m
    <3> QED  BY <1>1
  <2>2. {n \in j..k : n \in Down} = {n \in j..k : events[n].tag = events[j].tag /\ ~events[n].open}
    <3> HIDE DEF m
    <3> QED  BY <1>1
  <2>3. /\ {n \in j..m : n \in Up} = {n \in j..m : events[n].tag = events[j].tag /\ events[n].open}
        /\ {n \in j..m : n \in Down} = {n \in j..m : events[n].tag = events[j].tag /\ ~events[n].open}
    <3> HIDE DEF m
    <3> QED  OBVIOUS
  <2> HIDE DEF Up, Down, m
  <2> QED  BY <2>1, <2>2, <2>3 DEF Depth, Counted
<1>4. m \in Up <=> events[m].tag = events[j].tag /\ events[m].open  BY <1>2
<1>5. m \in Down <=> events[m].tag = events[j].tag /\ ~events[m].open  BY <1>2
<1> HIDE DEF Up, Down
<1>6. /\ U(k) \in Int /\ U(m) = U(k) + (IF m \in Up THEN 1 ELSE 0)
      /\ D(k) \in Int /\ D(m) = D(k) + (IF m \in Down THEN 1 ELSE 0)
  <2>1. j \in Nat /\ k \in Nat /\ j <= k + 1  OBVIOUS
  <2> QED  BY <2>1, CountGrows
<1> HIDE DEF U, D, m
<1>7. Depth(j, m) = Depth(j, k) + Change(j, m)
  <2>1. CASE events[m].tag # events[j].tag  BY <1>3, <1>4, <1>5, <1>6, <2>1 DEF Change
  <2>2. CASE events[m].tag = events[j].tag /\ events[m].open  BY <1>3, <1>4, <1>5, <1>6, <2>2 DEF Change
  <2>3. CASE events[m].tag = events[j].tag /\ ~events[m].open  BY <1>3, <1>4, <1>5, <1>6, <2>3 DEF Change
  <2> QED  BY <2>1, <2>2, <2>3
<1> QED  BY <1>3, <1>6, <1>7 DEF m

\* An element is open at itself.
LEMMA DepthFirst ==
  ASSUME events \in Seq(Tags), NEW j \in 1..Len(events), events[j].open
  PROVE  Depth(j, j) = 1
<1>1. PICK k \in Nat : k = j - 1  OBVIOUS
<1>2. k + 1 = j /\ j \in Nat  BY <1>1
<1>3. Depth(j, k) \in Int /\ Depth(j, j) = Depth(j, k) + Change(j, j)  BY <1>2, DepthGrows
<1>4. Depth(j, k) = 0
  <2>1. j..k = {}  BY <1>2
  <2>2. /\ {n \in j..k : events[n].tag = events[j].tag /\ events[n].open} = {}
        /\ {n \in j..k : events[n].tag = events[j].tag /\ ~events[n].open} = {}  BY <2>1
  <2>3. Cardinality({}) = 0  BY FS_EmptySet
  <2> QED  BY <2>2, <2>3, SMTT(30) DEF Depth
<1>5. Change(j, j) = 1  BY DEF Change
<1> QED  BY <1>3, <1>4, <1>5

\* The elements of a kind that are open behind element m.
OpenAt(K, m) == {j \in K : j <= m /\ \A n \in j..m : Depth(j, n) > 0}
\* What an element more does to them.
LEMMA OpenNext ==
  ASSUME events \in Seq(Tags), NEW K \in SUBSET (1..Len(events)), \A j \in K : events[j].open,
         NEW m \in Nat, m + 1 \in 1..Len(events), NEW j
  PROVE  /\ j \in OpenAt(K, m) => Depth(j, m) \in Int /\ Depth(j, m + 1) = Depth(j, m) + Change(j, m + 1)
         /\ j \in OpenAt(K, m) => (j \in OpenAt(K, m + 1) <=> Depth(j, m + 1) > 0)
         /\ j \in OpenAt(K, m + 1) => j \in OpenAt(K, m) \/ (j = m + 1 /\ j \in K)
         /\ m + 1 \in K => m + 1 \in OpenAt(K, m + 1) /\ Depth(m + 1, m + 1) = 1
<1>1. PICK k : k = m + 1  OBVIOUS
<1>2. k \in 1..Len(events) /\ k \in Nat /\ k = m + 1 /\ ~(k <= m)  BY <1>1
<1>3. \A x \in K : x \in Nat /\ (x <= k => x <= m \/ x = k) /\ (x <= m => x <= k)  BY <1>2
<1>4. ASSUME j \in OpenAt(K, m)
      PROVE  /\ Depth(j, m) \in Int /\ Depth(j, k) = Depth(j, m) + Change(j, k)
             /\ j \in OpenAt(K, k) <=> Depth(j, k) > 0
  <2>1. j \in K /\ j \in Nat /\ j <= m /\ \A n \in j..m : Depth(j, n) > 0  BY <1>3, <1>4 DEF OpenAt
  <2>2. Depth(j, m) \in Int /\ Depth(j, m + 1) = Depth(j, m) + Change(j, m + 1)  BY <1>2, <2>1, DepthGrows
  <2>3. \A n \in j..k : n \in j..m \/ n = k  BY <1>2, <2>1
  <2>4. k \in j..k /\ j <= k  BY <1>2, <2>1
  <2> QED  BY <1>1, <2>1, <2>2, <2>3, <2>4 DEF OpenAt
<1>5. ASSUME j \in OpenAt(K, k) PROVE j \in OpenAt(K, m) \/ (j = k /\ j \in K)
  <2>1. j \in K /\ j \in Nat /\ j <= k /\ \A n \in j..k : Depth(j, n) > 0  BY <1>3, <1>5 DEF OpenAt
  <2>2. \A n \in j..m : n \in j..k  BY <1>2, <2>1
  <2> QED  BY <1>3, <2>1, <2>2 DEF OpenAt
<1>6. ASSUME k \in K PROVE k \in OpenAt(K, k) /\ Depth(k, k) = 1
  <2>1. Depth(k, k) = 1  BY <1>2, <1>6, DepthFirst
  <2>2. \A n \in k..k : n = k  BY <1>2
  <2>3. k <= k /\ 1 > 0  BY <1>2
  <2> QED  BY <1>6, <2>1, <2>2, <2>3 DEF OpenAt
<1> QED  BY <1>1, <1>4, <1>5, <1>6

\* Which symbol is open behind element m, when no symbol is in another, and
\* how deep in the outermost text group element m is.
SymbolOpen(m, c) ==
  /\ OpenAt(Opens("symbol"), m) = {} => c = NoId
  /\ \A s \in OpenAt(Opens("symbol"), m) : Depth(s, m) = 1 /\ events[s].id = c
Texts == {g \in Opens("g") : events[g].text}
Outermost(g, m, depth, matrix) ==
  /\ g \in OpenAt(Texts, m) /\ Depth(g, m) = depth /\ matrix = events[g].tf[1]
  /\ \A h \in OpenAt(Texts, m) : g <= h /\ Depth(h, m) <= depth
GroupsOpen(m, depth, matrix) ==
  IF depth = 0 THEN OpenAt(Texts, m) = {} ELSE \E g \in OpenAt(Texts, m) : Outermost(g, m, depth, matrix)

\* Opening tags are places in the document.
LEMMA OpensAre ==
  ASSUME events \in Seq(Tags)
  PROVE  \A t : Opens(t) \in SUBSET (1..Len(events)) /\ \A j \in Opens(t) : events[j].open /\ events[j].tag = t
<1>1. DOMAIN events = 1..Len(events)  OBVIOUS
<1> QED  BY <1>1 DEF Opens

\* A tag more, and the symbol that is open.
LEMMA SymbolNext ==
  ASSUME events \in Seq(Tags), \A s, t \in Opens("symbol") : ~Holds(s, t),
         NEW m \in Nat, m + 1 \in 1..Len(events), NEW c, SymbolOpen(m, c)
  PROVE  /\ events[m + 1].tag = "symbol" /\ events[m + 1].open => SymbolOpen(m + 1, events[m + 1].id)
         /\ events[m + 1].tag = "symbol" /\ ~events[m + 1].open => SymbolOpen(m + 1, NoId)
         /\ events[m + 1].tag # "symbol" => SymbolOpen(m + 1, c)
<1>1. PICK k : k = m + 1  OBVIOUS
<1>2. PICK K : K = Opens("symbol")  OBVIOUS
<1>3. /\ K \in SUBSET (1..Len(events)) /\ \A j \in K : events[j].open /\ events[j].tag = "symbol"
      /\ k \in 1..Len(events)  BY <1>1, <1>2, OpensAre
<1>4. \A j : /\ j \in OpenAt(K, m) => Depth(j, m) \in Int /\ Depth(j, k) = Depth(j, m) + Change(j, k)
             /\ j \in OpenAt(K, m) => (j \in OpenAt(K, k) <=> Depth(j, k) > 0)
             /\ j \in OpenAt(K, k) => j \in OpenAt(K, m) \/ (j = k /\ j \in K)
             /\ k \in K => k \in OpenAt(K, k) /\ Depth(k, k) = 1  BY <1>1, <1>3, OpenNext
<1>5. /\ OpenAt(K, m) = {} => c = NoId
      /\ \A s \in OpenAt(K, m) : Depth(s, m) = 1 /\ events[s].id = c  BY <1>2 DEF SymbolOpen
<1>6. \A j \in OpenAt(K, m) : j \in K  BY DEF OpenAt
<1>7. CASE events[k].tag = "symbol" /\ events[k].open
  <2>1. k \in K
    <3>1. DOMAIN events = 1..Len(events)  OBVIOUS
    <3> QED  BY <1>2, <1>3, <1>7, <3>1 DEF Opens
  <2>2. ASSUME NEW s \in OpenAt(K, m) PROVE FALSE
    <3>1. s \in K /\ Depth(s, m) = 1 /\ Depth(s, k) = Depth(s, m) + Change(s, k)
          /\ (s \in OpenAt(K, k) <=> Depth(s, k) > 0)  BY <1>4, <1>5, <1>6
    <3>2. Change(s, k) = 1  BY <1>3, <1>7, <3>1 DEF Change
    <3>3. s \in OpenAt(K, k)  BY <3>1, <3>2
    <3>4. s <= m /\ s \in Nat  BY <1>3, <3>1 DEF OpenAt
    <3>5. s < k  BY <1>1, <3>4
    <3>6. Holds(s, k)  BY <3>3, <3>5 DEF OpenAt, Holds
    <3> QED  BY <1>2, <2>1, <3>1, <3>6
  <2>3. \A s \in OpenAt(K, k) : s = k  BY <1>4, <2>2
  <2>4. k \in OpenAt(K, k) /\ Depth(k, k) = 1  BY <1>4, <2>1
  <2>5. SymbolOpen(k, events[k].id)  BY <1>2, <2>3, <2>4 DEF SymbolOpen
  <2> QED  BY <1>1, <1>7, <2>5
<1>8. CASE events[k].tag = "symbol" /\ ~events[k].open
  <2>1. ASSUME NEW s \in OpenAt(K, k) PROVE FALSE
    <3>1. s \in OpenAt(K, m) /\ s \in K
      <4>1. s \in OpenAt(K, m) \/ (s = k /\ s \in K)  BY <1>4, <2>1
      <4> QED  BY <1>3, <1>6, <1>8, <4>1
    <3>2. Depth(s, m) = 1 /\ Depth(s, k) = Depth(s, m) + Change(s, k) /\ Depth(s, k) > 0  BY <1>4, <1>5, <2>1, <3>1
    <3>3. Change(s, k) = -1  BY <1>3, <1>8, <3>1 DEF Change
    <3> QED  BY <3>2, <3>3
  <2>2. SymbolOpen(k, NoId)  BY <1>2, <2>1 DEF SymbolOpen
  <2> QED  BY <1>1, <1>8, <2>2
<1>9. CASE events[k].tag # "symbol"
  <2>1. ASSUME NEW s \in OpenAt(K, m) PROVE s \in OpenAt(K, k) /\ Depth(s, k) = 1 /\ events[s].id = c
    <3>1. s \in K /\ Depth(s, m) = 1 /\ events[s].id = c /\ Depth(s, k) = Depth(s, m) + Change(s, k)
          /\ (s \in OpenAt(K, k) <=> Depth(s, k) > 0)  BY <1>4, <1>5, <1>6
    <3>2. Change(s, k) = 0  BY <1>3, <1>9, <3>1 DEF Change
    <3> QED  BY <3>1, <3>2
  <2>2. \A s \in OpenAt(K, k) : s \in OpenAt(K, m)  BY <1>3, <1>4, <1>9
  <2>3. SymbolOpen(k, c)
    <3>1. OpenAt(K, k) = {} => OpenAt(K, m) = {}  BY <2>1
    <3> QED  BY <1>2, <1>5, <2>1, <2>2, <3>1 DEF SymbolOpen
  <2> QED  BY <1>1, <1>9, <2>3
<1> QED  BY <1>1, <1>7, <1>8, <1>9

\* A tag more, and the text group.
LEMMA GroupNext ==
  ASSUME events \in Seq(Tags), NEW m \in Nat, m + 1 \in 1..Len(events),
         NEW depth \in Nat, NEW matrix, GroupsOpen(m, depth, matrix)
  PROVE  /\ events[m + 1].tag = "g" /\ events[m + 1].open /\ depth > 0 => GroupsOpen(m + 1, depth + 1, matrix)
         /\ events[m + 1].tag = "g" /\ events[m + 1].open /\ depth = 0 /\ events[m + 1].text
              => GroupsOpen(m + 1, 1, events[m + 1].tf[1])
         /\ events[m + 1].tag = "g" /\ events[m + 1].open /\ depth = 0 /\ ~events[m + 1].text
              => GroupsOpen(m + 1, 0, matrix)
         /\ events[m + 1].tag = "g" /\ ~events[m + 1].open
              => GroupsOpen(m + 1, IF depth > 0 THEN depth - 1 ELSE 0, matrix)
         /\ events[m + 1].tag # "g" => GroupsOpen(m + 1, depth, matrix)
<1>1. PICK k : k = m + 1  OBVIOUS
<1>2. PICK K : K = Texts  OBVIOUS
<1>3. /\ K \in SUBSET (1..Len(events)) /\ \A j \in K : events[j].open /\ events[j].tag = "g" /\ events[j].text
      /\ k \in 1..Len(events)  BY <1>1, <1>2, OpensAre DEF Texts
<1>4. \A j : /\ j \in OpenAt(K, m) => Depth(j, m) \in Int /\ Depth(j, k) = Depth(j, m) + Change(j, k)
             /\ j \in OpenAt(K, m) => (j \in OpenAt(K, k) <=> Depth(j, k) > 0)
             /\ j \in OpenAt(K, k) => j \in OpenAt(K, m) \/ (j = k /\ j \in K)
             /\ k \in K => k \in OpenAt(K, k) /\ Depth(k, k) = 1  BY <1>1, <1>3, OpenNext
<1>5. \A j \in OpenAt(K, m) : j \in K /\ j \in Nat /\ j <= m /\ j <= k /\ Depth(j, m) > 0
  <2> TAKE j \in OpenAt(K, m)
  <2>1. j \in K /\ j <= m /\ \A n \in j..m : Depth(j, n) > 0  BY DEF OpenAt
  <2>2. j \in Nat  BY <1>3, <2>1
  <2>3. m \in j..m  BY <2>1, <2>2
  <2> QED  BY <1>1, <2>1, <2>2, <2>3
<1>6. depth = 0 => OpenAt(K, m) = {}  BY <1>2 DEF GroupsOpen
<1>7. ASSUME depth # 0 PROVE \E g : Outermost(g, m, depth, matrix)  BY <1>7 DEF GroupsOpen
<1>8. ASSUME NEW g, Outermost(g, m, depth, matrix)
      PROVE  /\ g \in OpenAt(K, m) /\ g \in K /\ g \in Nat /\ g <= k /\ Depth(g, m) = depth /\ matrix = events[g].tf[1]
             /\ \A h \in OpenAt(K, m) : g <= h /\ Depth(h, m) <= depth  BY <1>2, <1>5, <1>8 DEF Outermost
<1>9. CASE events[k].tag = "g" /\ events[k].open /\ depth > 0
  <2>1. PICK g : Outermost(g, m, depth, matrix)  BY <1>7, <1>9
  <2>2. \A h \in OpenAt(K, m) : Change(h, k) = 1  BY <1>3, <1>5, <1>9 DEF Change
  <2>3. g \in OpenAt(K, k) /\ Depth(g, k) = depth + 1  BY <1>4, <1>8, <2>1, <2>2
  <2>4. ASSUME NEW h \in OpenAt(K, k) PROVE g <= h /\ Depth(h, k) <= depth + 1
    <3>1. CASE h \in OpenAt(K, m)  BY <1>4, <1>8, <2>1, <2>2, <3>1
    <3>2. CASE h = k /\ h \in K
      <4>1. Depth(h, k) = 1  BY <1>4, <3>2
      <4> QED  BY <1>8, <2>1, <3>2, <4>1
    <3> QED  BY <1>4, <3>1, <3>2
  <2>5. Outermost(g, k, depth + 1, matrix)  BY <1>2, <1>8, <2>1, <2>3, <2>4 DEF Outermost
  <2>6. GroupsOpen(k, depth + 1, matrix)
    <3>1. depth + 1 # 0  OBVIOUS
    <3> QED  BY <1>2, <2>3, <2>5, <3>1 DEF GroupsOpen
  <2> QED  BY <1>1, <1>9, <2>6
<1>10. CASE events[k].tag = "g" /\ events[k].open /\ depth = 0
  <2>1. \A h \in OpenAt(K, k) : h = k /\ h \in K  BY <1>4, <1>6, <1>10
  <2>2. CASE events[k].text
    <3>1. k \in K
      <4>1. DOMAIN events = 1..Len(events)  OBVIOUS
      <4> QED  BY <1>2, <1>3, <1>10, <2>2, <4>1 DEF Texts, Opens
    <3>2. k \in OpenAt(K, k) /\ Depth(k, k) = 1  BY <1>4, <3>1
    <3>3. \A h \in OpenAt(K, k) : k <= h /\ Depth(h, k) <= 1  BY <1>1, <2>1, <3>2
    <3>4. Outermost(k, k, 1, events[k].tf[1])  BY <1>2, <3>2, <3>3 DEF Outermost
    <3>5. GroupsOpen(k, 1, events[k].tf[1])  BY <1>2, <3>2, <3>4 DEF GroupsOpen
    <3> QED  BY <1>1, <1>10, <2>2, <3>5
  <2>3. CASE ~events[k].text
    <3>1. OpenAt(K, k) = {}  BY <1>3, <2>1, <2>3
    <3>2. GroupsOpen(k, 0, matrix)  BY <1>2, <3>1 DEF GroupsOpen
    <3> QED  BY <1>1, <1>10, <2>3, <3>2
  <2> QED  BY <2>2, <2>3
<1>11. CASE events[k].tag = "g" /\ ~events[k].open
  <2>1. \A h \in OpenAt(K, k) : h \in OpenAt(K, m)  BY <1>3, <1>4, <1>11
  <2>2. \A h \in OpenAt(K, m) : Change(h, k) = -1  BY <1>3, <1>5, <1>11 DEF Change
  <2>3. CASE depth = 0
    <3>1. OpenAt(K, k) = {}  BY <1>6, <2>1, <2>3
    <3>2. GroupsOpen(k, 0, matrix)  BY <1>2, <3>1 DEF GroupsOpen
    <3> QED  BY <1>1, <1>11, <2>3, <3>2
  <2>4. CASE depth = 1
    <3>1. PICK g : Outermost(g, m, depth, matrix)  BY <1>7, <2>4
    <3>2. OpenAt(K, k) = {}
      <4>1. ASSUME NEW h \in OpenAt(K, k) PROVE FALSE
        <5>1. h \in OpenAt(K, m)  BY <2>1
        <5>2. Depth(h, m) <= 1 /\ Depth(h, m) \in Int  BY <1>4, <1>8, <2>4, <3>1, <5>1
        <5>3. Depth(h, k) = Depth(h, m) + (-1) /\ Depth(h, k) > 0  BY <1>4, <2>2, <5>1
        <5> QED  BY <5>2, <5>3
      <4> QED  BY <4>1
    <3>3. GroupsOpen(k, 0, matrix)  BY <1>2, <3>2 DEF GroupsOpen
    <3>4. (IF depth > 0 THEN depth - 1 ELSE 0) = 0  BY <2>4
    <3> QED  BY <1>1, <1>11, <3>3, <3>4
  <2>5. CASE depth > 1
    <3>1. PICK g : Outermost(g, m, depth, matrix)  BY <1>7, <2>5
    <3>2. PICK e : e = depth - 1  OBVIOUS
    <3>3. e \in Nat /\ e > 0 /\ e # 0 /\ (IF depth > 0 THEN depth - 1 ELSE 0) = e  BY <2>5, <3>2
    <3>4. g \in OpenAt(K, k) /\ Depth(g, k) = e
      <4>1. Depth(g, k) = depth + (-1)  BY <1>4, <1>8, <2>2, <3>1
      <4>2. Depth(g, k) = e  BY <3>2, <4>1
      <4> QED  BY <1>4, <1>8, <3>1, <3>3, <4>2
    <3>5. ASSUME NEW h \in OpenAt(K, k) PROVE g <= h /\ Depth(h, k) <= e
      <4>1. h \in OpenAt(K, m)  BY <2>1
      <4>2. g <= h /\ Depth(h, m) <= depth /\ Depth(h, m) \in Int  BY <1>4, <1>8, <3>1, <4>1
      <4>3. Depth(h, k) = Depth(h, m) + (-1)  BY <1>4, <2>2, <4>1
      <4> QED  BY <3>2, <4>2, <4>3
    <3>6. Outermost(g, k, e, matrix)  BY <1>2, <1>8, <3>1, <3>4, <3>5 DEF Outermost
    <3>7. GroupsOpen(k, e, matrix)  BY <1>2, <3>3, <3>4, <3>6 DEF GroupsOpen
    <3> QED  BY <1>1, <1>11, <3>3, <3>7
  <2> QED  BY <2>3, <2>4, <2>5
<1>12. CASE events[k].tag # "g"
  <2>1. \A h \in OpenAt(K, k) : h \in OpenAt(K, m)  BY <1>3, <1>4, <1>12
  <2>2. \A h \in OpenAt(K, m) : Change(h, k) = 0  BY <1>3, <1>5, <1>12 DEF Change
  <2>3. \A h \in OpenAt(K, m) : Depth(h, k) = Depth(h, m) /\ h \in OpenAt(K, k)  BY <1>4, <1>5, <2>2
  <2>4. CASE depth = 0
    <3>1. OpenAt(K, k) = {}  BY <1>6, <2>1, <2>4
    <3>2. GroupsOpen(k, depth, matrix)  BY <1>2, <2>4, <3>1 DEF GroupsOpen
    <3> QED  BY <1>1, <1>12, <3>2
  <2>5. CASE depth # 0
    <3>1. PICK g : Outermost(g, m, depth, matrix)  BY <1>7, <2>5
    <3>2. g \in OpenAt(K, k) /\ Depth(g, k) = depth  BY <1>8, <2>3, <3>1
    <3>3. \A h \in OpenAt(K, k) : g <= h /\ Depth(h, k) <= depth  BY <1>8, <2>1, <2>3, <3>1
    <3>4. Outermost(g, k, depth, matrix)  BY <1>2, <1>8, <3>1, <3>2, <3>3 DEF Outermost
    <3>5. GroupsOpen(k, depth, matrix)  BY <1>2, <2>5, <3>2, <3>4 DEF GroupsOpen
    <3> QED  BY <1>1, <1>12, <3>5
  <2> QED  BY <2>4, <2>5
<1> QED  BY <1>1, <1>9, <1>10, <1>11, <1>12

\* The path of a symbol is a path that is met while the symbol is open.
LEMMA OutlineMet ==
  ASSUME events \in Seq(Tags), NEW k \in Nat, NEW c, SymbolOpen(k, c), NEW id, id # NoId
  PROVE  IsOutline(id, k) <=> k \in Opens("path") /\ id = c
<1>1. PICK K : K = Opens("symbol")  OBVIOUS
<1>2. /\ K \in SUBSET (1..Len(events)) /\ \A j \in K : events[j].tag = "symbol"
      /\ \A j \in Opens("path") : events[j].tag = "path"  BY <1>1, OpensAre
<1>3. /\ OpenAt(K, k) = {} => c = NoId
      /\ \A s \in OpenAt(K, k) : events[s].id = c  BY <1>1 DEF SymbolOpen
<1>4. ASSUME k \in Opens("path") PROVE (\E s \in K : events[s].id = id /\ Holds(s, k)) <=> id = c
  <2>1. ASSUME NEW s \in K PROVE Holds(s, k) <=> s \in OpenAt(K, k)
    <3>1. s # k /\ s \in Nat  BY <1>2, <1>4, <2>1
    <3>2. s < k <=> s <= k  BY <3>1
    <3> QED  BY <3>2 DEF Holds, OpenAt
  <2>2. \A s \in OpenAt(K, k) : s \in K  BY DEF OpenAt
  <2>3. id = c => \E s : s \in OpenAt(K, k)  BY <1>3
  <2> QED  BY <1>3, <2>1, <2>2, <2>3
<1> QED  BY <1>1, <1>4 DEF IsOutline

\* A use is placed if it is met in a text group, whose transform moves it.
LEMMA UseMet ==
  ASSUME events \in Seq(Tags), NEW k \in Nat, k \in Opens("use"),
         NEW depth, NEW matrix, GroupsOpen(k, depth, matrix)
  PROVE  /\ IsPlaced(k) <=> depth # 0 /\ events[k].id # NoId
         /\ depth # 0 => events[Min(TextGroups(k))].tf[1] = matrix
<1>1. PICK K : K = Texts  OBVIOUS
<1>2. /\ K \in SUBSET (1..Len(events)) /\ \A j \in K : events[j].tag = "g"
      /\ \A j \in Opens("use") : events[j].tag = "use"  BY <1>1, OpensAre DEF Texts
<1>3. TextGroups(k) = OpenAt(K, k)
  <2>1. ASSUME NEW s \in K PROVE Holds(s, k) <=> s <= k /\ \A n \in s..k : Depth(s, n) > 0
    <3>1. s # k /\ s \in Nat  BY <1>2, <2>1
    <3>2. s < k <=> s <= k  BY <3>1
    <3> QED  BY <3>2 DEF Holds
  <2>2. TextGroups(k) = {g \in K : Holds(g, k)}  BY <1>1 DEF TextGroups, Texts
  <2> QED  BY <2>1, <2>2 DEF OpenAt
<1>4. depth # 0 <=> OpenAt(K, k) # {}  BY <1>1 DEF GroupsOpen
<1>5. IsPlaced(k) <=> depth # 0 /\ events[k].id # NoId  BY <1>3, <1>4 DEF IsPlaced
<1>6. ASSUME depth # 0 PROVE events[Min(OpenAt(K, k))].tf[1] = matrix
  <2>1. PICK g : g \in OpenAt(K, k) /\ matrix = events[g].tf[1] /\ \A h \in OpenAt(K, k) : g <= h
    BY <1>1, <1>6 DEF GroupsOpen, Outermost
  <2>2. PICK S : S = OpenAt(K, k)  OBVIOUS
  <2>3. S \in SUBSET Nat /\ S # {}
    <3>1. OpenAt(K, k) \subseteq K  BY DEF OpenAt
    <3> QED  BY <1>2, <2>1, <2>2, <3>1
  <2>4. Min(S) \in S /\ \A x \in S : Min(S) <= x  BY <2>3, LeastElement
  <2>5. Min(S) = g
    <3>1. Min(S) \in Nat /\ g \in Nat /\ g \in S  BY <2>1, <2>2, <2>3, <2>4
    <3> QED  BY <2>1, <2>2, <2>4, <3>1
  <2> QED  BY <2>1, <2>2, <2>5
<1> QED  BY <1>3, <1>5, <1>6

(* Choosing from lists. *)
\* Choosing from a list, and then from what was chosen.
Through(h, ss) == [n \in DOMAIN ss |-> h[ss[n]]]
Chosen(S, T, n, uf, h, gf) ==
  /\ n \in Nat /\ uf \in [1..n -> Seq(S)] /\ h \in [S -> Seq(T)] /\ gf \in [1..n -> Seq(T)]
  /\ \A k \in 1..n : \/ uf[k] = <<>> /\ gf[k] = <<>>
                     \/ \E x \in S : uf[k] = <<x>> /\ gf[k] = h[x]

\* Choosing twice gives what choosing once does.
LEMMA ChosenTwice ==
  ASSUME NEW S, NEW T, NEW n, NEW uf, NEW h, NEW gf, Chosen(S, T, n, uf, h, gf)
  PROVE  FlattenSeq(Through(h, FlattenSeq(uf))) = FlattenSeq(gf)
<1>0. /\ n \in Nat /\ uf \in [1..n -> Seq(S)] /\ h \in [S -> Seq(T)] /\ gf \in [1..n -> Seq(T)]
      /\ \A k \in 1..n : \/ uf[k] = <<>> /\ gf[k] = <<>>
                         \/ \E x \in S : uf[k] = <<x>> /\ gf[k] = h[x]  BY Zenon DEF Chosen
<1> DEFINE V == Seq(T)
           W == {k \in 0..n : FlattenSeq(Through(h, Joined(uf, k))) = Joined(gf, k)}
<1>1. /\ Joined(uf, 0) = <<>> /\ Joined(uf, n) = FlattenSeq(uf)
      /\ \A m \in 0..n : Joined(uf, m) \in Seq(S)
      /\ \A m \in 1..n : Joined(uf, m) = Joined(uf, m - 1) \o uf[m]  BY <1>0, JoinedIs
<1>2. /\ Joined(gf, 0) = <<>> /\ Joined(gf, n) = FlattenSeq(gf)
      /\ \A m \in 0..n : Joined(gf, m) \in Seq(T)
      /\ \A m \in 1..n : Joined(gf, m) = Joined(gf, m - 1) \o gf[m]  BY <1>0, JoinedIs
<1>3. ASSUME NEW ss \in Seq(S)
      PROVE  /\ Through(h, ss) \in Seq(Seq(T)) /\ Len(Through(h, ss)) = Len(ss)
             /\ \A j \in 1..Len(ss) : Through(h, ss)[j] = h[ss[j]]
  <2>1. Len(ss) \in Nat /\ DOMAIN ss = 1..Len(ss) /\ \A j \in 1..Len(ss) : ss[j] \in S  OBVIOUS
  <2>2. \A x \in S : h[x] \in V  BY <1>0
  <2> HIDE DEF V
  <2>3. Through(h, ss) \in [1..Len(ss) -> V]  BY <2>1, <2>2 DEF Through
  <2>4. Through(h, ss) \in Seq(V) /\ Len(Through(h, ss)) = Len(ss)  BY <2>1, <2>3, ListIsSeq
  <2> QED  BY <2>1, <2>4 DEF Through, V
<1>4. ASSUME NEW ss \in Seq(S), NEW x \in S
      PROVE  FlattenSeq(Through(h, Append(ss, x))) = FlattenSeq(Through(h, ss)) \o h[x]
  <2> DEFINE tt == Append(ss, x)
  <2>1. tt \in Seq(S) /\ Len(tt) = Len(ss) + 1 /\ tt[Len(ss) + 1] = x /\ \A j \in 1..Len(ss) : tt[j] = ss[j]
        /\ Len(ss) \in Nat  OBVIOUS
  <2> HIDE DEF tt
  <2>2. /\ Through(h, tt) \in Seq(Seq(T)) /\ Len(Through(h, tt)) = Len(tt)
        /\ \A j \in 1..Len(tt) : Through(h, tt)[j] = h[tt[j]]  BY <1>3, <2>1
  <2>3. /\ Through(h, ss) \in Seq(Seq(T)) /\ Len(Through(h, ss)) = Len(ss)
        /\ \A j \in 1..Len(ss) : Through(h, ss)[j] = h[ss[j]]  BY <1>3
  <2>4. \A j \in 1..Len(ss) : Through(h, tt)[j] = Through(h, ss)[j]
    <3>1. \A j \in 1..Len(ss) : j \in 1..Len(tt)  BY <2>1
    <3> QED  BY <2>1, <2>2, <2>3, <3>1
  <2>5. Through(h, tt)[Len(tt)] = h[x]
    <3>1. Len(tt) \in 1..Len(tt)  BY <2>1
    <3> QED  BY <2>1, <2>2, <3>1
  <2>6. PICK a : a = Through(h, ss)  OBVIOUS
  <2>7. PICK b : b = Through(h, tt)  OBVIOUS
  <2>8. /\ a \in Seq(Seq(T)) /\ b \in Seq(Seq(T)) /\ Len(b) = Len(a) + 1
        /\ \A j \in 1..Len(a) : b[j] = a[j]  BY <2>1, <2>2, <2>3, <2>4, <2>6, <2>7
  <2>9. FlattenSeq(b) = FlattenSeq(a) \o b[Len(b)]  BY <2>8, FlattenGrows
  <2> QED  BY <2>2, <2>5, <2>6, <2>7, <2>9 DEF tt
<1>5. ASSUME NEW k \in 1..n, k - 1 \in W PROVE k \in W
  <2>1. k \in 0..n /\ k - 1 \in 0..n  BY <1>0
  <2> DEFINE ss == Joined(uf, k - 1)
             gs == Joined(gf, k - 1)
  <2>2. ss \in Seq(S) /\ gs \in Seq(T) /\ FlattenSeq(Through(h, ss)) = gs  BY <1>1, <1>2, <1>5, <2>1
  <2>3. Joined(uf, k) = ss \o uf[k] /\ Joined(gf, k) = gs \o gf[k]  BY <1>1, <1>2
  <2> HIDE DEF ss, gs
  <2>4. CASE uf[k] = <<>> /\ gf[k] = <<>>
    <3>1. ss \o <<>> = ss /\ gs \o <<>> = gs  BY <2>2
    <3> QED  BY <2>1, <2>2, <2>3, <2>4, <3>1
  <2>5. ASSUME NEW x \in S, uf[k] = <<x>>, gf[k] = h[x] PROVE k \in W
    <3>1. ss \o <<x>> = Append(ss, x)  BY <2>2
    <3>2. FlattenSeq(Through(h, Append(ss, x))) = gs \o h[x]  BY <1>4, <2>2
    <3> QED  BY <2>1, <2>3, <2>5, <3>1, <3>2
  <2> QED  BY <1>0, <2>4, <2>5
<1>6. 0 \in W
  <2>1. Through(h, <<>>) = <<>>  BY DEF Through
  <2>2. FlattenSeq(<<>>) = <<>>  BY DEF FlattenSeq
  <2> QED  BY <1>0, <1>1, <1>2, <2>1, <2>2
<1>7. n \in W
  <2>1. n \in 0..n  BY <1>0
  <2> HIDE DEF W
  <2> QED  BY <1>0, <1>5, <1>6, <2>1, Upwards
<1> QED  BY <1>1, <1>2, <1>7

(* The symbols and the uses of a document. *)
\* What each element of a document adds to the symbol id, and to the uses.
OutlinesOf(id) == [k \in DOMAIN events |-> IF IsOutline(id, k) THEN Outline(events[k].d) ELSE <<>>]
PlacementOf(k) ==
  [id |-> events[k].id, x |-> events[k].x, y |-> events[k].y, matrix |-> events[Min(TextGroups(k))].tf[1]]
PlacedAt == [k \in DOMAIN events |-> IF IsPlaced(k) THEN <<PlacementOf(k)>> ELSE <<>>]
Written ==
  FlattenSeq([k \in DOMAIN events |->
    IF IsPlaced(k) /\ SymbolOutline(events[k].id) # <<>> THEN <<GlyphAt(k)>> ELSE <<>>])

\* The symbols, when the first m elements have been read.
Collected(f, m) == \A id \in Ids : id # NoId => f[id] = Joined(OutlinesOf(id), m)

\* What is said of a document does not change while the document does not.
LEMMA SameDocument ==
  ASSUME events' = events
  PROVE  /\ AsWritten' = AsWritten /\ PlacedAt' = PlacedAt /\ Written' = Written
         /\ \A t : Opens(t)' = Opens(t)
         /\ \A m, c : SymbolOpen(m, c)' = SymbolOpen(m, c)
         /\ \A m, c, t : GroupsOpen(m, c, t)' = GroupsOpen(m, c, t)
         /\ \A f, m : Collected(f, m)' = Collected(f, m)
<1>1. \A j, k : Depth(j, k)' = Depth(j, k)  BY DEF Depth
<1>2. \A t : Opens(t)' = Opens(t)  BY DEF Opens
<1>3. \A j, k : Holds(j, k)' = Holds(j, k)  BY <1>1 DEF Holds
<1>4. AsWritten' = AsWritten  BY <1>2, <1>3 DEF AsWritten
<1>5. \A K, m : OpenAt(K, m)' = OpenAt(K, m)  BY <1>1 DEF OpenAt
<1>6. \A m, c : SymbolOpen(m, c)' = SymbolOpen(m, c)  BY <1>1, <1>2, <1>5 DEF SymbolOpen
<1>7. Texts' = Texts  BY <1>2 DEF Texts
<1>8. \A g, m, c, t : Outermost(g, m, c, t)' = Outermost(g, m, c, t)  BY <1>1, <1>5, <1>7 DEF Outermost
<1>9. \A m, c, t : GroupsOpen(m, c, t)' = GroupsOpen(m, c, t)  BY <1>5, <1>7, <1>8 DEF GroupsOpen
<1>10. \A id, k : IsOutline(id, k)' = IsOutline(id, k)  BY <1>2, <1>3 DEF IsOutline
<1>11. \A id : OutlinesOf(id)' = OutlinesOf(id)  BY <1>10 DEF OutlinesOf
<1>19. \A f, m : Collected(f, m)' = Collected(f, m)  BY <1>11 DEF Collected
<1>12. \A k : TextGroups(k)' = TextGroups(k)  BY <1>2, <1>3 DEF TextGroups
<1>13. \A k : IsPlaced(k)' = IsPlaced(k)  BY <1>2, <1>12 DEF IsPlaced
<1>14. \A k : PlacementOf(k)' = PlacementOf(k)  BY <1>12 DEF PlacementOf
<1>15. PlacedAt' = PlacedAt  BY <1>13, <1>14 DEF PlacedAt
<1>16. \A id : SymbolOutline(id)' = SymbolOutline(id)  BY <1>10 DEF SymbolOutline
<1>17. \A k : GlyphAt(k)' = GlyphAt(k)  BY <1>12, <1>16 DEF GlyphAt, PlacedPoint
<1>18. Written' = Written  BY <1>13, <1>16, <1>17 DEF Written
<1> QED  BY <1>2, <1>4, <1>6, <1>9, <1>15, <1>18, <1>19

\* What the elements add, as lists.
LEMMA OutlinesGrow ==
  ASSUME events \in Seq(Tags), AsWritten, NEW id
  PROVE  /\ OutlinesOf(id) \in [1..Len(events) -> Outlines]
         /\ Joined(OutlinesOf(id), 0) = <<>> /\ Joined(OutlinesOf(id), Len(events)) = SymbolOutline(id)
         /\ \A m \in 0..Len(events) : Joined(OutlinesOf(id), m) \in Outlines
         /\ \A m \in 1..Len(events) : Joined(OutlinesOf(id), m) = Joined(OutlinesOf(id), m - 1) \o OutlinesOf(id)[m]
<1> DEFINE f == OutlinesOf(id)
           S == Seq(Points)
<1>1. DOMAIN events = 1..Len(events) /\ Len(events) \in Nat  OBVIOUS
<1>2. ASSUME NEW k \in 1..Len(events), IsOutline(id, k) PROVE Outline(events[k].d) \in Outlines
  <2>1. k \in Opens("path")  BY <1>2 DEF IsOutline
  <2>2. Regular(events[k].d)  BY <2>1 DEF AsWritten
  <2>3. events[k].d \in Seq(Tokens)
    <3>1. events[k] \in Tags  OBVIOUS
    <3> QED  BY <3>1 DEF Tags
  <2>4. PICK segs : segs = Split(events[k].d).segs  OBVIOUS
  <2>5. segs \in Seq(Segments) /\ \A j \in 1..Len(segs) : WellMade(segs[j])  BY <2>2, <2>3, <2>4, SegmentsWellMade
  <2>6. OutlinesTo(segs) \in [0..Len(segs) -> Outlines]  BY <2>5, OutlinesAre
  <2>7. Len(segs) \in 0..Len(segs)
    <3>1. Len(segs) \in Nat  BY <2>5
    <3> QED  BY <3>1
  <2> QED  BY <2>4, <2>6, <2>7 DEF Outline
<1>3. <<>> \in Outlines  BY DEF Outlines
<1>4. f \in [1..Len(events) -> Outlines]  BY <1>1, <1>2, <1>3 DEF OutlinesOf
<1>5. SymbolOutline(id) = FlattenSeq(f)  BY DEF SymbolOutline, OutlinesOf
<1> HIDE DEF f
<1>6. f \in [1..Len(events) -> Seq(S)] /\ Outlines = Seq(S)  BY <1>4 DEF Outlines
<1> HIDE DEF S
<1>7. /\ Joined(f, 0) = <<>> /\ Joined(f, Len(events)) = FlattenSeq(f)
      /\ \A m \in 0..Len(events) : Joined(f, m) \in Seq(S)
      /\ \A m \in 1..Len(events) : Joined(f, m) = Joined(f, m - 1) \o f[m]  BY <1>1, <1>6, JoinedIs
<1> QED  BY <1>4, <1>5, <1>6, <1>7 DEF f

\* An element that is no outline.
LEMMA NoOutline ==
  ASSUME events \in Seq(Tags), AsWritten, NEW m \in Nat, NEW k \in 1..Len(events), k = m + 1,
         NEW f, Collected(f, m), \A id \in Ids : id # NoId => ~IsOutline(id, k)
  PROVE  Collected(f, k)
<1> SUFFICES ASSUME NEW id \in Ids, id # NoId PROVE f[id] = Joined(OutlinesOf(id), k)  BY DEF Collected
<1>1. /\ \A j \in 0..Len(events) : Joined(OutlinesOf(id), j) \in Outlines
      /\ \A j \in 1..Len(events) : Joined(OutlinesOf(id), j) = Joined(OutlinesOf(id), j - 1) \o OutlinesOf(id)[j]
  BY OutlinesGrow
<1>2. k - 1 = m /\ m \in 0..Len(events) /\ k \in DOMAIN events
  <2>1. DOMAIN events = 1..Len(events)  OBVIOUS
  <2> QED  BY <2>1
<1>3. OutlinesOf(id)[k] = <<>>  BY <1>2 DEF OutlinesOf
<1>4. PICK x : x = Joined(OutlinesOf(id), m)  OBVIOUS
<1>5. x \in Outlines /\ Joined(OutlinesOf(id), k) = x \o <<>>  BY <1>1, <1>2, <1>3, <1>4
<1>6. x \o <<>> = x  BY <1>5 DEF Outlines
<1>7. f[id] = x  BY <1>4 DEF Collected
<1> QED  BY <1>5, <1>6, <1>7

\* An element that is one, of symbol c.
LEMMA OneOutline ==
  ASSUME events \in Seq(Tags), AsWritten, NEW m \in Nat, NEW k \in 1..Len(events), k = m + 1,
         NEW f \in [Ids -> Outlines], Collected(f, m), NEW c \in Ids, c # NoId, k \in Opens("path"), SymbolOpen(k, c)
  PROVE  Collected([f EXCEPT ![c] = @ \o Outline(events[k].d)], k)
<1> DEFINE g == [f EXCEPT ![c] = @ \o Outline(events[k].d)]
<1> SUFFICES ASSUME NEW id \in Ids, id # NoId PROVE g[id] = Joined(OutlinesOf(id), k)  BY DEF Collected
<1>1. /\ \A j \in 0..Len(events) : Joined(OutlinesOf(id), j) \in Outlines
      /\ \A j \in 1..Len(events) : Joined(OutlinesOf(id), j) = Joined(OutlinesOf(id), j - 1) \o OutlinesOf(id)[j]
  BY OutlinesGrow
<1>2. k - 1 = m /\ m \in 0..Len(events) /\ k \in DOMAIN events /\ k \in Nat
  <2>1. DOMAIN events = 1..Len(events)  OBVIOUS
  <2> QED  BY <2>1
<1>3. IsOutline(id, k) <=> id = c  BY <1>2, OutlineMet
<1>4. OutlinesOf(id)[k] = IF id = c THEN Outline(events[k].d) ELSE <<>>  BY <1>2, <1>3 DEF OutlinesOf
<1>5. PICK x : x = Joined(OutlinesOf(id), m)  OBVIOUS
<1>6. x \in Outlines /\ Joined(OutlinesOf(id), k) = x \o OutlinesOf(id)[k]  BY <1>1, <1>2, <1>5
<1>7. x \o <<>> = x  BY <1>6 DEF Outlines
<1>8. f[id] = x  BY <1>5 DEF Collected
<1>9. PICK y : y = Outline(events[k].d)  OBVIOUS
<1>10. g[id] = IF id = c THEN x \o y ELSE x  BY <1>8, <1>9
<1> HIDE DEF g
<1> QED  BY <1>4, <1>6, <1>7, <1>9, <1>10

\* The uses that have been met.
LEMMA PlacedGrow ==
  ASSUME events \in Seq(Tags)
  PROVE  /\ Joined(PlacedAt, 0) = <<>> /\ Joined(PlacedAt, Len(events)) = FlattenSeq(PlacedAt)
         /\ PlacedAt \in [1..Len(events) -> Seq({PlacementOf(k) : k \in 1..Len(events)})]
         /\ \A m \in Nat, k \in 1..Len(events) : k = m + 1 =>
              Joined(PlacedAt, k) = IF IsPlaced(k) THEN Append(Joined(PlacedAt, m), PlacementOf(k))
                                    ELSE Joined(PlacedAt, m)
<1> DEFINE S == {PlacementOf(k) : k \in 1..Len(events)}
           f == PlacedAt
<1>1. DOMAIN events = 1..Len(events) /\ Len(events) \in Nat  OBVIOUS
<1>2. \A k \in 1..Len(events) : PlacementOf(k) \in S  OBVIOUS
<1>3. \A k \in 1..Len(events) : f[k] = IF IsPlaced(k) THEN <<PlacementOf(k)>> ELSE <<>>  BY <1>1 DEF PlacedAt
<1> HIDE DEF S
<1>4. f \in [1..Len(events) -> Seq(S)]
  <2>1. \A x \in S : <<x>> \in Seq(S)  OBVIOUS
  <2>2. <<>> \in Seq(S)  OBVIOUS
  <2> DEFINE V == Seq(S)
  <2> HIDE DEF V
  <2>3. \A k \in 1..Len(events) : f[k] \in V  BY <1>2, <1>3, <2>1, <2>2 DEF V
  <2>4. f = [k \in 1..Len(events) |-> f[k]]  BY <1>1 DEF PlacedAt
  <2> HIDE DEF f
  <2>5. f \in [1..Len(events) -> V]  BY <2>3, <2>4
  <2> QED  BY <2>5 DEF V
<1> HIDE DEF f
<1>5. /\ Joined(f, 0) = <<>> /\ Joined(f, Len(events)) = FlattenSeq(f)
      /\ \A m \in 0..Len(events) : Joined(f, m) \in Seq(S)
      /\ \A m \in 1..Len(events) : Joined(f, m) = Joined(f, m - 1) \o f[m]  BY <1>1, <1>4, JoinedIs
<1>6. ASSUME NEW m \in Nat, NEW k \in 1..Len(events), k = m + 1
      PROVE  Joined(f, k) = IF IsPlaced(k) THEN Append(Joined(f, m), PlacementOf(k)) ELSE Joined(f, m)
  <2>1. PICK x : x = Joined(f, m)  OBVIOUS
  <2>2. m \in 0..Len(events) /\ k - 1 = m  BY <1>6
  <2>3. x \in Seq(S) /\ Joined(f, k) = x \o f[k]  BY <1>5, <2>1, <2>2
  <2>4. PICK p : p = PlacementOf(k)  OBVIOUS
  <2>5. x \o <<>> = x /\ x \o <<p>> = Append(x, p)  BY <2>3
  <2> QED  BY <1>3, <2>1, <2>3, <2>4, <2>5
<1> QED  BY <1>4, <1>5, <1>6 DEF f, S

\* A use with the symbol it names.
PlacedGlyph(v) ==
  [k \in DOMAIN symbols[v.id] |->
     [j \in DOMAIN symbols[v.id][k] |-> Apply(v.matrix, Plus(symbols[v.id][k][j], Scaled(Unit, <<v.x, v.y>>)))]]
\* The end of the document, when all symbols and uses have been met.
LEMMA GlyphsPlaced ==
  ASSUME ReaderInv, AsWritten, Collected(symbols, Len(events)), uses = Joined(PlacedAt, Len(events)), PlaceGlyphs
  PROVE  glyphs' = Written
<1> DEFINE P == {k \in 1..Len(events) : IsPlaced(k)}
           S == {PlacementOf(k) : k \in 1..Len(events)}
           T == {PlacedGlyph(v) : v \in S}
           h == [v \in S |-> IF Len(PlacedGlyph(v)) >= 1 THEN <<PlacedGlyph(v)>> ELSE <<>>]
           gf == [k \in DOMAIN events |->
                    IF IsPlaced(k) /\ SymbolOutline(events[k].id) # <<>> THEN <<GlyphAt(k)>> ELSE <<>>]
           N == Len(events)
<1>1. events \in Seq(Tags) /\ N \in Nat /\ DOMAIN events = 1..N /\ symbols \in [Ids -> Outlines]
  <2>1. events \in Seq(Tags)  BY DEF ReaderInv
  <2> QED  BY <2>1 DEF ReaderInv
<1>2. PlacedAt \in [1..N -> Seq(S)] /\ uses = FlattenSeq(PlacedAt)  BY <1>1, PlacedGrow
<1>3. glyphs' = FlattenSeq(Through(h, uses))
  <2> DEFINE all == [n \in DOMAIN uses |-> PlacedGlyph(uses[n])]
  <2>1. glyphs' = AtLeast(1, all)  BY DEF PlaceGlyphs, PlacedGlyph
  <2>2. uses \in Seq(S)  BY <1>1, <1>2, FlattenIsSeq, ListIsSeq
  <2>3. DOMAIN uses = 1..Len(uses) /\ \A n \in DOMAIN uses : uses[n] \in S
    <3> HIDE DEF S
    <3> QED  BY <2>2
  <2> HIDE DEF S
  <2>4. Through(h, uses) = [n \in DOMAIN all |-> IF Len(all[n]) >= 1 THEN <<all[n]>> ELSE <<>>]  BY <2>3 DEF Through
  <2> HIDE DEF h, all
  <2> QED  BY <2>1, <2>4 DEF AtLeast
<1>4. h \in [S -> Seq(T)]
  <2>1. \A v \in S : PlacedGlyph(v) \in T  OBVIOUS
  <2> HIDE DEF S, T
  <2>2. \A x \in T : <<x>> \in Seq(T)  OBVIOUS
  <2>3. <<>> \in Seq(T)  OBVIOUS
  <2> QED  BY <2>1, <2>2, <2>3
<1>5. ASSUME NEW k \in 1..N, IsPlaced(k)
      PROVE  /\ PlacementOf(k) \in S /\ PlacedGlyph(PlacementOf(k)) = GlyphAt(k)
             /\ Len(GlyphAt(k)) >= 1 <=> SymbolOutline(events[k].id) # <<>>
  <2>1. PICK id : id = events[k].id  OBVIOUS
  <2>2. id \in Ids /\ id # NoId
    <3>1. events[k] \in Tags  BY <1>1
    <3>2. events[k].id \in Ids \cup {NoId}  BY <3>1 DEF Tags
    <3> QED  BY <1>5, <2>1, <3>2 DEF IsPlaced
  <2>3. symbols[id] = SymbolOutline(id) /\ symbols[id] \in Outlines
    <3>1. symbols[id] = Joined(OutlinesOf(id), N)  BY <2>2 DEF Collected
    <3> QED  BY <1>1, <2>2, <3>1, OutlinesGrow
  <2>4. PICK o : o = SymbolOutline(id)  OBVIOUS
  <2>5. PICK mt : mt = events[Min(TextGroups(k))].tf[1]  OBVIOUS
  <2>6. PICK v : v = PlacementOf(k)  OBVIOUS
  <2>7. v.id = id /\ v.x = events[k].x /\ v.y = events[k].y /\ v.matrix = mt  BY <2>1, <2>5, <2>6 DEF PlacementOf
  <2>8. GlyphAt(k) = [c \in DOMAIN o |->
                        [m \in DOMAIN o[c] |-> Apply(mt, Plus(o[c][m], Scaled(Unit, <<events[k].x, events[k].y>>)))]]
    BY <2>1, <2>4, <2>5 DEF GlyphAt, PlacedPoint
  <2>9. PlacedGlyph(v) = GlyphAt(k)  BY <2>3, <2>4, <2>7, <2>8 DEF PlacedGlyph
  <2>10. o \in Seq(Seq(Points))  BY <2>3, <2>4 DEF Outlines
  <2>11. Len(o) \in Nat /\ DOMAIN o = 1..Len(o) /\ (o # <<>> <=> Len(o) >= 1)
    <3> DEFINE V == Seq(Points)
    <3>1. o \in Seq(V)  BY <2>10
    <3> HIDE DEF V
    <3> QED  BY <3>1
  <2>12. Len(GlyphAt(k)) = Len(o)
    <3>1. DOMAIN GlyphAt(k) = 1..Len(o)  BY <2>8, <2>11
    <3> QED  BY <2>11, <3>1
  <2>13. PlacementOf(k) \in S  OBVIOUS
  <2> QED  BY <2>1, <2>4, <2>6, <2>9, <2>11, <2>12, <2>13
<1>6. ASSUME NEW k \in 1..N PROVE \/ PlacedAt[k] = <<>> /\ gf[k] = <<>>
             \/ \E x \in S : PlacedAt[k] = <<x>> /\ gf[k] = h[x]
  <2>1. PlacedAt[k] = (IF IsPlaced(k) THEN <<PlacementOf(k)>> ELSE <<>>)  BY <1>1 DEF PlacedAt
  <2>2. gf[k] = (IF IsPlaced(k) /\ SymbolOutline(events[k].id) # <<>> THEN <<GlyphAt(k)>> ELSE <<>>)  BY <1>1
  <2>3. CASE IsPlaced(k)
    <3>1. PICK x : x = PlacementOf(k)  OBVIOUS
    <3>2. x \in S /\ PlacedGlyph(x) = GlyphAt(k) /\ (Len(GlyphAt(k)) >= 1 <=> SymbolOutline(events[k].id) # <<>>)
      BY <1>5, <2>3, <3>1
    <3>3. h[x] = IF Len(PlacedGlyph(x)) >= 1 THEN <<PlacedGlyph(x)>> ELSE <<>>  BY <3>2
    <3> HIDE DEF h, gf, S
    <3>4. gf[k] = h[x] /\ PlacedAt[k] = <<x>>  BY <2>1, <2>2, <2>3, <3>1, <3>2, <3>3
    <3> QED  BY <3>2, <3>4
  <2>4. CASE ~IsPlaced(k)
    <3> HIDE DEF h, gf, S
    <3> QED  BY <2>1, <2>2, <2>4
  <2> QED  BY <2>3, <2>4
<1>7. gf \in [1..N -> Seq(T)]
  <2>1. \A k \in 1..N : IsPlaced(k) => GlyphAt(k) \in T
    <3> TAKE k \in 1..N
    <3> HAVE IsPlaced(k)
    <3>1. PlacementOf(k) \in S /\ PlacedGlyph(PlacementOf(k)) = GlyphAt(k)  BY <1>5
    <3> HIDE DEF S
    <3> QED  BY <3>1
  <2> HIDE DEF T
  <2>2. \A x \in T : <<x>> \in Seq(T)  OBVIOUS
  <2>3. <<>> \in Seq(T)  OBVIOUS
  <2> QED  BY <1>1, <2>1, <2>2, <2>3
<1>8. Written = FlattenSeq(gf)  BY DEF Written
<1> HIDE DEF S, T, h, gf
<1>9. FlattenSeq(Through(h, FlattenSeq(PlacedAt))) = FlattenSeq(gf)
  <2>1. Chosen(S, T, N, PlacedAt, h, gf)  BY <1>1, <1>2, <1>4, <1>6, <1>7, Zenon DEF Chosen
  <2> QED  BY <2>1, ChosenTwice
<1> QED  BY <1>2, <1>3, <1>8, <1>9

(* The reader of a document, element by element. *)
\* What the reader has kept of the elements before the next one, and of all of
\* them at the end. While a path is read, it is not yet in its symbol.
DocInv ==
  AsWritten /\ stage = "read" =>
    /\ at - 1 \in 0..Len(events)
    /\ SymbolOpen(at - 1, curSymbol) /\ GroupsOpen(at - 1, textDepth, textMatrix)
    /\ uses = Joined(PlacedAt, at - 1)
    /\ IF phase = "idle" THEN Collected(symbols, at - 1)
       ELSE /\ at - 1 \in Opens("path") /\ path = events[at - 1].d /\ curSymbol # NoId
            /\ Collected(symbols, at - 2)
GlyphInv ==
  /\ MorphInv /\ PathRuns /\ PathDone /\ DocInv
  /\ AsWritten /\ stage = "placed" => glyphs = Written

\* What an element adds to what is kept.
LEMMA TagAdds ==
  ASSUME ReaderInv, DocInv, AsWritten, stage = "read", phase = "idle", at <= Len(events)
  PROVE  /\ at \in 1..Len(events) /\ Event = events[at] /\ Collected(symbols, at - 1)
         /\ Event.tag = "symbol" /\ Event.open => SymbolOpen(at, Event.id)
         /\ Event.tag = "symbol" /\ ~Event.open => SymbolOpen(at, NoId)
         /\ Event.tag # "symbol" => SymbolOpen(at, curSymbol)
         /\ Event.tag = "g" /\ Event.open /\ textDepth > 0 => GroupsOpen(at, textDepth + 1, textMatrix)
         /\ Event.tag = "g" /\ Event.open /\ textDepth = 0 /\ Event.text => GroupsOpen(at, 1, Event.tf[1])
         /\ Event.tag = "g" /\ Event.open /\ textDepth = 0 /\ ~Event.text => GroupsOpen(at, 0, textMatrix)
         /\ Event.tag = "g" /\ ~Event.open => GroupsOpen(at, IF textDepth > 0 THEN textDepth - 1 ELSE 0, textMatrix)
         /\ Event.tag # "g" => GroupsOpen(at, textDepth, textMatrix)
         /\ Event.tag = "path" /\ Event.open => at \in Opens("path")
         /\ Event.tag # "path" \/ ~Event.open \/ curSymbol = NoId => Collected(symbols, at)
         /\ Event.tag # "use" \/ ~Event.open => uses = Joined(PlacedAt, at)
         /\ Event.tag = "use" /\ Event.open =>
              Joined(PlacedAt, at) =
                IF textDepth = 0 \/ Event.id = NoId THEN uses
                ELSE Append(uses, [id |-> Event.id, x |-> Event.x, y |-> Event.y, matrix |-> textMatrix])
<1>1. PICK k : k = at  OBVIOUS
<1>2. PICK m : m = at - 1  OBVIOUS
<1>3. events \in Seq(Tags) /\ at \in Nat \ {0} /\ textDepth \in Nat  BY DEF ReaderInv
<1>4. m \in Nat /\ k \in 1..Len(events) /\ k = m + 1 /\ k \in Nat /\ Event = events[k] /\ k \in DOMAIN events
  BY <1>1, <1>2, <1>3 DEF Event
<1>5. /\ SymbolOpen(m, curSymbol) /\ GroupsOpen(m, textDepth, textMatrix)
      /\ uses = Joined(PlacedAt, m) /\ Collected(symbols, m)  BY <1>2 DEF DocInv
<1>6. /\ Event.tag = "symbol" /\ Event.open => SymbolOpen(k, Event.id)
      /\ Event.tag = "symbol" /\ ~Event.open => SymbolOpen(k, NoId)
      /\ Event.tag # "symbol" => SymbolOpen(k, curSymbol)
  <2>1. PICK c : c = curSymbol  OBVIOUS
  <2>2. \A s, t \in Opens("symbol") : ~Holds(s, t)  BY DEF AsWritten
  <2>3. SymbolOpen(m, c) /\ m + 1 \in 1..Len(events)  BY <1>4, <1>5, <2>1
  <2>4. /\ events[m + 1].tag = "symbol" /\ events[m + 1].open => SymbolOpen(m + 1, events[m + 1].id)
        /\ events[m + 1].tag = "symbol" /\ ~events[m + 1].open => SymbolOpen(m + 1, NoId)
        /\ events[m + 1].tag # "symbol" => SymbolOpen(m + 1, c)  BY <1>3, <1>4, <2>2, <2>3, SymbolNext
  <2> QED  BY <1>4, <2>1, <2>4
<1>7. /\ Event.tag = "g" /\ Event.open /\ textDepth > 0 => GroupsOpen(k, textDepth + 1, textMatrix)
      /\ Event.tag = "g" /\ Event.open /\ textDepth = 0 /\ Event.text => GroupsOpen(k, 1, Event.tf[1])
      /\ Event.tag = "g" /\ Event.open /\ textDepth = 0 /\ ~Event.text => GroupsOpen(k, 0, textMatrix)
      /\ Event.tag = "g" /\ ~Event.open => GroupsOpen(k, IF textDepth > 0 THEN textDepth - 1 ELSE 0, textMatrix)
      /\ Event.tag # "g" => GroupsOpen(k, textDepth, textMatrix)
  <2>1. PICK depth \in Nat : depth = textDepth  BY <1>3
  <2>2. PICK matrix : matrix = textMatrix  OBVIOUS
  <2>3. GroupsOpen(m, depth, matrix) /\ m + 1 \in 1..Len(events)  BY <1>4, <1>5, <2>1, <2>2
  <2>4. /\ events[m + 1].tag = "g" /\ events[m + 1].open /\ depth > 0 => GroupsOpen(m + 1, depth + 1, matrix)
        /\ events[m + 1].tag = "g" /\ events[m + 1].open /\ depth = 0 /\ events[m + 1].text
             => GroupsOpen(m + 1, 1, events[m + 1].tf[1])
        /\ events[m + 1].tag = "g" /\ events[m + 1].open /\ depth = 0 /\ ~events[m + 1].text
             => GroupsOpen(m + 1, 0, matrix)
        /\ events[m + 1].tag = "g" /\ ~events[m + 1].open
             => GroupsOpen(m + 1, IF depth > 0 THEN depth - 1 ELSE 0, matrix)
        /\ events[m + 1].tag # "g" => GroupsOpen(m + 1, depth, matrix)  BY <1>3, <1>4, <2>3, GroupNext
  <2> QED  BY <1>4, <2>1, <2>2, <2>4
<1>8. \A t : k \in Opens(t) <=> Event.tag = t /\ Event.open  BY <1>4 DEF Opens
<1>9. Event.tag # "path" \/ ~Event.open \/ curSymbol = NoId => Collected(symbols, k)
  <2> HAVE Event.tag # "path" \/ ~Event.open \/ curSymbol = NoId
  <2>1. ASSUME NEW id \in Ids, id # NoId PROVE ~IsOutline(id, k)
    <3>1. CASE k \notin Opens("path")  BY <3>1 DEF IsOutline
    <3>2. CASE k \in Opens("path")
      <4>1. curSymbol = NoId /\ SymbolOpen(k, NoId)
        <5>1. Event.tag = "path"  BY <1>8, <3>2
        <5>2. curSymbol = NoId  BY <1>8, <3>2
        <5> QED  BY <1>6, <5>1, <5>2
      <4> QED  BY <1>3, <1>4, <2>1, <4>1, OutlineMet
    <3> QED  BY <3>1, <3>2
  <2>2. PICK f : f = symbols  OBVIOUS
  <2>3. Collected(f, m)  BY <1>5, <2>2
  <2>4. Collected(f, k)  BY <1>3, <1>4, <2>1, <2>3, NoOutline
  <2> QED  BY <2>2, <2>4
<1>10. Joined(PlacedAt, k) = IF IsPlaced(k) THEN Append(uses, PlacementOf(k)) ELSE uses
  BY <1>3, <1>4, <1>5, PlacedGrow
<1>11. Event.tag # "use" \/ ~Event.open => uses = Joined(PlacedAt, k)  BY <1>8, <1>10 DEF IsPlaced
<1>12. ASSUME Event.tag = "use", Event.open PROVE Joined(PlacedAt, k) =
                IF textDepth = 0 \/ Event.id = NoId THEN uses
                ELSE Append(uses, [id |-> Event.id, x |-> Event.x, y |-> Event.y, matrix |-> textMatrix])
  <2>1. k \in Opens("use")  BY <1>8, <1>12
  <2>2. PICK depth, matrix : depth = textDepth /\ matrix = textMatrix  OBVIOUS
  <2>3. GroupsOpen(k, depth, matrix)  BY <1>7, <1>12, <2>2
  <2>4. /\ IsPlaced(k) <=> depth # 0 /\ events[k].id # NoId
        /\ depth # 0 => events[Min(TextGroups(k))].tf[1] = matrix  BY <1>3, <1>4, <2>1, <2>3, UseMet
  <2>5. IsPlaced(k) => PlacementOf(k) = [id |-> Event.id, x |-> Event.x, y |-> Event.y, matrix |-> textMatrix]
    BY <1>4, <2>2, <2>4 DEF PlacementOf
  <2>6. IsPlaced(k) <=> ~(textDepth = 0 \/ Event.id = NoId)  BY <1>4, <2>2, <2>4
  <2> QED  BY <1>10, <2>5, <2>6
<1> QED  BY <1>1, <1>2, <1>3, <1>4, <1>5, <1>6, <1>7, <1>8, <1>9, <1>11, <1>12

\* When an element has been read.
LEMMA DocGoesOn ==
  ASSUME events' = events, AsWritten => /\ at' - 1 \in 0..Len(events)
                                        /\ SymbolOpen(at' - 1, curSymbol') /\ GroupsOpen(at' - 1, textDepth', textMatrix')
                                        /\ uses' = Joined(PlacedAt, at' - 1) /\ Collected(symbols', at' - 1),
         phase' = "idle"
  PROVE  DocInv'
<1>1. /\ AsWritten' = AsWritten /\ PlacedAt' = PlacedAt
      /\ \A m, c : SymbolOpen(m, c)' = SymbolOpen(m, c)
      /\ \A m, c, t : GroupsOpen(m, c, t)' = GroupsOpen(m, c, t)
      /\ \A f, m : Collected(f, m)' = Collected(f, m)  BY SameDocument
<1>2. ASSUME AsWritten
      PROVE  /\ at' - 1 \in 0..Len(events')
             /\ SymbolOpen(at - 1, curSymbol)' /\ GroupsOpen(at - 1, textDepth, textMatrix)'
             /\ uses' = Joined(PlacedAt', at' - 1) /\ Collected(symbols, at - 1)'
  <2>1. PICK k, c, d, t, f : k = at' - 1 /\ c = curSymbol' /\ d = textDepth' /\ t = textMatrix' /\ f = symbols'
    OBVIOUS
  <2>2. /\ k \in 0..Len(events) /\ SymbolOpen(k, c) /\ GroupsOpen(k, d, t)
        /\ uses' = Joined(PlacedAt, k) /\ Collected(f, k)  BY <1>2, <2>1
  <2>3. SymbolOpen(k, c)' /\ GroupsOpen(k, d, t)' /\ uses' = Joined(PlacedAt', k) /\ Collected(f, k)'  BY <1>1, <2>2
  <2> QED  BY <2>1, <2>2, <2>3
<1> QED  BY <1>1, <1>2 DEF DocInv

\* A step in which the reader of the document does not go on.
LEMMA DocStays ==
  ASSUME DocInv, UNCHANGED <<events, at, symbols, curSymbol, textDepth, textMatrix, uses, stage, path>>,
         phase' = "idle" <=> phase = "idle"
  PROVE  DocInv'
<1>1. /\ AsWritten' = AsWritten /\ PlacedAt' = PlacedAt /\ Opens("path")' = Opens("path")
      /\ \A m, c : SymbolOpen(m, c)' = SymbolOpen(m, c)
      /\ \A m, c, t : GroupsOpen(m, c, t)' = GroupsOpen(m, c, t)
      /\ \A f, m : Collected(f, m)' = Collected(f, m)  BY SameDocument
<1>2. PICK a, c, d, t, f : a = at /\ c = curSymbol /\ d = textDepth /\ t = textMatrix /\ f = symbols  OBVIOUS
<1>3. /\ a = at' /\ c = curSymbol' /\ d = textDepth' /\ t = textMatrix' /\ f = symbols' /\ events' = events
      /\ uses' = uses /\ path' = path /\ stage' = stage  BY <1>2
<1>4. SUFFICES ASSUME AsWritten, stage = "read" PROVE /\ a - 1 \in 0..Len(events)
                      /\ SymbolOpen(a - 1, c)' /\ GroupsOpen(a - 1, d, t)'
                      /\ uses = Joined(PlacedAt, a - 1)
                      /\ IF phase = "idle" THEN Collected(f, a - 1)'
                         ELSE /\ a - 1 \in Opens("path") /\ path = events[a - 1].d /\ c # NoId
                              /\ Collected(f, a - 2)'  BY <1>1, <1>3 DEF DocInv
<1>5. /\ a - 1 \in 0..Len(events) /\ SymbolOpen(a - 1, c) /\ GroupsOpen(a - 1, d, t)
      /\ uses = Joined(PlacedAt, a - 1)
      /\ IF phase = "idle" THEN Collected(f, a - 1)
         ELSE /\ a - 1 \in Opens("path") /\ path = events[a - 1].d /\ c # NoId
              /\ Collected(f, a - 2)  BY <1>2, <1>4 DEF DocInv
<1> QED  BY <1>1, <1>5

\* The first element.
LEMMA GlyphsStart ==
  ASSUME Init
  PROVE  GlyphInv
<1>1. MorphInv  BY MorphStarts
<1>2. /\ phase = "idle" /\ stage = "read" /\ at = 1 /\ symbols = [id \in Ids |-> <<>>] /\ curSymbol = NoId
      /\ textDepth = 0 /\ uses = <<>>  BY DEF Init, ReaderStarts, PathIdle
<1>3. events \in Seq(Tags)  BY <1>1 DEF MorphInv, ReaderInv
<1>4. PICK z : z = 0  OBVIOUS
<1>5. at - 1 = z /\ z \in 0..Len(events)
  <2>1. Len(events) \in Nat  BY <1>3
  <2> QED  BY <1>2, <1>4, <2>1
<1>6. \A K \in SUBSET (1..Len(events)) : OpenAt(K, z) = {}
  <2> SUFFICES ASSUME NEW K \in SUBSET (1..Len(events)), NEW j \in K, j <= z PROVE FALSE  BY DEF OpenAt
  <2>1. j \in Nat /\ j >= 1  BY <1>3
  <2> QED  BY <1>4, <2>1
<1>7. Opens("symbol") \in SUBSET (1..Len(events)) /\ Texts \in SUBSET (1..Len(events))  BY <1>3, OpensAre DEF Texts
<1>8. SymbolOpen(z, curSymbol) /\ GroupsOpen(z, textDepth, textMatrix)  BY <1>2, <1>6, <1>7 DEF SymbolOpen, GroupsOpen
<1>9. uses = Joined(PlacedAt, z)  BY <1>2, <1>3, <1>4, PlacedGrow
<1>10. AsWritten => Collected(symbols, z)  BY <1>2, <1>3, <1>4, OutlinesGrow DEF Collected
<1>11. DocInv  BY <1>2, <1>5, <1>8, <1>9, <1>10 DEF DocInv
<1>12. PathRuns /\ PathDone  BY <1>2 DEF PathRuns, PathDone
<1> QED  BY <1>1, <1>2, <1>11, <1>12 DEF GlyphInv

\* An element that begins no outline.
LEMMA TagRead ==
  ASSUME GlyphInv, OpenSymbol \/ CloseSymbol \/ OpenGroup \/ CloseGroup \/ Use \/ OtherTag
                     \/ (OpenPath /\ curSymbol = NoId)
  PROVE  PathRuns' /\ PathDone' /\ DocInv' /\ stage' # "placed"
<1>1. stage = "read" /\ phase = "idle" /\ at <= Len(events) /\ NoPath
  BY DEF OpenSymbol, CloseSymbol, OpenGroup, CloseGroup, Use, OtherTag, OpenPath, Meets
<1>2. phase' = "idle"  BY <1>1 DEF NoPath, pathVars
<1>3. PathRuns' /\ PathDone'  BY <1>2 DEF PathRuns, PathDone
<1>4. CASE Refuse
  <2>1. stage' = "failed"  BY <1>4 DEF Refuse
  <2> QED  BY <1>3, <2>1 DEF DocInv
<1>5. CASE Next1
  <2>1. at' = at + 1 /\ events' = events /\ stage' = stage  BY <1>5 DEF Next1
  <2>2. ReaderInv /\ DocInv  BY DEF GlyphInv, MorphInv
  <2>3. at' - 1 = at /\ at \in Nat  BY <2>1, <2>2 DEF ReaderInv
  <2>4. ASSUME AsWritten
        PROVE  /\ at \in 0..Len(events)
               /\ SymbolOpen(at, curSymbol') /\ GroupsOpen(at, textDepth', textMatrix')
               /\ uses' = Joined(PlacedAt, at) /\ Collected(symbols', at)
    <3>1. /\ at \in 1..Len(events) /\ Event = events[at] /\ Collected(symbols, at - 1)
          /\ Event.tag = "symbol" /\ Event.open => SymbolOpen(at, Event.id)
          /\ Event.tag = "symbol" /\ ~Event.open => SymbolOpen(at, NoId)
          /\ Event.tag # "symbol" => SymbolOpen(at, curSymbol)
          /\ Event.tag = "g" /\ Event.open /\ textDepth > 0 => GroupsOpen(at, textDepth + 1, textMatrix)
          /\ Event.tag = "g" /\ Event.open /\ textDepth = 0 /\ Event.text => GroupsOpen(at, 1, Event.tf[1])
          /\ Event.tag = "g" /\ Event.open /\ textDepth = 0 /\ ~Event.text => GroupsOpen(at, 0, textMatrix)
          /\ Event.tag = "g" /\ ~Event.open => GroupsOpen(at, IF textDepth > 0 THEN textDepth - 1 ELSE 0, textMatrix)
          /\ Event.tag # "g" => GroupsOpen(at, textDepth, textMatrix)
          /\ Event.tag = "path" /\ Event.open => at \in Opens("path")
          /\ Event.tag # "path" \/ ~Event.open \/ curSymbol = NoId => Collected(symbols, at)
          /\ Event.tag # "use" \/ ~Event.open => uses = Joined(PlacedAt, at)
          /\ Event.tag = "use" /\ Event.open =>
               Joined(PlacedAt, at) =
                 IF textDepth = 0 \/ Event.id = NoId THEN uses
                 ELSE Append(uses, [id |-> Event.id, x |-> Event.x, y |-> Event.y, matrix |-> textMatrix])
      BY <1>1, <2>2, <2>4, TagAdds
    <3>2. at \in 0..Len(events) /\ textDepth \in Nat
      <4>1. textDepth \in Nat  BY <2>2 DEF ReaderInv
      <4> QED  BY <3>1, <4>1
    <3>3. CASE OpenSymbol
      <4>1. Event.tag = "symbol" /\ Event.open /\ curSymbol' = Event.id
            /\ UNCHANGED <<symbols, textDepth, textMatrix, uses>>  BY <3>3 DEF OpenSymbol, Meets
      <4> QED  BY <3>1, <3>2, <4>1
    <3>4. CASE CloseSymbol
      <4>1. Event.tag = "symbol" /\ ~Event.open /\ curSymbol' = NoId
            /\ UNCHANGED <<symbols, textDepth, textMatrix, uses>>  BY <3>4 DEF CloseSymbol, Meets
      <4> QED  BY <3>1, <3>2, <4>1
    <3>5. CASE OpenGroup
      <4>1. Event.tag = "g" /\ Event.open  BY <3>5 DEF OpenGroup, Meets
      <4>2. ~Refuse
        <5>1. stage' = "read"  BY <1>1, <2>1
        <5> QED  BY <5>1 DEF Refuse
      <4>3. /\ UNCHANGED <<symbols, curSymbol, uses>>
            /\ IF textDepth > 0 THEN textDepth' = textDepth + 1 /\ UNCHANGED textMatrix
               ELSE IF Event.text THEN textDepth' = 1 /\ textMatrix' = Event.tf[1]
               ELSE UNCHANGED <<textDepth, textMatrix>>  BY <3>5, <4>2 DEF OpenGroup
      <4>4. GroupsOpen(at, textDepth', textMatrix')
        <5>1. CASE textDepth > 0  BY <3>1, <4>1, <4>3, <5>1
        <5>2. CASE textDepth = 0 /\ Event.text  BY <3>1, <4>1, <4>3, <5>2
        <5>3. CASE textDepth = 0 /\ ~Event.text  BY <3>1, <4>1, <4>3, <5>3
        <5> QED  BY <3>2, <5>1, <5>2, <5>3
      <4> QED  BY <3>1, <3>2, <4>1, <4>3, <4>4
    <3>6. CASE CloseGroup
      <4>1. Event.tag = "g" /\ ~Event.open /\ textDepth' = (IF textDepth > 0 THEN textDepth - 1 ELSE 0)
            /\ UNCHANGED <<symbols, curSymbol, textMatrix, uses>>  BY <3>6 DEF CloseGroup, Meets
      <4> QED  BY <3>1, <3>2, <4>1
    <3>7. CASE Use
      <4>1. Event.tag = "use" /\ Event.open /\ UNCHANGED <<symbols, curSymbol, textDepth, textMatrix>>
        BY <3>7 DEF Use, Meets
      <4>2. uses' = IF textDepth = 0 \/ Event.id = NoId THEN uses
                    ELSE Append(uses, [id |-> Event.id, x |-> Event.x, y |-> Event.y, matrix |-> textMatrix])
        BY <3>7 DEF Use
      <4>3. uses' = Joined(PlacedAt, at)  BY <3>1, <4>1, <4>2
      <4> QED  BY <3>1, <3>2, <4>1, <4>3
    <3>8. CASE OtherTag
      <4>1. Event.tag \in {"path", "use"} /\ ~Event.open
            /\ UNCHANGED <<symbols, curSymbol, textDepth, textMatrix, uses>>  BY <3>8 DEF OtherTag
      <4> QED  BY <3>1, <3>2, <4>1
    <3>9. CASE OpenPath /\ curSymbol = NoId
      <4>1. Event.tag = "path" /\ UNCHANGED <<symbols, curSymbol, textDepth, textMatrix, uses>>
        BY <3>9 DEF OpenPath, Meets
      <4> QED  BY <3>1, <3>2, <3>9, <4>1
    <3> QED  BY <3>3, <3>4, <3>5, <3>6, <3>7, <3>8, <3>9
  <2>5. DocInv'  BY <1>2, <2>1, <2>3, <2>4, DocGoesOn
  <2> QED  BY <1>1, <1>3, <2>1, <2>5
<1>6. Refuse \/ Next1  BY DEF OpenSymbol, CloseSymbol, OpenGroup, CloseGroup, Use, OtherTag, OpenPath
<1> QED  BY <1>4, <1>5, <1>6

\* A path that is an outline, from its tag to its end.
LEMMA OutlineBegun ==
  ASSUME GlyphInv, OpenPath, curSymbol # NoId
  PROVE  PathRuns' /\ PathDone' /\ DocInv' /\ stage' # "placed"
<1>1. /\ stage = "read" /\ phase = "idle" /\ at <= Len(events) /\ Event.tag = "path" /\ Event.open
      /\ PathBegins(Event.d) /\ at' = at + 1 /\ events' = events /\ stage' = stage
      /\ UNCHANGED <<symbols, curSymbol, textDepth, textMatrix, uses>>  BY DEF OpenPath, Meets, Next1
<1>2. ReaderInv /\ DocInv  BY DEF GlyphInv, MorphInv
<1>3. events \in Seq(Tags) /\ at \in 1..Len(events) /\ Event = events[at]
  <2>1. events \in Seq(Tags) /\ at \in Nat \ {0}  BY <1>2 DEF ReaderInv
  <2> QED  BY <1>1, <2>1 DEF Event
<1>4. Event.d \in Seq(Tokens)
  <2>1. Event \in Tags  BY <1>3
  <2> QED  BY <2>1 DEF Tags
<1>5. PathRuns' /\ PathDone'  BY <1>1, <1>4, PathOpens
<1>6. phase' = "path" /\ path' = Event.d  BY <1>1 DEF PathBegins
<1>7. /\ AsWritten' = AsWritten /\ PlacedAt' = PlacedAt /\ Opens("path")' = Opens("path")
      /\ \A m, c : SymbolOpen(m, c)' = SymbolOpen(m, c)
      /\ \A m, c, t : GroupsOpen(m, c, t)' = GroupsOpen(m, c, t)
      /\ \A f, m : Collected(f, m)' = Collected(f, m)  BY <1>1, SameDocument
<1>8. PICK k, j : k = at /\ j = at - 1  OBVIOUS
<1>9. at' - 1 = k /\ at' - 2 = j /\ k \in Nat  BY <1>1, <1>3, <1>8
<1>10. PICK c, d, t, f : c = curSymbol /\ d = textDepth /\ t = textMatrix /\ f = symbols  OBVIOUS
<1>11. curSymbol' = c /\ textDepth' = d /\ textMatrix' = t /\ symbols' = f  BY <1>1, <1>10
<1>12. ASSUME AsWritten
       PROVE  /\ k \in 0..Len(events) /\ SymbolOpen(k, c) /\ GroupsOpen(k, d, t)
              /\ uses = Joined(PlacedAt, k) /\ k \in Opens("path") /\ Collected(f, j)
  <2>1. /\ SymbolOpen(at, curSymbol) /\ GroupsOpen(at, textDepth, textMatrix)
        /\ uses = Joined(PlacedAt, at) /\ at \in Opens("path") /\ Collected(symbols, at - 1)
    BY <1>1, <1>2, <1>12, TagAdds
  <2>2. k \in 0..Len(events)  BY <1>3, <1>8
  <2> QED  BY <1>8, <1>10, <2>1, <2>2
<1>13. ASSUME AsWritten
       PROVE  /\ k \in 0..Len(events) /\ SymbolOpen(k, c)' /\ GroupsOpen(k, d, t)'
              /\ uses' = Joined(PlacedAt', k) /\ k \in Opens("path")' /\ Collected(f, j)'
              /\ path' = events[k].d /\ c # NoId /\ phase' # "idle"
  BY <1>1, <1>3, <1>6, <1>7, <1>8, <1>10, <1>12, <1>13
<1>14. DocInv'  BY <1>1, <1>7, <1>9, <1>11, <1>13 DEF DocInv
<1> QED  BY <1>1, <1>5, <1>14

\* Its turns leave the document alone.
LEMMA OutlineGoesOn ==
  ASSUME GlyphInv, ReadPath
  PROVE  PathRuns' /\ PathDone' /\ DocInv' /\ glyphs' = glyphs /\ UNCHANGED <<events, stage>>
<1>1. phase = "path" /\ PathStep /\ UNCHANGED glyphVars  BY DEF ReadPath
<1>2. PathInv /\ PathRuns /\ DocInv  BY DEF GlyphInv, MorphInv, ReaderInv
<1>3. path' = path /\ phase' \in {"path", "ended", "bad"} /\ PathRuns' /\ PathDone'  BY <1>1, <1>2, PathStepReads
<1>4. UNCHANGED <<events, at, symbols, curSymbol, textDepth, textMatrix, uses, glyphs, stage>>  BY <1>1 DEF glyphVars
<1>5. DocInv'  BY <1>1, <1>2, <1>3, <1>4, DocStays
<1> QED  BY <1>3, <1>4, <1>5

\* At its end the contours are added to the symbol that is open.
LEMMA OutlineEnds ==
  ASSUME GlyphInv, PathRead
  PROVE  PathRuns' /\ PathDone' /\ DocInv' /\ glyphs' = glyphs /\ UNCHANGED <<events, stage>>
<1>1. /\ phase = "ended" /\ symbols' = [symbols EXCEPT ![curSymbol] = @ \o contours] /\ phase' = "idle"
      /\ UNCHANGED <<events, at, curSymbol, textDepth, textMatrix, uses, glyphs, stage>>  BY DEF PathRead
<1>2. ReaderInv /\ DocInv /\ PathDone  BY DEF GlyphInv, MorphInv
<1>3. PathRuns' /\ PathDone'  BY <1>1 DEF PathRuns, PathDone
<1>4. CASE stage # "read"
  <2>1. stage' # "read"  BY <1>1, <1>4
  <2> QED  BY <1>1, <1>3, <2>1 DEF DocInv
<1>5. CASE stage = "read"
  <2>1. ASSUME AsWritten
        PROVE  /\ at - 1 \in 0..Len(events) /\ SymbolOpen(at - 1, curSymbol)
               /\ GroupsOpen(at - 1, textDepth, textMatrix)
               /\ uses = Joined(PlacedAt, at - 1) /\ Collected(symbols', at - 1)
    <3>1. /\ at - 1 \in 0..Len(events) /\ SymbolOpen(at - 1, curSymbol)
          /\ GroupsOpen(at - 1, textDepth, textMatrix)
          /\ uses = Joined(PlacedAt, at - 1)
          /\ at - 1 \in Opens("path") /\ path = events[at - 1].d /\ curSymbol # NoId
          /\ Collected(symbols, at - 2)  BY <1>1, <1>2, <1>5, <2>1 DEF DocInv
    <3>2. PICK k, m, c, f : k = at - 1 /\ m = at - 2 /\ c = curSymbol /\ f = symbols  OBVIOUS
    <3>3. events \in Seq(Tags) /\ f \in [Ids -> Outlines] /\ c \in Ids /\ at \in Nat
      BY <1>1, <1>2, <3>2 DEF ReaderInv
    <3>4. k \in 1..Len(events) /\ m \in Nat /\ k = m + 1
      <4>1. Opens("path") \in SUBSET (1..Len(events))  BY <3>3, OpensAre
      <4>2. k \in 1..Len(events)  BY <3>1, <3>2, <4>1
      <4> QED  BY <3>2, <3>3, <4>2
    <3>5. contours = Outline(path)
      <4>1. Regular(path)  BY <2>1, <3>1 DEF AsWritten
      <4> QED  BY <1>1, <1>2, <4>1 DEF PathDone
    <3>6. symbols' = [f EXCEPT ![c] = @ \o Outline(events[k].d)]  BY <1>1, <3>1, <3>2, <3>5
    <3>7. Collected(f, m) /\ c # NoId /\ k \in Opens("path") /\ SymbolOpen(k, c)  BY <3>1, <3>2
    <3>8. Collected([f EXCEPT ![c] = @ \o Outline(events[k].d)], k)  BY <2>1, <3>3, <3>4, <3>7, OneOutline
    <3>9. Collected(symbols', k)  BY <3>6, <3>8
    <3> QED  BY <3>1, <3>2, <3>9
  <2>2. /\ at' = at /\ events' = events /\ curSymbol' = curSymbol /\ textDepth' = textDepth
        /\ textMatrix' = textMatrix /\ uses' = uses  BY <1>1
  <2>3. AsWritten => /\ at' - 1 \in 0..Len(events)
                     /\ SymbolOpen(at' - 1, curSymbol') /\ GroupsOpen(at' - 1, textDepth', textMatrix')
                     /\ uses' = Joined(PlacedAt, at' - 1) /\ Collected(symbols', at' - 1)  BY <2>1, <2>2
  <2>4. DocInv'  BY <1>1, <2>2, <2>3, DocGoesOn
  <2> QED  BY <1>1, <1>3, <2>4
<1> QED  BY <1>4, <1>5

\* The end of the document.
LEMMA DocumentEnds ==
  ASSUME GlyphInv, PlaceGlyphs
  PROVE  PathRuns' /\ PathDone' /\ DocInv' /\ (AsWritten' => glyphs' = Written')
<1>1. stage = "read" /\ phase = "idle" /\ at > Len(events) /\ stage' = "placed" /\ phase' = phase /\ events' = events
  BY DEF PlaceGlyphs, NoPath, pathVars
<1>2. PathRuns' /\ PathDone' /\ DocInv'  BY <1>1 DEF PathRuns, PathDone, DocInv
<1>3. ReaderInv /\ DocInv  BY DEF GlyphInv, MorphInv
<1>4. ASSUME AsWritten PROVE glyphs' = Written
  <2>1. at - 1 \in 0..Len(events) /\ uses = Joined(PlacedAt, at - 1) /\ Collected(symbols, at - 1)
    BY <1>1, <1>3, <1>4 DEF DocInv
  <2>2. at - 1 = Len(events)
    <3>1. Len(events) \in Nat /\ at \in Nat
      <4>1. events \in Seq(Tags) /\ at \in Nat \ {0}  BY <1>3 DEF ReaderInv
      <4> QED  BY <4>1
    <3> QED  BY <1>1, <2>1, <3>1
  <2> QED  BY <1>3, <1>4, <2>1, <2>2, GlyphsPlaced
<1>5. AsWritten' = AsWritten /\ Written' = Written  BY <1>1, SameDocument
<1> QED  BY <1>2, <1>4, <1>5

\* Every step of the readers and of the morph.
LEMMA GlyphNext ==
  ASSUME GlyphInv, [Reading \/ Morph \/ Rest]_vars
  PROVE  GlyphInv'
<1>0. MorphInv'  BY MorphNext DEF GlyphInv
<1>1. CASE UNCHANGED <<pathVars, glyphVars>>
  <2>1. UNCHANGED <<path, i, cur, start, poly, contours, phase>>  BY <1>1 DEF pathVars
  <2>2. UNCHANGED <<events, at, symbols, curSymbol, textDepth, textMatrix, uses, glyphs, stage>>
    BY <1>1 DEF glyphVars
  <2>3. DocInv'  BY <2>1, <2>2, DocStays DEF GlyphInv
  <2>4. PathRuns' /\ PathDone'
    <3>1. PathRuns /\ PathDone  BY DEF GlyphInv
    <3>2. Sofar' = Sofar  BY <2>1 DEF Sofar
    <3> QED  BY <2>1, <3>1, <3>2 DEF PathRuns, PathDone
  <2>5. AsWritten' = AsWritten /\ Written' = Written  BY <2>2, SameDocument
  <2> QED  BY <1>0, <2>2, <2>3, <2>4, <2>5 DEF GlyphInv
<1>2. CASE ReadGlyphs
  <2>1. CASE OpenSymbol \/ CloseSymbol \/ OpenGroup \/ CloseGroup \/ Use \/ OtherTag \/ (OpenPath /\ curSymbol = NoId)
    <3>1. PathRuns' /\ PathDone' /\ DocInv' /\ stage' # "placed"  BY <2>1, TagRead
    <3> QED  BY <1>0, <3>1 DEF GlyphInv
  <2>2. CASE OpenPath /\ curSymbol # NoId
    <3>1. PathRuns' /\ PathDone' /\ DocInv' /\ stage' # "placed"  BY <2>2, OutlineBegun
    <3> QED  BY <1>0, <3>1 DEF GlyphInv
  <2>3. CASE ReadPath \/ PathRead
    <3>1. PathRuns' /\ PathDone' /\ DocInv' /\ glyphs' = glyphs /\ events' = events /\ stage' = stage
      BY <2>3, OutlineGoesOn, OutlineEnds
    <3>2. AsWritten' = AsWritten /\ Written' = Written  BY <3>1, SameDocument
    <3> QED  BY <1>0, <3>1, <3>2 DEF GlyphInv
  <2>4. CASE PathRefused
    <3>1. phase = "bad" /\ phase' = phase /\ stage' = "failed"  BY <2>4 DEF PathRefused, Refuse, NoPath, pathVars
    <3>2. PathRuns' /\ PathDone' /\ DocInv'  BY <3>1 DEF PathRuns, PathDone, DocInv
    <3> QED  BY <1>0, <3>1, <3>2 DEF GlyphInv
  <2>5. CASE Malformed
    <3>1. phase = "idle" /\ phase' = phase /\ stage' = "failed"  BY <2>5 DEF Malformed, Refuse, NoPath, pathVars
    <3>2. PathRuns' /\ PathDone' /\ DocInv'  BY <3>1 DEF PathRuns, PathDone, DocInv
    <3> QED  BY <1>0, <3>1, <3>2 DEF GlyphInv
  <2>6. CASE PlaceGlyphs
    <3>1. PathRuns' /\ PathDone' /\ DocInv' /\ (AsWritten' => glyphs' = Written')  BY <2>6, DocumentEnds
    <3> QED  BY <1>0, <3>1 DEF GlyphInv
  <2> QED  BY <1>2, <2>1, <2>2, <2>3, <2>4, <2>5, <2>6, Zenon DEF ReadGlyphs
<1> QED  BY <1>1, <1>2 DEF Reading, Morph, Rest, vars

\* parseSVGPathContours: of every path that is complete, whatever its commands
\* are, the contours are the ones its segments draw.
THEOREM PathsAreRead == Spec => []PathDone
<1>1. GlyphInv => PathDone  BY DEF GlyphInv
<1> QED  BY <1>1, GlyphsStart, GlyphNext, PTL DEF Spec

\* parseTypstSVG and parseSVGPathContours: whatever the document is, as long as
\* its paths are complete and no symbol stands in another, the glyphs are the
\* outlines its symbols describe, at the places of its uses.
THEOREM GlyphsStand == Spec => []GlyphsAsWritten
<1>1. GlyphInv => GlyphsAsWritten  BY DEF GlyphInv, GlyphsAsWritten, Written
<1> QED  BY <1>1, GlyphsStart, GlyphNext, PTL DEF Spec
=============================================================================
