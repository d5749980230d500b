------------------------- MODULE ScoreLayoutProofs -------------------------
(***************************************************************************)
(* Proofs about reading the lines of a score.                              *)
(***************************************************************************)
EXTENDS ScoreLayout, WellFoundedInduction, TLAPS

(***************************************************************************)
(* Numbers and sequences.                                                  *)
(***************************************************************************)
\* A set of natural numbers has a least element.
LEMMA LeastElement ==
  ASSUME NEW S \in SUBSET Nat, S # {}
  PROVE  Min(S) \in S /\ \A x \in S : Min(S) <= x
<1> DEFINE R == {ss \in Nat \X Nat : ss[1] < ss[2]}
<1>1. IsWellFoundedOn(R, Nat)  BY NatLessThanWellFounded DEF OpToRel
<1>2. PICK x \in S : \A y \in S : <<y, x>> \notin R
  BY <1>1, WFMin
<1>3. \A y \in S : x <= y
  <2> SUFFICES ASSUME NEW y \in S, y < x
               PROVE  FALSE
    OBVIOUS
  <2>1. <<y, x>> \in Nat \X Nat /\ <<y, x>>[1] = y /\ <<y, x>>[2] = x  OBVIOUS
  <2>2. <<y, x>> \in R  BY <2>1
  <2> QED  BY <1>2, <2>2
<1> QED  BY <1>3 DEF Min

\* The greatest of a set of natural numbers, when it is known.
LEMMA GreatestIs ==
  ASSUME NEW S \in SUBSET Nat, NEW x \in S, \A y \in S : y <= x
  PROVE  Max(S) = x
<1>1. \E m \in S : \A y \in S : m >= y  OBVIOUS
<1>2. Max(S) \in S /\ \A y \in S : Max(S) >= y  BY <1>1 DEF Max
<1>3. Max(S) >= x /\ Max(S) <= x /\ Max(S) \in Nat /\ x \in Nat  BY <1>2
<1> QED  BY <1>3

\* A sequence of whatever it holds.
IsSeq(s) == s \in Seq(Range(s))

LEMMA SeqIs ==
  ASSUME NEW s, IsSeq(s)
  PROVE  /\ Len(s) \in Nat /\ DOMAIN s = 1..Len(s)
         /\ \A i \in DOMAIN s : s[i] \in Range(s)
         /\ \A x \in Range(s) : \E i \in DOMAIN s : s[i] = x
BY DEF IsSeq, Range

LEMMA TypedSeq ==
  ASSUME NEW S, NEW s \in Seq(S)
  PROVE  IsSeq(s) /\ Range(s) \subseteq S
<1>1. \A i \in 1..Len(s) : s[i] \in Range(s) /\ s[i] \in S  BY DEF Range
<1>2. s \in [1..Len(s) -> Range(s)]  BY <1>1
<1>3. Len(s) \in Nat  OBVIOUS
<1> QED  BY <1>1, <1>2, <1>3 DEF IsSeq, Range

LEMMA AppendSeq ==
  ASSUME NEW s, IsSeq(s), NEW e
  PROVE  /\ IsSeq(Append(s, e))
         /\ Len(Append(s, e)) = Len(s) + 1
         /\ DOMAIN Append(s, e) = 1..(Len(s) + 1)
         /\ Range(Append(s, e)) = Range(s) \cup {e}
         /\ \A i \in DOMAIN s : Append(s, e)[i] = s[i]
         /\ Append(s, e)[Len(s) + 1] = e
<1> DEFINE S == Range(s) \cup {e}
           t == Append(s, e)
<1>0. s \in Seq(S)
  <2>1. s \in Seq(Range(s))  BY DEF IsSeq
  <2> QED  BY <2>1
<1>1. /\ t \in Seq(S) /\ Len(t) = Len(s) + 1 /\ Len(s) \in Nat /\ DOMAIN s = 1..Len(s)
      /\ DOMAIN t = 1..(Len(s) + 1)
      /\ \A i \in DOMAIN s : t[i] = s[i]
      /\ t[Len(s) + 1] = e
  BY <1>0
<1>2. Range(t) = S
  <2>1. Range(t) \subseteq S  BY <1>1, TypedSeq
  <2>2. e \in Range(t)  BY <1>1 DEF Range
  <2>3. Range(s) \subseteq Range(t)
    <3> SUFFICES ASSUME NEW i \in DOMAIN s
                 PROVE  s[i] \in Range(t)
      BY DEF Range
    <3> QED  BY <1>1 DEF Range
  <2> QED  BY <2>1, <2>2, <2>3
<1> HIDE DEF t
<1>3. IsSeq(t)  BY <1>1, TypedSeq
<1> QED  BY <1>1, <1>2, <1>3 DEF t

LEMMA ConcatSeq ==
  ASSUME NEW s, IsSeq(s), NEW u, IsSeq(u)
  PROVE  /\ IsSeq(s \o u)
         /\ Len(s \o u) = Len(s) + Len(u)
         /\ DOMAIN (s \o u) = 1..(Len(s) + Len(u))
         /\ Range(s \o u) = Range(s) \cup Range(u)
         /\ \A i \in DOMAIN s : (s \o u)[i] = s[i]
         /\ \A i \in DOMAIN u : (s \o u)[Len(s) + i] = u[i]
<1> DEFINE S == Range(s) \cup Range(u)
           t == s \o u
<1>0. s \in Seq(S) /\ u \in Seq(S)
  <2>1. s \in Seq(Range(s)) /\ u \in Seq(Range(u))  BY DEF IsSeq
  <2> QED  BY <2>1
<1>1. /\ t \in Seq(S) /\ Len(t) = Len(s) + Len(u) /\ Len(s) \in Nat /\ DOMAIN s = 1..Len(s)
      /\ Len(u) \in Nat /\ DOMAIN u = 1..Len(u)
      /\ DOMAIN t = 1..(Len(s) + Len(u))
      /\ \A i \in DOMAIN s : t[i] = s[i]
      /\ \A i \in DOMAIN u : t[Len(s) + i] = u[i]
  BY <1>0
<1>2. Range(t) = S
  <2>1. Range(t) \subseteq S  BY <1>1, TypedSeq
  <2>2. Range(u) \subseteq Range(t)
    <3> SUFFICES ASSUME NEW i \in DOMAIN u
                 PROVE  u[i] \in Range(t)
      BY DEF Range
    <3>1. Len(s) + i \in DOMAIN t  BY <1>1
    <3> QED  BY <1>1, <3>1 DEF Range
  <2>3. Range(s) \subseteq Range(t)
    <3> SUFFICES ASSUME NEW i \in DOMAIN s
                 PROVE  s[i] \in Range(t)
      BY DEF Range
    <3> QED  BY <1>1 DEF Range
  <2> QED  BY <2>1, <2>2, <2>3
<1> HIDE DEF t
<1>3. IsSeq(t)  BY <1>1, TypedSeq
<1> QED  BY <1>1, <1>2, <1>3 DEF t

LEMMA OneSeq ==
  ASSUME NEW s, IsSeq(s), NEW e
  PROVE  /\ IsSeq(<<e>>) /\ Range(<<e>>) = {e} /\ IsSeq(<<>>) /\ Range(<<>>) = {}
         /\ s \o <<e>> = Append(s, e) /\ s \o <<>> = s
<1>1. IsSeq(<<e>>) /\ IsSeq(<<>>)
  <2>1. <<e>> \in Seq({e}) /\ <<>> \in Seq({e})  OBVIOUS
  <2> QED  BY <2>1, TypedSeq
<1>2. Range(<<e>>) = {e} /\ Range(<<>>) = {}  BY DEF Range
<1>3. s \o <<e>> = Append(s, e) /\ s \o <<>> = s
  <2>1. s \in Seq(Range(s) \cup {e})
    <3>1. s \in Seq(Range(s))  BY DEF IsSeq
    <3> QED  BY <3>1
  <2> QED  BY <2>1
<1> QED  BY <1>1, <1>2, <1>3

LEMMA SubSeqIs ==
  ASSUME NEW s, IsSeq(s), NEW a \in Nat \ {0}, NEW b \in Nat, b <= Len(s)
  PROVE  /\ IsSeq(SubSeq(s, a, b))
         /\ Len(SubSeq(s, a, b)) = IF a <= b THEN b - a + 1 ELSE 0
         /\ DOMAIN SubSeq(s, a, b) = 1..(b - a + 1)
         /\ \A i \in 1..(b - a + 1) : SubSeq(s, a, b)[i] = s[a + i - 1]
<1> DEFINE S == Range(s)
           t == SubSeq(s, a, b)
<1>1. s \in Seq(S)  BY DEF IsSeq
<1>2. /\ t \in Seq(S) /\ Len(t) = (IF a <= b THEN b - a + 1 ELSE 0) /\ DOMAIN t = 1..(b - a + 1)
      /\ \A i \in 1..(b - a + 1) : t[i] = s[a + i - 1]
  BY <1>1
<1> HIDE DEF t, S
<1>3. IsSeq(t)  BY <1>2, TypedSeq
<1> QED  BY <1>2, <1>3 DEF t

LEMMA RestIs ==
  ASSUME NEW s, IsSeq(s), NEW i \in 0..Len(s)
  PROVE  /\ IsSeq(Rest(s, i))
         /\ Len(Rest(s, i)) = Len(s) - i
         /\ DOMAIN Rest(s, i) = 1..(Len(s) - i)
         /\ \A k \in 1..(Len(s) - i) : Rest(s, i)[k] = s[i + k]
<1> DEFINE t == SubSeq(s, i + 1, Len(s))
<1>1. Len(s) \in Nat  BY SeqIs
<1>2. i + 1 \in Nat \ {0} /\ Len(s) <= Len(s)  BY <1>1
<1>3. /\ IsSeq(t)
      /\ Len(t) = IF i + 1 <= Len(s) THEN Len(s) - (i + 1) + 1 ELSE 0
      /\ DOMAIN t = 1..(Len(s) - (i + 1) + 1)
      /\ \A k \in 1..(Len(s) - (i + 1) + 1) : t[k] = s[(i + 1) + k - 1]
  BY <1>1, <1>2, SubSeqIs
<1>4. Rest(s, i) = t  BY DEF Rest
<1> HIDE DEF t
<1>5. Len(s) - (i + 1) + 1 = Len(s) - i  BY <1>1
<1>6. \A k \in 1..(Len(s) - i) : (i + 1) + k - 1 = i + k  BY <1>1
<1>7. Len(t) = Len(s) - i  BY <1>1, <1>3
<1> QED  BY <1>3, <1>4, <1>5, <1>6, <1>7

(***************************************************************************)
(* Reading a field.                                                        *)
(***************************************************************************)
\* A line read as a field has a text.
LEMMA ParsedLine ==
  ASSUME NEW l, ParseFieldLine(l).ok
  PROVE  /\ ParseFieldLine(l).line = l.line /\ ParseFieldLine(l).below = <<>>
         /\ l.txt # <<>>
<1>1. NoField.ok = FALSE  BY DEF NoField
<1>2. ASSUME NEW s, NEW name, NEW body, NEW r, Field(l, s, name, body, r).ok
      PROVE  /\ Field(l, s, name, body, r).line = l.line
             /\ Field(l, s, name, body, r).below = <<>>
             /\ Contains(s, ":")
  BY <1>1, <1>2 DEF Field, NoField
<1>3. ASSUME NEW s, Contains(s, ":")
      PROVE  s # <<>>
  BY <1>3 DEF Contains
<1>4. Len(<<>>) = 0  OBVIOUS
<1> QED  BY <1>2, <1>3, <1>4 DEF ParseFieldLine

\* The lines below a field are the header of its constructor and the fields of
\* that, and all of them have a text.
LEMMA ParsedBelow ==
  ASSUME NEW l, NEW header, NEW fs, IsSeq(fs), GeomField(l, header, fs).ok
  PROVE  LET f == GeomField(l, header, fs)
         IN  /\ f.line = l.line /\ header.txt # <<>>
             /\ IsSeq(f.below) /\ Len(f.below) = Len(fs) + 1 /\ f.below[1] = header.line
             /\ \A k \in DOMAIN fs : fs[k].ok /\ f.below[k + 1] = fs[k].line
<1> DEFINE deep == [k \in DOMAIN fs |-> fs[k].line]
           f == GeomField(l, header, fs)
<1>1. NoField.ok = FALSE  BY DEF NoField
<1>2. /\ Colon(header.txt) = Len(header.txt)
      /\ \A k \in DOMAIN fs : fs[k].ok
      /\ f.line = l.line /\ f.below = <<header.line>> \o deep
  BY <1>1 DEF GeomField, NoField
<1>3. header.txt # <<>>
  <2> SUFFICES ASSUME header.txt = <<>>
               PROVE  FALSE
    OBVIOUS
  <2>1. Len(<<>>) = 0 /\ DOMAIN <<>> = {}  OBVIOUS
  <2>2. Colon(<<>>) = Min({1})
    <3>1. {i \in DOMAIN <<>> : <<>>[i] = ":"} \cup {Len(<<>>) + 1} = {1}  BY <2>1
    <3> QED  BY <3>1 DEF Colon
  <2>3. Min({1}) = 1  BY LeastElement
  <2> QED  BY <1>2, <2>1, <2>2, <2>3
<1>4. /\ Len(fs) \in Nat /\ DOMAIN fs = 1..Len(fs)  BY SeqIs
<1>5. IsSeq(deep) /\ Len(deep) = Len(fs) /\ DOMAIN deep = DOMAIN fs
  <2>1. deep \in Seq(Range(deep))  BY <1>4 DEF Range
  <2> QED  BY <1>4, <2>1 DEF IsSeq
<1>6. IsSeq(<<header.line>>) /\ Len(<<header.line>>) = 1 /\ <<header.line>>[1] = header.line
      /\ DOMAIN <<header.line>> = {1}
  BY <1>5, OneSeq
<1> HIDE DEF deep
<1>7. /\ IsSeq(f.below) /\ Len(f.below) = Len(fs) + 1 /\ f.below[1] = header.line
      /\ \A k \in DOMAIN fs : f.below[k + 1] = deep[k]
  <2>1. /\ IsSeq(<<header.line>> \o deep)
        /\ Len(<<header.line>> \o deep) = Len(<<header.line>>) + Len(deep)
        /\ \A i \in DOMAIN <<header.line>> : (<<header.line>> \o deep)[i] = <<header.line>>[i]
        /\ \A i \in DOMAIN deep : (<<header.line>> \o deep)[Len(<<header.line>>) + i] = deep[i]
    BY <1>5, <1>6, ConcatSeq
  <2>2. \A k \in DOMAIN fs : (<<header.line>> \o deep)[k + 1] = deep[k]  BY <1>4, <1>5, <1>6, <2>1
  <2> QED  BY <1>2, <1>4, <1>5, <1>6, <2>1, <2>2
<1> QED  BY <1>2, <1>3, <1>7 DEF deep

LinesStand ==
  /\ IsSeq(lines)
  /\ \A i \in DOMAIN lines : lines[i].line \in Nat \ {0}
  /\ \A i, j \in DOMAIN lines : i < j => lines[i].line < lines[j].line

\* A field that is read stands on the line at hand and the lines right below.
LEMMA FieldRead ==
  ASSUME LinesStand, at \in DOMAIN lines, Line.txt # <<>>,
         NEW f, f = ParseRecordFieldLine(Rest(lines, at - 1)), f.ok
  PROVE  /\ f.line = Line.line
         /\ IsSeq(f.below) /\ Len(f.below) <= Len(lines) - at
         /\ \A k \in DOMAIN f.below : f.below[k] = lines[at + k].line /\ lines[at + k].txt # <<>>
<1> DEFINE ls == Rest(lines, at - 1)
<1>1. /\ Len(lines) \in Nat /\ at \in 1..Len(lines)  BY SeqIs DEF LinesStand
<1>2. /\ IsSeq(ls) /\ Len(ls) = Len(lines) - at + 1 /\ DOMAIN ls = 1..(Len(lines) - at + 1)
      /\ \A i \in DOMAIN ls : ls[i] = lines[at + i - 1]
  <2>1. IsSeq(lines) /\ at - 1 \in 0..Len(lines)  BY <1>1 DEF LinesStand
  <2>2. /\ IsSeq(ls) /\ Len(ls) = Len(lines) - (at - 1) /\ DOMAIN ls = 1..(Len(lines) - (at - 1))
        /\ \A i \in 1..(Len(lines) - (at - 1)) : ls[i] = lines[(at - 1) + i]
    BY <2>1, RestIs
  <2> HIDE DEF ls
  <2> QED  BY <1>1, <2>2
<1>3. ls[1] = Line  BY <1>1, <1>2 DEF Line
<1> HIDE DEF ls
<1>4. CASE ~IsGeomField(ls)
  <2>1. f = ParseFieldLine(ls[1])
    <3>1. <<ls[1]>>[1] = ls[1] /\ 1 \in DOMAIN <<ls[1]>>  OBVIOUS
    <3>2. ParseFieldLines(<<ls[1]>>)[1] = ParseFieldLine(ls[1])  BY <3>1 DEF ParseFieldLines
    <3> QED  BY <1>4, <3>2 DEF ParseRecordFieldLine, RecordField, ls
  <2>2. f.line = Line.line /\ f.below = <<>>  BY <1>3, <2>1, ParsedLine
  <2>3. IsSeq(<<>>)  BY <1>2, OneSeq
  <2>4. Len(<<>>) = 0 /\ DOMAIN <<>> = {}  OBVIOUS
  <2> QED  BY <1>1, <2>2, <2>3, <2>4
<1>5. CASE IsGeomField(ls)
  <2> DEFINE body == Rest(ls, 2)
             deep == Deeper(body, ls[2])
             fs == ParseFieldLines(deep)
  <2>1. f = GeomField(ls[1], ls[2], fs)
    BY <1>5 DEF ParseRecordFieldLine, RecordField, ls
  <2>2. Len(ls) > 1 /\ Len(ls) \in Nat  BY <1>2, <1>1, <1>5 DEF IsGeomField
  <2>3. /\ IsSeq(body) /\ Len(body) = Len(ls) - 2 /\ DOMAIN body = 1..(Len(ls) - 2)
        /\ \A i \in DOMAIN body : body[i] = ls[i + 2]
    <3>1. IsSeq(ls) /\ 2 \in 0..Len(ls)  BY <1>2, <2>2
    <3>2. /\ IsSeq(body) /\ Len(body) = Len(ls) - 2 /\ DOMAIN body = 1..(Len(ls) - 2)
          /\ \A i \in 1..(Len(ls) - 2) : body[i] = ls[2 + i]
      BY <3>1, RestIs
    <3> HIDE DEF body
    <3> QED  BY <2>2, <3>2
  <2> HIDE DEF body
  <2>4. \E n \in Nat : /\ n <= Len(body) /\ IsSeq(deep) /\ Len(deep) = n /\ DOMAIN deep = 1..n
                       /\ \A i \in 1..n : deep[i] = body[i]
    <3> DEFINE ends == {j \in DOMAIN body : body[j].ind <= ls[2].ind} \cup {Len(body) + 1}
               n == Min(ends) - 1
    <3>1. ends \subseteq 1..(Len(body) + 1) /\ Len(body) + 1 \in ends  BY <2>2, <2>3
    <3>2. Min(ends) \in ends /\ Min(ends) <= Len(body) + 1
      <4>1. ends \in SUBSET Nat  BY <2>2, <2>3, <3>1
      <4> HIDE DEF ends
      <4> QED  BY <3>1, <4>1, LeastElement
    <3> HIDE DEF ends
    <3>3. n \in Nat /\ n <= Len(body)
      <4>1. Len(body) \in Nat  BY <2>2, <2>3
      <4>2. Min(ends) \in 1..(Len(body) + 1)  BY <3>1, <3>2
      <4> QED  BY <4>1, <4>2
    <3>4. deep = SubSeq(body, 1, n)  BY DEF Deeper, ends
    <3> HIDE DEF deep, n
    <3>5. /\ IsSeq(deep) /\ Len(deep) = (IF 1 <= n THEN n - 1 + 1 ELSE 0) /\ DOMAIN deep = 1..(n - 1 + 1)
          /\ \A i \in 1..(n - 1 + 1) : deep[i] = body[1 + i - 1]
      BY <2>3, <3>3, <3>4, SubSeqIs
    <3> QED  BY <3>3, <3>5
  <2>5. PICK n \in Nat : /\ n <= Len(body) /\ IsSeq(deep) /\ Len(deep) = n /\ DOMAIN deep = 1..n
                         /\ \A i \in 1..n : deep[i] = body[i]
    BY <2>4
  <2> HIDE DEF deep
  <2>6. IsSeq(fs) /\ Len(fs) = n /\ DOMAIN fs = 1..n /\ \A i \in 1..n : fs[i] = ParseFieldLine(deep[i])
    <3>1. fs = [k \in 1..n |-> ParseFieldLine(deep[k])]  BY <2>5 DEF ParseFieldLines
    <3>2. fs \in Seq(Range(fs))  BY <3>1 DEF Range
    <3> QED  BY <3>1, <3>2 DEF IsSeq
  <2> HIDE DEF fs
  <2>7. /\ f.line = ls[1].line /\ ls[2].txt # <<>>
        /\ IsSeq(f.below) /\ Len(f.below) = Len(fs) + 1 /\ f.below[1] = ls[2].line
        /\ \A k \in DOMAIN fs : fs[k].ok /\ f.below[k + 1] = fs[k].line
    BY <2>1, <2>6, ParsedBelow
  <2>8. \A k \in 1..n : f.below[k + 1] = lines[at + k + 1].line /\ lines[at + k + 1].txt # <<>>
    <3> SUFFICES ASSUME NEW k \in 1..n
                 PROVE  f.below[k + 1] = lines[at + k + 1].line /\ lines[at + k + 1].txt # <<>>
      OBVIOUS
    <3>1. deep[k] = lines[at + k + 1]
      <4>1. deep[k] = body[k] /\ k \in DOMAIN body  BY <2>3, <2>5, <2>2
      <4>2. body[k] = ls[k + 2] /\ k + 2 \in 1..Len(ls)  BY <2>2, <2>3, <4>1
      <4>3. ls[k + 2] = lines[at + (k + 2) - 1]  BY <1>2, <4>2, SeqIs
      <4>4. at + (k + 2) - 1 = at + k + 1  BY <1>1
      <4> QED  BY <4>1, <4>2, <4>3, <4>4
    <3>2. fs[k].ok /\ f.below[k + 1] = fs[k].line /\ fs[k] = ParseFieldLine(deep[k])  BY <2>6, <2>7
    <3> QED  BY <3>1, <3>2, ParsedLine
  <2>9. DOMAIN f.below = 1..(n + 1)  BY <2>6, <2>7, SeqIs
  <2>10. ls[2] = lines[at + 1]
    <3>1. 2 \in DOMAIN ls  BY <1>2, <2>2, SeqIs
    <3>2. at + 2 - 1 = at + 1  BY <1>1
    <3> QED  BY <1>2, <3>1, <3>2
  <2>11. \A k \in DOMAIN f.below : k = 1 \/ (k - 1 \in 1..n /\ (k - 1) + 1 = k /\ at + (k - 1) + 1 = at + k)
    BY <1>1, <2>9
  <2>12. Len(f.below) <= Len(lines) - at  BY <1>1, <1>2, <2>2, <2>3, <2>5, <2>6, <2>7
  <2> QED  BY <1>3, <2>7, <2>8, <2>10, <2>11, <2>12
<1> QED  BY <1>4, <1>5

(***************************************************************************)
(* Scanning: every logical line begins below the ones before it.           *)
(***************************************************************************)
ScanStands ==
  /\ doc \in Documents
  /\ LinesStand
  /\ stage = "scan" =>
       /\ at \in Nat \ {0}
       /\ \A i \in DOMAIN lines : lines[i].line < at
       /\ DOMAIN pend = DOMAIN NoLine
       /\ ~Fresh => /\ pend.line \in Nat \ {0} /\ pend.line < at
                    /\ \A i \in DOMAIN lines : lines[i].line < pend.line

\* A line further down can be added.
LEMMA AddedLine ==
  ASSUME LinesStand, NEW l, l.line \in Nat \ {0}, \A i \in DOMAIN lines : lines[i].line < l.line,
         lines' = Append(lines, l)
  PROVE  /\ LinesStand'
         /\ \A i \in DOMAIN lines' : lines'[i].line <= l.line
<1>1. IsSeq(lines) /\ Len(lines) \in Nat /\ DOMAIN lines = 1..Len(lines)  BY SeqIs DEF LinesStand
<1>2. /\ IsSeq(lines') /\ DOMAIN lines' = 1..(Len(lines) + 1)
      /\ \A i \in DOMAIN lines : lines'[i] = lines[i]
      /\ lines'[Len(lines) + 1] = l
  BY <1>1, AppendSeq
<1>3. \A i \in DOMAIN lines' : (i \in DOMAIN lines /\ lines'[i] = lines[i])
                                 \/ (i = Len(lines) + 1 /\ lines'[i] = l)
  BY <1>1, <1>2
<1>4. \A i \in DOMAIN lines' : lines'[i].line \in Nat \ {0} /\ lines'[i].line <= l.line
  BY <1>3 DEF LinesStand
<1>5. \A i, j \in DOMAIN lines' : i < j => lines'[i].line < lines'[j].line
  <2> SUFFICES ASSUME NEW i \in DOMAIN lines', NEW j \in DOMAIN lines', i < j
               PROVE  lines'[i].line < lines'[j].line
    OBVIOUS
  <2>1. i \in DOMAIN lines /\ lines'[i] = lines[i]  BY <1>1, <1>2, <1>3
  <2>2. CASE j \in DOMAIN lines /\ lines'[j] = lines[j]  BY <2>1, <2>2 DEF LinesStand
  <2>3. CASE j = Len(lines) + 1 /\ lines'[j] = l  BY <2>1, <2>3
  <2> QED  BY <1>3, <2>2, <2>3
<1> QED  BY <1>2, <1>4, <1>5 DEF LinesStand

LEMMA JoinedLine ==
  ASSUME ScanStands, stage = "scan"
  PROVE  /\ Joined.line \in Nat \ {0} /\ Joined.line <= at
         /\ \A i \in DOMAIN lines : lines[i].line < Joined.line
         /\ DOMAIN Joined = DOMAIN NoLine
<1>1. DOMAIN NoLine = {"ind", "line", "txt", "depth", "inStr"}  BY DEF NoLine
<1>2. DOMAIN pend = {"ind", "line", "txt", "depth", "inStr"}  BY <1>1 DEF ScanStands
<1>3. DOMAIN Joined = DOMAIN NoLine  BY <1>1, <1>2 DEF Joined
<1>4. CASE Fresh
  <2>1. Joined.line = at  BY <1>2, <1>4 DEF Joined, Fresh
  <2> QED  BY <1>3, <2>1 DEF ScanStands
<1>5. CASE ~Fresh
  <2>1. Joined.line = pend.line  BY <1>2, <1>5 DEF Joined, Fresh
  <2> QED  BY <1>3, <1>5, <2>1 DEF ScanStands
<1> QED  BY <1>4, <1>5

LEMMA ScanKeeps ==
  ASSUME ScanStands, ScanScalar \/ ScanRaw \/ ScanEnd
  PROVE  ScanStands'
<1>0. IsSeq(doc) /\ Len(doc) \in Nat
  <2>1. doc \in Seq([ind : Nat, txt : Seq(STRING)])  BY ReaderAssumption DEF ScanStands
  <2> QED  BY <2>1, TypedSeq
<1>1. CASE ScanScalar
  <2> DEFINE ends == {j \in (at + 1)..(Len(doc) + 1) :
                        j = Len(doc) + 1 \/ ~(IsBlank(doc[j]) \/ doc[j].ind > doc[at].ind)}
  <2>1. at \in Nat \ {0} /\ at <= Len(doc)  BY <1>1 DEF ScanScalar, ScanStands
  <2>2. at' \in Nat \ {0} /\ at < at'
    <3>1. at' = Min(ends)  BY <1>1 DEF ScanScalar, BodyEnd
    <3>2. ends \in SUBSET Nat /\ Len(doc) + 1 \in ends /\ ends \subseteq (at + 1)..(Len(doc) + 1)
      BY <1>0, <2>1
    <3> HIDE DEF ends
    <3>3. at' \in ends  BY <3>1, <3>2, LeastElement
    <3> QED  BY <1>0, <2>1, <3>2, <3>3
  <2>3. ScalarLine(doc, at).line = at  BY DEF ScalarLine
  <2>4. lines' = Append(lines, ScalarLine(doc, at))  BY <1>1 DEF ScanScalar
  <2>5. LinesStand' /\ \A i \in DOMAIN lines' : lines'[i].line <= at
    <3>1. ScalarLine(doc, at).line \in Nat \ {0}
          /\ \A i \in DOMAIN lines : lines[i].line < ScalarLine(doc, at).line
      BY <1>1, <2>1, <2>3 DEF ScanStands, ScanScalar
    <3> QED  BY <2>3, <2>4, <3>1, AddedLine DEF ScanStands
  <2>6. \A i \in DOMAIN lines' : lines'[i].line < at'  BY <2>1, <2>2, <2>5 DEF LinesStand
  <2>7. Fresh /\ UNCHANGED <<doc, pend, stage>>  BY <1>1 DEF ScanScalar
  <2> QED  BY <1>1, <2>2, <2>5, <2>6, <2>7 DEF ScanStands, ScanScalar, Fresh
<1>2. CASE ScanRaw
  <2>1. stage = "scan" /\ at \in Nat \ {0} /\ at' = at + 1 /\ UNCHANGED <<doc, stage>>
    BY <1>2 DEF ScanRaw, ScanStands
  <2>2. /\ Joined.line \in Nat \ {0} /\ Joined.line <= at
        /\ \A i \in DOMAIN lines : lines[i].line < Joined.line
        /\ DOMAIN Joined = DOMAIN NoLine
    BY <2>1, JoinedLine
  <2>3. CASE lines' = Append(lines, Logical(Joined)) /\ pend' = NoLine
    <3>1. Logical(Joined).line = Joined.line  BY DEF Logical
    <3>2. LinesStand' /\ \A i \in DOMAIN lines' : lines'[i].line <= Joined.line
      BY <2>2, <2>3, <3>1, AddedLine DEF ScanStands
    <3>3. \A i \in DOMAIN lines' : lines'[i].line < at'  BY <2>1, <2>2, <3>2 DEF LinesStand
    <3>4. Fresh'  BY <2>3 DEF Fresh, NoLine
    <3> QED  BY <2>1, <2>3, <3>2, <3>3, <3>4 DEF ScanStands
  <2>4. CASE pend' = Joined /\ lines' = lines
    <3>1. LinesStand'  BY <2>4 DEF ScanStands, LinesStand
    <3>2. \A i \in DOMAIN lines' : lines'[i].line < at'  BY <2>1, <2>4 DEF ScanStands, LinesStand
    <3>3. /\ pend'.line \in Nat \ {0} /\ pend'.line < at'
          /\ \A i \in DOMAIN lines' : lines'[i].line < pend'.line
      BY <2>1, <2>2, <2>4
    <3> QED  BY <2>1, <2>2, <2>4, <3>1, <3>2, <3>3 DEF ScanStands
  <2> QED  BY <1>2, <2>3, <2>4 DEF ScanRaw
<1>3. CASE ScanEnd
  <2>1. stage' # "scan" /\ UNCHANGED <<doc, lines>>  BY <1>3 DEF ScanEnd
  <2> QED  BY <2>1 DEF ScanStands, LinesStand
<1> QED  BY <1>1, <1>2, <1>3

(***************************************************************************)
(* What a statement is made of.                                            *)
(***************************************************************************)
IsField(f) == f.line \in Nat /\ IsSeq(f.below) /\ Range(f.below) \subseteq Nat
IsRecordStmt(r) ==
  /\ r = [k |-> "record", line |-> r.line, fields |-> r.fields]
  /\ r.line \in Nat /\ IsSeq(r.fields) /\ \A f \in Range(r.fields) : IsField(f)
IsBlockStmt(b) ==
  /\ b = [k |-> "block", line |-> b.line, dur |-> b.dur, each |-> b.each, mods |-> b.mods,
          inline |-> b.inline, rows |-> b.rows]
  /\ b.line \in Nat /\ b.dur \in Nat /\ IsSeq(b.rows) /\ \A r \in Range(b.rows) : r.line \in Nat
IsFamilyStmt(f) ==
  /\ f = [k |-> "family", line |-> f.line, domain |-> f.domain, base |-> f.base,
          locals |-> f.locals, members |-> f.members]
  /\ f.line \in Nat
  /\ IsSeq(f.locals) /\ \A l \in Range(f.locals) : l.line \in Nat
  /\ IsSeq(f.members) /\ \A m \in Range(f.members) : IsRecordStmt(m)

\* A statement of a part that was read as it was written.
WellRead(s) ==
  /\ s.line \in Nat /\ s.k # "sceneDef"
  /\ s.k = "record" => IsRecordStmt(s)
  /\ s.k = "block" => IsBlockStmt(s) /\ (s.inline => RowsFit(s))
  /\ s.k = "family" => IsFamilyStmt(s)
  /\ InOrder(s)
LinesOf(ss) == UNION {FlatLines(s) : s \in Range(ss)}
Layout(ss) ==
  /\ IsSeq(ss)
  /\ \A s \in Range(ss) : WellRead(s)
  /\ \A i, j \in DOMAIN ss : i < j => Above(FlatLines(ss[i]), FlatLines(ss[j]))

\* A field is read from a line and the lines right below it.
FromLine(f) == f.ok /\ \E n \in DOMAIN lines : f = ParseRecordFieldLine(Rest(lines, n - 1))
FieldsOf(s) ==
  CASE s.k = "record" -> Range(s.fields)
    [] s.k = "family" -> UNION {Range(m.fields) : m \in Range(s.members)}
    [] OTHER -> {}
FieldsIn(ss) == UNION {FieldsOf(s) : s \in Range(ss)}

LEMMA FieldsInAppend ==
  ASSUME NEW ss, IsSeq(ss), NEW s
  PROVE  FieldsIn(Append(ss, s)) = FieldsIn(ss) \cup FieldsOf(s)
<1>1. Range(Append(ss, s)) = Range(ss) \cup {s}  BY AppendSeq
<1> QED  BY <1>1 DEF FieldsIn

LEMMA RecordLinesAre ==
  ASSUME NEW r, IsRecordStmt(r)
  PROVE  RecordLines(r) \subseteq Nat /\ r.line \in RecordLines(r)
<1>1. \A f \in Range(r.fields) : FieldLines(f) \subseteq Nat
  BY DEF IsRecordStmt, IsField, FieldLines
<1> QED  BY <1>1 DEF IsRecordStmt, RecordLines

LEMMA FlatLinesAre ==
  ASSUME NEW s, WellRead(s)
  PROVE  FlatLines(s) \subseteq Nat /\ s.line \in FlatLines(s)
<1>1. CASE s.k = "record"
  BY <1>1, RecordLinesAre DEF WellRead, FlatLines
<1>2. CASE s.k = "block"
  <2>1. FlatLines(s) = {s.line} \cup {r.line : r \in Range(s.rows)}  BY <1>2 DEF FlatLines
  <2> QED  BY <1>2, <2>1 DEF WellRead, IsBlockStmt
<1>3. CASE s.k = "family"
  <2>1. FlatLines(s) = {s.line} \cup {l.line : l \in Range(s.locals)}
                         \cup UNION {RecordLines(m) : m \in Range(s.members)}
    BY <1>3 DEF FlatLines
  <2>2. \A m \in Range(s.members) : RecordLines(m) \subseteq Nat
    BY <1>3, RecordLinesAre DEF WellRead, IsFamilyStmt
  <2>3. s.line \in Nat /\ \A l \in Range(s.locals) : l.line \in Nat
    BY <1>3 DEF WellRead, IsFamilyStmt
  <2> QED  BY <2>1, <2>2, <2>3
<1>4. CASE s.k \notin {"record", "block", "family"}
  BY <1>4 DEF WellRead, FlatLines
<1> QED  BY <1>1, <1>2, <1>3, <1>4

LEMMA LinesOfAppend ==
  ASSUME NEW ss, IsSeq(ss), NEW s
  PROVE  LinesOf(Append(ss, s)) = LinesOf(ss) \cup FlatLines(s)
<1>1. Range(Append(ss, s)) = Range(ss) \cup {s}  BY AppendSeq
<1> QED  BY <1>1 DEF LinesOf

LEMMA LayoutAppend ==
  ASSUME NEW ss, Layout(ss), NEW s, WellRead(s), Above(LinesOf(ss), FlatLines(s))
  PROVE  Layout(Append(ss, s))
<1>1. IsSeq(ss) /\ Len(ss) \in Nat /\ DOMAIN ss = 1..Len(ss)  BY SeqIs DEF Layout
<1> DEFINE t == Append(ss, s)
<1>2. /\ IsSeq(t) /\ DOMAIN t = 1..(Len(ss) + 1) /\ Range(t) = Range(ss) \cup {s}
      /\ \A i \in DOMAIN ss : t[i] = ss[i]
      /\ t[Len(ss) + 1] = s
  BY <1>1, AppendSeq
<1> HIDE DEF t
<1>3. \A x \in Range(t) : WellRead(x)  BY <1>2 DEF Layout
<1>4. ASSUME NEW i \in DOMAIN t, NEW j \in DOMAIN t, i < j
      PROVE  Above(FlatLines(t[i]), FlatLines(t[j]))
  <2>1. i \in DOMAIN ss /\ t[i] = ss[i]  BY <1>1, <1>2, <1>4
  <2>2. CASE j \in DOMAIN ss
    <3>1. t[j] = ss[j]  BY <1>2, <2>2
    <3> QED  BY <1>4, <2>1, <2>2, <3>1 DEF Layout
  <2>3. CASE j = Len(ss) + 1
    <3>1. t[j] = s  BY <1>2, <2>3
    <3>2. FlatLines(ss[i]) \subseteq LinesOf(ss)  BY <2>1 DEF LinesOf, Range
    <3> QED  BY <2>1, <3>1, <3>2 DEF Above
  <2> QED  BY <1>1, <1>2, <2>2, <2>3
<1> QED  BY <1>2, <1>3, <1>4 DEF Layout, t

LEMMA LayoutPrefix ==
  ASSUME NEW ss, IsSeq(ss), NEW s, Layout(Append(ss, s))
  PROVE  Layout(ss) /\ WellRead(s) /\ Above(LinesOf(ss), FlatLines(s))
<1>1. IsSeq(ss) /\ Len(ss) \in Nat /\ DOMAIN ss = 1..Len(ss)  BY SeqIs
<1> DEFINE t == Append(ss, s)
<1>2. /\ IsSeq(t) /\ DOMAIN t = 1..(Len(ss) + 1) /\ Range(t) = Range(ss) \cup {s}
      /\ \A i \in DOMAIN ss : t[i] = ss[i]
      /\ t[Len(ss) + 1] = s
  BY <1>1, AppendSeq
<1>3. Layout(t)  OBVIOUS
<1> HIDE DEF t
<1>4. WellRead(s) /\ \A x \in Range(ss) : WellRead(x)  BY <1>2, <1>3 DEF Layout
<1>5. ASSUME NEW i \in DOMAIN ss, NEW j \in DOMAIN ss, i < j
      PROVE  Above(FlatLines(ss[i]), FlatLines(ss[j]))
  <2>1. i \in DOMAIN t /\ j \in DOMAIN t /\ t[i] = ss[i] /\ t[j] = ss[j]  BY <1>1, <1>2
  <2> QED  BY <1>3, <1>5, <2>1 DEF Layout
<1>6. ASSUME NEW x \in Range(ss)
      PROVE  Above(FlatLines(x), FlatLines(s))
  <2>1. PICK i \in DOMAIN ss : x = ss[i]  BY DEF Range
  <2>2. i \in DOMAIN t /\ Len(ss) + 1 \in DOMAIN t /\ i < Len(ss) + 1 /\ t[i] = x
    BY <1>1, <1>2, <2>1
  <2> QED  BY <1>2, <1>3, <2>2 DEF Layout
<1>7. Above(LinesOf(ss), FlatLines(s))  BY <1>6 DEF LinesOf, Above
<1> QED  BY <1>1, <1>4, <1>5, <1>7 DEF Layout

\* A part's last statement grows by lines below all the part holds.
LEMMA LayoutGrows ==
  ASSUME NEW ss, IsSeq(ss), NEW s, Layout(Append(ss, s)), NEW t, WellRead(t),
         NEW new, FlatLines(t) = FlatLines(s) \cup new, Above(LinesOf(Append(ss, s)), new)
  PROVE  /\ Layout(Append(ss, t))
         /\ LinesOf(Append(ss, t)) = LinesOf(Append(ss, s)) \cup new
<1>1. Layout(ss) /\ Above(LinesOf(ss), FlatLines(s))  BY LayoutPrefix
<1>2. LinesOf(Append(ss, s)) = LinesOf(ss) \cup FlatLines(s)
      /\ LinesOf(Append(ss, t)) = LinesOf(ss) \cup FlatLines(t)
  BY LinesOfAppend
<1>3. Above(LinesOf(ss), FlatLines(t))  BY <1>1, <1>2 DEF Above
<1> QED  BY <1>1, <1>2, <1>3, LayoutAppend

(***************************************************************************)
(* What is open while a part is read: at most one statement, which would   *)
(* be the last of the part if it ended here.                               *)
(***************************************************************************)
NothingOpen(r) == r.record = <<>> /\ r.block = <<>> /\ r.family = <<>> /\ r.member = <<>>
RecordOpen(r) ==
  /\ r.record = <<r.record[1]>> /\ IsRecordStmt(r.record[1])
  /\ r.block = <<>> /\ r.family = <<>> /\ r.member = <<>>
BlockOpen(r) ==
  /\ r.block = <<r.block[1]>> /\ IsBlockStmt(r.block[1])
  /\ r.record = <<>> /\ r.family = <<>> /\ r.member = <<>>
FamilyOpen(r) ==
  /\ r.family = <<r.family[1]>> /\ IsFamilyStmt(r.family[1])
  /\ r.member = <<>> \/ (r.member = <<r.member[1]>> /\ IsRecordStmt(r.member[1]))
  /\ r.record = <<>> /\ r.block = <<>>
Shape(r) ==
  /\ DOMAIN r = DOMAIN Empty /\ IsSeq(r.stmts)
  /\ NothingOpen(r) \/ RecordOpen(r) \/ BlockOpen(r) \/ FamilyOpen(r)

Ended(r) == FlushBlock(FlushFamily(FlushRecord(r))).stmts

\* The family as it is when its open member is finished.
WithMember(r) ==
  IF r.member = <<>> THEN r.family[1] ELSE [r.family[1] EXCEPT !.members = Append(@, r.member[1])]

LEMMA FlushIs ==
  ASSUME NEW r, DOMAIN r = DOMAIN Empty, NEW what \in {"record", "block", "family"}
  PROVE  /\ DOMAIN Flush(r, what) = DOMAIN Empty
         /\ Flush(r, what)[what] = <<>>
         /\ Flush(r, what).stmts = r.stmts \o r[what]
         /\ \A x \in DOMAIN Empty \ {"stmts", what} : Flush(r, what)[x] = r[x]
<1>1. DOMAIN Empty = {"stmts", "record", "block", "family", "member"}  BY DEF Empty
<1> QED  BY <1>1 DEF Flush

LEMMA EmptyIsSeq == IsSeq(<<>>) /\ Range(<<>>) = {} /\ Len(<<>>) = 0
<1>1. <<>> \in Seq({}) /\ Len(<<>>) = 0 /\ DOMAIN <<>> = {}  OBVIOUS
<1> QED  BY <1>1, TypedSeq DEF Range

\* A statement is never empty, so one that is open is seen to be.
LEMMA OneIsSome ==
  ASSUME NEW e
  PROVE  <<e>> # <<>> /\ <<e>>[1] = e
<1>1. Len(<<e>>) = 1 /\ Len(<<>>) = 0  OBVIOUS
<1> QED  BY <1>1

LEMMA OneExcept ==
  ASSUME NEW e, NEW x
  PROVE  [<<e>> EXCEPT ![1] = x] = <<x>>
<1> DEFINE t == [<<e>> EXCEPT ![1] = x]
<1>1. DOMAIN <<e>> = 1..1 /\ DOMAIN <<x>> = 1..1  OBVIOUS
<1>2. t = [i \in 1..1 |-> IF i = 1 THEN x ELSE <<e>>[i]]  BY <1>1
<1>3. <<x>> = [i \in 1..1 |-> x]  OBVIOUS
<1> QED  BY <1>2, <1>3

LEMMA FlushRecordKeeps ==
  ASSUME NEW r, Shape(r)
  PROVE  LET q == FlushRecord(r)
         IN  /\ Shape(q) /\ q.record = <<>>
             /\ q.block = r.block /\ q.family = r.family /\ q.member = r.member
             /\ q.stmts = IF r.record = <<>> THEN r.stmts ELSE Append(r.stmts, r.record[1])
<1> DEFINE q == FlushRecord(r)
<1>1. DOMAIN Empty = {"stmts", "record", "block", "family", "member"}  BY DEF Empty
<1>2. /\ DOMAIN q = DOMAIN Empty /\ q.record = <<>> /\ q.stmts = r.stmts \o r.record
      /\ q.block = r.block /\ q.family = r.family /\ q.member = r.member
  <2>1. DOMAIN r = DOMAIN Empty /\ "record" \in {"record", "block", "family"}  BY DEF Shape
  <2>2. q = Flush(r, "record")  BY DEF FlushRecord
  <2> HIDE DEF q
  <2>3. /\ DOMAIN q = DOMAIN Empty /\ q["record"] = <<>> /\ q.stmts = r.stmts \o r["record"]
        /\ \A x \in DOMAIN Empty \ {"stmts", "record"} : q[x] = r[x]
    BY <2>1, <2>2, FlushIs
  <2> QED  BY <1>1, <2>3
<1> HIDE DEF q
<1>3. CASE r.record = <<>>
  <2>1. q.stmts = r.stmts  BY <1>2, <1>3, OneSeq DEF Shape
  <2>2. ~RecordOpen(r)  BY <1>3, OneIsSome DEF RecordOpen
  <2> QED  BY <1>2, <1>3, <2>1, <2>2 DEF Shape, NothingOpen, BlockOpen, FamilyOpen, q
<1>4. CASE r.record # <<>>
  <2>1. RecordOpen(r)  BY <1>4 DEF Shape, NothingOpen, BlockOpen, FamilyOpen
  <2>2. q.stmts = Append(r.stmts, r.record[1])
    <3>1. r.record = <<r.record[1]>> /\ IsSeq(r.stmts)  BY <2>1 DEF RecordOpen, Shape
    <3>2. r.stmts \o <<r.record[1]>> = Append(r.stmts, r.record[1])  BY <3>1, OneSeq
    <3> QED  BY <1>2, <3>1, <3>2
  <2>3. IsSeq(q.stmts)  BY <2>2, AppendSeq DEF Shape
  <2>4. NothingOpen(q)  BY <1>2, <2>1 DEF RecordOpen, NothingOpen
  <2> QED  BY <1>2, <1>4, <2>2, <2>3, <2>4 DEF Shape, q
<1> QED  BY <1>3, <1>4

LEMMA FlushBlockKeeps ==
  ASSUME NEW r, Shape(r)
  PROVE  LET q == FlushBlock(r)
         IN  /\ Shape(q) /\ q.block = <<>>
             /\ q.record = r.record /\ q.family = r.family /\ q.member = r.member
             /\ q.stmts = IF r.block = <<>> THEN r.stmts ELSE Append(r.stmts, r.block[1])
<1> DEFINE q == FlushBlock(r)
<1>1. DOMAIN Empty = {"stmts", "record", "block", "family", "member"}  BY DEF Empty
<1>2. /\ DOMAIN q = DOMAIN Empty /\ q.block = <<>> /\ q.stmts = r.stmts \o r.block
      /\ q.record = r.record /\ q.family = r.family /\ q.member = r.member
  <2>1. DOMAIN r = DOMAIN Empty /\ "block" \in {"record", "block", "family"}  BY DEF Shape
  <2>2. q = Flush(r, "block")  BY DEF FlushBlock
  <2> HIDE DEF q
  <2>3. /\ DOMAIN q = DOMAIN Empty /\ q["block"] = <<>> /\ q.stmts = r.stmts \o r["block"]
        /\ \A x \in DOMAIN Empty \ {"stmts", "block"} : q[x] = r[x]
    BY <2>1, <2>2, FlushIs
  <2> QED  BY <1>1, <2>3
<1> HIDE DEF q
<1>3. CASE r.block = <<>>
  <2>1. q.stmts = r.stmts  BY <1>2, <1>3, OneSeq DEF Shape
  <2>2. ~BlockOpen(r)  BY <1>3, OneIsSome DEF BlockOpen
  <2> QED  BY <1>2, <1>3, <2>1, <2>2 DEF Shape, NothingOpen, RecordOpen, FamilyOpen, q
<1>4. CASE r.block # <<>>
  <2>1. BlockOpen(r)  BY <1>4 DEF Shape, NothingOpen, RecordOpen, FamilyOpen
  <2>2. q.stmts = Append(r.stmts, r.block[1])
    <3>1. r.block = <<r.block[1]>> /\ IsSeq(r.stmts)  BY <2>1 DEF BlockOpen, Shape
    <3>2. r.stmts \o <<r.block[1]>> = Append(r.stmts, r.block[1])  BY <3>1, OneSeq
    <3> QED  BY <1>2, <3>1, <3>2
  <2>3. IsSeq(q.stmts)  BY <2>2, AppendSeq DEF Shape
  <2>4. NothingOpen(q)  BY <1>2, <2>1 DEF BlockOpen, NothingOpen
  <2> QED  BY <1>2, <1>4, <2>2, <2>3, <2>4 DEF Shape, q
<1> QED  BY <1>3, <1>4

LEMMA WithMembers ==
  ASSUME NEW f, IsFamilyStmt(f), NEW ms
  PROVE  [f EXCEPT !.members = ms]
           = [k |-> "family", line |-> f.line, domain |-> f.domain, base |-> f.base,
              locals |-> f.locals, members |-> ms]
<1>1. f = [k |-> "family", line |-> f.line, domain |-> f.domain, base |-> f.base,
           locals |-> f.locals, members |-> f.members]
  BY DEF IsFamilyStmt
<1> QED  BY <1>1

LEMMA FlushMemberKeeps ==
  ASSUME NEW r, Shape(r), FamilyOpen(r)
  PROVE  LET q == FlushMember(r)
         IN  /\ Shape(q) /\ FamilyOpen(q) /\ q.member = <<>> /\ q.stmts = r.stmts
             /\ q.family = <<WithMember(r)>>
<1> DEFINE q == FlushMember(r)
           f == r.family[1]
<1>1. DOMAIN r = {"stmts", "record", "block", "family", "member"}  BY DEF Shape, Empty
<1>2. CASE r.member = <<>>
  <2>1. q = r  BY <1>2 DEF FlushMember
  <2> QED  BY <1>2, <2>1 DEF WithMember, FamilyOpen
<1>3. CASE r.member # <<>>
  <2>1. r.member = <<r.member[1]>> /\ IsRecordStmt(r.member[1])  BY <1>3 DEF FamilyOpen
  <2>2. IsSeq(f.members) /\ r.family = <<f>> /\ IsFamilyStmt(f)  BY DEF FamilyOpen, IsFamilyStmt
  <2>3. f.members \o r.member = Append(f.members, r.member[1])
    <3>1. f.members \o <<r.member[1]>> = Append(f.members, r.member[1])  BY <2>2, OneSeq
    <3> QED  BY <2>1, <3>1
  <2>4. q.family = <<[f EXCEPT !.members = f.members \o r.member]>>
    <3>1. q.family = [r.family EXCEPT ![1].members = @ \o r.member]
      BY <1>1, <1>3 DEF FlushMember
    <3>2. q.family = [<<f>> EXCEPT ![1] = [f EXCEPT !.members = f.members \o r.member]]
      BY <2>2, <3>1, OneIsSome
    <3> QED  BY <3>2, OneExcept
  <2>5. /\ DOMAIN q = DOMAIN r /\ q.member = <<>> /\ q.stmts = r.stmts
        /\ q.record = r.record /\ q.block = r.block
    BY <1>1, <1>3 DEF FlushMember
  <2>6. q.family = <<WithMember(r)>>  BY <1>3, <2>3, <2>4 DEF WithMember
  <2>7. IsFamilyStmt(WithMember(r))
    <3>1. WithMember(r) = [k |-> "family", line |-> f.line, domain |-> f.domain, base |-> f.base,
                           locals |-> f.locals, members |-> Append(f.members, r.member[1])]
      <4>1. WithMember(r) = [f EXCEPT !.members = Append(f.members, r.member[1])]
        BY <1>3 DEF WithMember
      <4> QED  BY <2>2, <4>1, WithMembers
    <3>2. /\ IsSeq(Append(f.members, r.member[1]))
          /\ Range(Append(f.members, r.member[1])) = Range(f.members) \cup {r.member[1]}
      BY <2>2, AppendSeq
    <3> QED  BY <2>1, <2>2, <3>1, <3>2 DEF IsFamilyStmt
  <2>8. q.family[1] = WithMember(r)  BY <2>6, OneIsSome
  <2>9. FamilyOpen(q)  BY <2>5, <2>6, <2>7, <2>8 DEF FamilyOpen
  <2> QED  BY <2>5, <2>6, <2>9 DEF Shape
<1> QED  BY <1>2, <1>3

LEMMA FlushFamilyKeeps ==
  ASSUME NEW r, Shape(r)
  PROVE  LET q == FlushFamily(r)
         IN  /\ Shape(q) /\ q.family = <<>> /\ q.member = <<>>
             /\ q.record = r.record /\ q.block = r.block
             /\ q.stmts = IF r.family = <<>> THEN r.stmts ELSE Append(r.stmts, WithMember(r))
<1>1. CASE r.family = <<>>
  <2>1. FlushFamily(r) = r  BY <1>1 DEF FlushFamily
  <2>2. ~FamilyOpen(r)  BY <1>1, OneIsSome DEF FamilyOpen
  <2> QED  BY <1>1, <2>1, <2>2 DEF Shape, NothingOpen, RecordOpen, BlockOpen
<1>2. CASE r.family # <<>>
  <2> DEFINE m == FlushMember(r)
             q == FlushFamily(r)
  <2>1. FamilyOpen(r)  BY <1>2 DEF Shape, NothingOpen, RecordOpen, BlockOpen
  <2>2. /\ Shape(m) /\ FamilyOpen(m) /\ m.member = <<>> /\ m.stmts = r.stmts
        /\ m.family = <<WithMember(r)>>
    BY <2>1, FlushMemberKeeps
  <2>3. m.record = r.record /\ m.block = r.block  BY <2>1, <2>2 DEF FamilyOpen
  <2>4. q = Flush(m, "family")  BY <1>2 DEF FlushFamily
  <2> HIDE DEF m, q
  <2>5. DOMAIN Empty = {"stmts", "record", "block", "family", "member"}  BY DEF Empty
  <2>6. /\ DOMAIN q = DOMAIN Empty /\ q.family = <<>> /\ q.stmts = m.stmts \o m.family
        /\ q.record = m.record /\ q.block = m.block /\ q.member = m.member
    <3>1. DOMAIN m = DOMAIN Empty  BY <2>2 DEF Shape
    <3>2. /\ DOMAIN Flush(m, "family") = DOMAIN Empty
          /\ Flush(m, "family")["family"] = <<>>
          /\ Flush(m, "family").stmts = m.stmts \o m["family"]
          /\ \A x \in DOMAIN Empty \ {"stmts", "family"} : Flush(m, "family")[x] = m[x]
      BY <3>1, FlushIs
    <3> QED  BY <2>4, <2>5, <3>2
  <2>7. q.stmts = Append(r.stmts, WithMember(r)) /\ IsSeq(q.stmts)
    <3>1. IsSeq(r.stmts)  BY DEF Shape
    <3>2. r.stmts \o <<WithMember(r)>> = Append(r.stmts, WithMember(r))  BY <3>1, OneSeq
    <3>3. IsSeq(Append(r.stmts, WithMember(r)))  BY <3>1, AppendSeq
    <3> QED  BY <2>2, <2>6, <3>2, <3>3
  <2>8. NothingOpen(q)  BY <2>2, <2>6 DEF NothingOpen, FamilyOpen
  <2> QED  BY <1>2, <2>2, <2>3, <2>6, <2>7, <2>8 DEF Shape, q
<1> QED  BY <1>1, <1>2

LEMMA EndedIs ==
  ASSUME NEW r, Shape(r)
  PROVE  Ended(r) = CASE r.record # <<>> -> Append(r.stmts, r.record[1])
                      [] r.block # <<>> -> Append(r.stmts, r.block[1])
                      [] r.family # <<>> -> Append(r.stmts, WithMember(r))
                      [] OTHER -> r.stmts
<1> DEFINE q1 == FlushRecord(r)
           q2 == FlushFamily(q1)
           q3 == FlushBlock(q2)
<1>1. /\ Shape(q1) /\ q1.record = <<>>
      /\ q1.block = r.block /\ q1.family = r.family /\ q1.member = r.member
      /\ q1.stmts = IF r.record = <<>> THEN r.stmts ELSE Append(r.stmts, r.record[1])
  BY FlushRecordKeeps
<1>2. WithMember(q1) = WithMember(r)  BY <1>1 DEF WithMember
<1> HIDE DEF q1
<1>3. /\ Shape(q2) /\ q2.block = q1.block
      /\ q2.stmts = IF q1.family = <<>> THEN q1.stmts ELSE Append(q1.stmts, WithMember(q1))
  BY <1>1, FlushFamilyKeeps
<1> HIDE DEF q2
<1>4. q3.stmts = IF q2.block = <<>> THEN q2.stmts ELSE Append(q2.stmts, q2.block[1])
  BY <1>3, FlushBlockKeeps
<1>5. Ended(r) = q3.stmts  BY DEF Ended, q1, q2
<1> HIDE DEF q3
<1>6. CASE NothingOpen(r)  BY <1>1, <1>3, <1>4, <1>5, <1>6 DEF NothingOpen
<1>7. CASE RecordOpen(r)
  <2>1. r.record # <<>>  BY <1>7, OneIsSome DEF RecordOpen
  <2> QED  BY <1>1, <1>3, <1>4, <1>5, <1>7, <2>1 DEF RecordOpen
<1>8. CASE BlockOpen(r)
  <2>1. r.block # <<>>  BY <1>8, OneIsSome DEF BlockOpen
  <2> QED  BY <1>1, <1>3, <1>4, <1>5, <1>8, <2>1 DEF BlockOpen
<1>9. CASE FamilyOpen(r)
  <2>1. r.family # <<>>  BY <1>9, OneIsSome DEF FamilyOpen
  <2> QED  BY <1>1, <1>2, <1>3, <1>4, <1>5, <1>9, <2>1 DEF FamilyOpen
<1> QED  BY <1>6, <1>7, <1>8, <1>9 DEF Shape

\* Flushing finishes what is open and changes nothing else of the part.
LEMMA FlushingKeeps ==
  ASSUME NEW r, Shape(r)
  PROVE  /\ Shape(FlushRecord(r)) /\ Ended(FlushRecord(r)) = Ended(r)
         /\ Shape(FlushBlock(r)) /\ Ended(FlushBlock(r)) = Ended(r)
         /\ Shape(FlushFamily(r)) /\ Ended(FlushFamily(r)) = Ended(r)
<1>1. /\ NothingOpen(r) => r.record = <<>> /\ r.block = <<>> /\ r.family = <<>>
      /\ RecordOpen(r) => r.record # <<>> /\ r.block = <<>> /\ r.family = <<>>
      /\ BlockOpen(r) => r.record = <<>> /\ r.block # <<>> /\ r.family = <<>>
      /\ FamilyOpen(r) => r.record = <<>> /\ r.block = <<>> /\ r.family # <<>>
  BY OneIsSome DEF NothingOpen, RecordOpen, BlockOpen, FamilyOpen
<1>2. Shape(FlushRecord(r)) /\ Ended(FlushRecord(r)) = Ended(r)
  <2> DEFINE q == FlushRecord(r)
  <2>1. /\ Shape(q) /\ q.record = <<>>
        /\ q.block = r.block /\ q.family = r.family /\ q.member = r.member
        /\ q.stmts = IF r.record = <<>> THEN r.stmts ELSE Append(r.stmts, r.record[1])
    BY FlushRecordKeeps
  <2>2. WithMember(q) = WithMember(r)  BY <2>1 DEF WithMember
  <2> HIDE DEF q
  <2>3. Ended(q) = Ended(r)  BY <1>1, <2>1, <2>2, EndedIs DEF Shape
  <2> QED  BY <2>1, <2>3 DEF q
<1>3. Shape(FlushBlock(r)) /\ Ended(FlushBlock(r)) = Ended(r)
  <2> DEFINE q == FlushBlock(r)
  <2>1. /\ Shape(q) /\ q.block = <<>>
        /\ q.record = r.record /\ q.family = r.family /\ q.member = r.member
        /\ q.stmts = IF r.block = <<>> THEN r.stmts ELSE Append(r.stmts, r.block[1])
    BY FlushBlockKeeps
  <2>2. WithMember(q) = WithMember(r)  BY <2>1 DEF WithMember
  <2> HIDE DEF q
  <2>3. Ended(q) = Ended(r)  BY <1>1, <2>1, <2>2, EndedIs DEF Shape
  <2> QED  BY <2>1, <2>3 DEF q
<1>4. Shape(FlushFamily(r)) /\ Ended(FlushFamily(r)) = Ended(r)
  <2> DEFINE q == FlushFamily(r)
  <2>1. /\ Shape(q) /\ q.family = <<>> /\ q.record = r.record /\ q.block = r.block
        /\ q.stmts = IF r.family = <<>> THEN r.stmts ELSE Append(r.stmts, WithMember(r))
    BY FlushFamilyKeeps
  <2> HIDE DEF q
  <2>2. Ended(q) = Ended(r)  BY <1>1, <2>1, EndedIs DEF Shape
  <2> QED  BY <2>1, <2>2 DEF q
<1> QED  BY <1>2, <1>3, <1>4

(***************************************************************************)
(* How a statement grows: by a field, a row, a local binding or a member   *)
(* that stands below all the statement holds.                              *)
(***************************************************************************)
\* A field on a line and the lines right below it.
FieldStands(f) ==
  /\ IsField(f) /\ Above({f.line}, Range(f.below))
  /\ \A i, j \in DOMAIN f.below : i < j => f.below[i] < f.below[j]

LEMMA RecordGrows ==
  ASSUME NEW r, IsRecordStmt(r), RecordInOrder(r), NEW f, FieldStands(f),
         Above(RecordLines(r), FieldLines(f))
  PROVE  LET t == [r EXCEPT !.fields = Append(@, f)]
         IN  /\ IsRecordStmt(t) /\ RecordInOrder(t) /\ t.line = r.line
             /\ RecordLines(t) = RecordLines(r) \cup FieldLines(f)
             /\ FieldsOf(t) = FieldsOf(r) \cup {f}
<1> DEFINE fs == r.fields
           t == [r EXCEPT !.fields = Append(@, f)]
           gs == Append(fs, f)
<1>1. IsSeq(fs) /\ Len(fs) \in Nat /\ DOMAIN fs = 1..Len(fs) /\ r.line \in Nat
  BY SeqIs DEF IsRecordStmt
<1>2. /\ IsSeq(gs) /\ DOMAIN gs = 1..(Len(fs) + 1) /\ Range(gs) = Range(fs) \cup {f}
      /\ \A i \in DOMAIN fs : gs[i] = fs[i]
      /\ gs[Len(fs) + 1] = f
  BY <1>1, AppendSeq
<1>3. t = [k |-> "record", line |-> r.line, fields |-> gs]
  <2>1. r = [k |-> "record", line |-> r.line, fields |-> r.fields]  BY DEF IsRecordStmt
  <2> QED  BY <2>1
<1> HIDE DEF t, gs
<1>4. t.fields = gs /\ t.line = r.line /\ t.k = "record"  BY <1>3
<1>5. IsRecordStmt(t)
  <2>1. \A g \in Range(gs) : IsField(g)  BY <1>2 DEF IsRecordStmt, FieldStands
  <2> QED  BY <1>1, <1>2, <1>3, <1>4, <2>1 DEF IsRecordStmt
<1>6. RecordLines(t) = RecordLines(r) \cup FieldLines(f)
  BY <1>2, <1>4 DEF RecordLines
<1>7. \A i \in DOMAIN gs : (i \in DOMAIN fs /\ gs[i] = fs[i]) \/ (i = Len(fs) + 1 /\ gs[i] = f)
  BY <1>1, <1>2
<1>8. \A i \in DOMAIN fs : FieldLines(fs[i]) \subseteq RecordLines(r)
  BY DEF RecordLines, Range
<1>9. RecordInOrder(t)
  <2>1. r.line < f.line
    <3>1. r.line \in RecordLines(r) /\ f.line \in FieldLines(f)  BY DEF RecordLines, FieldLines
    <3> QED  BY <3>1 DEF Above
  <2>2. ASSUME NEW n \in DOMAIN gs
        PROVE  /\ r.line < gs[n].line /\ Above({gs[n].line}, Range(gs[n].below))
               /\ \A i, j \in DOMAIN gs[n].below : i < j => gs[n].below[i] < gs[n].below[j]
    <3>1. CASE n \in DOMAIN fs /\ gs[n] = fs[n]  BY <3>1 DEF RecordInOrder
    <3>2. CASE gs[n] = f  BY <2>1, <3>2 DEF FieldStands
    <3> QED  BY <1>7, <3>1, <3>2
  <2>3. ASSUME NEW i \in DOMAIN gs, NEW j \in DOMAIN gs, i < j
        PROVE  Above(FieldLines(gs[i]), FieldLines(gs[j]))
    <3>1. i \in DOMAIN fs /\ gs[i] = fs[i]  BY <1>1, <1>2, <1>7, <2>3
    <3>2. CASE j \in DOMAIN fs /\ gs[j] = fs[j]  BY <2>3, <3>1, <3>2 DEF RecordInOrder
    <3>3. CASE gs[j] = f  BY <1>8, <3>1, <3>3 DEF Above
    <3> QED  BY <1>7, <3>2, <3>3
  <2> QED  BY <1>4, <2>2, <2>3 DEF RecordInOrder
<1>10. FieldsOf(t) = FieldsOf(r) \cup {f}
  <2>1. r.k = "record"  BY DEF IsRecordStmt
  <2> QED  BY <1>2, <1>4, <2>1 DEF FieldsOf
<1> QED  BY <1>4, <1>5, <1>6, <1>9, <1>10 DEF t

LEMMA BlockGrows ==
  ASSUME NEW b, b.k = "block", WellRead(b), NEW r, r.line \in Nat, Above(FlatLines(b), {r.line}),
         b.inline => RowFits(r, b.dur)
  PROVE  LET t == [b EXCEPT !.rows = Append(@, r)]
         IN  IsBlockStmt(t) /\ t.k = "block" /\ WellRead(t) /\ FlatLines(t) = FlatLines(b) \cup {r.line}
<1> DEFINE rs == b.rows
           t == [b EXCEPT !.rows = Append(@, r)]
           us == Append(rs, r)
<1>0. IsBlockStmt(b) /\ BlockInOrder(b) /\ (b.inline => RowsFit(b))  BY DEF WellRead, InOrder
<1>1. IsSeq(rs) /\ Len(rs) \in Nat /\ DOMAIN rs = 1..Len(rs) /\ b.line \in Nat
  BY <1>0, SeqIs DEF IsBlockStmt
<1>2. /\ IsSeq(us) /\ Len(us) = Len(rs) + 1 /\ DOMAIN us = 1..(Len(rs) + 1)
      /\ Range(us) = Range(rs) \cup {r}
      /\ \A i \in DOMAIN rs : us[i] = rs[i]
      /\ us[Len(rs) + 1] = r
  BY <1>1, AppendSeq
<1>3. t = [k |-> "block", line |-> b.line, dur |-> b.dur, each |-> b.each, mods |-> b.mods,
           inline |-> b.inline, rows |-> us]
  <2>1. b = [k |-> "block", line |-> b.line, dur |-> b.dur, each |-> b.each, mods |-> b.mods,
             inline |-> b.inline, rows |-> b.rows]
    BY <1>0 DEF IsBlockStmt
  <2> QED  BY <2>1
<1> HIDE DEF t, us
<1>4. /\ t.rows = us /\ t.line = b.line /\ t.k = "block" /\ t.inline = b.inline /\ t.dur = b.dur
      /\ t.each = b.each /\ t.mods = b.mods
  BY <1>3
<1>5. IsBlockStmt(t)  BY <1>0, <1>2, <1>3, <1>4 DEF IsBlockStmt
<1>6. FlatLines(b) = {b.line} \cup {x.line : x \in Range(rs)}
      /\ FlatLines(t) = {b.line} \cup {x.line : x \in Range(us)}
  BY <1>4 DEF FlatLines
<1>7. FlatLines(t) = FlatLines(b) \cup {r.line}  BY <1>2, <1>6
<1>8. \A i \in DOMAIN us : (i \in DOMAIN rs /\ us[i] = rs[i]) \/ (i = Len(rs) + 1 /\ us[i] = r)
  BY <1>1, <1>2
<1>9. b.line < r.line /\ \A i \in DOMAIN rs : rs[i].line < r.line
  BY <1>6 DEF Above, Range
<1>10. BlockInOrder(t)
  <2>1. b.inline => 1 \in DOMAIN rs /\ us # <<>> /\ us[1].line = b.line
    <3>1. ASSUME b.inline
          PROVE  rs # <<>> /\ rs[1].line = b.line
      BY <1>0, <3>1 DEF BlockInOrder
    <3>2. rs # <<>> => 1 \in DOMAIN rs
      <4>1. rs \in Seq(Range(rs))  BY <1>1 DEF IsSeq
      <4> QED  BY <1>1, <4>1
    <3>3. us # <<>>
      <4>1. Len(<<>>) = 0  OBVIOUS
      <4> QED  BY <1>1, <1>2, <4>1
    <3> QED  BY <1>2, <3>1, <3>2, <3>3
  <2>2. ASSUME NEW n \in DOMAIN us
        PROVE  (b.inline /\ n = 1) \/ b.line < us[n].line
    <3>1. CASE n \in DOMAIN rs /\ us[n] = rs[n]  BY <1>0, <3>1 DEF BlockInOrder
    <3>2. CASE us[n] = r  BY <1>9, <3>2
    <3> QED  BY <1>8, <3>1, <3>2
  <2>3. ASSUME NEW i \in DOMAIN us, NEW j \in DOMAIN us, i < j
        PROVE  us[i].line < us[j].line
    <3>1. i \in DOMAIN rs /\ us[i] = rs[i]  BY <1>1, <1>2, <1>8, <2>3
    <3>2. CASE j \in DOMAIN rs /\ us[j] = rs[j]  BY <1>0, <2>3, <3>1, <3>2 DEF BlockInOrder
    <3>3. CASE us[j] = r  BY <1>9, <3>1, <3>3
    <3> QED  BY <1>8, <3>2, <3>3
  <2> QED  BY <1>4, <2>1, <2>2, <2>3 DEF BlockInOrder
<1>11. ASSUME b.inline
       PROVE  RowsFit(t)
  <2>1. \A i \in 2..Len(rs) : RowFits(rs[i], b.dur)  BY <1>0, <1>11 DEF RowsFit
  <2>2. RowFits(r, b.dur)  BY <1>11
  <2>3. \A i \in 2..Len(us) : RowFits(us[i], b.dur)
    <3> SUFFICES ASSUME NEW i \in 2..Len(us)
                 PROVE  RowFits(us[i], b.dur)
      OBVIOUS
    <3>1. i \in DOMAIN us  BY <1>1, <1>2
    <3>2. CASE i \in DOMAIN rs /\ us[i] = rs[i]
      <4>1. i \in 2..Len(rs)  BY <1>1, <3>2
      <4> QED  BY <2>1, <3>2, <4>1
    <3>3. CASE us[i] = r  BY <2>2, <3>3
    <3> QED  BY <1>8, <3>1, <3>2, <3>3
  <2> QED  BY <1>4, <2>3 DEF RowsFit
<1>12. WellRead(t)
  <2>1. InOrder(t)  BY <1>4, <1>10 DEF InOrder
  <2> QED  BY <1>1, <1>4, <1>5, <1>11, <2>1 DEF WellRead
<1> QED  BY <1>4, <1>5, <1>7, <1>12 DEF t

LEMMA FamilyFlatLines ==
  ASSUME NEW f, f.k = "family"
  PROVE  FlatLines(f) = {f.line} \cup {l.line : l \in Range(f.locals)}
                          \cup UNION {RecordLines(m) : m \in Range(f.members)}
BY DEF FlatLines

\* The indent of its first line is none of a family's lines.
LEMMA FamilyBased ==
  ASSUME NEW f, f.k = "family", WellRead(f), NEW b
  PROVE  LET t == [f EXCEPT !.base = b]
         IN  /\ IsFamilyStmt(t) /\ t.k = "family" /\ WellRead(t) /\ FlatLines(t) = FlatLines(f)
             /\ FieldsOf(t) = FieldsOf(f)
<1> DEFINE t == [f EXCEPT !.base = b]
<1>0. IsFamilyStmt(f) /\ FamilyInOrder(f)  BY DEF WellRead, InOrder
<1>1. t = [k |-> "family", line |-> f.line, domain |-> f.domain, base |-> b,
           locals |-> f.locals, members |-> f.members]
  BY <1>0 DEF IsFamilyStmt
<1> HIDE DEF t
<1>2. /\ t.k = "family" /\ t.line = f.line /\ t.locals = f.locals /\ t.members = f.members
      /\ t.domain = f.domain /\ t.base = b
  BY <1>1
<1>3. IsFamilyStmt(t)  BY <1>0, <1>1, <1>2 DEF IsFamilyStmt
<1>4. FlatLines(t) = FlatLines(f)  BY <1>2, FamilyFlatLines
<1>5. FamilyInOrder(t)  BY <1>0, <1>2 DEF FamilyInOrder
<1>6. WellRead(t)
  <2>1. InOrder(t)  BY <1>2, <1>5 DEF InOrder
  <2> QED  BY <1>0, <1>2, <1>3, <2>1 DEF WellRead, IsFamilyStmt
<1>7. FieldsOf(t) = FieldsOf(f)  BY <1>2 DEF FieldsOf
<1> QED  BY <1>2, <1>3, <1>4, <1>6, <1>7 DEF t

LEMMA FamilyGrowsLocal ==
  ASSUME NEW f, f.k = "family", WellRead(f), NEW l, l.line \in Nat, Above(FlatLines(f), {l.line})
  PROVE  LET t == [f EXCEPT !.locals = Append(@, l)]
         IN  /\ IsFamilyStmt(t) /\ t.k = "family" /\ WellRead(t)
             /\ FlatLines(t) = FlatLines(f) \cup {l.line} /\ FieldsOf(t) = FieldsOf(f)
<1> DEFINE ls == f.locals
           t == [f EXCEPT !.locals = Append(@, l)]
           us == Append(ls, l)
<1>0. IsFamilyStmt(f) /\ FamilyInOrder(f)  BY DEF WellRead, InOrder
<1>1. IsSeq(ls) /\ Len(ls) \in Nat /\ DOMAIN ls = 1..Len(ls) /\ f.line \in Nat
  BY <1>0, SeqIs DEF IsFamilyStmt
<1>2. /\ IsSeq(us) /\ DOMAIN us = 1..(Len(ls) + 1) /\ Range(us) = Range(ls) \cup {l}
      /\ \A i \in DOMAIN ls : us[i] = ls[i]
      /\ us[Len(ls) + 1] = l
  BY <1>1, AppendSeq
<1>3. t = [k |-> "family", line |-> f.line, domain |-> f.domain, base |-> f.base,
           locals |-> us, members |-> f.members]
  <2>1. f = [k |-> "family", line |-> f.line, domain |-> f.domain, base |-> f.base,
             locals |-> f.locals, members |-> f.members]
    BY <1>0 DEF IsFamilyStmt
  <2> QED  BY <2>1, SMTT(30)
<1> HIDE DEF t, us
<1>4. /\ t.k = "family" /\ t.line = f.line /\ t.locals = us /\ t.members = f.members
      /\ t.domain = f.domain /\ t.base = f.base
  BY <1>3
<1>5. IsFamilyStmt(t)  BY <1>0, <1>2, <1>3, <1>4 DEF IsFamilyStmt
<1>6. FlatLines(t) = FlatLines(f) \cup {l.line}  BY <1>2, <1>4, FamilyFlatLines
<1>7. /\ f.line < l.line /\ \A i \in DOMAIN ls : ls[i].line < l.line
      /\ \A m \in Range(f.members) : Above(RecordLines(m), {l.line})
  <2>1. /\ f.line \in FlatLines(f) /\ \A m \in Range(f.members) : RecordLines(m) \subseteq FlatLines(f)
        /\ \A i \in DOMAIN ls : ls[i].line \in FlatLines(f)
    BY FamilyFlatLines DEF Range
  <2> QED  BY <2>1 DEF Above
<1>8. \A i \in DOMAIN us : (i \in DOMAIN ls /\ us[i] = ls[i]) \/ (i = Len(ls) + 1 /\ us[i] = l)
  BY <1>1, <1>2
<1>9. FamilyInOrder(t)
  <2>1. \A x \in Range(us) : f.line < x.line  BY <1>0, <1>2, <1>7 DEF FamilyInOrder
  <2>2. ASSUME NEW i \in DOMAIN us, NEW j \in DOMAIN us, i < j
        PROVE  us[i].line < us[j].line
    <3>1. i \in DOMAIN ls /\ us[i] = ls[i]  BY <1>1, <1>2, <1>8, <2>2
    <3>2. CASE j \in DOMAIN ls /\ us[j] = ls[j]  BY <1>0, <2>2, <3>1, <3>2 DEF FamilyInOrder
    <3>3. CASE us[j] = l  BY <1>7, <3>1, <3>3
    <3> QED  BY <1>8, <3>2, <3>3
  <2>3. \A x \in Range(us), m \in Range(f.members) :
          x.line < m.line \/ Above(RecordLines(m), {x.line})
    BY <1>0, <1>2, <1>7 DEF FamilyInOrder
  <2> QED  BY <1>0, <1>4, <2>1, <2>2, <2>3 DEF FamilyInOrder
<1>10. WellRead(t)
  <2>1. InOrder(t)  BY <1>4, <1>9 DEF InOrder
  <2> QED  BY <1>1, <1>4, <1>5, <2>1 DEF WellRead
<1>11. FieldsOf(t) = FieldsOf(f)  BY <1>4 DEF FieldsOf
<1> QED  BY <1>4, <1>5, <1>6, <1>10, <1>11 DEF t

LEMMA FamilyGrowsMember ==
  ASSUME NEW f, f.k = "family", WellRead(f),
         NEW m, IsRecordStmt(m), RecordInOrder(m), Above(FlatLines(f), RecordLines(m))
  PROVE  LET t == [f EXCEPT !.members = Append(@, m)]
         IN  IsFamilyStmt(t) /\ t.k = "family" /\ WellRead(t)
             /\ FlatLines(t) = FlatLines(f) \cup RecordLines(m)
             /\ FieldsOf(t) = FieldsOf(f) \cup FieldsOf(m)
<1> DEFINE ms == f.members
           t == [f EXCEPT !.members = Append(@, m)]
           us == Append(ms, m)
<1>0. IsFamilyStmt(f) /\ FamilyInOrder(f)  BY DEF WellRead, InOrder
<1>1. IsSeq(ms) /\ Len(ms) \in Nat /\ DOMAIN ms = 1..Len(ms) /\ f.line \in Nat
  BY <1>0, SeqIs DEF IsFamilyStmt
<1>2. /\ IsSeq(us) /\ DOMAIN us = 1..(Len(ms) + 1) /\ Range(us) = Range(ms) \cup {m}
      /\ \A i \in DOMAIN ms : us[i] = ms[i]
      /\ us[Len(ms) + 1] = m
  BY <1>1, AppendSeq
<1>3. t = [k |-> "family", line |-> f.line, domain |-> f.domain, base |-> f.base,
           locals |-> f.locals, members |-> us]
  BY <1>0 DEF IsFamilyStmt
<1> HIDE DEF t, us
<1>4. /\ t.k = "family" /\ t.line = f.line /\ t.locals = f.locals /\ t.members = us
      /\ t.domain = f.domain /\ t.base = f.base
  BY <1>3
<1>5. IsFamilyStmt(t)  BY <1>0, <1>2, <1>3, <1>4 DEF IsFamilyStmt
<1>6. FlatLines(t) = FlatLines(f) \cup RecordLines(m)  BY <1>2, <1>4, FamilyFlatLines
<1>7. /\ f.line < m.line
      /\ \A l \in Range(f.locals) : l.line < m.line
      /\ \A i \in DOMAIN ms : Above(RecordLines(ms[i]), RecordLines(m))
  <2>1. /\ f.line \in FlatLines(f) /\ \A i \in DOMAIN ms : RecordLines(ms[i]) \subseteq FlatLines(f)
        /\ \A l \in Range(f.locals) : l.line \in FlatLines(f)
    BY FamilyFlatLines DEF Range
  <2>2. m.line \in RecordLines(m)  BY DEF RecordLines
  <2> QED  BY <2>1, <2>2 DEF Above
<1>8. \A i \in DOMAIN us : (i \in DOMAIN ms /\ us[i] = ms[i]) \/ (i = Len(ms) + 1 /\ us[i] = m)
  BY <1>1, <1>2
<1>9. FamilyInOrder(t)
  <2>1. \A x \in Range(us) : f.line < x.line /\ RecordInOrder(x)
    BY <1>0, <1>2, <1>7 DEF FamilyInOrder
  <2>2. ASSUME NEW i \in DOMAIN us, NEW j \in DOMAIN us, i < j
        PROVE  Above(RecordLines(us[i]), RecordLines(us[j]))
    <3>1. i \in DOMAIN ms /\ us[i] = ms[i]  BY <1>1, <1>2, <1>8, <2>2
    <3>2. CASE j \in DOMAIN ms /\ us[j] = ms[j]  BY <1>0, <2>2, <3>1, <3>2 DEF FamilyInOrder
    <3>3. CASE us[j] = m  BY <1>7, <3>1, <3>3
    <3> QED  BY <1>8, <3>2, <3>3
  <2>3. \A l \in Range(f.locals), x \in Range(us) :
          l.line < x.line \/ Above(RecordLines(x), {l.line})
    BY <1>0, <1>2, <1>7 DEF FamilyInOrder
  <2> QED  BY <1>0, <1>4, <2>1, <2>2, <2>3 DEF FamilyInOrder
<1>10. WellRead(t)
  <2>1. InOrder(t)  BY <1>4, <1>9 DEF InOrder
  <2> QED  BY <1>1, <1>4, <1>5, <2>1 DEF WellRead
<1>11. FieldsOf(t) = FieldsOf(f) \cup FieldsOf(m)
  <2>1. m.k = "record"  BY DEF IsRecordStmt
  <2>2. FieldsOf(m) = Range(m.fields)  BY <2>1 DEF FieldsOf
  <2>3. FieldsOf(t) = UNION {Range(x.fields) : x \in Range(us)}  BY <1>4 DEF FieldsOf
  <2>4. FieldsOf(f) = UNION {Range(x.fields) : x \in Range(ms)}  BY DEF FieldsOf
  <2> QED  BY <1>2, <2>2, <2>3, <2>4
<1> QED  BY <1>4, <1>5, <1>6, <1>10, <1>11 DEF t

(***************************************************************************)
(* The invariant: what is read of a part, and the parts read before it,    *)
(* hold the lines up to the one at hand, in their order.                   *)
(***************************************************************************)
\* The open member of a family is the last thing in it.
MemberStands(r) ==
  r.member # <<>> =>
    /\ WellRead(r.family[1]) /\ RecordInOrder(r.member[1])
    /\ Above(FlatLines(r.family[1]), RecordLines(r.member[1]))

Written(n) == {lines[i].line : i \in {j \in DOMAIN lines : j < n /\ lines[j].txt # <<>>}}
DefLine == {def} \ {0}
TreeLines == UNION {StmtLines(s) : s \in Range(tree)}

TreeStmt(s) ==
  IF s.k = "sceneDef"
  THEN s.line \in Nat /\ Layout(s.body) /\ Above({s.line}, LinesOf(s.body))
  ELSE WellRead(s)
TreeStands ==
  /\ IsSeq(tree)
  /\ \A s \in Range(tree) : TreeStmt(s)
  /\ \A i, j \in DOMAIN tree : i < j => Above(StmtLines(tree[i]), StmtLines(tree[j]))

PartStands(r, n) ==
  /\ n \in Nat \ {0} /\ n <= Len(lines) + 1
  /\ Shape(r) /\ MemberStands(r) /\ Layout(Ended(r))
  /\ TreeLines \cup DefLine \cup LinesOf(Ended(r)) = Written(n)
  /\ Above(TreeLines, DefLine \cup LinesOf(Ended(r)))
  /\ Above(DefLine, LinesOf(Ended(r)))

IInv ==
  /\ ScanStands
  /\ def \in Nat
  /\ stage = "scan" => def = 0 /\ tree = <<>> /\ p = Empty
  /\ TreeStands
  /\ stage = "parse" => PartStands(p, at)
  /\ stage = "done" => TreeLines = WrittenLines

(***************************************************************************)
(* One line further.                                                       *)
(***************************************************************************)
\* The lines from the one at hand up to line n.
New(n) == {lines[i].line : i \in {j \in DOMAIN lines : at <= j /\ j < n /\ lines[j].txt # <<>>}}

\* What a step that reads lines promises.
Took ==
  /\ UNCHANGED <<doc, stage, lines, pend, def, tree>>
  /\ at' \in Nat /\ at < at' /\ at' <= Len(lines) + 1
  /\ Shape(p') /\ MemberStands(p') /\ Layout(Ended(p'))
  /\ LinesOf(Ended(p')) = LinesOf(Ended(p)) \cup New(at')
  /\ \A f \in FieldsIn(Ended(p')) : f \in FieldsIn(Ended(p)) \/ FromLine(f)

LEMMA LinesAhead ==
  ASSUME IInv, stage = "parse", NEW n \in Nat, at <= n
  PROVE  /\ Written(n) = Written(at) \cup New(n)
         /\ Above(Written(at), New(n))
<1>1. LinesStand /\ IsSeq(lines)  BY DEF IInv, ScanStands, LinesStand
<1>2. Len(lines) \in Nat /\ DOMAIN lines = 1..Len(lines) /\ at \in Nat
  BY <1>1, SeqIs DEF IInv, PartStands
<1>3. Written(n) = Written(at) \cup New(n)  BY <1>2 DEF Written, New
<1>4. Above(Written(at), New(n))  BY <1>1, <1>2 DEF Above, Written, New, LinesStand
<1> QED  BY <1>3, <1>4

LEMMA AtHand ==
  ASSUME IInv, Reading
  PROVE  /\ at \in DOMAIN lines /\ stage = "parse" /\ LinesStand
         /\ at + 1 \in Nat /\ at < at + 1 /\ at + 1 <= Len(lines) + 1
         /\ Line.line \in Nat
         /\ New(at + 1) = IF Line.txt = <<>> THEN {} ELSE {Line.line}
         /\ Above(LinesOf(Ended(p)), New(at + 1))
<1>1. at \in DOMAIN lines /\ stage = "parse"  BY DEF Reading, PartEnds
<1>2. LinesStand /\ IsSeq(lines)  BY DEF IInv, ScanStands, LinesStand
<1>3. Len(lines) \in Nat /\ DOMAIN lines = 1..Len(lines)  BY <1>2, SeqIs
<1>4. Line.line \in Nat  BY <1>1, <1>2 DEF Line, LinesStand
<1>5. New(at + 1) = IF Line.txt = <<>> THEN {} ELSE {Line.line}
  <2>1. \A j \in DOMAIN lines : at <= j /\ j < at + 1 <=> j = at  BY <1>1, <1>3
  <2> QED  BY <1>1, <2>1 DEF New, Line
<1>6. Above(LinesOf(Ended(p)), New(at + 1))
  <2>1. LinesOf(Ended(p)) \subseteq Written(at)  BY <1>1 DEF IInv, PartStands
  <2>2. Above(Written(at), New(at + 1))
    <3>1. at + 1 \in Nat /\ at <= at + 1  BY <1>1, <1>3
    <3> QED  BY <1>1, <3>1, LinesAhead
  <2> QED  BY <2>1, <2>2 DEF Above
<1> QED  BY <1>1, <1>2, <1>3, <1>4, <1>5, <1>6

\* What was read keeps what is said of it while the lines stay.
LEMMA LayoutStays ==
  ASSUME lines' = lines
  PROVE  /\ \A s : WellRead(s) => WellRead(s)'
         /\ \A ss : Layout(ss) => Layout(ss)'
         /\ \A s : TreeStmt(s) => TreeStmt(s)'
<1>1. \A s : WellRead(s) => WellRead(s)'  BY DEF WellRead, RowsFit, RowFits
<1>2. \A ss : Layout(ss) => Layout(ss)'  BY <1>1 DEF Layout
<1>3. \A s : TreeStmt(s) => TreeStmt(s)'  BY <1>1, <1>2 DEF TreeStmt
<1> QED  BY <1>1, <1>2, <1>3

LEMMA TookKeeps ==
  ASSUME IInv, stage = "parse", Took
  PROVE  IInv'
<1>1. UNCHANGED <<doc, stage, lines, pend, def, tree>> /\ stage' = "parse"  BY DEF Took
<1>2. ScanStands'  BY <1>1 DEF IInv, ScanStands, LinesStand
<1>3. TreeStands'
  BY <1>1, LayoutStays DEF IInv, TreeStands
<1>4. PartStands(p', at')
  <2>1. at \in Nat \ {0}  BY DEF IInv, PartStands
  <2>2. /\ Written(at') = Written(at) \cup New(at') /\ Above(Written(at), New(at'))
    BY <2>1, LinesAhead DEF Took
  <2>3. /\ TreeLines \cup DefLine \cup LinesOf(Ended(p)) = Written(at)
        /\ Above(TreeLines, DefLine \cup LinesOf(Ended(p)))
        /\ Above(DefLine, LinesOf(Ended(p)))
    BY DEF IInv, PartStands
  <2>4. TreeLines \cup DefLine \cup LinesOf(Ended(p')) = Written(at')
    BY <2>2, <2>3 DEF Took
  <2>5. /\ Above(TreeLines, DefLine \cup LinesOf(Ended(p')))
        /\ Above(DefLine, LinesOf(Ended(p')))
    <3>1. TreeLines \subseteq Written(at) /\ DefLine \subseteq Written(at)  BY <2>3
    <3>2. LinesOf(Ended(p')) = LinesOf(Ended(p)) \cup New(at')  BY DEF Took
    <3> QED  BY <2>2, <2>3, <3>1, <3>2 DEF Above
  <2>6. at' \in Nat \ {0}  BY <2>1 DEF Took
  <2> QED  BY <2>4, <2>5, <2>6 DEF PartStands, Took
<1>5. PartStands(p, at)'
  <2>1. MemberStands(p') => MemberStands(p)'  BY <1>1, LayoutStays DEF MemberStands
  <2>2. Layout(Ended(p')) => Layout(Ended(p))'  BY <1>1, LayoutStays
  <2> QED  BY <1>1, <1>4, <2>1, <2>2 DEF PartStands, TreeLines, DefLine, Written
<1>6. def' \in Nat  BY <1>1 DEF IInv
<1> QED  BY <1>1, <1>2, <1>3, <1>5, <1>6 DEF IInv

(***************************************************************************)
(* A line at the top level begins a statement.                             *)
(***************************************************************************)
\* Where a new statement is put when nothing is open.
Opened(q, r, s) ==
  \/ r = [q EXCEPT !.stmts = Append(@, s)]
  \/ r = [q EXCEPT !.record = <<s>>] /\ IsRecordStmt(s)
  \/ r = [q EXCEPT !.block = <<s>>] /\ IsBlockStmt(s)
  \/ r = [q EXCEPT !.family = <<s>>] /\ IsFamilyStmt(s)

LEMMA OpenedEnds ==
  ASSUME NEW q, Shape(q), NothingOpen(q), NEW s, NEW r, Opened(q, r, s)
  PROVE  Shape(r) /\ r.member = <<>> /\ Ended(r) = Append(Ended(q), s)
<1>1. DOMAIN q = {"stmts", "record", "block", "family", "member"} /\ DOMAIN q = DOMAIN Empty
  BY DEF Shape, Empty
<1>2. IsSeq(q.stmts) /\ Ended(q) = q.stmts  BY EndedIs DEF NothingOpen, Shape
<1>3. IsSeq(Append(q.stmts, s))  BY <1>2, AppendSeq
<1>4. <<s>> # <<>> /\ <<s>>[1] = s  BY OneIsSome
<1>5. CASE r = [q EXCEPT !.stmts = Append(@, s)]
  <2>1. /\ DOMAIN r = DOMAIN Empty /\ r.stmts = Append(q.stmts, s)
        /\ r.record = <<>> /\ r.block = <<>> /\ r.family = <<>> /\ r.member = <<>>
    BY <1>1, <1>5 DEF NothingOpen
  <2>2. Shape(r)  BY <1>3, <2>1 DEF Shape, NothingOpen
  <2> QED  BY <1>2, <2>1, <2>2, EndedIs
<1>6. CASE r = [q EXCEPT !.record = <<s>>] /\ IsRecordStmt(s)
  <2>1. /\ DOMAIN r = DOMAIN Empty /\ r.stmts = q.stmts
        /\ r.record = <<s>> /\ r.block = <<>> /\ r.family = <<>> /\ r.member = <<>>
    BY <1>1, <1>6 DEF NothingOpen
  <2>2. Shape(r)  BY <1>2, <1>4, <1>6, <2>1 DEF Shape, RecordOpen
  <2> QED  BY <1>2, <1>4, <2>1, <2>2, EndedIs
<1>7. CASE r = [q EXCEPT !.block = <<s>>] /\ IsBlockStmt(s)
  <2>1. /\ DOMAIN r = DOMAIN Empty /\ r.stmts = q.stmts
        /\ r.record = <<>> /\ r.block = <<s>> /\ r.family = <<>> /\ r.member = <<>>
    BY <1>1, <1>7 DEF NothingOpen
  <2>2. Shape(r)  BY <1>2, <1>4, <1>7, <2>1 DEF Shape, BlockOpen
  <2> QED  BY <1>2, <1>4, <2>1, <2>2, EndedIs
<1>8. CASE r = [q EXCEPT !.family = <<s>>] /\ IsFamilyStmt(s)
  <2>1. /\ DOMAIN r = DOMAIN Empty /\ r.stmts = q.stmts
        /\ r.record = <<>> /\ r.block = <<>> /\ r.family = <<s>> /\ r.member = <<>>
    BY <1>1, <1>8 DEF NothingOpen
  <2>2. Shape(r)  BY <1>2, <1>4, <1>8, <2>1 DEF Shape, FamilyOpen
  <2>3. WithMember(r) = s  BY <1>4, <2>1 DEF WithMember
  <2> QED  BY <1>2, <1>4, <2>1, <2>2, <2>3, EndedIs
<1> QED  BY <1>5, <1>6, <1>7, <1>8 DEF Opened

LEMMA OpenedTook ==
  ASSUME IInv, Reading, Line.txt # <<>>, NEW q, Shape(q), NothingOpen(q), Ended(q) = Ended(p),
         NEW s, WellRead(s), FlatLines(s) = {Line.line}, FieldsOf(s) = {},
         NEW r, Opened(q, r, s), Accept(r)
  PROVE  Took
<1>1. Shape(r) /\ r.member = <<>> /\ Ended(r) = Append(Ended(p), s)  BY OpenedEnds
<1>2. /\ at \in DOMAIN lines /\ stage = "parse"
      /\ at + 1 \in Nat /\ at < at + 1 /\ at + 1 <= Len(lines) + 1
      /\ New(at + 1) = {Line.line} /\ Above(LinesOf(Ended(p)), New(at + 1))
  BY AtHand
<1>3. Layout(Ended(p)) /\ IsSeq(Ended(p))  BY <1>2 DEF IInv, PartStands, Layout
<1>4. Layout(Ended(r)) /\ LinesOf(Ended(r)) = LinesOf(Ended(p)) \cup New(at + 1)
  <2>1. Above(LinesOf(Ended(p)), FlatLines(s))  BY <1>2
  <2>2. Layout(Append(Ended(p), s))  BY <1>3, <2>1, LayoutAppend
  <2>3. LinesOf(Append(Ended(p), s)) = LinesOf(Ended(p)) \cup FlatLines(s)  BY <1>3, LinesOfAppend
  <2> QED  BY <1>1, <1>2, <2>2, <2>3
<1>5. MemberStands(r)  BY <1>1 DEF MemberStands
<1>6. FieldsIn(Ended(r)) = FieldsIn(Ended(p))  BY <1>1, <1>3, FieldsInAppend
<1> QED  BY <1>1, <1>2, <1>4, <1>5, <1>6 DEF Accept, Took

LEMMA NewRecord ==
  ASSUME NEW l, l.line \in Nat
  PROVE  /\ IsRecordStmt(Record(l)) /\ Record(l).line = l.line
         /\ RecordLines(Record(l)) = {l.line} /\ RecordInOrder(Record(l))
         /\ WellRead(Record(l)) /\ FlatLines(Record(l)) = {l.line} /\ FieldsOf(Record(l)) = {}
<1> DEFINE r == Record(l)
<1>1. r = [k |-> "record", line |-> l.line, fields |-> <<>>]  BY DEF Record
<1>2. r.k = "record" /\ r.line = l.line /\ r.fields = <<>>  BY <1>1
<1>3. IsSeq(<<>>) /\ Range(<<>>) = {} /\ DOMAIN <<>> = {}  BY EmptyIsSeq
<1> HIDE DEF r
<1>4. IsRecordStmt(r)  BY <1>1, <1>2, <1>3 DEF IsRecordStmt
<1>5. RecordLines(r) = {l.line} /\ RecordInOrder(r)  BY <1>2, <1>3 DEF RecordLines, RecordInOrder
<1>6. WellRead(r) /\ FlatLines(r) = {l.line}
  BY <1>2, <1>4, <1>5 DEF WellRead, FlatLines, InOrder
<1>7. FieldsOf(r) = {}  BY <1>2, <1>3 DEF FieldsOf
<1> QED  BY <1>2, <1>4, <1>5, <1>6, <1>7 DEF r

LEMMA NewFamily ==
  ASSUME NEW l, l.line \in Nat, NEW e
  PROVE  /\ IsFamilyStmt(Family(l, e)) /\ WellRead(Family(l, e)) /\ FlatLines(Family(l, e)) = {l.line}
         /\ FieldsOf(Family(l, e)) = {}
<1> DEFINE f == Family(l, e)
<1>1. f = [k |-> "family", line |-> l.line, domain |-> e, base |-> 0, locals |-> <<>>, members |-> <<>>]
  BY DEF Family
<1>2. /\ f.k = "family" /\ f.line = l.line /\ f.domain = e /\ f.base = 0
      /\ f.locals = <<>> /\ f.members = <<>>
  BY <1>1
<1>3. IsSeq(<<>>) /\ Range(<<>>) = {} /\ DOMAIN <<>> = {}  BY EmptyIsSeq
<1> HIDE DEF f
<1>4. IsFamilyStmt(f)  BY <1>1, <1>2, <1>3 DEF IsFamilyStmt
<1>5. FamilyInOrder(f)  BY <1>2, <1>3 DEF FamilyInOrder
<1>6. WellRead(f)
  <2>1. InOrder(f)  BY <1>2, <1>5 DEF InOrder
  <2> QED  BY <1>2, <1>4, <2>1 DEF WellRead
<1>7. FlatLines(f) = {l.line}  BY <1>2, <1>3, FamilyFlatLines
<1>8. FieldsOf(f) = {}  BY <1>2, <1>3 DEF FieldsOf
<1> QED  BY <1>4, <1>6, <1>7, <1>8 DEF f

LEMMA NewOther ==
  ASSUME NEW s, s.line \in Nat, s.k \notin {"record", "block", "family", "sceneDef"}
  PROVE  WellRead(s) /\ FlatLines(s) = {s.line} /\ FieldsOf(s) = {}
BY DEF WellRead, FlatLines, InOrder, FieldsOf

LEMMA NewBlock ==
  ASSUME NEW l, l.line \in Nat, NEW head, NEW rest, ParseBlockHeader(l, head, rest) # <<>>
  PROVE  LET b == ParseBlockHeader(l, head, rest)[1]
         IN  /\ ParseBlockHeader(l, head, rest) = <<b>>
             /\ IsBlockStmt(b) /\ b.k = "block" /\ WellRead(b) /\ FlatLines(b) = {l.line}
             /\ FieldsOf(b) = {}
<1> DEFINE row == Row(l, [rest EXCEPT !.mods = <<>>])
           rows == IF rest.op # NoOp THEN <<row>> ELSE <<>>
           b == [k |-> "block", line |-> l.line, dur |-> Clock[BlockClock(head)].v,
                 each |-> Contains(head, "each"), mods |-> rest.mods, inline |-> rest.op # NoOp,
                 rows |-> rows]
<1>1. ParseBlockHeader(l, head, rest) = <<b>> /\ BlockClock(head) # "none"
  BY DEF ParseBlockHeader
<1>2. Clock[BlockClock(head)].v \in Nat
  <2>1. BlockClock(head) \in DOMAIN Clock
    <3>1. EachClock(head) \in DOMAIN Clock \cup {"none"}  BY DEF EachClock
    <3>2. BlockClock(head) \in DOMAIN Clock \cup {"none"}  BY <3>1 DEF BlockClock
    <3> QED  BY <1>1, <3>2
  <2> QED  BY <2>1, ReaderAssumption
<1>3. row.line = l.line  BY DEF Row
<1>4. IsSeq(rows) /\ (\A r \in Range(rows) : r.line = l.line) /\ Len(rows) <= 1
      /\ (rest.op # NoOp => rows # <<>> /\ rows[1].line = l.line)
  <2>1. CASE rest.op # NoOp
    <3>1. rows = <<row>>  BY <2>1
    <3> HIDE DEF rows, row
    <3>2. IsSeq(<<row>>) /\ Range(<<row>>) = {row}  BY EmptyIsSeq, OneSeq
    <3>3. <<row>> # <<>> /\ <<row>>[1] = row /\ Len(<<row>>) = 1  BY OneIsSome
    <3> QED  BY <1>3, <3>1, <3>2, <3>3
  <2>2. CASE ~(rest.op # NoOp)
    <3>1. rows = <<>>  BY <2>2
    <3> HIDE DEF rows
    <3> QED  BY <2>2, <3>1, EmptyIsSeq
  <2> QED  BY <2>1, <2>2
<1> HIDE DEF rows, row
<1>5. /\ b.k = "block" /\ b.line = l.line /\ b.rows = rows /\ b.inline = (rest.op # NoOp)
      /\ b.dur \in Nat
  BY <1>2
<1>6. IsBlockStmt(b)  BY <1>2, <1>4 DEF IsBlockStmt
<1> HIDE DEF b
<1>7. Len(rows) \in Nat /\ DOMAIN rows = 1..Len(rows) /\ \A i \in DOMAIN rows : i = 1
  BY <1>4, SeqIs
<1>8. FlatLines(b) = {l.line}
  <2>1. FlatLines(b) = {b.line} \cup {r.line : r \in Range(b.rows)}  BY <1>5 DEF FlatLines
  <2> QED  BY <1>4, <1>5, <2>1
<1>9. BlockInOrder(b)
  <2>1. CASE rest.op # NoOp
    <3>1. b.inline /\ rows # <<>> /\ rows[1].line = l.line  BY <1>4, <1>5, <2>1
    <3>2. \A n \in DOMAIN rows : n = 1  BY <1>7
    <3>3. \A i, j \in DOMAIN rows : i < j => FALSE  BY <3>2
    <3> QED  BY <1>5, <3>1, <3>2, <3>3 DEF BlockInOrder
  <2>2. CASE ~(rest.op # NoOp)
    <3>1. ~b.inline /\ rows = <<>>  BY <1>5, <2>2 DEF rows
    <3>2. DOMAIN <<>> = {}  OBVIOUS
    <3> QED  BY <1>5, <3>1, <3>2 DEF BlockInOrder
  <2> QED  BY <2>1, <2>2
<1>10. RowsFit(b)
  <2>1. 2..Len(b.rows) = {}  BY <1>4, <1>5, <1>7
  <2> QED  BY <2>1 DEF RowsFit
<1>11. WellRead(b)
  <2>1. InOrder(b)  BY <1>5, <1>9 DEF InOrder
  <2> QED  BY <1>5, <1>6, <1>10, <2>1 DEF WellRead
<1>12. ParseBlockHeader(l, head, rest)[1] = b  BY <1>1, OneIsSome
<1>13. FieldsOf(b) = {}  BY <1>5 DEF FieldsOf
<1> QED  BY <1>1, <1>5, <1>6, <1>8, <1>11, <1>12, <1>13

(***************************************************************************)
(* The steps of the reader.                                                *)
(***************************************************************************)
LEMMA RejectKeeps ==
  ASSUME IInv, stage = "parse", Reject
  PROVE  IInv'
<1>1. stage' = "failed" /\ UNCHANGED <<doc, lines, pend, def, tree>>  BY DEF Reject
<1>2. ScanStands'  BY <1>1 DEF IInv, ScanStands, LinesStand
<1>3. TreeStands'  BY <1>1, LayoutStays DEF IInv, TreeStands
<1> QED  BY <1>1, <1>2, <1>3 DEF IInv

LEMMA BlankLineTook ==
  ASSUME IInv, BlankLine
  PROVE  Took
<1> DEFINE r == IF p.family = <<>> THEN FlushBlock(FlushRecord(p)) ELSE FlushRecord(p)
<1>1. Reading /\ Line.txt = <<>> /\ Accept(r)  BY DEF BlankLine
<1>2. /\ at \in DOMAIN lines /\ stage = "parse"
      /\ at + 1 \in Nat /\ at < at + 1 /\ at + 1 <= Len(lines) + 1 /\ New(at + 1) = {}
  BY <1>1, AtHand
<1>3. Shape(p) /\ MemberStands(p) /\ Layout(Ended(p))  BY <1>2 DEF IInv, PartStands
<1>4. /\ Shape(FlushRecord(p)) /\ Ended(FlushRecord(p)) = Ended(p)
      /\ FlushRecord(p).family = p.family /\ FlushRecord(p).member = p.member
  BY <1>3, FlushRecordKeeps, FlushingKeeps
<1>5. /\ Shape(FlushBlock(FlushRecord(p))) /\ Ended(FlushBlock(FlushRecord(p))) = Ended(p)
      /\ FlushBlock(FlushRecord(p)).family = p.family /\ FlushBlock(FlushRecord(p)).member = p.member
  BY <1>4, FlushBlockKeeps, FlushingKeeps
<1>6. Shape(r) /\ Ended(r) = Ended(p) /\ r.family = p.family /\ r.member = p.member
  BY <1>4, <1>5
<1> HIDE DEF r
<1>7. MemberStands(r)  BY <1>3, <1>6 DEF MemberStands
<1> QED  BY <1>1, <1>2, <1>3, <1>6, <1>7 DEF Accept, Took

LEMMA AllFlushed ==
  ASSUME NEW r, Shape(r)
  PROVE  LET q == FlushBlock(FlushRecord(FlushFamily(r)))
         IN  Shape(q) /\ NothingOpen(q) /\ Ended(q) = Ended(r)
<1> DEFINE a == FlushFamily(r)
           b == FlushRecord(a)
           q == FlushBlock(b)
<1>1. Shape(a) /\ a.family = <<>> /\ a.member = <<>> /\ Ended(a) = Ended(r)
  BY FlushFamilyKeeps, FlushingKeeps
<1> HIDE DEF a
<1>2. Shape(b) /\ b.record = <<>> /\ b.family = <<>> /\ b.member = <<>> /\ Ended(b) = Ended(r)
  BY <1>1, FlushRecordKeeps, FlushingKeeps
<1> HIDE DEF b
<1>3. /\ Shape(q) /\ q.block = <<>> /\ q.record = <<>> /\ q.family = <<>> /\ q.member = <<>>
      /\ Ended(q) = Ended(r)
  BY <1>2, FlushBlockKeeps, FlushingKeeps
<1> QED  BY <1>3 DEF NothingOpen, a, b

LEMMA TopLineTook ==
  ASSUME IInv, TopLine
  PROVE  Took \/ Reject
<1> DEFINE s == Line.txt
           q == FlushBlock(FlushRecord(FlushFamily(p)))
           word == Len(s) >= 2 /\ s[2] \in Word
           rd == ParseExpr(IF IsFamily(s) THEN FamilyDomain(s) ELSE Rest(s, 2))
           New1(st) == \E r : /\ Opened(q, r, st) /\ Accept(r)
                              /\ WellRead(st) /\ FlatLines(st) = {Line.line} /\ FieldsOf(st) = {}
<1>1. Reading /\ Line.txt # <<>>  BY DEF TopLine
<1>2. stage = "parse" /\ Line.line \in Nat  BY <1>1, AtHand
<1>3. Shape(q) /\ NothingOpen(q) /\ Ended(q) = Ended(p)  BY <1>2, AllFlushed DEF IInv, PartStands
<1> HIDE DEF q
<1>4. ASSUME NEW st, st.line = Line.line, st.k \notin {"record", "block", "family", "sceneDef"},
             AddStmt(q, st)
      PROVE  New1(st)
  BY <1>2, <1>4, NewOther DEF AddStmt, Opened
<1>5. ASSUME Accept([q EXCEPT !.record = <<Record(Line)>>])
      PROVE  New1(Record(Line))
  BY <1>2, <1>5, NewRecord DEF Opened
<1>6. ASSUME NEW r, AddNamed(q, s, r)
      PROVE  (\E st : New1(st)) \/ Reject
  <2>1. CASE Accept([q EXCEPT !.family = <<Family(Line, r.e)>>])
    <3>1. New1(Family(Line, r.e))  BY <1>2, <2>1, NewFamily DEF Opened
    <3> QED  BY <3>1
  <2>2. CASE AddStmt(q, Capture(Line, r.e, IsBinding(s) /\ r.e.k # "snapshot"))
    <3>1. Capture(Line, r.e, IsBinding(s) /\ r.e.k # "snapshot").line = Line.line
          /\ Capture(Line, r.e, IsBinding(s) /\ r.e.k # "snapshot").k = "capture"
      BY DEF Capture
    <3>2. New1(Capture(Line, r.e, IsBinding(s) /\ r.e.k # "snapshot"))  BY <1>4, <2>2, <3>1
    <3> QED  BY <3>2
  <2> HIDE DEF New1
  <2> QED  BY <1>6, <2>1, <2>2 DEF AddNamed
<1>7. (\E st : New1(st)) \/ Reject
  <2>1. /\ Stmt("extern", Line.line).line = Line.line /\ Stmt("extern", Line.line).k = "extern"
        /\ Stmt("scene", Line.line).line = Line.line /\ Stmt("scene", Line.line).k = "scene"
        /\ Stmt("run", Line.line).line = Line.line /\ Stmt("run", Line.line).k = "run"
    BY DEF Stmt
  <2>2. \/ Reject
        \/ AddStmt(q, Stmt(s[1], Line.line)) /\ s[1] \in {"scene", "run"}
        \/ AddStmt(q, Stmt("extern", Line.line))
        \/ Accept([q EXCEPT !.record = <<Record(Line)>>])
        \/ AddNamed(q, s, rd)
    BY DEF TopLine, q
  <2> HIDE DEF New1, rd
  <2>3. CASE AddStmt(q, Stmt(s[1], Line.line)) /\ s[1] \in {"scene", "run"}
    <3>1. s[1] = "scene" \/ s[1] = "run"  BY <2>3
    <3>2. Stmt(s[1], Line.line).k \in {"scene", "run"} /\ Stmt(s[1], Line.line).line = Line.line
      BY <2>1, <3>1
    <3> QED  BY <1>4, <2>3, <3>2
  <2>4. CASE AddStmt(q, Stmt("extern", Line.line))  BY <1>4, <2>1, <2>4
  <2> QED  BY <1>5, <1>6, <2>2, <2>3, <2>4
<1> QED  BY <1>1, <1>3, <1>7, OpenedTook

\* The statement that is open grows, and so does the part.
LEMMA GrownTook ==
  ASSUME IInv, stage = "parse", NEW ss, IsSeq(ss), NEW s, Ended(p) = Append(ss, s),
         NEW t, WellRead(t), NEW n \in Nat, at < n, n <= Len(lines) + 1,
         FlatLines(t) = FlatLines(s) \cup New(n),
         \A f \in FieldsOf(t) : f \in FieldsOf(s) \/ FromLine(f),
         UNCHANGED <<doc, stage, lines, pend, def, tree>>, at' = n,
         Shape(p'), MemberStands(p'), Ended(p') = Append(ss, t)
  PROVE  Took
<1>1. Layout(Ended(p)) /\ LinesOf(Ended(p)) \subseteq Written(at) /\ at \in Nat
  BY DEF IInv, PartStands
<1>2. Above(Written(at), New(n))  BY <1>1, LinesAhead
<1>3. Above(LinesOf(Append(ss, s)), New(n))  BY <1>1, <1>2 DEF Above
<1>4. /\ Layout(Append(ss, t))
      /\ LinesOf(Append(ss, t)) = LinesOf(Append(ss, s)) \cup New(n)
  BY <1>1, <1>3, LayoutGrows
<1>5. /\ FieldsIn(Append(ss, s)) = FieldsIn(ss) \cup FieldsOf(s)
      /\ FieldsIn(Append(ss, t)) = FieldsIn(ss) \cup FieldsOf(t)
  BY FieldsInAppend
<1> QED  BY <1>4, <1>5 DEF Took

\* A row of the block that is open fits it when its line opens no block.
LEMMA RowAtHandFits ==
  ASSUME IInv, Reading, NEW b, b.dur \in Nat, ~IsInlineBlockHeader(Line, b),
         NEW row, row.line = Line.line
  PROVE  RowFits(row, b.dur)
<1> DEFINE n0 == CHOOSE n \in DOMAIN lines : lines[n].line = Line.line
           cells == SplitCells(Tail(Line.txt))
           c == cells[1]
<1>1. at \in DOMAIN lines /\ LinesStand  BY AtHand
<1>2. n0 \in DOMAIN lines /\ lines[n0].line = Line.line  BY <1>1 DEF Line
<1>3. n0 = at
  <2>1. Len(lines) \in Nat /\ DOMAIN lines = 1..Len(lines)  BY <1>1, SeqIs DEF LinesStand
  <2>2. ~(n0 < at) /\ ~(at < n0)  BY <1>1, <1>2 DEF LinesStand, Line
  <2> QED  BY <1>1, <1>2, <2>1, <2>2
<1>4. lines[n0] = Line  BY <1>3 DEF Line
<1>5. ASSUME LedByClock(Line)
      PROVE  Clock[c[1]].v < b.dur
  <2>1. Len(cells) >= 2 /\ Len(c) = 1 /\ c[1] \in DOMAIN Clock /\ Clock[c[1]].unit # "%"
    BY <1>5 DEF LedByClock
  <2>2. c # <<>>
    <3>1. Len(<<>>) = 0  BY EmptyIsSeq
    <3> QED  BY <2>1, <3>1
  <2>3. c[1] # "each"  BY <2>1, ReaderAssumption
  <2> HIDE DEF cells, c
  <2>4. ~(Clock[c[1]].v >= b.dur)  BY <2>1, <2>2, <2>3 DEF IsInlineBlockHeader, cells, c
  <2>5. Clock[c[1]].v \in Nat  BY <2>1, ReaderAssumption
  <2> QED  BY <2>4, <2>5
<1> QED  BY <1>4, <1>5 DEF RowFits

LEMMA BarLineTook ==
  ASSUME IInv, BarLine
  PROVE  Took \/ Reject
<1> DEFINE q == FlushRecord(FlushFamily(p))
           next == q.block # <<>> /\ q.block[1].inline /\ IsInlineBlockHeader(Line, q.block[1])
           r == IF next THEN FlushBlock(q) ELSE q
           cells == SplitCells(Tail(Line.txt))
           read == ParseCells(IF r.block = <<>> THEN Tail(cells) ELSE cells)
           header == ParseBlockHeader(Line, cells[1], read)
<1>1. Reading /\ Line.txt # <<>> /\ TakeBar(r, cells[1], read)  BY DEF BarLine
<1>2. /\ at \in DOMAIN lines /\ stage = "parse" /\ Line.line \in Nat
      /\ at + 1 \in Nat /\ at < at + 1 /\ at + 1 <= Len(lines) + 1 /\ New(at + 1) = {Line.line}
      /\ Above(LinesOf(Ended(p)), New(at + 1))
  BY <1>1, AtHand
<1>3. Shape(q) /\ q.record = <<>> /\ q.family = <<>> /\ q.member = <<>> /\ Ended(q) = Ended(p)
  <2> DEFINE a == FlushFamily(p)
  <2>1. Shape(p)  BY <1>2 DEF IInv, PartStands
  <2>2. Shape(a) /\ a.family = <<>> /\ a.member = <<>> /\ Ended(a) = Ended(p)
    BY <2>1, FlushFamilyKeeps, FlushingKeeps
  <2>3. q = FlushRecord(a)  OBVIOUS
  <2> HIDE DEF a, q
  <2> QED  BY <2>2, <2>3, FlushRecordKeeps, FlushingKeeps
<1> HIDE DEF q
<1>4. /\ Shape(r) /\ r.record = <<>> /\ r.family = <<>> /\ r.member = <<>> /\ Ended(r) = Ended(p)
      /\ r.block # <<>> => r = q
  <2>1. CASE next
    <3>1. Shape(FlushBlock(q)) /\ FlushBlock(q).block = <<>> /\ Ended(FlushBlock(q)) = Ended(q)
          /\ FlushBlock(q).record = q.record /\ FlushBlock(q).family = q.family
          /\ FlushBlock(q).member = q.member
      BY <1>3, FlushBlockKeeps, FlushingKeeps
    <3> QED  BY <1>3, <2>1, <3>1
  <2>2. CASE ~next  BY <1>3, <2>2
  <2> QED  BY <2>1, <2>2
<1>5. r.block # <<>> => ~next
  <2>1. next => r.block = <<>>  BY <1>3, FlushBlockKeeps
  <2> QED  BY <2>1
<1>6. \/ Reject
      \/ r.block = <<>> /\ header # <<>> /\ Accept([r EXCEPT !.block = header])
      \/ r.block # <<>> /\ Accept([r EXCEPT !.block[1].rows = Append(@, Row(Line, read))])
  BY <1>1 DEF TakeBar
<1> HIDE DEF r, read, cells
<1>7. CASE r.block = <<>> /\ header # <<>> /\ Accept([r EXCEPT !.block = header])
  <2>1. NothingOpen(r)  BY <1>4, <1>7 DEF NothingOpen
  <2>2. PICK b : /\ header = <<b>> /\ IsBlockStmt(b) /\ WellRead(b) /\ FlatLines(b) = {Line.line}
                 /\ FieldsOf(b) = {}
    BY <1>2, <1>7, NewBlock
  <2>3. Opened(r, [r EXCEPT !.block = header], b)  BY <2>2 DEF Opened
  <2> QED  BY <1>1, <1>4, <1>7, <2>1, <2>2, <2>3, OpenedTook
<1>8. CASE r.block # <<>> /\ Accept([r EXCEPT !.block[1].rows = Append(@, Row(Line, read))])
  <2> DEFINE b == r.block[1]
             row == Row(Line, read)
             t == [b EXCEPT !.rows = Append(@, row)]
             pp == [r EXCEPT !.block[1].rows = Append(@, row)]
  <2>1. BlockOpen(r)  BY <1>4, <1>8, OneIsSome DEF Shape, NothingOpen, RecordOpen, FamilyOpen
  <2>2. r.block = <<b>> /\ IsBlockStmt(b) /\ b.k = "block"
    <3>1. IsBlockStmt(b) => b.k = "block"  BY DEF IsBlockStmt
    <3> QED  BY <2>1, <3>1 DEF BlockOpen
  <2>3. IsSeq(r.stmts) /\ Ended(p) = Append(r.stmts, b)
    BY <1>4, <1>8, EndedIs DEF Shape
  <2>4. WellRead(b) /\ FlatLines(b) \subseteq LinesOf(Ended(p))
    <3>1. Layout(Ended(p))  BY <1>2 DEF IInv, PartStands
    <3>2. WellRead(b)  BY <2>3, <3>1, LayoutPrefix
    <3>3. LinesOf(Ended(p)) = LinesOf(r.stmts) \cup FlatLines(b)  BY <2>3, LinesOfAppend
    <3> QED  BY <3>2, <3>3
  <2>5. row.line = Line.line  BY DEF Row
  <2>6. Above(FlatLines(b), {row.line})  BY <1>2, <2>4, <2>5 DEF Above
  <2>7. b.inline => ~IsInlineBlockHeader(Line, b)  BY <1>4, <1>5, <1>8
  <2>8. b.dur \in Nat  BY <2>2 DEF IsBlockStmt
  <2> HIDE DEF b, row
  <2>9. b.inline => RowFits(row, b.dur)  BY <1>1, <2>5, <2>7, <2>8, RowAtHandFits
  <2>10. IsBlockStmt(t) /\ t.k = "block" /\ WellRead(t) /\ FlatLines(t) = FlatLines(b) \cup {row.line}
    BY <1>2, <2>2, <2>4, <2>5, <2>6, <2>9, BlockGrows
  <2> HIDE DEF t
  <2>11. DOMAIN r = {"stmts", "record", "block", "family", "member"}  BY <1>4 DEF Shape, Empty
  <2>12. /\ DOMAIN pp = DOMAIN r /\ pp.stmts = r.stmts /\ pp.record = <<>> /\ pp.family = <<>>
         /\ pp.member = <<>> /\ pp.block = <<t>>
    <3>1. pp.block = [r.block EXCEPT ![1] = [r.block[1] EXCEPT !.rows = Append(@, row)]]  BY <2>11
    <3>2. pp.block = [<<b>> EXCEPT ![1] = t]  BY <2>2, <3>1 DEF t, b
    <3> QED  BY <1>4, <2>11, <3>2, OneExcept
  <2> HIDE DEF pp
  <2>13. Shape(pp)
    <3>1. pp.block[1] = t  BY <2>12, OneIsSome
    <3> QED  BY <1>4, <2>3, <2>10, <2>12, <3>1 DEF Shape, BlockOpen
  <2>14. Ended(pp) = Append(r.stmts, t)
    <3>1. pp.block # <<>> /\ pp.block[1] = t  BY <2>12, OneIsSome
    <3> QED  BY <2>12, <2>13, <3>1, EndedIs
  <2>15. MemberStands(pp)  BY <2>12 DEF MemberStands
  <2>16. p' = pp /\ at' = at + 1 /\ UNCHANGED <<doc, stage, lines, pend, def, tree>>
    BY <1>8 DEF Accept, pp, row
  <2>17. FieldsOf(t) = {}  BY <2>10 DEF FieldsOf
  <2> QED  BY <1>2, <2>3, <2>5, <2>10, <2>13, <2>14, <2>15, <2>16, <2>17, GrownTook
<1> QED  BY <1>6, <1>7, <1>8

LEMMA Within ==
  ASSUME NEW a \in Nat, NEW m \in Nat
  PROVE  /\ \A k \in 1..m : a <= a + k /\ a < a + k /\ a + k < a + 1 + m
         /\ \A i \in Nat : a <= i /\ i < a + 1 + m /\ i # a => i - a \in 1..m /\ a + (i - a) = i
OBVIOUS

\* A field takes the lines it stands on, and no other.
LEMMA FieldTakes ==
  ASSUME IInv, Reading, Line.txt # <<>>,
         NEW f, f = ParseRecordFieldLine(Rest(lines, at - 1)), f.ok
  PROVE  LET n == at + 1 + Len(f.below)
         IN  /\ n \in Nat /\ at < n /\ n <= Len(lines) + 1
             /\ FieldStands(f) /\ FieldLines(f) = New(n)
<1> DEFINE n == at + 1 + Len(f.below)
<1>1. /\ at \in DOMAIN lines /\ LinesStand /\ Line.line \in Nat  BY AtHand
<1>2. /\ f.line = Line.line
      /\ IsSeq(f.below) /\ Len(f.below) <= Len(lines) - at
      /\ \A k \in DOMAIN f.below : f.below[k] = lines[at + k].line /\ lines[at + k].txt # <<>>
  BY <1>1, FieldRead
<1>3. /\ Len(lines) \in Nat /\ DOMAIN lines = 1..Len(lines) /\ at \in 1..Len(lines)
      /\ Len(f.below) \in Nat /\ DOMAIN f.below = 1..Len(f.below)
  BY <1>1, <1>2, SeqIs DEF LinesStand
<1>4. n \in Nat /\ at < n /\ n <= Len(lines) + 1 /\ n = at + 1 + Len(f.below)
  <2>1. Len(f.below) <= Len(lines) - at  BY <1>2
  <2> QED  BY <1>3, <2>1
<1> HIDE DEF n
<1>5. \A k \in DOMAIN f.below : at + k \in DOMAIN lines  BY <1>2, <1>3
<1>6. \A k \in DOMAIN f.below : f.below[k] \in Nat /\ f.line < f.below[k]
  <2> SUFFICES ASSUME NEW k \in DOMAIN f.below
               PROVE  f.below[k] \in Nat /\ f.line < f.below[k]
    OBVIOUS
  <2>1. at + k \in DOMAIN lines /\ at < at + k  BY <1>3, <1>5
  <2> QED  BY <1>1, <1>2, <2>1 DEF LinesStand, Line
<1>7. \A i, j \in DOMAIN f.below : i < j => f.below[i] < f.below[j]
  <2> SUFFICES ASSUME NEW i \in DOMAIN f.below, NEW j \in DOMAIN f.below, i < j
               PROVE  f.below[i] < f.below[j]
    OBVIOUS
  <2>1. at + i \in DOMAIN lines /\ at + j \in DOMAIN lines /\ at + i < at + j  BY <1>3, <1>5
  <2> QED  BY <1>1, <1>2, <2>1 DEF LinesStand
<1>8. FieldStands(f)
  <2>1. IsField(f)  BY <1>1, <1>2, <1>6 DEF IsField, Range
  <2>2. Above({f.line}, Range(f.below))  BY <1>6 DEF Above, Range
  <2> QED  BY <1>7, <2>1, <2>2 DEF FieldStands
<1>9. FieldLines(f) = New(n)
  <2>1. ASSUME NEW x \in FieldLines(f)
        PROVE  x \in New(n)
    <3>1. CASE x = f.line  BY <1>1, <1>2, <1>3, <1>4, <3>1 DEF New, Line
    <3>2. CASE x \in Range(f.below)
      <4>1. PICK k \in DOMAIN f.below : x = f.below[k]  BY <3>2 DEF Range
      <4>2. at + k \in DOMAIN lines /\ at <= at + k /\ at + k < n
        <5>1. k \in 1..Len(f.below) /\ at \in Nat  BY <1>3
        <5>2. at <= at + k /\ at + k < at + 1 + Len(f.below)  BY <1>3, <5>1, Within
        <5> QED  BY <1>4, <1>5, <5>2
      <4> QED  BY <1>2, <4>1, <4>2 DEF New
    <3> QED  BY <3>1, <3>2 DEF FieldLines
  <2>2. ASSUME NEW x \in New(n)
        PROVE  x \in FieldLines(f)
    <3>1. PICK i \in DOMAIN lines : at <= i /\ i < n /\ x = lines[i].line  BY DEF New
    <3>2. CASE i = at  BY <1>2, <3>1, <3>2 DEF FieldLines, Line
    <3>3. CASE i # at
      <4>1. i - at \in DOMAIN f.below /\ at + (i - at) = i
        <5>1. i \in Nat /\ at \in Nat  BY <1>3
        <5>2. i < at + 1 + Len(f.below)  BY <1>4, <3>1
        <5>3. i - at \in 1..Len(f.below) /\ at + (i - at) = i
          BY <1>3, <3>1, <3>3, <5>1, <5>2, Within
        <5> QED  BY <1>3, <5>3
      <4> QED  BY <1>2, <3>1, <4>1 DEF FieldLines, Range
    <3> QED  BY <3>2, <3>3
  <2> QED  BY <2>1, <2>2
<1> QED  BY <1>4, <1>8, <1>9 DEF n

\* The statement that is open is the last of the part.
LEMMA OpenIsLast ==
  ASSUME NEW r, Shape(r)
  PROVE  /\ r.record # <<>> => Ended(r) = Append(r.stmts, r.record[1])
         /\ r.family # <<>> => Ended(r) = Append(r.stmts, WithMember(r))
<1>1. /\ r.family # <<>> => r.record = <<>> /\ r.block = <<>>
      /\ r.record # <<>> => r.family = <<>> /\ r.block = <<>>
  BY DEF Shape, NothingOpen, RecordOpen, BlockOpen, FamilyOpen
<1>2. r.record # <<>> => Ended(r) = Append(r.stmts, r.record[1])  BY <1>1, EndedIs
<1>3. r.family # <<>> => Ended(r) = Append(r.stmts, WithMember(r))  BY <1>1, EndedIs
<1> QED  BY <1>2, <1>3

LEMMA FieldLineTook ==
  ASSUME IInv, FieldLine
  PROVE  Took \/ Reject
<1> DEFINE f == ParseRecordFieldLine(Rest(lines, at - 1))
           n == at + 1 + Len(f.below)
           rec == p.record[1]
           t == [rec EXCEPT !.fields = Append(@, f)]
<1>1. Reading /\ Line.txt # <<>> /\ p.family = <<>> /\ AddField("record", f)  BY DEF FieldLine
<1> HIDE DEF f
<1> SUFFICES ASSUME ~Reject
             PROVE  Took
  OBVIOUS
<1>2. /\ p.record # <<>> /\ f.ok
      /\ p' = [p EXCEPT !.record[1].fields = Append(@, f)] /\ at' = n
      /\ UNCHANGED <<doc, stage, lines, pend, def, tree>>
  BY <1>1 DEF AddField
<1>3. /\ n \in Nat /\ at < n /\ n <= Len(lines) + 1
      /\ FieldStands(f) /\ FieldLines(f) = New(n)
  BY <1>1, <1>2, FieldTakes DEF f
<1>4. stage = "parse" /\ Shape(p) /\ Layout(Ended(p)) /\ at \in Nat
  BY <1>1 DEF Reading, IInv, PartStands
<1> HIDE DEF n
<1>5. RecordOpen(p)  BY <1>2, <1>4 DEF Shape, NothingOpen, BlockOpen, FamilyOpen
<1>6. p.record = <<rec>> /\ IsRecordStmt(rec) /\ rec.k = "record"
  <2>1. IsRecordStmt(rec) => rec.k = "record"  BY DEF IsRecordStmt
  <2> QED  BY <1>5, <2>1 DEF RecordOpen
<1>7. IsSeq(p.stmts) /\ Ended(p) = Append(p.stmts, rec)
  <2>0. p.record # <<>> /\ Shape(p)  BY <1>2, <1>4
  <2>1. Ended(p) = Append(p.stmts, p.record[1])  BY <2>0, OpenIsLast
  <2> QED  BY <1>4, <2>1 DEF Shape
<1>8. WellRead(rec) /\ FlatLines(rec) = RecordLines(rec) /\ RecordInOrder(rec)
  <2>1. WellRead(rec)  BY <1>4, <1>7, LayoutPrefix
  <2> QED  BY <1>6, <2>1 DEF FlatLines, WellRead, InOrder
<1>9. Above(RecordLines(rec), FieldLines(f))
  <2>1. LinesOf(Ended(p)) = LinesOf(p.stmts) \cup FlatLines(rec)  BY <1>7, LinesOfAppend
  <2>2. LinesOf(Ended(p)) \subseteq Written(at)  BY <1>4 DEF IInv, PartStands
  <2>3. Above(Written(at), New(n))  BY <1>3, <1>4, LinesAhead
  <2> QED  BY <1>3, <1>8, <2>1, <2>2, <2>3 DEF Above
<1> HIDE DEF rec
<1>10. /\ IsRecordStmt(t) /\ RecordInOrder(t) /\ RecordLines(t) = RecordLines(rec) \cup FieldLines(f)
       /\ FieldsOf(t) = FieldsOf(rec) \cup {f}
  BY <1>3, <1>6, <1>8, <1>9, RecordGrows
<1> HIDE DEF t
<1>11. WellRead(t) /\ FlatLines(t) = FlatLines(rec) \cup New(n)
  <2>1. t.k = "record"  BY <1>10 DEF IsRecordStmt
  <2>2. t.line \in Nat  BY <1>10 DEF IsRecordStmt
  <2> QED  BY <1>3, <1>8, <1>10, <2>1, <2>2 DEF WellRead, FlatLines, InOrder
<1>12. DOMAIN p = {"stmts", "record", "block", "family", "member"}  BY <1>4 DEF Shape, Empty
<1>13. /\ DOMAIN p' = DOMAIN p /\ p'.stmts = p.stmts /\ p'.block = <<>> /\ p'.family = <<>>
       /\ p'.member = <<>> /\ p'.record = <<t>>
  <2>1. p'.record = [p.record EXCEPT ![1] = [p.record[1] EXCEPT !.fields = Append(@, f)]]
    BY <1>2, <1>12
  <2>2. p'.record = [<<rec>> EXCEPT ![1] = t]  BY <1>6, <2>1 DEF t, rec
  <2> QED  BY <1>2, <1>5, <1>12, <2>2, OneExcept DEF RecordOpen
<1>14. p'.record # <<>> /\ p'.record[1] = t  BY <1>13, OneIsSome
<1>15. Shape(p')  BY <1>4, <1>7, <1>10, <1>13, <1>14 DEF Shape, RecordOpen
<1>16. Ended(p') = Append(p.stmts, t)  BY <1>13, <1>14, <1>15, EndedIs
<1>17. MemberStands(p')  BY <1>13 DEF MemberStands
<1>18. FromLine(f)
  <2>1. at \in DOMAIN lines  BY <1>1, AtHand
  <2> QED  BY <1>2, <2>1 DEF f, FromLine
<1>19. \A g \in FieldsOf(t) : g \in FieldsOf(rec) \/ FromLine(g)  BY <1>10, <1>18
<1> QED  BY <1>2, <1>3, <1>4, <1>7, <1>11, <1>15, <1>16, <1>17, <1>19, GrownTook

\* The family that is open, and what it holds so far.
LEMMA FamilyAtHand ==
  ASSUME IInv, Reading, p.family # <<>>
  PROVE  LET fam == WithMember(p)
         IN  /\ FamilyOpen(p) /\ IsSeq(p.stmts) /\ Ended(p) = Append(p.stmts, fam)
             /\ WellRead(fam) /\ fam.k = "family" /\ FlatLines(fam) \subseteq Written(at)
<1>1. stage = "parse" /\ Shape(p) /\ Layout(Ended(p)) /\ LinesOf(Ended(p)) \subseteq Written(at)
  BY DEF Reading, IInv, PartStands
<1>2. FamilyOpen(p) /\ IsSeq(p.stmts)  BY <1>1 DEF Shape, NothingOpen, RecordOpen, BlockOpen
<1>3. Ended(p) = Append(p.stmts, WithMember(p))  BY <1>1, OpenIsLast
<1>4. WellRead(WithMember(p))  BY <1>1, <1>2, <1>3, LayoutPrefix
<1>5. FlatLines(WithMember(p)) \subseteq Written(at)
  <2>1. LinesOf(Ended(p)) = LinesOf(p.stmts) \cup FlatLines(WithMember(p))
    BY <1>2, <1>3, LinesOfAppend
  <2> QED  BY <1>1, <2>1
<1>6. WithMember(p).k = "family"
  <2>1. p.family[1] = [k |-> "family", line |-> p.family[1].line, domain |-> p.family[1].domain,
                       base |-> p.family[1].base, locals |-> p.family[1].locals,
                       members |-> p.family[1].members]
    BY <1>2 DEF FamilyOpen, IsFamilyStmt
  <2>2. p.family[1].k = "family"  BY <2>1
  <2>3. [p.family[1] EXCEPT !.members = Append(@, p.member[1])].k = "family"  BY <2>1, <2>2
  <2> QED  BY <2>2, <2>3 DEF WithMember
<1> QED  BY <1>2, <1>3, <1>4, <1>5, <1>6

LEMMA FamilyFieldLineTook ==
  ASSUME IInv, FamilyFieldLine
  PROVE  Took \/ Reject
<1> DEFINE f == ParseRecordFieldLine(Rest(lines, at - 1))
           n == at + 1 + Len(f.below)
           fam == p.family[1]
           mem == p.member[1]
           m2 == [mem EXCEPT !.fields = Append(@, f)]
           s == [fam EXCEPT !.members = Append(@, mem)]
           t == [fam EXCEPT !.members = Append(@, m2)]
<1>1. Reading /\ Line.txt # <<>> /\ p.family # <<>> /\ AddField("member", f)
  BY DEF FamilyFieldLine
<1> HIDE DEF f
<1> SUFFICES ASSUME ~Reject
             PROVE  Took
  OBVIOUS
<1>2. /\ p.member # <<>> /\ f.ok
      /\ p' = [p EXCEPT !.member[1].fields = Append(@, f)] /\ at' = n
      /\ UNCHANGED <<doc, stage, lines, pend, def, tree>>
  BY <1>1 DEF AddField
<1>3. /\ n \in Nat /\ at < n /\ n <= Len(lines) + 1
      /\ FieldStands(f) /\ FieldLines(f) = New(n)
  BY <1>1, <1>2, FieldTakes DEF f
<1>4. stage = "parse" /\ Shape(p) /\ MemberStands(p) /\ at \in Nat
  BY <1>1 DEF Reading, IInv, PartStands
<1> HIDE DEF n
<1>5. WithMember(p) = s  BY <1>2 DEF WithMember
<1>6. /\ FamilyOpen(p) /\ IsSeq(p.stmts) /\ Ended(p) = Append(p.stmts, s)
      /\ FlatLines(s) \subseteq Written(at)
  BY <1>1, <1>5, FamilyAtHand
<1>7. /\ p.family = <<fam>> /\ IsFamilyStmt(fam) /\ fam.k = "family"
      /\ p.member = <<mem>> /\ IsRecordStmt(mem)
  <2>1. IsFamilyStmt(fam) => fam.k = "family"  BY DEF IsFamilyStmt
  <2> QED  BY <1>2, <1>6, <2>1 DEF FamilyOpen
<1>8. WellRead(fam) /\ RecordInOrder(mem) /\ Above(FlatLines(fam), RecordLines(mem))
  BY <1>2, <1>4 DEF MemberStands
<1> HIDE DEF fam, mem
<1>9. FlatLines(s) = FlatLines(fam) \cup RecordLines(mem) /\ FieldsOf(s) = FieldsOf(fam) \cup FieldsOf(mem)
  BY <1>7, <1>8, FamilyGrowsMember
<1> HIDE DEF s
<1>10. Above(Written(at), New(n))  BY <1>3, <1>4, LinesAhead
<1>11. Above(RecordLines(mem), FieldLines(f)) /\ Above(FlatLines(fam), FieldLines(f))
  BY <1>3, <1>6, <1>9, <1>10 DEF Above
<1>12. /\ IsRecordStmt(m2) /\ RecordInOrder(m2) /\ RecordLines(m2) = RecordLines(mem) \cup FieldLines(f)
       /\ FieldsOf(m2) = FieldsOf(mem) \cup {f}
  BY <1>3, <1>7, <1>8, <1>11, RecordGrows
<1> HIDE DEF m2
<1>13. Above(FlatLines(fam), RecordLines(m2))  BY <1>8, <1>11, <1>12 DEF Above
<1>14. /\ WellRead(t) /\ FlatLines(t) = FlatLines(fam) \cup RecordLines(m2)
       /\ FieldsOf(t) = FieldsOf(fam) \cup FieldsOf(m2)
  BY <1>7, <1>8, <1>12, <1>13, FamilyGrowsMember
<1>15. FlatLines(t) = FlatLines(s) \cup New(n)  BY <1>3, <1>9, <1>12, <1>14
<1>16. DOMAIN p = {"stmts", "record", "block", "family", "member"}  BY <1>4 DEF Shape, Empty
<1>17. /\ DOMAIN p' = DOMAIN p /\ p'.stmts = p.stmts /\ p'.block = <<>> /\ p'.record = <<>>
       /\ p'.family = <<fam>> /\ p'.member = <<m2>>
  <2>1. p'.member = [p.member EXCEPT ![1] = [p.member[1] EXCEPT !.fields = Append(@, f)]]
    BY <1>2, <1>16
  <2>2. p'.member = [<<mem>> EXCEPT ![1] = m2]  BY <1>7, <2>1 DEF m2, mem
  <2> QED  BY <1>2, <1>6, <1>7, <1>16, <2>2, OneExcept DEF FamilyOpen
<1>18. /\ p'.family # <<>> /\ p'.family[1] = fam /\ p'.member # <<>> /\ p'.member[1] = m2
  BY <1>17, OneIsSome
<1>19. Shape(p')  BY <1>4, <1>6, <1>7, <1>12, <1>17, <1>18 DEF Shape, FamilyOpen
<1>20. Ended(p') = Append(p.stmts, t)
  <2>1. WithMember(p') = t  BY <1>18 DEF WithMember
  <2>2. Ended(p') = Append(p'.stmts, WithMember(p'))  BY <1>18, <1>19, OpenIsLast
  <2> QED  BY <1>17, <2>1, <2>2
<1>21. MemberStands(p')  BY <1>8, <1>12, <1>13, <1>18 DEF MemberStands
<1>22. FromLine(f)
  <2>1. at \in DOMAIN lines  BY <1>1, AtHand
  <2> QED  BY <1>2, <2>1 DEF f, FromLine
<1> HIDE DEF t
<1>23. \A g \in FieldsOf(t) : g \in FieldsOf(s) \/ FromLine(g)  BY <1>9, <1>12, <1>14, <1>22
<1> QED  BY <1>2, <1>3, <1>4, <1>6, <1>14, <1>15, <1>19, <1>20, <1>21, <1>23, GrownTook

LEMMA FamilyHeadLineTook ==
  ASSUME IInv, FamilyHeadLine
  PROVE  Took \/ Reject
<1> DEFINE q0 == FlushMember(p)
           q == [q0 EXCEPT !.family[1].base = Line.ind]
           fam == WithMember(p)
           g == [fam EXCEPT !.base = Line.ind]
           loc == Stmt("local", Line.line)
           withLocal == [q EXCEPT !.family[1].locals = Append(@, loc)]
           withHeader == [q EXCEPT !.member = <<Record(Line)>>]
<1>1. Reading /\ Line.txt # <<>> /\ p.family # <<>>  BY DEF FamilyHeadLine
<1>2. Reject \/ Accept(withLocal) \/ Accept(withHeader)  BY DEF FamilyHeadLine
<1>3. /\ at \in DOMAIN lines /\ stage = "parse" /\ Line.line \in Nat
      /\ at + 1 \in Nat /\ at < at + 1 /\ at + 1 <= Len(lines) + 1
      /\ New(at + 1) = {Line.line}
  BY <1>1, AtHand
<1>4. /\ FamilyOpen(p) /\ IsSeq(p.stmts) /\ Ended(p) = Append(p.stmts, fam)
      /\ WellRead(fam) /\ fam.k = "family" /\ FlatLines(fam) \subseteq Written(at)
  BY <1>1, FamilyAtHand
<1>5. Shape(p)  BY <1>3 DEF IInv, PartStands
<1>6. /\ Shape(q0) /\ FamilyOpen(q0) /\ q0.member = <<>> /\ q0.stmts = p.stmts
      /\ q0.family = <<fam>>
  BY <1>4, <1>5, FlushMemberKeeps
<1> HIDE DEF q0, fam
<1>7. /\ IsFamilyStmt(g) /\ g.k = "family" /\ WellRead(g) /\ FlatLines(g) = FlatLines(fam)
      /\ FieldsOf(g) = FieldsOf(fam)
  BY <1>4, FamilyBased
<1> DEFINE Keys == {"stmts", "record", "block", "family", "member"}
<1>8. DOMAIN q0 = Keys /\ DOMAIN Empty = Keys  BY <1>6 DEF Shape, Empty
<1>9. /\ DOMAIN q = Keys /\ q.stmts = p.stmts /\ q.record = <<>> /\ q.block = <<>>
      /\ q.member = <<>> /\ q.family = <<g>>
  <2>1. q.family = [q0.family EXCEPT ![1] = [q0.family[1] EXCEPT !.base = Line.ind]]  BY <1>8
  <2>2. q.family = [<<fam>> EXCEPT ![1] = g]  BY <1>6, <2>1, OneIsSome DEF g
  <2> QED  BY <1>6, <1>8, <2>2, OneExcept DEF FamilyOpen
<1> HIDE DEF q, g
<1>10. Above(FlatLines(g), {Line.line})
  <2>1. at \in Nat
    <3>1. Len(lines) \in Nat /\ DOMAIN lines = 1..Len(lines)
      BY SeqIs DEF IInv, ScanStands, LinesStand
    <3> QED  BY <1>3, <3>1
  <2>2. Above(Written(at), New(at + 1))  BY <1>3, <2>1, LinesAhead
  <2> QED  BY <1>3, <1>4, <1>7, <2>2 DEF Above
<1>11. CASE Accept(withLocal)
  <2> DEFINE t == [g EXCEPT !.locals = Append(@, loc)]
  <2>1. loc.line = Line.line  BY DEF Stmt
  <2>2. /\ IsFamilyStmt(t) /\ t.k = "family" /\ WellRead(t) /\ FlatLines(t) = FlatLines(g) \cup {Line.line}
        /\ FieldsOf(t) = FieldsOf(g)
    BY <1>3, <1>7, <1>10, <2>1, FamilyGrowsLocal
  <2>3. /\ DOMAIN withLocal = Keys /\ withLocal.stmts = p.stmts /\ withLocal.record = <<>>
        /\ withLocal.block = <<>> /\ withLocal.member = <<>> /\ withLocal.family = <<t>>
    <3>1. withLocal.family = [q.family EXCEPT ![1] = [q.family[1] EXCEPT !.locals = Append(@, loc)]]
      BY <1>9
    <3>2. withLocal.family = [<<g>> EXCEPT ![1] = t]  BY <1>9, <3>1, OneIsSome
    <3> QED  BY <1>9, <3>2, OneExcept
  <2> HIDE DEF t, withLocal
  <2>4. withLocal.family # <<>> /\ withLocal.family[1] = t  BY <2>3, OneIsSome
  <2>5. Shape(withLocal)  BY <1>4, <1>8, <2>2, <2>3, <2>4 DEF Shape, FamilyOpen
  <2>6. Ended(withLocal) = Append(p.stmts, t)
    <3>1. WithMember(withLocal) = t  BY <2>3, <2>4 DEF WithMember
    <3> QED  BY <2>3, <2>4, <2>5, <3>1, OpenIsLast
  <2>7. MemberStands(withLocal)  BY <2>3 DEF MemberStands
  <2>8. p' = withLocal /\ at' = at + 1 /\ UNCHANGED <<doc, stage, lines, pend, def, tree>>
    BY <1>11 DEF Accept
  <2>9. FlatLines(t) = FlatLines(fam) \cup New(at + 1) /\ FieldsOf(t) = FieldsOf(fam)
    BY <1>3, <1>7, <2>2
  <2> QED  BY <1>3, <1>4, <2>2, <2>5, <2>6, <2>7, <2>8, <2>9, GrownTook
<1>12. CASE Accept(withHeader)
  <2> DEFINE m == Record(Line)
             t == [g EXCEPT !.members = Append(@, m)]
  <2>1. IsRecordStmt(m) /\ RecordLines(m) = {Line.line} /\ RecordInOrder(m) /\ FieldsOf(m) = {}
    BY <1>3, NewRecord
  <2> HIDE DEF m
  <2>2. WellRead(t) /\ FlatLines(t) = FlatLines(g) \cup {Line.line} /\ FieldsOf(t) = FieldsOf(g)
    <3>1. Above(FlatLines(g), RecordLines(m))  BY <1>10, <2>1
    <3>2. /\ WellRead(t) /\ FlatLines(t) = FlatLines(g) \cup RecordLines(m)
          /\ FieldsOf(t) = FieldsOf(g) \cup FieldsOf(m)
      BY <1>7, <2>1, <3>1, FamilyGrowsMember
    <3> HIDE DEF t
    <3> QED  BY <2>1, <3>2
  <2>3. /\ DOMAIN withHeader = Keys /\ withHeader.stmts = p.stmts /\ withHeader.record = <<>>
        /\ withHeader.block = <<>> /\ withHeader.member = <<m>> /\ withHeader.family = <<g>>
    BY <1>9 DEF m
  <2> HIDE DEF withHeader
  <2>4. /\ withHeader.family # <<>> /\ withHeader.family[1] = g
        /\ withHeader.member # <<>> /\ withHeader.member[1] = m
    BY <2>3, OneIsSome
  <2>5. Shape(withHeader)  BY <1>4, <1>7, <1>8, <2>1, <2>3, <2>4 DEF Shape, FamilyOpen
  <2>6. Ended(withHeader) = Append(p.stmts, t)
    <3>1. WithMember(withHeader) = t  BY <2>4 DEF WithMember
    <3> HIDE DEF t
    <3> QED  BY <2>3, <2>4, <2>5, <3>1, OpenIsLast
  <2> HIDE DEF t
  <2>7. MemberStands(withHeader)  BY <1>7, <1>10, <2>1, <2>4 DEF MemberStands
  <2>8. p' = withHeader /\ at' = at + 1 /\ UNCHANGED <<doc, stage, lines, pend, def, tree>>
    BY <1>12 DEF Accept, withHeader
  <2>9. FlatLines(t) = FlatLines(fam) \cup New(at + 1) /\ FieldsOf(t) = FieldsOf(fam)
    BY <1>3, <1>7, <2>2
  <2> QED  BY <1>3, <1>4, <2>2, <2>5, <2>6, <2>7, <2>8, <2>9, GrownTook
<1> QED  BY <1>2, <1>11, <1>12

\* The parts that were read grow by what the part at hand is read as.
LEMMA TreeGrows ==
  ASSUME TreeStands, NEW new, IsSeq(new), tree' = tree \o new, lines' = lines,
         \A s \in Range(new) : TreeStmt(s) /\ Above(TreeLines, StmtLines(s)),
         \A i, j \in DOMAIN new : i < j => Above(StmtLines(new[i]), StmtLines(new[j]))
  PROVE  TreeStands' /\ TreeLines' = TreeLines \cup UNION {StmtLines(s) : s \in Range(new)}
<1>1. /\ IsSeq(tree) /\ Len(tree) \in Nat /\ DOMAIN tree = 1..Len(tree)
      /\ Len(new) \in Nat /\ DOMAIN new = 1..Len(new)
  BY SeqIs DEF TreeStands
<1>2. /\ IsSeq(tree') /\ DOMAIN tree' = 1..(Len(tree) + Len(new))
      /\ Range(tree') = Range(tree) \cup Range(new)
      /\ \A i \in DOMAIN tree : tree'[i] = tree[i]
      /\ \A i \in DOMAIN new : tree'[Len(tree) + i] = new[i]
  BY <1>1, ConcatSeq
<1>3. \A s \in Range(tree') : TreeStmt(s)'  BY <1>2, LayoutStays DEF TreeStands
<1>4. \A i \in DOMAIN tree' : \/ i \in DOMAIN tree /\ tree'[i] = tree[i]
                              \/ \E k \in DOMAIN new : i = Len(tree) + k /\ tree'[i] = new[k]
  <2> SUFFICES ASSUME NEW i \in DOMAIN tree', i \notin DOMAIN tree
               PROVE  \E k \in DOMAIN new : i = Len(tree) + k /\ tree'[i] = new[k]
    BY <1>2
  <2>1. i - Len(tree) \in DOMAIN new /\ i = Len(tree) + (i - Len(tree))  BY <1>1, <1>2
  <2> QED  BY <1>2, <2>1
<1>5. ASSUME NEW i \in DOMAIN tree', NEW j \in DOMAIN tree', i < j
      PROVE  Above(StmtLines(tree'[i]), StmtLines(tree'[j]))
  <2>1. CASE i \in DOMAIN tree /\ j \in DOMAIN tree  BY <1>2, <1>5, <2>1 DEF TreeStands
  <2>2. CASE i \in DOMAIN tree /\ j \notin DOMAIN tree
    <3>1. tree'[j] \in Range(new)  BY <1>1, <1>4, <2>2, SeqIs
    <3>2. tree'[i] \in Range(tree)  BY <1>1, <1>2, <2>2, SeqIs
    <3>3. StmtLines(tree'[i]) \subseteq TreeLines  BY <3>2 DEF TreeLines
    <3> QED  BY <3>1, <3>3 DEF Above
  <2>3. CASE i \notin DOMAIN tree
    <3>1. PICK k \in DOMAIN new : i = Len(tree) + k /\ tree'[i] = new[k]  BY <1>4, <2>3
    <3>2. j \notin DOMAIN tree  BY <1>1, <1>2, <1>5, <2>3
    <3>3. PICK m \in DOMAIN new : j = Len(tree) + m /\ tree'[j] = new[m]  BY <1>4, <3>2
    <3>4. k < m  BY <1>1, <1>5, <3>1, <3>3
    <3> QED  BY <3>1, <3>3, <3>4
  <2> QED  BY <2>1, <2>2, <2>3
<1>6. TreeLines' = TreeLines \cup UNION {StmtLines(s) : s \in Range(new)}
  BY <1>2 DEF TreeLines
<1> QED  BY <1>2, <1>3, <1>5, <1>6 DEF TreeStands

LEMMA NothingRead ==
  /\ Shape(Empty) /\ Ended(Empty) = <<>> /\ LinesOf(<<>>) = {} /\ Layout(<<>>) /\ Empty.member = <<>>
<1>1. IsSeq(<<>>) /\ Range(<<>>) = {} /\ DOMAIN <<>> = {}  BY EmptyIsSeq
<1>2. /\ Empty.stmts = <<>> /\ Empty.record = <<>> /\ Empty.block = <<>> /\ Empty.family = <<>>
      /\ Empty.member = <<>>
  BY DEF Empty
<1>3. Shape(Empty)  BY <1>1, <1>2 DEF Shape, NothingOpen
<1>4. Ended(Empty) = <<>>  BY <1>2, <1>3, EndedIs
<1> QED  BY <1>1, <1>2, <1>3, <1>4 DEF LinesOf, Layout

LEMMA EndPartKeeps ==
  ASSUME IInv, EndPart
  PROVE  IInv'
<1> DEFINE stmts == Ended(p)
           sd == [k |-> "sceneDef", line |-> def, body |-> stmts]
           new == IF def = 0 THEN stmts ELSE <<sd>>
<1>1. /\ stage = "parse" /\ PartEnds /\ tree' = tree \o new /\ p' = Empty
      /\ UNCHANGED <<doc, lines, pend>>
  BY DEF EndPart, Ended
<1>2. \/ at > Len(lines) /\ stage' = "done" /\ UNCHANGED <<at, def>>
      \/ ~(at > Len(lines)) /\ def' = Line.line /\ at' = at + 1 /\ stage' = stage
  BY DEF EndPart
<1>3. /\ at \in Nat \ {0} /\ at <= Len(lines) + 1 /\ Layout(stmts)
      /\ TreeLines \cup DefLine \cup LinesOf(stmts) = Written(at)
      /\ Above(TreeLines, DefLine \cup LinesOf(stmts))
      /\ Above(DefLine, LinesOf(stmts))
  BY <1>1 DEF IInv, PartStands
<1>4. TreeStands /\ def \in Nat /\ ScanStands  BY DEF IInv
<1> HIDE DEF stmts
<1>5. TreeStands' /\ TreeLines' = Written(at)
  <2>1. CASE def = 0
    <3>1. new = stmts /\ DefLine = {}  BY <2>1 DEF DefLine
    <3>2. \A s \in Range(stmts) : TreeStmt(s) /\ StmtLines(s) = FlatLines(s)
      BY <1>3 DEF Layout, WellRead, TreeStmt, StmtLines
    <3>3. \A s \in Range(stmts) : FlatLines(s) \subseteq LinesOf(stmts)  BY DEF LinesOf
    <3>4. \A s \in Range(stmts) : Above(TreeLines, StmtLines(s))  BY <1>3, <3>2, <3>3 DEF Above
    <3>5. \A i, j \in DOMAIN stmts : i < j => Above(StmtLines(stmts[i]), StmtLines(stmts[j]))
      <4>1. \A i \in DOMAIN stmts : stmts[i] \in Range(stmts)  BY DEF Range
      <4> QED  BY <1>3, <3>2, <4>1 DEF Layout
    <3>6. UNION {StmtLines(s) : s \in Range(stmts)} = LinesOf(stmts)  BY <3>2 DEF LinesOf
    <3>7. IsSeq(stmts)  BY <1>3 DEF Layout
    <3>8. TreeStands' /\ TreeLines' = TreeLines \cup UNION {StmtLines(s) : s \in Range(stmts)}
      BY <1>1, <1>4, <3>1, <3>2, <3>4, <3>5, <3>7, TreeGrows
    <3> QED  BY <1>3, <3>1, <3>6, <3>8
  <2>2. CASE def # 0
    <3>1. new = <<sd>> /\ DefLine = {def}  BY <1>4, <2>2 DEF DefLine
    <3>2. sd.k = "sceneDef" /\ sd.line = def /\ sd.body = stmts  OBVIOUS
    <3> HIDE DEF sd
    <3>3. StmtLines(sd) = DefLine \cup LinesOf(stmts)  BY <3>1, <3>2 DEF StmtLines, LinesOf
    <3>4. TreeStmt(sd)  BY <1>3, <1>4, <3>1, <3>2 DEF TreeStmt
    <3>5. Above(TreeLines, StmtLines(sd))  BY <1>3, <3>3
    <3>6. IsSeq(<<sd>>) /\ Range(<<sd>>) = {sd} /\ DOMAIN <<sd>> = {1}  BY EmptyIsSeq, OneSeq
    <3>7. \A i, j \in DOMAIN <<sd>> : ~(i < j)  BY <3>6
    <3>8. TreeStands' /\ TreeLines' = TreeLines \cup UNION {StmtLines(s) : s \in Range(<<sd>>)}
      <4>1. tree' = tree \o <<sd>> /\ lines' = lines  BY <1>1, <3>1
      <4>2. \A s \in Range(<<sd>>) : TreeStmt(s) /\ Above(TreeLines, StmtLines(s))
        BY <3>4, <3>5, <3>6
      <4> HIDE DEF new
      <4> QED  BY <1>4, <3>6, <3>7, <4>1, <4>2, TreeGrows
    <3>9. UNION {StmtLines(s) : s \in Range(<<sd>>)} = StmtLines(sd)  BY <3>6
    <3> QED  BY <1>3, <3>3, <3>8, <3>9
  <2> QED  BY <2>1, <2>2
<1>6. ScanStands'  BY <1>1, <1>2, <1>4 DEF ScanStands, LinesStand
<1>7. IsSeq(lines) /\ Len(lines) \in Nat /\ DOMAIN lines = 1..Len(lines)
  BY <1>4, SeqIs DEF ScanStands, LinesStand
<1>8. CASE at > Len(lines) /\ stage' = "done" /\ UNCHANGED <<at, def>>
  <2>1. Written(at) = WrittenLines'  BY <1>1, <1>3, <1>7, <1>8 DEF Written, WrittenLines
  <2> QED  BY <1>4, <1>5, <1>6, <1>8, <2>1 DEF IInv
<1>9. CASE ~(at > Len(lines)) /\ def' = Line.line /\ at' = at + 1 /\ stage' = stage
  <2>1. at \in DOMAIN lines  BY <1>3, <1>7, <1>9
  <2>2. Line.line \in Nat \ {0}  BY <1>4, <2>1 DEF ScanStands, LinesStand, Line
  <2>3. Line.txt # <<>>
    <3>1. IsSceneDef(Line)  BY <1>1, <2>1 DEF PartEnds
    <3>2. Len(Line.txt) >= 3 /\ Len(<<>>) = 0  BY <3>1 DEF IsSceneDef
    <3> QED  BY <3>2
  <2>4. at + 1 \in Nat /\ at <= at + 1  BY <1>3
  <2>5. New(at + 1) = {Line.line}
    <3>1. \A j \in DOMAIN lines : at <= j /\ j < at + 1 <=> j = at  BY <1>7, <2>1
    <3> QED  BY <2>1, <2>3, <3>1 DEF New, Line
  <2>6. Written(at + 1) = Written(at) \cup {Line.line} /\ Above(Written(at), {Line.line})
    BY <1>1, <2>4, <2>5, LinesAhead
  <2>7. DefLine' = {Line.line}  BY <1>9, <2>2 DEF DefLine
  <2>8. PartStands(p, at)'
    <3>1. /\ p' = Empty /\ Shape(p') /\ Ended(p)' = <<>> /\ LinesOf(Ended(p))' = {} /\ Layout(Ended(p))'
          /\ p'.member = <<>>
      <4>1. Ended(p)' = <<>>  BY <1>1, NothingRead
      <4>2. Layout(<<>>)'  BY EmptyIsSeq DEF Layout
      <4> QED  BY <1>1, <4>1, <4>2, NothingRead
    <3>2. MemberStands(p)'  BY <3>1 DEF MemberStands
    <3>3. Written(at)' = Written(at + 1)  BY <1>1, <1>9 DEF Written
    <3>4. at' \in Nat \ {0} /\ at' <= Len(lines') + 1  BY <1>1, <1>3, <1>7, <1>9
    <3>5. Above(TreeLines', DefLine')  BY <1>5, <2>6, <2>7
    <3> QED  BY <1>5, <2>6, <2>7, <3>1, <3>2, <3>3, <3>4, <3>5 DEF PartStands, Above
  <2>9. stage' = "parse" /\ def' \in Nat  BY <1>1, <1>9, <2>2
  <2> QED  BY <1>5, <1>6, <2>8, <2>9 DEF IInv
<1> QED  BY <1>2, <1>8, <1>9

(***************************************************************************)
(* The invariant holds.                                                    *)
(***************************************************************************)
LEMMA InitIInv == ReaderInit => IInv
<1> SUFFICES ASSUME ReaderInit
             PROVE  IInv
  OBVIOUS
<1>1. /\ doc \in Documents /\ stage = "scan" /\ at = 1 /\ lines = <<>> /\ pend = NoLine
      /\ def = 0 /\ tree = <<>> /\ p = Empty
  BY DEF ReaderInit, ScanInit
<1>2. IsSeq(<<>>) /\ Range(<<>>) = {} /\ DOMAIN <<>> = {}  BY EmptyIsSeq
<1>3. LinesStand  BY <1>1, <1>2 DEF LinesStand
<1>4. Fresh  BY <1>1 DEF Fresh, NoLine
<1>5. ScanStands  BY <1>1, <1>2, <1>3, <1>4 DEF ScanStands
<1>6. TreeStands  BY <1>1, <1>2 DEF TreeStands
<1> QED  BY <1>1, <1>5, <1>6 DEF IInv

LEMMA ScanningKeeps ==
  ASSUME IInv, Scanning
  PROVE  IInv'
<1>1. stage = "scan" /\ UNCHANGED <<def, tree, p>>
  BY DEF Scanning, ScanScalar, ScanRaw, ScanEnd
<1>2. def = 0 /\ tree = <<>> /\ p = Empty  BY <1>1 DEF IInv
<1>3. ScanStands'  BY ScanKeeps DEF IInv, Scanning
<1>4. IsSeq(<<>>) /\ Range(<<>>) = {} /\ DOMAIN <<>> = {}  BY EmptyIsSeq
<1>5. TreeStands' /\ TreeLines' = {}  BY <1>1, <1>2, <1>4 DEF TreeStands, TreeLines
<1>6. stage' = "parse" => PartStands(p, at)'
  <2> SUFFICES ASSUME stage' = "parse"
               PROVE  PartStands(p, at)'
    OBVIOUS
  <2>1. at' = 1  BY <1>1 DEF Scanning, ScanScalar, ScanRaw, ScanEnd
  <2>2. Len(lines') \in Nat /\ DOMAIN lines' = 1..Len(lines')
    BY <1>3, SeqIs DEF ScanStands, LinesStand
  <2>3. Written(at)' = {}  BY <2>1, <2>2 DEF Written
  <2>4. /\ Shape(p)' /\ Ended(p)' = <<>> /\ LinesOf(Ended(p))' = {} /\ Layout(Ended(p))'
        /\ MemberStands(p)'
    <3>1. Ended(p)' = <<>>  BY <1>1, <1>2, NothingRead
    <3>2. Layout(<<>>)'  BY <1>4 DEF Layout
    <3>3. MemberStands(p)'  BY <1>1, <1>2, NothingRead DEF MemberStands
    <3> QED  BY <1>1, <1>2, <3>1, <3>2, <3>3, NothingRead
  <2>5. DefLine' = {}  BY <1>1, <1>2 DEF DefLine
  <2>6. 1 \in Nat \ {0} /\ 1 <= Len(lines') + 1  BY <2>2
  <2>7. \A x : Above({}, x)  BY DEF Above
  <2> QED  BY <1>5, <2>1, <2>3, <2>4, <2>5, <2>6, <2>7 DEF PartStands
<1>7. stage' # "done"  BY <1>1 DEF Scanning, ScanScalar, ScanRaw, ScanEnd
<1> QED  BY <1>1, <1>2, <1>3, <1>5, <1>6, <1>7 DEF IInv

LEMMA ParsingKeeps ==
  ASSUME IInv, Parsing
  PROVE  IInv'
<1>1. CASE EndPart  BY <1>1, EndPartKeeps
<1>2. ASSUME stage = "parse", Took \/ Reject
      PROVE  IInv'
  BY <1>2, TookKeeps, RejectKeeps
<1>3. CASE BlankLine  BY <1>2, <1>3, BlankLineTook DEF BlankLine, Reading
<1>4. CASE FamilyHeadLine  BY <1>2, <1>4, FamilyHeadLineTook DEF FamilyHeadLine, Reading
<1>5. CASE FamilyFieldLine  BY <1>2, <1>5, FamilyFieldLineTook DEF FamilyFieldLine, Reading
<1>6. CASE FieldLine  BY <1>2, <1>6, FieldLineTook DEF FieldLine, Reading
<1>7. CASE BarLine  BY <1>2, <1>7, BarLineTook DEF BarLine, Reading
<1>8. CASE TopLine  BY <1>2, <1>8, TopLineTook DEF TopLine, Reading
<1> QED  BY <1>1, <1>3, <1>4, <1>5, <1>6, <1>7, <1>8 DEF Parsing

LEMMA SameKeeps ==
  ASSUME IInv, UNCHANGED vars
  PROVE  IInv'
<1>1. UNCHANGED <<doc, stage, at, lines, pend, def, tree, p>>  BY DEF vars
<1>2. ScanStands'  BY <1>1 DEF IInv, ScanStands, LinesStand, Fresh
<1>3. TreeStands'  BY <1>1, LayoutStays DEF IInv, TreeStands
<1>4. stage = "parse" => PartStands(p, at)'
  <2> SUFFICES ASSUME stage = "parse"
               PROVE  PartStands(p, at)'
    OBVIOUS
  <2>1. MemberStands(p)'  BY <1>1, LayoutStays DEF MemberStands, IInv, PartStands
  <2>2. Layout(Ended(p))'  BY <1>1, LayoutStays DEF IInv, PartStands
  <2> QED  BY <1>1, <2>1, <2>2 DEF IInv, PartStands, TreeLines, DefLine, Written
<1> QED  BY <1>1, <1>2, <1>3, <1>4 DEF IInv, TreeLines, WrittenLines

\* At every step of the reader the parts read, the line of the definition at
\* hand and the part at hand, were it to end here, hold the written lines up
\* to the next one, each once and in order.
THEOREM ReaderInvariant == ReaderSpec => []IInv
<1>1. ReaderInit => IInv  BY InitIInv
<1>2. IInv /\ [Scanning \/ Parsing \/ Stop]_vars => IInv'
  <2>1. ASSUME IInv, Scanning \/ Parsing \/ Stop \/ UNCHANGED vars
        PROVE  IInv'
    BY <2>1, ScanningKeeps, ParsingKeeps, SameKeeps DEF Stop
  <2> QED  BY <2>1
<1> QED  BY <1>1, <1>2, PTL DEF ReaderSpec

(***************************************************************************)
(* What follows for an accepted score.                                     *)
(***************************************************************************)
\* A statement of the score is read from a part, or it is a definition.
LEMMA StatementsRead ==
  ASSUME TreeStands, NEW s \in Statements
  PROVE  /\ s.k = "sceneDef" \/ WellRead(s)
         /\ FlatLines(s) \subseteq Nat /\ s.line \in FlatLines(s)
         /\ \E i \in DOMAIN tree :
              /\ FlatLines(s) \subseteq StmtLines(tree[i])
              /\ \/ s = tree[i]
                 \/ tree[i].k = "sceneDef" /\ s \in Range(tree[i].body)
<1>1. CASE s \in Range(tree)
  <2>1. PICK i \in DOMAIN tree : s = tree[i]  BY <1>1 DEF Range
  <2>2. TreeStmt(s)  BY <1>1 DEF TreeStands
  <2>3. CASE s.k = "sceneDef"
    <3>1. FlatLines(s) = {s.line} /\ s.line \in Nat  BY <2>2, <2>3 DEF FlatLines, TreeStmt
    <3>2. s.line \in StmtLines(s)  BY <2>3 DEF StmtLines
    <3> QED  BY <2>1, <2>3, <3>1, <3>2
  <2>4. CASE s.k # "sceneDef"
    <3>1. WellRead(s)  BY <2>2, <2>4 DEF TreeStmt
    <3>2. StmtLines(s) = FlatLines(s)  BY <2>4 DEF StmtLines
    <3> QED  BY <2>1, <3>1, <3>2, FlatLinesAre
  <2> QED  BY <2>3, <2>4
<1>2. CASE s \notin Range(tree)
  <2>1. PICK d \in Range(tree) : d.k = "sceneDef" /\ s \in Range(d.body)  BY <1>2 DEF Statements
  <2>2. PICK i \in DOMAIN tree : d = tree[i]  BY <2>1 DEF Range
  <2>3. WellRead(s)  BY <2>1 DEF TreeStands, TreeStmt, Layout
  <2>4. FlatLines(s) \subseteq StmtLines(d)  BY <2>1 DEF StmtLines
  <2> QED  BY <2>1, <2>2, <2>3, <2>4, FlatLinesAre
<1> QED  BY <1>1, <1>2

\* Of two statements one is above the other, a definition above its body.
LEMMA StatementsApart ==
  ASSUME TreeStands, NEW s \in Statements, NEW t \in Statements
  PROVE  s = t \/ Above(FlatLines(s), FlatLines(t)) \/ Above(FlatLines(t), FlatLines(s))
<1>1. PICK i \in DOMAIN tree :
        /\ FlatLines(s) \subseteq StmtLines(tree[i])
        /\ s = tree[i] \/ (tree[i].k = "sceneDef" /\ s \in Range(tree[i].body))
  BY StatementsRead
<1>2. PICK j \in DOMAIN tree :
        /\ FlatLines(t) \subseteq StmtLines(tree[j])
        /\ t = tree[j] \/ (tree[j].k = "sceneDef" /\ t \in Range(tree[j].body))
  BY StatementsRead
<1>3. Len(tree) \in Nat /\ DOMAIN tree = 1..Len(tree)  BY SeqIs DEF TreeStands
<1>4. CASE i < j  BY <1>1, <1>2, <1>4 DEF TreeStands, Above
<1>5. CASE j < i  BY <1>1, <1>2, <1>5 DEF TreeStands, Above
<1>6. CASE i = j
  <2> DEFINE d == tree[i]
  <2>1. d.k = "sceneDef" => /\ FlatLines(d) = {d.line} /\ Layout(d.body)
                            /\ \A b \in Range(d.body) : Above({d.line}, FlatLines(b))
    <3>1. TreeStmt(d)  BY DEF TreeStands, Range
    <3>2. \A b \in Range(d.body) : FlatLines(b) \subseteq LinesOf(d.body)  BY DEF LinesOf
    <3> QED  BY <3>1, <3>2 DEF TreeStmt, FlatLines, Above
  <2>2. CASE s = d /\ t = d  BY <2>2
  <2>3. CASE d.k = "sceneDef" /\ s = d /\ t \in Range(d.body)  BY <2>1, <2>3
  <2>4. CASE d.k = "sceneDef" /\ t = d /\ s \in Range(d.body)  BY <2>1, <2>4
  <2>5. CASE d.k = "sceneDef" /\ s \in Range(d.body) /\ t \in Range(d.body)
    <3>1. Layout(d.body) /\ Len(d.body) \in Nat /\ DOMAIN d.body = 1..Len(d.body)
      BY <2>1, <2>5, SeqIs DEF Layout
    <3>2. PICK k \in DOMAIN d.body : s = d.body[k]  BY <2>5 DEF Range
    <3>3. PICK m \in DOMAIN d.body : t = d.body[m]  BY <2>5 DEF Range
    <3>4. k < m \/ m < k \/ k = m  BY <3>1
    <3> QED  BY <3>1, <3>2, <3>3, <3>4 DEF Layout
  <2> QED  BY <1>1, <1>2, <1>6, <2>2, <2>3, <2>4, <2>5
<1> QED  BY <1>3, <1>4, <1>5, <1>6

\* A record is a statement or a member of one.
LEMMA RecordsRead ==
  ASSUME TreeStands, NEW r \in Records
  PROVE  /\ IsRecordStmt(r) /\ RecordInOrder(r)
         /\ \E s \in Statements :
              /\ RecordLines(r) \subseteq FlatLines(s)
              /\ \/ s = r
                 \/ s.k = "family" /\ WellRead(s) /\ r \in Range(s.members)
<1>1. CASE r \in Statements /\ r.k = "record"
  <2>1. WellRead(r)  BY <1>1, StatementsRead
  <2> QED  BY <1>1, <2>1 DEF WellRead, InOrder, FlatLines
<1>2. CASE ~(r \in Statements /\ r.k = "record")
  <2>1. PICK s \in Statements : s.k = "family" /\ r \in Range(s.members)  BY <1>2 DEF Records
  <2>2. WellRead(s)  BY <2>1, StatementsRead
  <2>3. RecordLines(r) \subseteq FlatLines(s)  BY <2>1, FamilyFlatLines
  <2> QED  BY <2>1, <2>2, <2>3 DEF WellRead, IsFamilyStmt, InOrder, FamilyInOrder
<1> QED  BY <1>1, <1>2

\* A header is the first line of a statement or of a member, or a local binding.
LEMMA HeadersRead ==
  ASSUME TreeStands, NEW h \in Headers
  PROVE  \E s \in Statements :
           /\ h \in FlatLines(s)
           /\ \/ h = s.line
              \/ /\ s.k = "family" /\ WellRead(s)
                 /\ \/ \E m \in Range(s.members) : h = m.line
                    \/ \E l \in Range(s.locals) : h = l.line
<1>1. CASE \E s \in Statements : h = s.line  BY <1>1, StatementsRead
<1>2. CASE \E r \in Records : h = r.line
  <2>1. PICK r \in Records : h = r.line  BY <1>2
  <2>2. PICK s \in Statements :
          /\ RecordLines(r) \subseteq FlatLines(s)
          /\ s = r \/ (s.k = "family" /\ WellRead(s) /\ r \in Range(s.members))
    BY <2>1, RecordsRead
  <2>3. r.line \in RecordLines(r)  BY DEF RecordLines
  <2> QED  BY <2>1, <2>2, <2>3
<1>3. CASE \E s \in Statements : s.k = "family" /\ \E l \in Range(s.locals) : h = l.line
  <2>1. PICK s \in Statements : s.k = "family" /\ \E l \in Range(s.locals) : h = l.line  BY <1>3
  <2>2. WellRead(s)  BY <2>1, StatementsRead
  <2>3. h \in FlatLines(s)  BY <2>1, FamilyFlatLines
  <2> QED  BY <2>1, <2>2, <2>3
<1> QED  BY <1>1, <1>2, <1>3 DEF Headers

\* No header stands between a record's header and the last of its lines.
LEMMA HeadersApart ==
  ASSUME TreeStands, NEW r \in Records, NEW h \in Headers
  PROVE  h \in Nat /\ (h <= r.line \/ Above(RecordLines(r), {h}))
<1>1. IsRecordStmt(r) /\ r.line \in Nat /\ r.line \in RecordLines(r)
  BY RecordsRead DEF IsRecordStmt, RecordLines
<1>2. PICK s \in Statements :
        /\ RecordLines(r) \subseteq FlatLines(s)
        /\ s = r \/ (s.k = "family" /\ WellRead(s) /\ r \in Range(s.members))
  BY RecordsRead
<1>3. PICK t \in Statements :
        /\ h \in FlatLines(t)
        /\ \/ h = t.line
           \/ /\ t.k = "family" /\ WellRead(t)
              /\ \/ \E m \in Range(t.members) : h = m.line
                 \/ \E l \in Range(t.locals) : h = l.line
  BY HeadersRead
<1>4. h \in Nat  BY <1>3, StatementsRead
<1>5. CASE Above(FlatLines(s), FlatLines(t))  BY <1>2, <1>3, <1>4, <1>5 DEF Above
<1>6. CASE Above(FlatLines(t), FlatLines(s))
  <2>1. h < r.line  BY <1>1, <1>2, <1>3, <1>6 DEF Above
  <2> QED  BY <1>1, <1>4, <2>1
<1>7. CASE s = t /\ h = t.line
  <2>1. CASE s = r  BY <1>1, <1>4, <1>7, <2>1
  <2>2. CASE s.k = "family" /\ WellRead(s) /\ r \in Range(s.members)
    <3>1. h < r.line  BY <1>7, <2>2 DEF WellRead, InOrder, FamilyInOrder
    <3> QED  BY <1>1, <1>4, <3>1
  <2> QED  BY <1>2, <2>1, <2>2
<1>8. CASE s = t /\ h # t.line
  <2>1. s.k = "family" /\ WellRead(s) /\ IsFamilyStmt(s) /\ FamilyInOrder(s)
    BY <1>3, <1>8 DEF WellRead, InOrder
  <2>2. r \in Range(s.members)
    <3>1. r.k = "record"  BY <1>1 DEF IsRecordStmt
    <3> QED  BY <1>2, <2>1, <3>1
  <2>3. CASE \E l \in Range(s.locals) : h = l.line
    <3>1. PICK l \in Range(s.locals) : h = l.line  BY <2>3
    <3>2. h < r.line \/ Above(RecordLines(r), {h})  BY <2>1, <2>2, <3>1 DEF FamilyInOrder
    <3> QED  BY <1>1, <1>4, <3>2
  <2>4. CASE \E m \in Range(s.members) : h = m.line
    <3>1. PICK m \in Range(s.members) : h = m.line  BY <2>4
    <3>2. Len(s.members) \in Nat /\ DOMAIN s.members = 1..Len(s.members)
      BY <2>1, SeqIs DEF IsFamilyStmt
    <3>3. PICK i \in DOMAIN s.members : r = s.members[i]  BY <2>2 DEF Range
    <3>4. PICK j \in DOMAIN s.members : m = s.members[j]  BY <3>1 DEF Range
    <3>5. h \in RecordLines(m)  BY <3>1 DEF RecordLines
    <3>6. CASE i = j  BY <1>1, <1>4, <3>1, <3>3, <3>4, <3>6
    <3>7. CASE i < j
      <4>1. Above(RecordLines(r), RecordLines(m))  BY <2>1, <3>3, <3>4, <3>7 DEF FamilyInOrder
      <4> QED  BY <1>4, <3>5, <4>1 DEF Above
    <3>8. CASE j < i
      <4>1. Above(RecordLines(m), RecordLines(r))  BY <2>1, <3>3, <3>4, <3>8 DEF FamilyInOrder
      <4>2. h < r.line  BY <1>1, <3>5, <4>1 DEF Above
      <4> QED  BY <1>1, <1>4, <4>2
    <3> QED  BY <3>2, <3>6, <3>7, <3>8
  <2> QED  BY <1>3, <1>8, <2>3, <2>4
<1> QED  BY <1>4, <1>5, <1>6, <1>7, <1>8, StatementsApart

\* parse.go, parseLogicalLines: every written line of an accepted score is
\* read into one statement, and statements keep the order of their lines.
THEOREM EveryLineIsReadOnce == ReaderSpec => []EveryLineOnce
<1>1. ASSUME IInv
      PROVE  EveryLineOnce
  <2> SUFFICES ASSUME stage = "done"
               PROVE  EveryLineOnce
    BY DEF EveryLineOnce
  <2>1. TreeStands /\ TreeLines = WrittenLines  BY <1>1 DEF IInv
  <2>2. \A i, j \in DOMAIN tree : i < j => Above(StmtLines(tree[i]), StmtLines(tree[j]))
    BY <2>1 DEF TreeStands
  <2>3. ASSUME NEW s \in Range(tree), s.k = "sceneDef"
        PROVE  /\ \A b \in Range(s.body) : Above({s.line}, FlatLines(b))
               /\ \A i, j \in DOMAIN s.body : i < j => Above(FlatLines(s.body[i]), FlatLines(s.body[j]))
    <3>1. Layout(s.body) /\ Above({s.line}, LinesOf(s.body))  BY <2>1, <2>3 DEF TreeStands, TreeStmt
    <3>2. \A b \in Range(s.body) : FlatLines(b) \subseteq LinesOf(s.body)  BY DEF LinesOf
    <3> QED  BY <3>1, <3>2 DEF Layout, Above
  <2>4. \A s \in Statements : InOrder(s)
    <3>1. \A s \in Statements : s.k = "sceneDef" \/ WellRead(s)  BY <2>1, StatementsRead
    <3> QED  BY <3>1 DEF WellRead, InOrder
  <2> QED  BY <2>1, <2>2, <2>3, <2>4 DEF EveryLineOnce, TreeLines
<1> QED  BY <1>1, ReaderInvariant, PTL

\* parse.go, parseRecordFieldLine and the members of a family: a field is read
\* into the record or the member whose header is the nearest above it.
THEOREM FieldsBelongToTheNearest == ReaderSpec => []FieldsUnderNearest
<1>1. ASSUME IInv
      PROVE  FieldsUnderNearest
  <2> SUFFICES ASSUME NEW r \in Records, NEW f \in Range(r.fields)
               PROVE  r.line = Max({h \in Headers : h < f.line})
    BY DEF FieldsUnderNearest
  <2>1. TreeStands  BY <1>1 DEF IInv
  <2>2. IsRecordStmt(r) /\ RecordInOrder(r)  BY <2>1, RecordsRead
  <2>3. r.line \in Headers /\ r.line \in Nat  BY <2>2 DEF Headers, IsRecordStmt
  <2>4. f.line \in RecordLines(r) /\ r.line < f.line /\ f.line \in Nat
    <3>1. PICK n \in DOMAIN r.fields : f = r.fields[n]  BY DEF Range
    <3>2. f.line \in RecordLines(r)  BY DEF RecordLines, FieldLines
    <3> QED  BY <2>2, <3>1, <3>2 DEF RecordInOrder, IsRecordStmt, IsField
  <2> DEFINE S == {h \in Headers : h < f.line}
  <2>5. S \in SUBSET Nat /\ r.line \in S  BY <2>1, <2>3, <2>4, HeadersApart
  <2>6. ASSUME NEW h \in S
        PROVE  h <= r.line
    <3>1. h \in Nat /\ (h <= r.line \/ Above(RecordLines(r), {h}))  BY <2>1, HeadersApart
    <3>2. ~Above(RecordLines(r), {h})
      <4>1. ~(f.line < h)  BY <2>4, <3>1
      <4> QED  BY <2>4, <4>1 DEF Above
    <3> QED  BY <3>1, <3>2
  <2> HIDE DEF S
  <2>7. Max(S) = r.line  BY <2>5, <2>6, GreatestIs
  <2> QED  BY <2>7 DEF S
<1> QED  BY <1>1, ReaderInvariant, PTL

\* parse.go, isInlineBlockHeader: a row that begins with a duration is read
\* into a block with an inline row only when it is shorter than the block.
THEOREM RowsAreShorter == ReaderSpec => []RowsFitTheirBlock
<1>1. ASSUME IInv
      PROVE  RowsFitTheirBlock
  <2>1. TreeStands  BY <1>1 DEF IInv
  <2>2. ASSUME NEW b \in Statements, b.k = "block", b.inline
        PROVE  RowsFit(b)
    <3>1. WellRead(b)  BY <2>1, <2>2, StatementsRead
    <3> QED  BY <2>2, <3>1 DEF WellRead
  <2> QED  BY <2>2 DEF RowsFitTheirBlock
<1> QED  BY <1>1, ReaderInvariant, PTL
=============================================================================
