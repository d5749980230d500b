--------------------------- MODULE TextKeptProofs ---------------------------
(***************************************************************************)
(* What is lost between a source and its statements, proved for every      *)
(* source and every value of the constants: the logical lines hold what    *)
(* the physical ones do, comments apart, spaces between what is not a      *)
(* literal, and the blanks that end the line a literal opens on; and a     *)
(* block scalar is read as the lines under its key.                        *)
(*                                                                         *)
(* Every text here is a fold over a sequence. A fold takes the greatest of *)
(* the positions 1..n last; the first lemmas turn it into a run, the       *)
(* function of 0..n that begins with the base and goes on step by step,    *)
(* and what holds of every prefix is proved by induction along that run.   *)
(***************************************************************************)
EXTENDS ScoreLayoutProofs, FiniteSetTheorems

(***************************************************************************)
(* Folds, as runs.                                                         *)
(***************************************************************************)

\* What holds of 0 and of every number after one it holds of holds up to n.
LEMMA Upwards ==
  ASSUME NEW n \in Nat, NEW S, 0 \in S, \A k \in 1..n : k - 1 \in S => k \in S
  PROVE  \A k \in 0..n : k \in S
<1> DEFINE T == (0..n) \ S
<1>1. SUFFICES ASSUME T # {}
               PROVE  FALSE
  OBVIOUS
<1>2. Min(T) \in T /\ \A m \in T : Min(T) <= m
  <2>1. T \subseteq Nat  OBVIOUS
  <2> HIDE DEF T
  <2> QED  BY <1>1, <2>1, LeastElement
<1> DEFINE b == Min(T)
<1>3. b \in 0..n /\ b \notin S  BY <1>2
<1>4. b \in 1..n /\ b - 1 \in 0..n /\ b - 1 < b
  <2> HIDE DEF b
  <2> QED  BY <1>3
<1>5. b - 1 \in S
  <2>1. b - 1 \notin T  BY <1>2, <1>4
  <2> HIDE DEF b
  <2> QED  BY <1>4, <2>1
<1> HIDE DEF b
<1> QED  BY <1>3, <1>4, <1>5

Repeated(f, n, x, g) == f[0] = x /\ \A k \in 1..n : f[k] = g[<<k, f[k - 1]>>]

\* Adding one at the end.
LEMMA Appended ==
  ASSUME NEW S, NEW t \in Seq(S), NEW c \in S
  PROVE  Append(t, c) \in Seq(S) /\ t \o <<c>> \in Seq(S) /\ Append(t, c) = t \o <<c>>
OBVIOUS

\* The numbers up to k, the last of them and those before it.
LEMMA FirstNumbers ==
  ASSUME NEW n \in Nat, NEW k \in 1..n
  PROVE  1..k \in SUBSET (1..n) /\ 1..k # {} /\ Max(1..k) = k /\ (1..k) \ {k} = 1..(k - 1)
<1>1. 1..k \in SUBSET Nat /\ k \in 1..k /\ \A y \in 1..k : y <= k  OBVIOUS
<1>2. Max(1..k) = k  BY <1>1, GreatestIs
<1> QED  BY <1>1, <1>2

\* The greatest of some of 1..n, and those below it.
LEMMA LastOf ==
  ASSUME NEW n \in Nat, NEW S \in SUBSET (1..n), S # {}
  PROVE  Max(S) \in S /\ Max(S) \in 1..n /\ S \ {Max(S)} \in SUBSET (1..(Max(S) - 1))
<1> DEFINE Up == {n - x : x \in S}
<1>1. Up \in SUBSET Nat /\ Up # {}  OBVIOUS
<1>2. Min(Up) \in Up /\ \A x \in Up : Min(Up) <= x
  <2> HIDE DEF Up
  <2> QED  BY <1>1, LeastElement
<1>3. PICK m \in S : Min(Up) = n - m  BY <1>2
<1>4. \A y \in S : y <= m
  <2> TAKE y \in S
  <2>1. n - y \in Up  OBVIOUS
  <2>2. Min(Up) <= n - y  BY <1>2, <2>1
  <2> HIDE DEF Up
  <2> QED  BY <1>3, <2>2
<1>5. S \in SUBSET Nat  OBVIOUS
<1>6. Max(S) = m  BY <1>4, <1>5, GreatestIs
<1> QED  BY <1>4, <1>6

\* The function a fold is defined with: it takes the greatest of a set of
\* numbers last. It exists, whatever is done in each step.
FoldsUp(F, n, b, g) ==
  \A S \in SUBSET (1..n) : F[S] = IF S = {} THEN b ELSE g[<<Max(S), F[S \ {Max(S)}]>>]
LEMMA FoldExists ==
  ASSUME NEW n \in Nat, NEW V, NEW b \in V, NEW g \in [(1..n) \X V -> V]
  PROVE  \E F \in [SUBSET (1..n) -> V] : FoldsUp(F, n, b, g)
<1> DEFINE E(m) == \E F \in [SUBSET (1..m) -> V] : FoldsUp(F, m, b, g)
           K == {m \in 0..n : E(m)}
<1>1. E(0)
  <2> DEFINE F == [S \in SUBSET (1..0) |-> b]
  <2>1. F \in [SUBSET (1..0) -> V]  OBVIOUS
  <2>2. \A S \in SUBSET (1..0) : S = {}  OBVIOUS
  <2>3. FoldsUp(F, 0, b, g)  BY <2>2 DEF FoldsUp
  <2> QED  BY <2>1, <2>3
<1>2. ASSUME NEW m \in 1..n, E(m - 1)
      PROVE  E(m)
  <2>1. PICK F \in [SUBSET (1..(m - 1)) -> V] : FoldsUp(F, m - 1, b, g)  BY <1>2
  <2> DEFINE G == [S \in SUBSET (1..m) |-> IF m \in S THEN g[<<m, F[S \ {m}]>>] ELSE F[S]]
  <2>2. ASSUME NEW S \in SUBSET (1..m)
        PROVE  /\ m \in S => S \ {m} \in SUBSET (1..(m - 1)) /\ Max(S) = m
               /\ m \notin S => S \in SUBSET (1..(m - 1))
    <3>1. m \in S => Max(S) = m
      <4>1. S \in SUBSET Nat /\ \A y \in S : y <= m  OBVIOUS
      <4> QED  BY <4>1, GreatestIs
    <3> QED  BY <3>1
  <2>3. G \in [SUBSET (1..m) -> V]
    <3>1. ASSUME NEW S \in SUBSET (1..m)
          PROVE  G[S] \in V
      <4>1. CASE m \in S
        <5>1. F[S \ {m}] \in V  BY <2>2, <4>1
        <5> QED  BY <4>1, <5>1
      <4>2. CASE m \notin S
        <5> QED  BY <2>2, <4>2
      <4> QED  BY <4>1, <4>2
    <3> QED  BY <3>1
  <2>4. ASSUME NEW S \in SUBSET (1..m), S # {}
        PROVE  G[S] = g[<<Max(S), G[S \ {Max(S)}]>>]
    <3>1. CASE m \in S
      <4>1. m \notin S \ {m} /\ S \ {m} \in SUBSET (1..m)  OBVIOUS
      <4>2. G[S \ {m}] = F[S \ {m}] /\ G[S] = g[<<m, F[S \ {m}]>>]  BY <3>1, <4>1
      <4> HIDE DEF G
      <4> QED  BY <2>2, <3>1, <4>2
    <3>2. CASE m \notin S
      <4>1. S \in SUBSET (1..(m - 1)) /\ m - 1 \in Nat  BY <2>2, <3>2
      <4>2. F[S] = g[<<Max(S), F[S \ {Max(S)}]>>]  BY <2>1, <2>4, <4>1 DEF FoldsUp
      <4>3. G[S] = F[S]  BY <3>2
      <4>4. G[S \ {Max(S)}] = F[S \ {Max(S)}]  BY <3>2
      <4> HIDE DEF G
      <4> QED  BY <4>2, <4>3, <4>4
    <3> QED  BY <3>1, <3>2
  <2>5. G[{}] = b
    <3>1. G[{}] = F[{}] /\ F[{}] = b  BY <2>1 DEF FoldsUp
    <3> QED  BY <3>1
  <2> HIDE DEF G
  <2>6. FoldsUp(G, m, b, g)  BY <2>4, <2>5 DEF FoldsUp
  <2> QED  BY <2>3, <2>6
<1> HIDE DEF E
<1>3. 0 \in K /\ \A k \in 1..n : k - 1 \in K => k \in K
  <2>1. \A k \in 1..n : k \in 0..n /\ 0 \in 0..n  OBVIOUS
  <2>2. 0 \in 0..n  OBVIOUS
  <2> QED  BY <1>1, <1>2, <2>1, <2>2
<1>4. n \in K
  <2>1. n \in 0..n  OBVIOUS
  <2> HIDE DEF K
  <2> QED  BY <1>3, <2>1, Upwards
<1> QED  BY <1>4 DEF E

\* What a fold makes of 1, 2, ... n is what repeating its step makes of them.
Chain(f, n, V, b, g) ==
  f[{}] = b /\ \A k \in 1..n : f[1..(k - 1)] \in V => f[1..k] = g[<<k, f[1..(k - 1)]>>]
Runs(r, n, V, b, g) == r \in [0..n -> V] /\ Repeated(r, n, b, g)
Follows(r, f, n, V, b, g) == Runs(r, n, V, b, g) /\ r[n] = f[1..n]
LEMMA FoldRepeats ==
  ASSUME NEW n \in Nat, NEW V, NEW b \in V, NEW g \in [(1..n) \X V -> V], NEW f, Chain(f, n, V, b, g)
  PROVE  \E r : Follows(r, f, n, V, b, g)
<1> DEFINE r == [k \in 0..n |-> f[1..k]]
           K == {k \in 0..n : r[k] \in V}
<1>1. r[0] = b /\ 0 \in K
  <2>1. 1..0 = {} /\ 0 \in 0..n  OBVIOUS
  <2> QED  BY <2>1 DEF Chain
<1>2. ASSUME NEW k \in 1..n, k - 1 \in K
      PROVE  k \in K /\ r[k] = g[<<k, r[k - 1]>>]
  <2>1. k \in 0..n /\ k - 1 \in 0..n /\ r[k - 1] = f[1..(k - 1)] /\ r[k] = f[1..k]  OBVIOUS
  <2>2. r[k - 1] \in V  BY <1>2
  <2> HIDE DEF r
  <2>3. r[k] = g[<<k, r[k - 1]>>]  BY <2>1, <2>2 DEF Chain
  <2> QED  BY <2>1, <2>2, <2>3
<1>3. \A k \in 0..n : k \in K
  <2> HIDE DEF K
  <2> QED  BY <1>1, <1>2, Upwards
<1>4. r \in [0..n -> V]  BY <1>3
<1>5. \A k \in 1..n : r[k] = g[<<k, r[k - 1]>>]
  <2>1. \A k \in 1..n : k - 1 \in 0..n  OBVIOUS
  <2> HIDE DEF r, K
  <2> QED  BY <1>2, <1>3, <2>1
<1>6. r[n] = f[1..n]  OBVIOUS
<1> HIDE DEF r
<1> QED  BY <1>1, <1>4, <1>5, <1>6 DEF Repeated, Runs, Follows

\* Repeating the same steps gives the same.
SameSteps(g, e, n, V) == \A k \in 1..n : \A v \in V : g[<<k, v>>] = e[<<k, v>>]
LEMMA RunsAgree ==
  ASSUME NEW n \in Nat, NEW V, NEW x, NEW f, NEW h, NEW g, NEW e, NEW W, NEW m \in Nat, n <= m,
         Runs(f, n, V, x, g), Runs(h, m, W, x, e), SameSteps(g, e, n, V)
  PROVE  \A k \in 0..n : f[k] = h[k]
<1> DEFINE K == {k \in 0..n : f[k] = h[k]}
<1>1. 0 \in K  BY DEF Runs, Repeated
<1>2. ASSUME NEW k \in 1..n, k - 1 \in K
      PROVE  k \in K
  <2>1. k \in 0..n /\ k - 1 \in 0..n /\ f[k - 1] \in V /\ f[k - 1] = h[k - 1] /\ k \in 1..m
    BY <1>2 DEF Runs
  <2>2. f[k] = g[<<k, f[k - 1]>>] /\ h[k] = e[<<k, h[k - 1]>>]  BY <2>1 DEF Runs, Repeated
  <2> QED  BY <2>1, <2>2 DEF SameSteps
<1> HIDE DEF K
<1>3. \A k \in 0..n : k \in K  BY <1>1, <1>2, Upwards
<1> QED  BY <1>3 DEF K

\* One step more goes on from where n steps led.
LEMMA OneMore ==
  ASSUME NEW n \in Nat, NEW V, NEW x, NEW f, NEW h, NEW g, NEW e, NEW m, m = n + 1,
         Runs(f, n, V, x, g), Runs(h, m, V, x, e), SameSteps(g, e, n, V)
  PROVE  f[n] \in V /\ h[m] = e[<<m, f[n]>>]
<1>1. n \in 0..n /\ m \in Nat /\ n <= m /\ m \in 1..m /\ m - 1 = n  OBVIOUS
<1>2. f[n] = h[n]  BY <1>1, RunsAgree
<1>3. h[m] = e[<<m, h[m - 1]>>]  BY <1>1 DEF Runs, Repeated
<1> QED  BY <1>1, <1>2, <1>3 DEF Runs

\* What a longer sequence has in common with the one it was made of.
LEMMA AppendedAt ==
  ASSUME NEW S, NEW s \in Seq(S), NEW c \in S
  PROVE  /\ Append(s, c) \in Seq(S) /\ Len(s) \in Nat /\ Len(Append(s, c)) = Len(s) + 1
         /\ \A k \in 1..Len(s) : Append(s, c)[k] = s[k] /\ s[k] \in S
         /\ Append(s, c)[Len(s) + 1] = c
         /\ <<>> \in Seq(S) /\ Len(<<>>) = 0
OBVIOUS

(***************************************************************************)
(* Literals and spaces.                                                    *)
(***************************************************************************)
\* What a text is made of, escapes and what they denote included.
Atoms == STRING \cup {Space, NewLine, Quote, Backslash, "n", "tab", "return"}

\* Sequences with the same elements are the same.
LEMMA SameSeq ==
  ASSUME NEW S, NEW s \in Seq(S), NEW t \in Seq(S), Len(s) = Len(t), \A j \in 1..Len(s) : s[j] = t[j]
  PROVE  s = t
OBVIOUS

\* The first k elements of a sequence.
LEMMA PrefixIs ==
  ASSUME NEW S, NEW s \in Seq(S), NEW k \in 0..Len(s)
  PROVE  /\ SubSeq(s, 1, k) \in Seq(S) /\ Len(SubSeq(s, 1, k)) = k
         /\ \A j \in 1..k : SubSeq(s, 1, k)[j] = s[j]
OBVIOUS

\* One element more of a sequence.
LEMMA Longer ==
  ASSUME NEW S, NEW s \in Seq(S), NEW k \in 1..Len(s)
  PROVE  /\ SubSeq(s, 1, k) \in Seq(S) /\ SubSeq(s, 1, k - 1) \in Seq(S) /\ s[k] \in S
         /\ SubSeq(s, 1, k) = Append(SubSeq(s, 1, k - 1), s[k])
<1>1. SubSeq(s, 1, k) \in Seq(S) /\ SubSeq(s, 1, k - 1) \in Seq(S) /\ s[k] \in S  OBVIOUS
<1>2. Len(SubSeq(s, 1, k)) = k /\ Len(SubSeq(s, 1, k - 1)) = k - 1  OBVIOUS
<1> DEFINE a == SubSeq(s, 1, k)
           b == Append(SubSeq(s, 1, k - 1), s[k])
<1>3. b \in Seq(S) /\ Len(b) = k  BY <1>1, <1>2
<1>4. \A j \in 1..k : a[j] = b[j]
  <2> TAKE j \in 1..k
  <2>1. a[j] = s[j]  OBVIOUS
  <2>2. b[j] = s[j]
    <3>1. CASE j = k
      <4>1. b[k] = s[k]  BY <1>1, <1>2
      <4> QED  BY <3>1, <4>1
    <3>2. CASE j # k
      <4>1. j \in 1..(k - 1)  BY <3>2
      <4>2. SubSeq(s, 1, k - 1)[j] = s[j]  BY <4>1
      <4> QED  BY <1>1, <1>2, <4>1, <4>2
    <3> QED  BY <3>1, <3>2
  <2> QED  BY <2>1, <2>2
<1>5. a \in Seq(S) /\ Len(a) = k  BY <1>1, <1>2
<1> HIDE DEF a, b
<1>6. a = b  BY <1>3, <1>4, <1>5
<1> QED  BY <1>1, <1>6 DEF a, b

\* The elements of two texts joined.
LEMMA BothParts ==
  ASSUME NEW s \in Seq(Atoms), NEW t \in Seq(Atoms)
  PROVE  /\ s \o t \in Seq(Atoms) /\ Len(s) \in Nat /\ Len(t) \in Nat /\ Len(s \o t) = Len(s) + Len(t)
         /\ \A i \in 1..Len(s) : (s \o t)[i] = s[i]
         /\ \A i \in 1..Len(t) : (s \o t)[Len(s) + i] = t[i]
OBVIOUS

\* Joining a sequence to one.
LEMMA Concats ==
  ASSUME NEW S, NEW s \in Seq(S), NEW t \in Seq(S), NEW c \in S
  PROVE  /\ s \o t \in Seq(S) /\ s \o Append(t, c) = Append(s \o t, c) /\ s \o <<>> = s /\ <<>> \o s = s
         /\ SubSeq(s, 1, 0) = <<>> /\ SubSeq(s, 1, Len(s)) = s
OBVIOUS

\* The spaces of an indent.
LEMMA SpacesIs ==
  ASSUME NEW k \in Nat
  PROVE  Spaces(k) \in Seq(Atoms) /\ Len(Spaces(k)) = k
<1>0. Space \in Atoms  BY DEF Atoms
<1>1. Spaces(k) \in [1..k -> Atoms]  BY <1>0 DEF Spaces
<1> QED  BY <1>1

\* No spaces.
LEMMA NoSpaces == Spaces(0) = <<>>
<1>1. Spaces(0) \in Seq(Atoms) /\ Len(Spaces(0)) = 0  BY SpacesIs
<1> QED  BY <1>1

\* The spaces before a line that goes on within a literal.
LEMMA SpacesAppend ==
  ASSUME NEW k \in Nat, k # 0
  PROVE  /\ Spaces(k) = Append(Spaces(k - 1), Space)
         /\ Spaces(k - 1) \in Seq(Atoms) /\ Len(Spaces(k - 1)) = k - 1
<1>1. /\ Spaces(k) \in Seq(Atoms) /\ Len(Spaces(k)) = k
      /\ Spaces(k - 1) \in Seq(Atoms) /\ Len(Spaces(k - 1)) = k - 1
  BY SpacesIs
<1> DEFINE b == Append(Spaces(k - 1), Space)
<1>2. b \in Seq(Atoms) /\ Len(b) = k /\ b[k] = Space /\ \A j \in 1..(k - 1) : b[j] = Spaces(k - 1)[j]
  <2>1. Space \in Atoms  BY DEF Atoms
  <2> QED  BY <1>1, <2>1, AppendedAt
<1>3. \A j \in 1..(k - 1) : Spaces(k - 1)[j] = Space  BY DEF Spaces
<1>4. \A j \in 1..k : Spaces(k)[j] = Space  BY DEF Spaces
<1> HIDE DEF b
<1>5. \A j \in 1..k : Spaces(k)[j] = b[j]
  <2> TAKE j \in 1..k
  <2>1. j = k \/ j \in 1..(k - 1)  OBVIOUS
  <2> QED  BY <1>2, <1>3, <1>4, <2>1
<1>6. Spaces(k) = b  BY <1>1, <1>2, <1>5
<1> QED  BY <1>1, <1>6 DEF b

\* A quote opens a literal or closes it.
LEMMA UnclosedAppend ==
  ASSUME NEW s \in Seq(Atoms), NEW c \in Atoms
  PROVE  /\ c = Quote => (Unclosed(Append(s, c)) <=> ~Unclosed(s))
         /\ c # Quote => (Unclosed(Append(s, c)) <=> Unclosed(s))
<1> DEFINE t == Append(s, c)
           n == Len(s)
           Q == {j \in DOMAIN s : s[j] = Quote}
           R == {j \in DOMAIN t : t[j] = Quote}
<1>1. /\ t \in Seq(Atoms) /\ n \in Nat /\ Len(t) = n + 1 /\ DOMAIN s = 1..n /\ DOMAIN t = 1..(n + 1)
      /\ \A k \in 1..n : t[k] = s[k]
      /\ t[n + 1] = c
  BY AppendedAt
<1>2. IsFiniteSet(Q) /\ Cardinality(Q) \in Nat /\ n + 1 \notin Q
  <2>1. IsFiniteSet(1..n) /\ Q \subseteq 1..n  BY <1>1, FS_Interval
  <2>2. IsFiniteSet(Q)  BY <2>1, FS_Subset
  <2> HIDE DEF Q
  <2>3. Cardinality(Q) \in Nat  BY <2>2, FS_CardinalityType
  <2>4. n + 1 \notin 1..n  BY <1>1
  <2> QED  BY <2>1, <2>2, <2>3, <2>4
<1>3. CASE c = Quote
  <2>1. R = Q \cup {n + 1}  BY <1>1, <1>3
  <2> HIDE DEF Q, R, n
  <2>2. Cardinality(R) = Cardinality(Q) + 1  BY <1>2, <2>1, FS_AddElement
  <2>3. (Cardinality(R) % 2 = 1) <=> ~(Cardinality(Q) % 2 = 1)  BY <1>2, <2>2
  <2> QED  BY <1>3, <2>3 DEF Q, R, Unclosed
<1>4. CASE c # Quote
  <2>1. R = Q  BY <1>1, <1>4
  <2> QED  BY <1>4, <2>1 DEF Unclosed
<1> QED  BY <1>3, <1>4

\* No literal is open at the start.
LEMMA UnclosedNothing == ~Unclosed(<<>>)
<1>1. {j \in DOMAIN <<>> : <<>>[j] = Quote} = {}  OBVIOUS
<1>2. Cardinality({}) = 0  BY FS_EmptySet
<1> QED  BY <1>1, <1>2 DEF Unclosed

\* Spaces after a text leave a literal open or closed.
LEMMA UnclosedSpaces ==
  ASSUME NEW s \in Seq(Atoms), NEW n \in Nat
  PROVE  s \o Spaces(n) \in Seq(Atoms) /\ (Unclosed(s \o Spaces(n)) <=> Unclosed(s))
<1> DEFINE K == {k \in 0..n : Unclosed(s \o Spaces(k)) <=> Unclosed(s)}
<1>1. 0 \in K
  <2>1. s \o Spaces(0) = s /\ 0 \in 0..n  BY NoSpaces
  <2> QED  BY <2>1
<1>2. ASSUME NEW k \in 1..n, k - 1 \in K
      PROVE  k \in K
  <2>a. k \in Nat /\ k # 0 /\ k \in 0..n  OBVIOUS
  <2>b. Space \in Atoms  BY DEF Atoms
  <2>c. Space # Quote  BY DEF Space, Quote
  <2>1. k \in Nat /\ k # 0 /\ k \in 0..n /\ Space \in Atoms /\ Space # Quote  BY <2>a, <2>b, <2>c
  <2>2. Spaces(k) = Append(Spaces(k - 1), Space) /\ Spaces(k - 1) \in Seq(Atoms)  BY <2>1, SpacesAppend
  <2> DEFINE x == Spaces(k - 1)
  <2>3. x \in Seq(Atoms) /\ Spaces(k) = Append(x, Space)  BY <2>2
  <2>4. Unclosed(s \o x) <=> Unclosed(s)  BY <1>2
  <2> HIDE DEF x
  <2>5. s \o x \in Seq(Atoms) /\ s \o Append(x, Space) = Append(s \o x, Space)
    BY ONLY <2>1, <2>3, s \in Seq(Atoms), Concats
  <2>6. Unclosed(Append(s \o x, Space)) <=> Unclosed(s \o x)  BY <2>1, <2>5, UnclosedAppend
  <2> QED  BY <2>1, <2>3, <2>4, <2>5, <2>6
<1>3. n \in K
  <2>1. n \in 0..n  OBVIOUS
  <2> HIDE DEF K
  <2> QED  BY <1>1, <1>2, <2>1, Upwards
<1>4. Spaces(n) \in Seq(Atoms)  BY SpacesIs
<1> QED  BY <1>3, <1>4

\* Whether a literal is open after two texts joined depends on whether one is
\* after the first.
LEMMA OpenConcat ==
  ASSUME NEW s \in Seq(Atoms), NEW t \in Seq(Atoms), NEW u \in Seq(Atoms), Unclosed(s) <=> Unclosed(t)
  PROVE  Unclosed(s \o u) <=> Unclosed(t \o u)
<1> DEFINE n == Len(u)
           K == {k \in 0..n : Unclosed(s \o SubSeq(u, 1, k)) <=> Unclosed(t \o SubSeq(u, 1, k))}
<1>1. 0 \in K
  <2>1. SubSeq(u, 1, 0) = <<>> /\ s \o <<>> = s /\ t \o <<>> = t /\ 0 \in 0..n  OBVIOUS
  <2> QED  BY <2>1
<1>2. ASSUME NEW k \in 1..n, k - 1 \in K
      PROVE  k \in K
  <2> DEFINE x == SubSeq(u, 1, k - 1)
             c == u[k]
  <2>1. x \in Seq(Atoms) /\ c \in Atoms /\ SubSeq(u, 1, k) = Append(x, c) /\ k \in 0..n  BY Longer
  <2>2. Unclosed(s \o x) <=> Unclosed(t \o x)  BY <1>2
  <2> HIDE DEF x, c, n
  <2>3. s \o x \in Seq(Atoms) /\ s \o Append(x, c) = Append(s \o x, c)
    BY ONLY <2>1, s \in Seq(Atoms), Concats
  <2>4. t \o x \in Seq(Atoms) /\ t \o Append(x, c) = Append(t \o x, c)
    BY ONLY <2>1, t \in Seq(Atoms), Concats
  <2>5. Unclosed(Append(s \o x, c)) <=> Unclosed(Append(t \o x, c))
    <3> DEFINE a == s \o x
               b == t \o x
    <3>1. a \in Seq(Atoms) /\ b \in Seq(Atoms) /\ (Unclosed(a) <=> Unclosed(b))  BY <2>2, <2>3, <2>4
    <3> HIDE DEF a, b
    <3>2. /\ c = Quote => (Unclosed(Append(a, c)) <=> ~Unclosed(a))
          /\ c # Quote => (Unclosed(Append(a, c)) <=> Unclosed(a))
      BY <2>1, <3>1, UnclosedAppend
    <3>3. /\ c = Quote => (Unclosed(Append(b, c)) <=> ~Unclosed(b))
          /\ c # Quote => (Unclosed(Append(b, c)) <=> Unclosed(b))
      BY <2>1, <3>1, UnclosedAppend
    <3>4. Unclosed(Append(a, c)) <=> Unclosed(Append(b, c))  BY <3>1, <3>2, <3>3, Zenon
    <3> QED  BY <3>4 DEF a, b
  <2> QED  BY <2>1, <2>3, <2>4, <2>5
<1>3. n \in K
  <2>1. n \in Nat /\ n \in 0..n  OBVIOUS
  <2> HIDE DEF K, n
  <2> QED  BY <1>1, <1>2, <2>1, Upwards
<1>4. SubSeq(u, 1, n) = u  OBVIOUS
<1> QED  BY <1>3, <1>4

(***************************************************************************)
(* The content of a text: what is in its literals as it stands, the rest   *)
(* without spaces and line breaks.                                         *)
(***************************************************************************)
Positions(s) == [i \in DOMAIN s |-> i]
ContentTaken(s, t, i) == IF Blank(s, i) THEN t ELSE Append(t, s[i])
ContentTaking(s) == [kt \in (1..Len(s)) \X Seq(Atoms) |-> ContentTaken(s, kt[2], kt[1])]
\* Content, atom by atom.
LEMMA ContentSteps ==
  ASSUME NEW s \in Seq(Atoms)
  PROVE  \E r : Runs(r, Len(s), Seq(Atoms), <<>>, ContentTaking(s)) /\ Content(s) = r[Len(s)]
<1> DEFINE n == Len(s)
           V == Seq(Atoms)
           g == ContentTaking(s)
           b == <<>>
           Is(f) == f = [S \in SUBSET (1..n) |->
                           IF S = {} THEN b ELSE ContentTaken(s, f[S \ {Max(S)}], Positions(s)[Max(S)])]
           all == CHOOSE f : Is(f)
<1>1. /\ n \in Nat /\ DOMAIN s = 1..n /\ \A k \in 1..n : s[k] \in Atoms
      /\ DOMAIN Positions(s) = 1..n /\ \A k \in 1..n : Positions(s)[k] = k
  BY DEF Positions
<1>2. Content(s) = all[1..n]
  BY <1>1 DEF Content, Positions, ContentTaken, FoldLeft, MapThenFoldSet
<1>3. b \in V  OBVIOUS
<1>4. g \in [(1..n) \X V -> V]
  <2>1. \A t \in V, k \in 1..n : ContentTaken(s, t, k) \in V  BY <1>1, Appended DEF ContentTaken
  <2>2. \A kt \in (1..n) \X V : kt[2] \in V /\ kt[1] \in 1..n  OBVIOUS
  <2> HIDE DEF V
  <2> QED  BY <2>1, <2>2 DEF ContentTaking, V
<1>5. \A k \in 1..n, t \in V : g[<<k, t>>] = ContentTaken(s, t, k)  BY DEF ContentTaking
<1> HIDE DEF n, V, g, b
<1>6. PICK F \in [SUBSET (1..n) -> V] : FoldsUp(F, n, b, g)  BY <1>1, <1>3, <1>4, FoldExists
<1>7. Is(F)
  <2>1. ASSUME NEW S \in SUBSET (1..n), S # {}
        PROVE  F[S] = ContentTaken(s, F[S \ {Max(S)}], Positions(s)[Max(S)])
    <3>1. Max(S) \in 1..n /\ S \ {Max(S)} \in SUBSET (1..n)  BY <1>1, <2>1, LastOf
    <3>2. F[S] = g[<<Max(S), F[S \ {Max(S)}]>>]  BY <1>6, <2>1 DEF FoldsUp
    <3> QED  BY <1>1, <1>5, <3>1, <3>2
  <2>2. F[{}] = b  BY <1>6 DEF FoldsUp
  <2>3. F = [S \in SUBSET (1..n) |-> F[S]]  OBVIOUS
  <2> QED  BY <2>1, <2>2, <2>3
<1>8. Is(all)
  <2> HIDE DEF Is
  <2> QED  BY <1>7
<1> HIDE DEF all
<1>9. Chain(all, n, V, b, g)
  <2>1. ASSUME NEW k \in 1..n, all[1..(k - 1)] \in V
        PROVE  all[1..k] = g[<<k, all[1..(k - 1)]>>]
    <3>1. 1..k \in SUBSET (1..n) /\ 1..k # {} /\ Max(1..k) = k /\ (1..k) \ {k} = 1..(k - 1)
      BY <1>1, FirstNumbers
    <3>2. all[1..k] = ContentTaken(s, all[1..(k - 1)], Positions(s)[k])  BY <1>8, <3>1
    <3> QED  BY <1>1, <1>5, <2>1, <3>2
  <2>2. all[{}] = b  BY <1>8
  <2> QED  BY <2>1, <2>2 DEF Chain
<1> HIDE DEF Is
<1>10. PICK r : Follows(r, all, n, V, b, g)
  <2>1. n \in Nat  BY <1>1
  <2> QED  BY <2>1, <1>3, <1>4, <1>9, FoldRepeats
<1> QED  BY <1>2, <1>10 DEF n, V, g, b, Follows

\* One atom more is part of the content, unless it is a space or a line break
\* outside a literal.
Holds(open, t, c) == IF c \in {Space, NewLine} /\ ~open THEN t ELSE Append(t, c)
LEMMA ContentAppend ==
  ASSUME NEW s \in Seq(Atoms), NEW c \in Atoms
  PROVE  Content(Append(s, c)) = Holds(Unclosed(s), Content(s), c) /\ Content(s) \in Seq(Atoms)
<1> DEFINE n == Len(s)
           t == Append(s, c)
<1>1. /\ t \in Seq(Atoms) /\ n \in Nat /\ Len(t) = n + 1
      /\ \A k \in 1..n : t[k] = s[k] /\ s[k] \in Atoms
      /\ t[n + 1] = c
  BY AppendedAt
<1>2. ASSUME NEW k \in 1..(n + 1)
      PROVE  SubSeq(t, 1, k - 1) = SubSeq(s, 1, k - 1)
  <2>1. k - 1 \in 0..Len(s) /\ k - 1 \in 0..Len(t)  BY <1>1
  <2> DEFINE x == SubSeq(t, 1, k - 1)
             y == SubSeq(s, 1, k - 1)
  <2>2. /\ x \in Seq(Atoms) /\ Len(x) = k - 1 /\ \A j \in 1..(k - 1) : x[j] = t[j]
        /\ y \in Seq(Atoms) /\ Len(y) = k - 1 /\ \A j \in 1..(k - 1) : y[j] = s[j]
    BY <1>1, <2>1, PrefixIs
  <2>3. \A j \in 1..(k - 1) : t[j] = s[j]  BY <1>1
  <2> HIDE DEF x, y
  <2>4. Len(x) = Len(y) /\ \A j \in 1..Len(x) : x[j] = y[j]  BY <2>2, <2>3
  <2>5. x = y  BY <2>2, <2>4, SameSeq
  <2> QED  BY <2>5 DEF x, y
<1>3. SubSeq(s, 1, n) = s  OBVIOUS
<1> HIDE DEF n, t
<1>4. PICK f : Runs(f, n, Seq(Atoms), <<>>, ContentTaking(s)) /\ Content(s) = f[n]
  BY ContentSteps DEF n
<1>5. PICK h : Runs(h, n + 1, Seq(Atoms), <<>>, ContentTaking(t)) /\ Content(t) = h[n + 1]
  BY <1>1, ContentSteps
<1>6. SameSteps(ContentTaking(s), ContentTaking(t), n, Seq(Atoms))
  <2>1. ASSUME NEW k \in 1..n, NEW v \in Seq(Atoms)
        PROVE  ContentTaken(s, v, k) = ContentTaken(t, v, k)
    <3>1. k \in 1..(n + 1) /\ t[k] = s[k]  BY <1>1
    <3>2. SubSeq(t, 1, k - 1) = SubSeq(s, 1, k - 1)  BY <1>2, <3>1
    <3> QED  BY <3>1, <3>2 DEF ContentTaken, Blank
  <2>2. \A k \in 1..n, v \in Seq(Atoms) : ContentTaking(s)[<<k, v>>] = ContentTaken(s, v, k)  BY DEF ContentTaking, n
  <2>3. \A k \in 1..n, v \in Seq(Atoms) : ContentTaking(t)[<<k, v>>] = ContentTaken(t, v, k)
    <3> TAKE k \in 1..n, v \in Seq(Atoms)
    <3>1. k \in 1..Len(t)  BY <1>1
    <3> QED  BY <3>1 DEF ContentTaking
  <2> QED  BY <2>1, <2>2, <2>3 DEF SameSteps
<1>7. \A v \in Seq(Atoms) : ContentTaking(t)[<<n + 1, v>>] = Holds(Unclosed(s), v, c)
  <2> TAKE v \in Seq(Atoms)
  <2>1. n + 1 \in 1..Len(t) /\ n + 1 \in 1..(n + 1) /\ (n + 1) - 1 = n  BY <1>1
  <2>2. ContentTaking(t)[<<n + 1, v>>] = ContentTaken(t, v, n + 1)  BY <2>1 DEF ContentTaking
  <2>3. SubSeq(t, 1, (n + 1) - 1) = s  BY <1>2, <1>3, <2>1
  <2>4. ContentTaken(t, v, n + 1) = Holds(Unclosed(s), v, c)  BY <1>1, <2>3 DEF ContentTaken, Blank, Holds
  <2> QED  BY <2>2, <2>4
<1>8. f[n] \in Seq(Atoms) /\ h[n + 1] = ContentTaking(t)[<<n + 1, f[n]>>]
  BY <1>1, <1>4, <1>5, <1>6, OneMore
<1> QED  BY <1>4, <1>5, <1>7, <1>8 DEF t

\* Texts with the same content, and a literal open after both or after none:
\* they are alike whatever follows.
Alike(s, t) ==
  s \in Seq(Atoms) /\ t \in Seq(Atoms) /\ Content(s) = Content(t) /\ (Unclosed(s) <=> Unclosed(t))

\* One atom more.
LEMMA AlikeAppend ==
  ASSUME NEW s, NEW t, Alike(s, t), NEW c \in Atoms
  PROVE  Alike(Append(s, c), Append(t, c))
<1>1. s \in Seq(Atoms) /\ t \in Seq(Atoms) /\ Content(s) = Content(t) /\ (Unclosed(s) <=> Unclosed(t))
  BY DEF Alike
<1>2. Append(s, c) \in Seq(Atoms) /\ Append(t, c) \in Seq(Atoms)  BY <1>1, Appended
<1>3. Content(Append(s, c)) = Holds(Unclosed(s), Content(s), c)  BY <1>1, ContentAppend
<1>4. Content(Append(t, c)) = Holds(Unclosed(t), Content(t), c)  BY <1>1, ContentAppend
<1>5. Holds(Unclosed(s), Content(s), c) = Holds(Unclosed(t), Content(t), c)  BY <1>1 DEF Holds
<1>6. Unclosed(Append(s, c)) <=> Unclosed(Append(t, c))
  <2>1. CASE c = Quote  BY <1>1, <2>1, UnclosedAppend
  <2>2. CASE c # Quote  BY <1>1, <2>2, UnclosedAppend
  <2> QED  BY <2>1, <2>2
<1> QED  BY <1>2, <1>3, <1>4, <1>5, <1>6 DEF Alike

\* A text more.
LEMMA AlikeConcat ==
  ASSUME NEW s, NEW t, Alike(s, t), NEW u \in Seq(Atoms)
  PROVE  Alike(s \o u, t \o u)
<1> DEFINE n == Len(u)
           K == {k \in 0..n : Alike(s \o SubSeq(u, 1, k), t \o SubSeq(u, 1, k))}
<1>0. s \in Seq(Atoms) /\ t \in Seq(Atoms)  BY DEF Alike
<1>1. 0 \in K
  <2>1. SubSeq(u, 1, 0) = <<>> /\ s \o <<>> = s /\ t \o <<>> = t /\ 0 \in 0..n  BY <1>0
  <2> QED  BY <2>1
<1>2. ASSUME NEW k \in 1..n, k - 1 \in K
      PROVE  k \in K
  <2> DEFINE x == SubSeq(u, 1, k - 1)
             c == u[k]
  <2>1. x \in Seq(Atoms) /\ c \in Atoms /\ SubSeq(u, 1, k) = Append(x, c) /\ k \in 0..n  BY Longer
  <2>2. Alike(s \o x, t \o x)  BY <1>2
  <2> HIDE DEF x, c, n
  <2>3. s \o Append(x, c) = Append(s \o x, c)  BY ONLY <2>1, <1>0, Concats
  <2>4. t \o Append(x, c) = Append(t \o x, c)  BY ONLY <2>1, <1>0, Concats
  <2> DEFINE a == s \o x
             b == t \o x
  <2>5. Alike(a, b)  BY <2>2
  <2> HIDE DEF a, b
  <2>6. Alike(Append(a, c), Append(b, c))  BY <2>1, <2>5, AlikeAppend
  <2> QED  BY <2>1, <2>3, <2>4, <2>6 DEF a, b
<1>3. n \in K
  <2>1. n \in Nat /\ n \in 0..n  OBVIOUS
  <2> HIDE DEF K, n
  <2> QED  BY <1>1, <1>2, <2>1, Upwards
<1>4. SubSeq(u, 1, n) = u  OBVIOUS
<1> QED  BY <1>3, <1>4

\* A text is alike to itself, and to what is alike to one that is alike to it.
LEMMA AlikeThrough ==
  ASSUME NEW s, NEW t, NEW u
  PROVE  /\ s \in Seq(Atoms) => Alike(s, s)
         /\ Alike(s, t) => Alike(t, s)
         /\ Alike(s, t) /\ Alike(t, u) => Alike(s, u)
BY DEF Alike

\* A space outside the literals is no part of the content.
LEMMA AlikeSpace ==
  ASSUME NEW s \in Seq(Atoms), ~Unclosed(s)
  PROVE  Alike(Append(s, Space), s)
<1>1. Space \in Atoms /\ Space # Quote  BY DEF Atoms, Space, Quote
<1>2. Append(s, Space) \in Seq(Atoms)  BY <1>1, Appended
<1>3. Content(Append(s, Space)) = Holds(Unclosed(s), Content(s), Space)  BY <1>1, ContentAppend
<1>4. Holds(Unclosed(s), Content(s), Space) = Content(s)  BY DEF Holds
<1>5. Unclosed(Append(s, Space)) <=> Unclosed(s)  BY <1>1, UnclosedAppend
<1> QED  BY <1>2, <1>3, <1>4, <1>5 DEF Alike

\* Nor are several.
LEMMA AlikeSpaces ==
  ASSUME NEW s \in Seq(Atoms), ~Unclosed(s), NEW n \in Nat
  PROVE  Alike(s \o Spaces(n), s)
<1> DEFINE K == {k \in 0..n : Alike(s \o Spaces(k), s)}
<1>1. 0 \in K
  <2>1. s \o Spaces(0) = s /\ 0 \in 0..n  BY NoSpaces
  <2> QED  BY <2>1, AlikeThrough
<1>2. ASSUME NEW k \in 1..n, k - 1 \in K
      PROVE  k \in K
  <2>1. k \in Nat /\ k # 0 /\ k - 1 \in Nat /\ k \in 0..n /\ Space \in Atoms  BY DEF Atoms
  <2> DEFINE x == Spaces(k - 1)
             a == s \o x
  <2>2. Spaces(k) = Append(x, Space) /\ x \in Seq(Atoms)  BY <2>1, SpacesAppend
  <2>3. Alike(a, s)  BY <1>2
  <2>4. a \in Seq(Atoms) /\ ~Unclosed(a)  BY <2>1, UnclosedSpaces
  <2>5. s \o Append(x, Space) = Append(a, Space)
    <3> HIDE DEF x
    <3> QED  BY ONLY <2>1, <2>2, s \in Seq(Atoms), Concats DEF a
  <2> HIDE DEF x, a
  <2>6. Alike(Append(a, Space), a)  BY <2>4, AlikeSpace
  <2>7. Alike(Append(a, Space), s)  BY <2>3, <2>6, AlikeThrough
  <2> QED  BY <2>1, <2>2, <2>5, <2>7
<1>3. n \in K
  <2>1. n \in 0..n  OBVIOUS
  <2> HIDE DEF K
  <2> QED  BY <1>1, <1>2, <2>1, Upwards
<1> QED  BY <1>3

\* A text trimmed is the text without some spaces at its end.
LEMMA TrimIs ==
  ASSUME NEW t \in Seq(Atoms)
  PROVE  TrimRight(t) \in Seq(Atoms) /\ \E k \in Nat : t = TrimRight(t) \o Spaces(k)
<1> DEFINE n == Len(t)
           F == {i \in DOMAIN t : t[i] # Space}
<1>1. n \in Nat /\ DOMAIN t = 1..n /\ F \in SUBSET (1..n)  OBVIOUS
<1>2. PICK m \in 0..n : Max(F \cup {0}) = m /\ \A i \in F : i <= m
  <2> HIDE DEF F, n
  <2>1. CASE F = {}
    <3>1. {0} \in SUBSET Nat /\ 0 \in {0} /\ (\A y \in {0} : y <= 0) /\ F \cup {0} = {0}  BY <2>1
    <3>2. Max({0}) = 0  BY <3>1, GreatestIs
    <3> QED  BY <1>1, <2>1, <3>1, <3>2
  <2>2. CASE F # {}
    <3>1. Max(F) \in F /\ Max(F) \in 1..n /\ F \ {Max(F)} \in SUBSET (1..(Max(F) - 1))
      BY <1>1, <2>2, LastOf
    <3> DEFINE m == Max(F)
    <3>2. m \in F /\ m \in 1..n /\ F \ {m} \in SUBSET (1..(m - 1))  BY <3>1
    <3> HIDE DEF m
    <3>3. F \cup {0} \in SUBSET Nat /\ m \in F \cup {0} /\ \A y \in F \cup {0} : y <= m  BY <1>1, <3>2
    <3>4. Max(F \cup {0}) = m  BY <3>3, GreatestIs
    <3> QED  BY <3>2, <3>3, <3>4
  <2> QED  BY <2>1, <2>2
<1>3. TrimRight(t) = SubSeq(t, 1, m)  BY <1>2 DEF TrimRight
<1> DEFINE x == SubSeq(t, 1, m)
           y == Spaces(n - m)
<1>4. n - m \in Nat /\ m \in 0..Len(t) /\ m + (n - m) = n  BY <1>1
<1>5. x \in Seq(Atoms) /\ Len(x) = m /\ \A j \in 1..m : x[j] = t[j]  BY <1>4, PrefixIs
<1>6. y \in Seq(Atoms) /\ Len(y) = n - m /\ \A j \in 1..(n - m) : y[j] = Space
  BY <1>4, SpacesIs DEF Spaces
<1>7. \A j \in 1..n : j > m => t[j] = Space  BY <1>1, <1>2
<1> HIDE DEF x, y
<1>8. /\ x \o y \in Seq(Atoms) /\ Len(x \o y) = m + (n - m)
      /\ \A i \in 1..m : (x \o y)[i] = x[i]
      /\ \A i \in 1..(n - m) : (x \o y)[m + i] = y[i]
  BY <1>5, <1>6, BothParts
<1>9. ASSUME NEW j \in 1..n
      PROVE  t[j] = (x \o y)[j]
  <2>1. CASE j <= m
    <3>1. j \in 1..m  BY <2>1
    <3> QED  BY <1>5, <1>8, <3>1
  <2>2. CASE j > m
    <3> DEFINE i == j - m
    <3>1. i \in 1..(n - m) /\ m + i = j  BY <1>1, <2>2
    <3>2. t[j] = Space  BY <1>7, <2>2
    <3> HIDE DEF i
    <3>3. y[i] = Space  BY <1>6, <3>1
    <3>4. (x \o y)[m + i] = y[i]  BY <1>8, <3>1
    <3>5. (x \o y)[j] = Space  BY <3>1, <3>3, <3>4
    <3> QED  BY <3>2, <3>5, Zenon
  <2>3. j <= m \/ j > m  BY <1>1
  <2> QED  BY <2>1, <2>2, <2>3, Zenon
<1> DEFINE z == x \o y
<1>10. z \in Seq(Atoms) /\ Len(t) = Len(z) /\ \A j \in 1..Len(t) : t[j] = z[j]  BY <1>4, <1>8, <1>9
<1> HIDE DEF z
<1>11. t = z  BY <1>10, SameSeq
<1> QED  BY <1>3, <1>4, <1>5, <1>11 DEF x, y, z

\* Trimming leaves a literal open or closed, and takes nothing of the content
\* when none is open.
LEMMA TrimAlike ==
  ASSUME NEW s \in Seq(Atoms), NEW t \in Seq(Atoms)
  PROVE  /\ Unclosed(s \o TrimRight(t)) <=> Unclosed(s \o t)
         /\ ~Unclosed(s \o t) => Alike(s \o TrimRight(t), s \o t)
<1>1. PICK k \in Nat : t = TrimRight(t) \o Spaces(k)  BY TrimIs
<1> DEFINE x == TrimRight(t)
           y == Spaces(k)
           a == s \o x
<1>2. x \in Seq(Atoms) /\ y \in Seq(Atoms)  BY TrimIs, SpacesIs
<1>3. t = x \o y  BY <1>1
<1> HIDE DEF x, y
<1>4. a \in Seq(Atoms) /\ s \o (x \o y) = a \o y  BY ONLY <1>2, s \in Seq(Atoms)
<1> HIDE DEF a
<1>5. Unclosed(a \o y) <=> Unclosed(a)  BY <1>4, UnclosedSpaces DEF y
<1>6. ~Unclosed(a) => Alike(a \o y, a)  BY <1>4, AlikeSpaces DEF y
<1>7. ~Unclosed(a) => Alike(a, a \o y)  BY <1>6, AlikeThrough
<1>8. s \o t = a \o y  BY <1>3, <1>4
<1> QED  BY <1>5, <1>7, <1>8 DEF a, x

(***************************************************************************)
(* The text of the logical lines, what is kept of the source, and a scan.  *)
(***************************************************************************)
\* Texts read from lines.
LogicalLine == [ind : Nat, line : Nat, txt : Seq(Atoms)]
Texting(s) == [kt \in (1..Len(s)) \X Seq(Atoms) |-> kt[2] \o s[kt[1]].txt]
\* TextOf, line by line.
LEMMA TextSteps ==
  ASSUME NEW s \in Seq(LogicalLine)
  PROVE  \E r : Runs(r, Len(s), Seq(Atoms), <<>>, Texting(s)) /\ TextOf(s) = r[Len(s)]
<1> DEFINE n == Len(s)
           V == Seq(Atoms)
           g == Texting(s)
           b == <<>>
           Is(f) == f = [S \in SUBSET (1..n) |->
                           IF S = {} THEN b ELSE f[S \ {Max(S)}] \o s[Max(S)].txt]
           all == CHOOSE f : Is(f)
<1>1. n \in Nat /\ DOMAIN s = 1..n /\ \A k \in 1..n : s[k] \in LogicalLine  OBVIOUS
<1>2. TextOf(s) = all[1..n]  BY <1>1 DEF TextOf, FoldLeft, MapThenFoldSet
<1>3. b \in V  OBVIOUS
<1>4. g \in [(1..n) \X V -> V]
  <2>1. \A t \in V, c \in LogicalLine : t \o c.txt \in V  BY DEF LogicalLine
  <2>2. \A kt \in (1..n) \X V : kt[2] \in V /\ s[kt[1]] \in LogicalLine  BY <1>1
  <2> HIDE DEF V
  <2> QED  BY <2>1, <2>2 DEF Texting, V
<1>5. \A k \in 1..n, t \in V : g[<<k, t>>] = t \o s[k].txt  BY DEF Texting
<1> HIDE DEF n, V, g, b
<1>6. PICK F \in [SUBSET (1..n) -> V] : FoldsUp(F, n, b, g)  BY <1>1, <1>3, <1>4, FoldExists
<1>7. Is(F)
  <2>1. ASSUME NEW S \in SUBSET (1..n), S # {}
        PROVE  F[S] = F[S \ {Max(S)}] \o s[Max(S)].txt
    <3>1. Max(S) \in 1..n /\ S \ {Max(S)} \in SUBSET (1..n)  BY <1>1, <2>1, LastOf
    <3>2. F[S] = g[<<Max(S), F[S \ {Max(S)}]>>]  BY <1>6, <2>1 DEF FoldsUp
    <3> QED  BY <1>5, <3>1, <3>2
  <2>2. F[{}] = b  BY <1>6 DEF FoldsUp
  <2>3. F = [S \in SUBSET (1..n) |-> F[S]]  OBVIOUS
  <2> QED  BY <2>1, <2>2, <2>3
<1>8. Is(all)
  <2> HIDE DEF Is
  <2> QED  BY <1>7
<1> HIDE DEF all
<1>9. Chain(all, n, V, b, g)
  <2>1. ASSUME NEW k \in 1..n, all[1..(k - 1)] \in V
        PROVE  all[1..k] = g[<<k, all[1..(k - 1)]>>]
    <3>1. 1..k \in SUBSET (1..n) /\ 1..k # {} /\ Max(1..k) = k /\ (1..k) \ {k} = 1..(k - 1)
      BY <1>1, FirstNumbers
    <3>2. all[1..k] = all[1..(k - 1)] \o s[k].txt  BY <1>8, <3>1
    <3> QED  BY <1>5, <2>1, <3>2
  <2>2. all[{}] = b  BY <1>8
  <2> QED  BY <2>1, <2>2 DEF Chain
<1> HIDE DEF Is
<1>10. PICK r : Follows(r, all, n, V, b, g)
  <2>1. n \in Nat  BY <1>1
  <2> QED  BY <2>1, <1>3, <1>4, <1>9, FoldRepeats
<1> QED  BY <1>2, <1>10 DEF n, V, g, b, Follows

\* One logical line more.
LEMMA TextAppend ==
  ASSUME NEW s \in Seq(LogicalLine), NEW c \in LogicalLine
  PROVE  TextOf(Append(s, c)) = TextOf(s) \o c.txt /\ TextOf(s) \in Seq(Atoms) /\ TextOf(<<>>) = <<>>
<1> DEFINE n == Len(s)
           t == Append(s, c)
<1>1. /\ t \in Seq(LogicalLine) /\ n \in Nat /\ Len(t) = n + 1
      /\ \A k \in 1..n : t[k] = s[k] /\ s[k] \in LogicalLine
      /\ t[n + 1] = c /\ <<>> \in Seq(LogicalLine) /\ Len(<<>>) = 0
  BY AppendedAt
<1> HIDE DEF n, t
<1>2. PICK f : Runs(f, n, Seq(Atoms), <<>>, Texting(s)) /\ TextOf(s) = f[n]
  BY TextSteps DEF n
<1>3. PICK h : Runs(h, n + 1, Seq(Atoms), <<>>, Texting(t)) /\ TextOf(t) = h[n + 1]
  BY <1>1, TextSteps
<1>4. SameSteps(Texting(s), Texting(t), n, Seq(Atoms))
  BY <1>1 DEF Texting, n, SameSteps
<1>5. \A v \in Seq(Atoms) : Texting(t)[<<n + 1, v>>] = v \o c.txt
  <2> TAKE v \in Seq(Atoms)
  <2>1. <<n + 1, v>> \in (1..Len(t)) \X Seq(Atoms) /\ <<n + 1, v>>[1] = n + 1 /\ <<n + 1, v>>[2] = v
    BY <1>1
  <2>2. Texting(t)[<<n + 1, v>>] = v \o t[n + 1].txt  BY <2>1 DEF Texting
  <2> QED  BY <1>1, <2>2
<1>6. f[n] \in Seq(Atoms) /\ h[n + 1] = Texting(t)[<<n + 1, f[n]>>]
  BY <1>1, <1>2, <1>3, <1>4, OneMore
<1>7. TextOf(<<>>) = <<>>
  <2>1. PICK r : Runs(r, 0, Seq(Atoms), <<>>, Texting(<<>>)) /\ TextOf(<<>>) = r[0]
    BY <1>1, TextSteps
  <2> QED  BY <2>1 DEF Runs, Repeated
<1> QED  BY <1>2, <1>3, <1>5, <1>6, <1>7 DEF t

RawLine == [ind : Nat, txt : Seq(STRING)]
Keeping(s) == [kt \in (1..Len(s)) \X Seq(Atoms) |-> Kept(kt[2], s[kt[1]])]
\* Where the comment of a line begins.
LEMMA CommentIs ==
  ASSUME NEW n \in Nat, NEW C \in SUBSET (1..n)
  PROVE  LET m == Min(C \cup {n + 1})
         IN  /\ m \in 1..(n + 1) /\ m - 1 \in 0..n
             /\ m = n + 1 \/ m \in C
             /\ \A i \in C : m <= i
<1> DEFINE S == C \cup {n + 1}
<1>1. S \in SUBSET Nat /\ S # {}  OBVIOUS
<1> DEFINE m == Min(S)
<1>2. m \in S /\ \A i \in S : m <= i
  <2> HIDE DEF S
  <2> QED  BY <1>1, LeastElement
<1> HIDE DEF m
<1>3. m \in 1..(n + 1) /\ m - 1 \in 0..n /\ (m = n + 1 \/ m \in C) /\ \A i \in C : m <= i  BY <1>2
<1> QED  BY <1>3 DEF m
CommentsOf(s, txt) == {i \in DOMAIN txt : txt[i] = "#" /\ ~Unclosed(s \o SubSeq(txt, 1, i - 1))}
KeptTo(s, raw) == Min(CommentsOf(s, raw.txt) \cup {Len(raw.txt) + 1}) - 1
\* What is kept of a line is its text up to its comment, and in a literal the
\* line break and the indent before it.
LEMMA KeptIs ==
  ASSUME NEW s \in Seq(Atoms), NEW raw \in RawLine
  PROVE  /\ KeptTo(s, raw) \in 0..Len(raw.txt)
         /\ Uncommented(s, raw) = SubSeq(raw.txt, 1, KeptTo(s, raw))
         /\ Uncommented(s, raw) \in Seq(Atoms) /\ TrimRight(Uncommented(s, raw)) \in Seq(Atoms)
         /\ Unclosed(s) => Kept(s, raw) = s \o ((<<NewLine>> \o Spaces(raw.ind)) \o Uncommented(s, raw))
         /\ ~Unclosed(s) =>
              Kept(s, raw) = s \o (IF Unclosed(s \o Uncommented(s, raw))
                                   THEN TrimRight(Uncommented(s, raw)) ELSE Uncommented(s, raw))
         /\ Kept(s, raw) \in Seq(Atoms)
<1> DEFINE C == {i \in DOMAIN raw.txt : raw.txt[i] = "#" /\ ~Unclosed(s \o SubSeq(raw.txt, 1, i - 1))}
           m == Min(C \cup {Len(raw.txt) + 1}) - 1
           U == Uncommented(s, raw)
           I == <<NewLine>> \o Spaces(raw.ind)
<1>1. raw.txt \in Seq(STRING) /\ raw.txt \in Seq(Atoms) /\ Len(raw.txt) \in Nat /\ C \in SUBSET (1..Len(raw.txt))
  BY DEF RawLine, Atoms
<1>2. m \in 0..Len(raw.txt)
  <2> HIDE DEF C
  <2> QED  BY <1>1, CommentIs
<1>3. U = SubSeq(raw.txt, 1, m) /\ m = KeptTo(s, raw)  BY DEF Uncommented, KeptTo, CommentsOf
<1> HIDE DEF m
<1>4. SubSeq(raw.txt, 1, m) \in Seq(Atoms)  BY <1>1, <1>2
<1>5. U \in Seq(Atoms) /\ TrimRight(U) \in Seq(Atoms)
  <2>1. U \in Seq(Atoms)  BY <1>3, <1>4
  <2> HIDE DEF U
  <2> QED  BY <2>1, TrimIs
<1>6. I \in Seq(Atoms)
  <2>1. NewLine \in Atoms /\ raw.ind \in Nat  BY DEF Atoms, RawLine
  <2>2. Spaces(raw.ind) \in Seq(Atoms)  BY <2>1, SpacesIs
  <2> DEFINE x == Spaces(raw.ind)
  <2> HIDE DEF x
  <2> QED  BY <2>1, <2>2 DEF x
<1>7. Unclosed(s) => Kept(s, raw) = s \o (I \o U)  BY Zenon DEF Kept, Added
<1>8. ~Unclosed(s) => Kept(s, raw) = s \o (IF Unclosed(s \o U) THEN TrimRight(U) ELSE U)
  BY Zenon DEF Kept, Added
<1>9. Kept(s, raw) \in Seq(Atoms)
  <2> HIDE DEF U, I
  <2>1. I \o U \in Seq(Atoms)  BY <1>5, <1>6
  <2>2. s \o (I \o U) \in Seq(Atoms) /\ s \o U \in Seq(Atoms) /\ s \o TrimRight(U) \in Seq(Atoms)
    BY <1>5, <2>1
  <2> QED  BY <1>7, <1>8, <2>2
<1> QED  BY <1>2, <1>3, <1>5, <1>7, <1>8, <1>9
\* KeptOf, line by line.
LEMMA KeptSteps ==
  ASSUME NEW s \in Seq(RawLine)
  PROVE  \E r : Runs(r, Len(s), Seq(Atoms), <<>>, Keeping(s)) /\ KeptOf(s) = r[Len(s)]
<1> DEFINE n == Len(s)
           V == Seq(Atoms)
           g == Keeping(s)
           b == <<>>
           Is(f) == f = [S \in SUBSET (1..n) |->
                           IF S = {} THEN b ELSE Kept(f[S \ {Max(S)}], s[Max(S)])]
           all == CHOOSE f : Is(f)
<1>1. n \in Nat /\ DOMAIN s = 1..n /\ \A k \in 1..n : s[k] \in RawLine  OBVIOUS
<1>2. KeptOf(s) = all[1..n]  BY <1>1 DEF KeptOf, FoldLeft, MapThenFoldSet
<1>3. b \in V  OBVIOUS
<1>4. g \in [(1..n) \X V -> V]
  <2>1. \A t \in V, c \in RawLine : Kept(t, c) \in V  BY KeptIs
  <2>2. \A kt \in (1..n) \X V : kt[2] \in V /\ s[kt[1]] \in RawLine  BY <1>1
  <2> HIDE DEF V
  <2> QED  BY <2>1, <2>2 DEF Keeping, V
<1>5. \A k \in 1..n, t \in V : g[<<k, t>>] = Kept(t, s[k])  BY DEF Keeping
<1> HIDE DEF n, V, g, b
<1>6. PICK F \in [SUBSET (1..n) -> V] : FoldsUp(F, n, b, g)  BY <1>1, <1>3, <1>4, FoldExists
<1>7. Is(F)
  <2>1. ASSUME NEW S \in SUBSET (1..n), S # {}
        PROVE  F[S] = Kept(F[S \ {Max(S)}], s[Max(S)])
    <3>1. Max(S) \in 1..n /\ S \ {Max(S)} \in SUBSET (1..n)  BY <1>1, <2>1, LastOf
    <3>2. F[S] = g[<<Max(S), F[S \ {Max(S)}]>>]  BY <1>6, <2>1 DEF FoldsUp
    <3> QED  BY <1>5, <3>1, <3>2
  <2>2. F[{}] = b  BY <1>6 DEF FoldsUp
  <2>3. F = [S \in SUBSET (1..n) |-> F[S]]  OBVIOUS
  <2> QED  BY <2>1, <2>2, <2>3
<1>8. Is(all)
  <2> HIDE DEF Is
  <2> QED  BY <1>7
<1> HIDE DEF all
<1>9. Chain(all, n, V, b, g)
  <2>1. ASSUME NEW k \in 1..n, all[1..(k - 1)] \in V
        PROVE  all[1..k] = g[<<k, all[1..(k - 1)]>>]
    <3>1. 1..k \in SUBSET (1..n) /\ 1..k # {} /\ Max(1..k) = k /\ (1..k) \ {k} = 1..(k - 1)
      BY <1>1, FirstNumbers
    <3>2. all[1..k] = Kept(all[1..(k - 1)], s[k])  BY <1>8, <3>1
    <3> QED  BY <1>5, <2>1, <3>2
  <2>2. all[{}] = b  BY <1>8
  <2> QED  BY <2>1, <2>2 DEF Chain
<1> HIDE DEF Is
<1>10. PICK r : Follows(r, all, n, V, b, g)
  <2>1. n \in Nat  BY <1>1
  <2> QED  BY <2>1, <1>3, <1>4, <1>9, FoldRepeats
<1> QED  BY <1>2, <1>10 DEF n, V, g, b, Follows

\* One physical line more.
LEMMA KeptAppend ==
  ASSUME NEW s \in Seq(RawLine), NEW c \in RawLine
  PROVE  KeptOf(Append(s, c)) = Kept(KeptOf(s), c) /\ KeptOf(s) \in Seq(Atoms) /\ KeptOf(<<>>) = <<>>
<1> DEFINE n == Len(s)
           t == Append(s, c)
<1>1. /\ t \in Seq(RawLine) /\ n \in Nat /\ Len(t) = n + 1
      /\ \A k \in 1..n : t[k] = s[k] /\ s[k] \in RawLine
      /\ t[n + 1] = c /\ <<>> \in Seq(RawLine) /\ Len(<<>>) = 0
  BY AppendedAt
<1> HIDE DEF n, t
<1>2. PICK f : Runs(f, n, Seq(Atoms), <<>>, Keeping(s)) /\ KeptOf(s) = f[n]
  BY KeptSteps DEF n
<1>3. PICK h : Runs(h, n + 1, Seq(Atoms), <<>>, Keeping(t)) /\ KeptOf(t) = h[n + 1]
  BY <1>1, KeptSteps
<1>4. SameSteps(Keeping(s), Keeping(t), n, Seq(Atoms))
  BY <1>1 DEF Keeping, n, SameSteps
<1>5. \A v \in Seq(Atoms) : Keeping(t)[<<n + 1, v>>] = Kept(v, c)
  <2> TAKE v \in Seq(Atoms)
  <2>1. <<n + 1, v>> \in (1..Len(t)) \X Seq(Atoms) /\ <<n + 1, v>>[1] = n + 1 /\ <<n + 1, v>>[2] = v
    BY <1>1
  <2>2. Keeping(t)[<<n + 1, v>>] = Kept(v, t[n + 1])  BY <2>1 DEF Keeping
  <2> QED  BY <1>1, <2>2
<1>6. f[n] \in Seq(Atoms) /\ h[n + 1] = Keeping(t)[<<n + 1, f[n]>>]
  BY <1>1, <1>2, <1>3, <1>4, OneMore
<1>7. KeptOf(<<>>) = <<>>
  <2>1. PICK r : Runs(r, 0, Seq(Atoms), <<>>, Keeping(<<>>)) /\ KeptOf(<<>>) = r[0]
    BY <1>1, KeptSteps
  <2> QED  BY <2>1 DEF Runs, Repeated
<1> QED  BY <1>2, <1>3, <1>5, <1>6, <1>7 DEF t

ScanState == [end : Nat, delta : Int, inStr : BOOLEAN, esc : BOOLEAN, cut : BOOLEAN]
ScanFrom(b) == [Scanned EXCEPT !.inStr = b]
Scans(s) == [kt \in (1..Len(s)) \X ScanState |-> ScanAtom(kt[2], s[kt[1]])]
\* scanLine, one atom: within a string, at a comment, and elsewhere.
LEMMA ScanAtomIs ==
  ASSUME NEW s \in ScanState, NEW c \in Atoms
  PROVE  LET t == ScanAtom(s, c)
         IN  /\ t \in ScanState
             /\ s.cut => t = s
             /\ ~s.cut /\ s.inStr =>
                  /\ t.end = s.end + 1 /\ ~t.cut /\ t.delta = s.delta
                  /\ (t.inStr <=> s.esc \/ c # Quote) /\ (t.esc <=> ~s.esc /\ c = Backslash)
             /\ ~s.cut /\ ~s.inStr /\ c = "#" => t.cut /\ t.end = s.end /\ ~t.inStr /\ (t.esc <=> s.esc)
             /\ ~s.cut /\ ~s.inStr /\ c # "#" =>
                  t.end = s.end + 1 /\ ~t.cut /\ (t.inStr <=> c = Quote) /\ (t.esc <=> s.esc)
<1> DEFINE t == ScanAtom(s, c)
<1>1. CASE s.cut
  <2>1. t = s  BY <1>1 DEF ScanAtom
  <2> QED  BY <1>1, <2>1
<1>2. CASE ~s.cut /\ s.inStr
  <2> DEFINE x == s.esc \/ c # Quote
             y == ~s.esc /\ c = Backslash
  <2>1. t = [s EXCEPT !.end = s.end + 1, !.esc = y, !.inStr = x]  BY <1>2 DEF ScanAtom
  <2>2. x \in BOOLEAN /\ y \in BOOLEAN /\ s.end + 1 \in Nat  BY DEF ScanState
  <2> HIDE DEF x, y, t
  <2>3. t \in ScanState /\ t.end = s.end + 1 /\ t.inStr = x /\ t.esc = y /\ t.cut = s.cut /\ t.delta = s.delta
    BY <2>1, <2>2 DEF ScanState
  <2> QED  BY <1>2, <2>3 DEF x, y, t
<1>3. CASE ~s.cut /\ ~s.inStr /\ c = "#"
  <2>1. t = [s EXCEPT !.cut = TRUE]  BY <1>3 DEF ScanAtom
  <2> HIDE DEF t
  <2>2. t \in ScanState /\ t.cut /\ t.end = s.end /\ t.inStr = s.inStr /\ t.esc = s.esc
    BY <2>1 DEF ScanState
  <2> QED  BY <1>3, <2>2 DEF t
<1>4. CASE ~s.cut /\ ~s.inStr /\ c # "#"
  <2> DEFINE d == s.delta + (CASE c \in Opening -> 1 [] c \in Closing -> -1 [] OTHER -> 0)
             x == c = Quote
  <2>1. t = [s EXCEPT !.end = s.end + 1, !.inStr = x, !.delta = d]  BY Zenon, <1>4 DEF ScanAtom
  <2>2. x \in BOOLEAN /\ s.end + 1 \in Nat /\ d \in Int  BY DEF ScanState
  <2> HIDE DEF x, d, t
  <2>3. t \in ScanState /\ t.end = s.end + 1 /\ t.inStr = x /\ t.esc = s.esc /\ t.cut = s.cut
    BY <2>1, <2>2 DEF ScanState
  <2> QED  BY <1>4, <2>3 DEF x, t
<1> QED  BY <1>1, <1>2, <1>3, <1>4 DEF ScanState
\* A scan begins in a string or out of it, with nothing read.
LEMMA ScanFromIs ==
  ASSUME NEW b \in BOOLEAN
  PROVE  ScanFrom(b) \in ScanState /\ ScanFrom(b).inStr = b /\ ScanFrom(b).end = 0
         /\ ~ScanFrom(b).esc /\ ~ScanFrom(b).cut
<1>1. Scanned \in ScanState /\ Scanned.end = 0 /\ ~Scanned.esc /\ ~Scanned.cut  BY DEF Scanned, ScanState
<1> QED  BY <1>1 DEF ScanState, ScanFrom
\* ScanLine, atom by atom.
LEMMA ScanSteps ==
  ASSUME NEW open \in BOOLEAN, NEW s \in Seq(Atoms)
  PROVE  \E r : Runs(r, Len(s), ScanState, ScanFrom(open), Scans(s)) /\ ScanLine(s, open) = r[Len(s)]
<1> DEFINE n == Len(s)
           V == ScanState
           g == Scans(s)
           b == ScanFrom(open)
           Is(f) == f = [S \in SUBSET (1..n) |->
                           IF S = {} THEN b ELSE ScanAtom(f[S \ {Max(S)}], s[Max(S)])]
           all == CHOOSE f : Is(f)
<1>1. n \in Nat /\ DOMAIN s = 1..n /\ \A k \in 1..n : s[k] \in Atoms  OBVIOUS
<1>2. ScanLine(s, open) = all[1..n]  BY <1>1 DEF ScanLine, ScanFrom, FoldLeft, MapThenFoldSet
<1>3. b \in V  BY ScanFromIs
<1>4. g \in [(1..n) \X V -> V]
  <2>1. \A t \in V, c \in Atoms : ScanAtom(t, c) \in V  BY ScanAtomIs
  <2>2. \A kt \in (1..n) \X V : kt[2] \in V /\ s[kt[1]] \in Atoms  BY <1>1
  <2> HIDE DEF V
  <2> QED  BY <2>1, <2>2 DEF Scans, V
<1>5. \A k \in 1..n, t \in V : g[<<k, t>>] = ScanAtom(t, s[k])  BY DEF Scans
<1> HIDE DEF n, V, g, b
<1>6. PICK F \in [SUBSET (1..n) -> V] : FoldsUp(F, n, b, g)  BY <1>1, <1>3, <1>4, FoldExists
<1>7. Is(F)
  <2>1. ASSUME NEW S \in SUBSET (1..n), S # {}
        PROVE  F[S] = ScanAtom(F[S \ {Max(S)}], s[Max(S)])
    <3>1. Max(S) \in 1..n /\ S \ {Max(S)} \in SUBSET (1..n)  BY <1>1, <2>1, LastOf
    <3>2. F[S] = g[<<Max(S), F[S \ {Max(S)}]>>]  BY <1>6, <2>1 DEF FoldsUp
    <3> QED  BY <1>5, <3>1, <3>2
  <2>2. F[{}] = b  BY <1>6 DEF FoldsUp
  <2>3. F = [S \in SUBSET (1..n) |-> F[S]]  OBVIOUS
  <2> QED  BY <2>1, <2>2, <2>3
<1>8. Is(all)
  <2> HIDE DEF Is
  <2> QED  BY <1>7
<1> HIDE DEF all
<1>9. Chain(all, n, V, b, g)
  <2>1. ASSUME NEW k \in 1..n, all[1..(k - 1)] \in V
        PROVE  all[1..k] = g[<<k, all[1..(k - 1)]>>]
    <3>1. 1..k \in SUBSET (1..n) /\ 1..k # {} /\ Max(1..k) = k /\ (1..k) \ {k} = 1..(k - 1)
      BY <1>1, FirstNumbers
    <3>2. all[1..k] = ScanAtom(all[1..(k - 1)], s[k])  BY <1>8, <3>1
    <3> QED  BY <1>5, <2>1, <3>2
  <2>2. all[{}] = b  BY <1>8
  <2> QED  BY <2>1, <2>2 DEF Chain
<1> HIDE DEF Is
<1>10. PICK r : Follows(r, all, n, V, b, g)
  <2>1. n \in Nat  BY <1>1
  <2> QED  BY <2>1, <1>3, <1>4, <1>9, FoldRepeats
<1> QED  BY <1>2, <1>10 DEF n, V, g, b, Follows

\* One atom more is scanned.
LEMMA ScanAppend ==
  ASSUME NEW open \in BOOLEAN, NEW s \in Seq(Atoms), NEW c \in Atoms
  PROVE  /\ ScanLine(Append(s, c), open) = ScanAtom(ScanLine(s, open), c) /\ ScanLine(s, open) \in ScanState
         /\ ScanLine(<<>>, open) = ScanFrom(open)
<1> DEFINE n == Len(s)
           t == Append(s, c)
<1>1. /\ t \in Seq(Atoms) /\ n \in Nat /\ Len(t) = n + 1
      /\ \A k \in 1..n : t[k] = s[k] /\ s[k] \in Atoms
      /\ t[n + 1] = c /\ <<>> \in Seq(Atoms) /\ Len(<<>>) = 0
  BY AppendedAt
<1> HIDE DEF n, t
<1>2. PICK f : Runs(f, n, ScanState, ScanFrom(open), Scans(s)) /\ ScanLine(s, open) = f[n]
  BY ScanSteps DEF n
<1>3. PICK h : Runs(h, n + 1, ScanState, ScanFrom(open), Scans(t)) /\ ScanLine(t, open) = h[n + 1]
  BY <1>1, ScanSteps
<1>4. SameSteps(Scans(s), Scans(t), n, ScanState)
  BY <1>1 DEF Scans, n, SameSteps
<1>5. \A v \in ScanState : Scans(t)[<<n + 1, v>>] = ScanAtom(v, c)
  <2> TAKE v \in ScanState
  <2>1. <<n + 1, v>> \in (1..Len(t)) \X ScanState /\ <<n + 1, v>>[1] = n + 1 /\ <<n + 1, v>>[2] = v  BY <1>1
  <2>2. Scans(t)[<<n + 1, v>>] = ScanAtom(v, t[n + 1])  BY <2>1 DEF Scans
  <2> QED  BY <1>1, <2>2
<1>6. f[n] \in ScanState /\ h[n + 1] = Scans(t)[<<n + 1, f[n]>>]
  BY <1>1, <1>2, <1>3, <1>4, OneMore
<1>7. ScanLine(<<>>, open) = ScanFrom(open)
  <2>1. PICK r : Runs(r, 0, ScanState, ScanFrom(open), Scans(<<>>)) /\ ScanLine(<<>>, open) = r[0]
    BY <1>1, ScanSteps
  <2> QED  BY <2>1 DEF Runs, Repeated
<1> QED  BY <1>2, <1>3, <1>5, <1>6, <1>7 DEF t

(***************************************************************************)
(* Spaces, scanned.                                                        *)
(***************************************************************************)
InText(sc, k) == sc.end = k /\ sc.inStr /\ ~sc.esc /\ ~sc.cut
\* Spaces within a literal are part of it.
LEMMA ScanSpaces ==
  ASSUME NEW n \in Nat
  PROVE  InText(ScanLine(Spaces(n), TRUE), n)
<1> DEFINE K == {k \in 0..n : InText(ScanLine(Spaces(k), TRUE), k)}
<1>0. Space \in Atoms /\ Space # Quote /\ Space # Backslash  BY DEF Atoms, Space, Quote, Backslash
<1>1. 0 \in K
  <2>1. Spaces(0) \in Seq(Atoms) /\ Len(Spaces(0)) = 0  BY SpacesIs
  <2>2. Spaces(0) = <<>> /\ 0 \in 0..n  BY <2>1
  <2>3. ScanLine(<<>>, TRUE) = ScanFrom(TRUE)  BY <1>0, <2>1, ScanAppend
  <2>4. InText(ScanFrom(TRUE), 0)  BY ScanFromIs DEF InText
  <2> QED  BY <2>2, <2>3, <2>4
<1>2. ASSUME NEW k \in 1..n, k - 1 \in K
      PROVE  k \in K
  <2>1. k \in Nat /\ k # 0 /\ k \in 0..n  OBVIOUS
  <2>2. Spaces(k) = Append(Spaces(k - 1), Space) /\ Spaces(k - 1) \in Seq(Atoms)  BY <2>1, SpacesAppend
  <2> DEFINE sc == ScanLine(Spaces(k - 1), TRUE)
  <2>3. InText(sc, k - 1)  BY <1>2
  <2>4. sc \in ScanState /\ ScanLine(Spaces(k), TRUE) = ScanAtom(sc, Space)  BY <1>0, <2>2, ScanAppend
  <2> HIDE DEF sc
  <2> DEFINE t == ScanAtom(sc, Space)
  <2>5. ~sc.cut /\ sc.inStr =>
          /\ t.end = sc.end + 1 /\ ~t.cut /\ (t.inStr <=> sc.esc \/ Space # Quote)
          /\ (t.esc <=> ~sc.esc /\ Space = Backslash)
    BY <1>0, <2>4, ScanAtomIs
  <2> HIDE DEF t
  <2>6. InText(t, k)  BY <1>0, <2>1, <2>3, <2>5 DEF InText
  <2> QED  BY <2>1, <2>4, <2>6 DEF t
<1>3. n \in K
  <2>1. n \in 0..n  OBVIOUS
  <2> HIDE DEF K
  <2> QED  BY <1>1, <1>2, <2>1, Upwards
<1> QED  BY <1>3

(***************************************************************************)
(* One physical line, scanned after the text before it.                    *)
(***************************************************************************)
\* What scanning the first k atoms of a line comes to: without a comment so
\* far all of them are read, and with one those before it.
ScannedTo(sc, k, pad, s, txt) ==
  /\ sc \in ScanState /\ ~sc.esc
  /\ ~sc.cut => /\ sc.end = pad + k /\ (sc.inStr <=> Unclosed(s \o SubSeq(txt, 1, k)))
                /\ \A i \in CommentsOf(s, txt) : k < i
  /\ sc.cut => /\ ~sc.inStr
               /\ \E m \in CommentsOf(s, txt) : /\ sc.end = pad + m - 1
                                                /\ \A i \in CommentsOf(s, txt) : m <= i
\* One atom more of a line.
LEMMA ScanStepsOn ==
  ASSUME NEW s \in Seq(Atoms), NEW txt \in Seq(Atoms), NEW pad \in Nat, NEW k \in 1..Len(txt), NEW sc,
         ScannedTo(sc, k - 1, pad, s, txt), txt[k] # Backslash
  PROVE  ScannedTo(ScanAtom(sc, txt[k]), k, pad, s, txt)
<1> DEFINE c == txt[k]
           t == ScanAtom(sc, c)
           u == s \o SubSeq(txt, 1, k - 1)
           C == CommentsOf(s, txt)
<1>1. /\ c \in Atoms /\ u \in Seq(Atoms) /\ s \o SubSeq(txt, 1, k) = Append(u, c)
      /\ Len(txt) \in Nat /\ DOMAIN txt = 1..Len(txt) /\ k \in Nat
  <2>1. SubSeq(txt, 1, k - 1) \in Seq(Atoms) /\ c \in Atoms /\ SubSeq(txt, 1, k) = Append(SubSeq(txt, 1, k - 1), c)
    BY Longer
  <2>2. u \in Seq(Atoms) /\ s \o Append(SubSeq(txt, 1, k - 1), c) = Append(u, c)
    BY ONLY <2>1, s \in Seq(Atoms), Concats
  <2> QED  BY <2>1, <2>2
<1>2. /\ c = Quote => (Unclosed(Append(u, c)) <=> ~Unclosed(u))
      /\ c # Quote => (Unclosed(Append(u, c)) <=> Unclosed(u))
  BY <1>1, UnclosedAppend
<1>3. /\ k \in C <=> c = "#" /\ ~Unclosed(u)
      /\ C \subseteq 1..Len(txt)
  BY <1>1 DEF CommentsOf
<1>4. "#" # Quote /\ c # Backslash  BY DEF Quote
<1>5. sc \in ScanState /\ sc.end \in Nat /\ ~sc.esc  BY DEF ScannedTo, ScanState
<1>6. /\ t \in ScanState
      /\ sc.cut => t = sc
      /\ ~sc.cut /\ sc.inStr =>
           /\ t.end = sc.end + 1 /\ ~t.cut
           /\ (t.inStr <=> sc.esc \/ c # Quote) /\ (t.esc <=> ~sc.esc /\ c = Backslash)
      /\ ~sc.cut /\ ~sc.inStr /\ c = "#" => t.cut /\ t.end = sc.end /\ ~t.inStr /\ (t.esc <=> sc.esc)
      /\ ~sc.cut /\ ~sc.inStr /\ c # "#" =>
           t.end = sc.end + 1 /\ ~t.cut /\ (t.inStr <=> c = Quote) /\ (t.esc <=> sc.esc)
  BY <1>1, <1>5, ScanAtomIs
<1>7. CASE sc.cut
  <2>1. t = sc  BY <1>6, <1>7
  <2>2. ScannedTo(sc, k, pad, s, txt)  BY <1>7 DEF ScannedTo
  <2> QED  BY <2>1, <2>2
<1>8. CASE ~sc.cut
  <2>1. /\ sc.end = pad + (k - 1) /\ (sc.inStr <=> Unclosed(u))
        /\ \A i \in C : k - 1 < i
    BY <1>8 DEF ScannedTo
  <2> HIDE DEF t, u, C, c
  <2>2. CASE k \in C
    <3>1. t.cut /\ t.end = sc.end /\ ~t.inStr /\ ~t.esc  BY <1>3, <1>5, <1>6, <1>8, <2>1, <2>2
    <3>2. \A i \in C : k <= i  BY <1>1, <1>3, <2>1
    <3>3. t.end = pad + k - 1  BY <1>1, <2>1, <3>1
    <3>4. \E m \in C : t.end = pad + m - 1 /\ \A i \in C : m <= i  BY <2>2, <3>2, <3>3
    <3>5. \E m \in CommentsOf(s, txt) : t.end = pad + m - 1 /\ \A i \in CommentsOf(s, txt) : m <= i
      BY <3>4 DEF C
    <3>6. ScannedTo(t, k, pad, s, txt)  BY <1>6, <3>1, <3>5 DEF ScannedTo
    <3> QED  BY <3>6 DEF t, c
  <2>3. CASE k \notin C
    <3>1. ~t.cut /\ t.end = sc.end + 1 /\ ~t.esc /\ (t.inStr <=> Unclosed(Append(u, c)))
      BY <1>2, <1>3, <1>4, <1>5, <1>6, <1>8, <2>1, <2>3
    <3>2. \A i \in C : k < i
      <4> TAKE i \in C
      <4>1. i # k /\ i \in 1..Len(txt) /\ k - 1 < i  BY <1>3, <2>1, <2>3
      <4> QED  BY <1>1, <4>1
    <3>3. t.end = pad + k  BY <1>1, <2>1, <3>1
    <3>4. t.inStr <=> Unclosed(s \o SubSeq(txt, 1, k))  BY <1>1, <3>1
    <3>5. \A i \in CommentsOf(s, txt) : k < i  BY <3>2 DEF C
    <3>6. ScannedTo(t, k, pad, s, txt)  BY <1>6, <3>1, <3>3, <3>4, <3>5 DEF ScannedTo
    <3> QED  BY <3>6 DEF t, c
  <2> QED  BY <2>2, <2>3
<1> QED  BY <1>7, <1>8

\* Before the first atom of a line.
LEMMA ScanBegins ==
  ASSUME NEW s \in Seq(Atoms), NEW txt \in Seq(Atoms), NEW pad \in Nat, NEW b \in BOOLEAN,
         b \/ pad = 0, Unclosed(s) <=> b
  PROVE  ScannedTo(ScanLine(Spaces(pad), b), 0, pad, s, txt) /\ Spaces(pad) \in Seq(Atoms)
<1> DEFINE sc == ScanLine(Spaces(pad), b)
<1>0. Spaces(pad) \in Seq(Atoms) /\ Len(Spaces(pad)) = pad  BY SpacesIs
<1>1. s \o SubSeq(txt, 1, 0) = s /\ \A i \in CommentsOf(s, txt) : 0 < i
  <2>1. SubSeq(txt, 1, 0) = <<>> /\ s \o <<>> = s  OBVIOUS
  <2>2. CommentsOf(s, txt) \subseteq 1..Len(txt)  BY DEF CommentsOf
  <2> QED  BY <2>1, <2>2
<1>2. sc \in ScanState /\ sc.end = pad /\ (sc.inStr <=> b) /\ ~sc.esc /\ ~sc.cut
  <2>0. Space \in Atoms  BY DEF Atoms
  <2>1. CASE b
    <3>1. b = TRUE  BY <2>1
    <3>2. InText(ScanLine(Spaces(pad), TRUE), pad)  BY ScanSpaces
    <3>3. sc \in ScanState  BY <1>0, <2>0, ScanAppend
    <3> QED  BY <2>1, <3>1, <3>2, <3>3 DEF InText
  <2>2. CASE ~b
    <3>1. Spaces(pad) = <<>> /\ pad = 0  BY <1>0, <2>2
    <3>2. sc = ScanFrom(b)  BY <1>0, <2>0, <3>1, ScanAppend
    <3> QED  BY <2>2, <3>1, <3>2, ScanFromIs
  <2> QED  BY <2>1, <2>2
<1> HIDE DEF sc
<1>3. sc.inStr <=> Unclosed(s \o SubSeq(txt, 1, 0))  BY <1>1, <1>2
<1>4. sc.end = pad + 0  BY <1>2
<1>5. ScannedTo(sc, 0, pad, s, txt)  BY <1>1, <1>2, <1>3, <1>4 DEF ScannedTo
<1> QED  BY <1>0, <1>5 DEF sc

\* The text of a line that scanning keeps is all up to its comment, and a
\* literal is open at its end when it is open at the end of the text kept.
LEMMA LineScan ==
  ASSUME NEW s \in Seq(Atoms), NEW raw \in RawLine, NEW pad \in Nat, NEW b \in BOOLEAN,
         b \/ pad = 0, Unclosed(s) <=> b, ~Contains(raw.txt, Backslash)
  PROVE  LET V == Spaces(pad) \o raw.txt
             sc == ScanLine(V, b)
         IN  /\ sc \in ScanState /\ (sc.inStr <=> Unclosed(s \o Uncommented(s, raw)))
             /\ SubSeq(V, 1, sc.end) = Spaces(pad) \o Uncommented(s, raw)
<1> DEFINE txt == raw.txt
           n == Len(txt)
           K == {k \in 0..n : ScannedTo(ScanLine(Spaces(pad) \o SubSeq(txt, 1, k), b), k, pad, s, txt)}
<1>1. txt \in Seq(Atoms) /\ n \in Nat /\ \A k \in 1..n : txt[k] # Backslash
  BY DEF RawLine, Atoms, Contains
<1>2. Spaces(pad) \in Seq(Atoms) /\ Len(Spaces(pad)) = pad  BY SpacesIs
<1> HIDE DEF txt
<1>3. 0 \in K
  <2>1. Spaces(pad) \o SubSeq(txt, 1, 0) = Spaces(pad) /\ 0 \in 0..n  BY <1>1, <1>2
  <2>2. ScannedTo(ScanLine(Spaces(pad), b), 0, pad, s, txt)  BY <1>1, ScanBegins
  <2> QED  BY <2>1, <2>2
<1>4. ASSUME NEW k \in 1..n, k - 1 \in K
      PROVE  k \in K
  <2> DEFINE u == Spaces(pad) \o SubSeq(txt, 1, k - 1)
             c == txt[k]
  <2>1. SubSeq(txt, 1, k - 1) \in Seq(Atoms) /\ c \in Atoms /\ SubSeq(txt, 1, k) = Append(SubSeq(txt, 1, k - 1), c)
    BY <1>1, Longer
  <2>2. u \in Seq(Atoms) /\ Spaces(pad) \o SubSeq(txt, 1, k) = Append(u, c)
    <3>1. u \in Seq(Atoms) /\ Spaces(pad) \o Append(SubSeq(txt, 1, k - 1), c) = Append(u, c)
      BY ONLY <1>2, <2>1, Concats
    <3> QED  BY <2>1, <3>1
  <2>3. ScanLine(Append(u, c), b) = ScanAtom(ScanLine(u, b), c)  BY <2>1, <2>2, ScanAppend
  <2>4. ScannedTo(ScanLine(u, b), k - 1, pad, s, txt)  BY <1>4
  <2>5. ScannedTo(ScanAtom(ScanLine(u, b), c), k, pad, s, txt)  BY <1>1, <2>4, ScanStepsOn
  <2>6. k \in 0..n  OBVIOUS
  <2> HIDE DEF u, c
  <2> QED  BY <2>2, <2>3, <2>5, <2>6
<1>5. n \in K
  <2>1. n \in 0..n  BY <1>1
  <2> HIDE DEF K
  <2> QED  BY <1>1, <1>3, <1>4, <2>1, Upwards
<1> DEFINE V == Spaces(pad) \o txt
           sc == ScanLine(V, b)
           C == CommentsOf(s, txt)
           m == KeptTo(s, raw)
<1>6. ScannedTo(sc, n, pad, s, txt)
  <2>1. SubSeq(txt, 1, n) = txt  BY <1>1
  <2> QED  BY <1>5, <2>1
<1>7. /\ m \in 0..n /\ (m = n \/ m + 1 \in C) /\ \A i \in C : m + 1 <= i
  <2>1. C \in SUBSET (1..n)  BY <1>1 DEF CommentsOf
  <2>2. m = Min(C \cup {n + 1}) - 1  BY DEF KeptTo, txt
  <2> HIDE DEF C, n, m
  <2> DEFINE q == Min(C \cup {n + 1})
  <2>3. q \in 1..(n + 1) /\ (q = n + 1 \/ q \in C) /\ \A i \in C : q <= i
    BY <1>1, <2>1, CommentIs
  <2>4. q - 1 \in 0..n /\ (q - 1) + 1 = q  BY <1>1, <2>3
  <2> HIDE DEF q
  <2>5. m = q - 1  BY <2>2 DEF q
  <2> QED  BY <1>1, <2>3, <2>4, <2>5
<1>8. sc.end = pad + m /\ (sc.inStr <=> Unclosed(s \o SubSeq(txt, 1, m)))
  <2>0. C \in SUBSET (1..n)  BY <1>1 DEF CommentsOf
  <2> HIDE DEF m
  <2>1. CASE ~sc.cut
    <3>1. sc.end = pad + n /\ (sc.inStr <=> Unclosed(s \o SubSeq(txt, 1, n))) /\ \A i \in C : n < i
      BY <1>6, <2>1 DEF ScannedTo
    <3>2. m = n
      <4> HIDE DEF C, sc
      <4> QED  BY <1>1, <1>7, <2>0, <3>1
    <3> QED  BY <3>1, <3>2
  <2>2. CASE sc.cut
    <3>1. ~sc.inStr /\ \E q \in C : sc.end = pad + q - 1 /\ \A i \in C : q <= i  BY <1>6, <2>2 DEF ScannedTo
    <3>2. PICK q \in C : sc.end = pad + q - 1 /\ \A i \in C : q <= i  BY <3>1
    <3>3. ~Unclosed(s \o SubSeq(txt, 1, q - 1))  BY DEF CommentsOf
    <3> HIDE DEF C, sc
    <3>4. q = m + 1  BY <1>1, <1>7, <2>0, <3>2
    <3>5. q - 1 = m /\ sc.end = pad + m  BY <1>1, <1>7, <3>2, <3>4
    <3> QED  BY <3>1, <3>3, <3>5
  <2> QED  BY <2>1, <2>2
<1>9. Uncommented(s, raw) = SubSeq(txt, 1, m)  BY KeptIs DEF txt
<1>10. SubSeq(V, 1, pad + m) = Spaces(pad) \o SubSeq(txt, 1, m)
  <2> DEFINE x == Spaces(pad)
  <2>1. x \in Seq(Atoms) /\ Len(x) = pad  BY <1>2
  <2> HIDE DEF x, m, n
  <2> DEFINE l == SubSeq(x \o txt, 1, pad + m)
             r == x \o SubSeq(txt, 1, m)
  <2>2. x \o txt \in Seq(Atoms) /\ Len(x \o txt) = pad + n  BY <1>1, <2>1, BothParts DEF n
  <2>3. l \in Seq(Atoms) /\ Len(l) = pad + m /\ \A j \in 1..(pad + m) : l[j] = (x \o txt)[j]
    <3>1. pad + m \in 0..Len(x \o txt)  BY <1>1, <1>7, <2>2
    <3> QED  BY <2>2, <3>1, PrefixIs
  <2>4. SubSeq(txt, 1, m) \in Seq(Atoms) /\ Len(SubSeq(txt, 1, m)) = m
        /\ \A j \in 1..m : SubSeq(txt, 1, m)[j] = txt[j]
    BY <1>1, <1>7 DEF n
  <2>5. r \in Seq(Atoms) /\ Len(r) = pad + m  BY <2>1, <2>4
  <2>6. ASSUME NEW j \in 1..(pad + m)
        PROVE  (x \o txt)[j] = r[j]
    <3>1. CASE j <= pad
      <4>1. (x \o txt)[j] = x[j] /\ r[j] = x[j]  BY <1>1, <2>1, <2>4, <3>1
      <4> QED  BY <4>1
    <3>2. CASE ~(j <= pad)
      <4>1. j - pad \in 1..m /\ j - pad \in 1..n  BY <1>1, <1>7, <3>2
      <4>2. (x \o txt)[j] = txt[j - pad]  BY <1>1, <2>1, <3>2, <4>1 DEF n
      <4>3. r[j] = SubSeq(txt, 1, m)[j - pad]  BY <2>1, <2>4, <3>2, <4>1
      <4> QED  BY <2>4, <4>1, <4>2, <4>3
    <3> QED  BY <3>1, <3>2
  <2> HIDE DEF l, r
  <2>8. \A j \in 1..Len(l) : l[j] = r[j]  BY <2>3, <2>6
  <2>9. Len(l) = Len(r)  BY <2>3, <2>5
  <2>7. l = r  BY <2>3, <2>5, <2>8, <2>9, SameSeq
  <2> QED  BY <2>7 DEF l, r, x
<1>11. sc \in ScanState  BY <1>6 DEF ScannedTo
<1> HIDE DEF m, sc
<1> QED  BY <1>8, <1>9, <1>10, <1>11 DEF m, sc, txt

(***************************************************************************)
(* The line at hand joined to the one that is open.                        *)
(***************************************************************************)
\* Three texts joined.
LEMMA Joins3 ==
  ASSUME NEW s \in Seq(Atoms), NEW t \in Seq(Atoms), NEW u \in Seq(Atoms)
  PROVE  (s \o t) \o u = s \o (t \o u) /\ s \o t \in Seq(Atoms) /\ s \o <<>> = s /\ <<>> \o s = s
OBVIOUS

\* Four texts joined, in whatever order.
Associates(s, t, u, v) ==
  /\ (s \o t) \o u \in Seq(Atoms) /\ (t \o u) \o v \in Seq(Atoms) /\ (s \o t) \o (u \o v) \in Seq(Atoms)
  /\ s \o ((t \o u) \o v) = ((s \o t) \o u) \o v
  /\ s \o ((t \o u) \o v) = (s \o t) \o (u \o v)

LEMMA Joins4 ==
  ASSUME NEW s, NEW t, NEW u, NEW v,
         s \in Seq(Atoms), t \in Seq(Atoms), u \in Seq(Atoms), v \in Seq(Atoms)
  PROVE  Associates(s, t, u, v)
<1>1. (s \o t) \o u \in Seq(Atoms) /\ (t \o u) \o v \in Seq(Atoms)  OBVIOUS
<1>2. s \o ((t \o u) \o v) = ((s \o t) \o u) \o v  OBVIOUS
<1>3. PICK x : x = s \o t  OBVIOUS
<1>4. x \in Seq(Atoms)  BY <1>3
<1>5. x \o (u \o v) = (x \o u) \o v /\ x \o (u \o v) \in Seq(Atoms)  BY <1>4
<1> QED  BY <1>1, <1>2, <1>3, <1>5 DEF Associates

\* A literal is open after what is kept of a line when it is after all of it.
LEMMA KeptOpen ==
  ASSUME NEW s \in Seq(Atoms), NEW raw \in RawLine
  PROVE  Unclosed(Kept(s, raw)) <=> Unclosed(s \o Uncommented(s, raw))
<1> DEFINE U == Uncommented(s, raw)
<1>1. /\ U \in Seq(Atoms)
      /\ Unclosed(s) => Kept(s, raw) = s \o ((<<NewLine>> \o Spaces(raw.ind)) \o U)
      /\ ~Unclosed(s) => Kept(s, raw) = s \o (IF Unclosed(s \o U) THEN TrimRight(U) ELSE U)
  BY KeptIs
<1> HIDE DEF U
<1>2. CASE Unclosed(s)
  <2> DEFINE y == <<NewLine>>
             x == Spaces(raw.ind)
  <2>1. NewLine \in Atoms /\ NewLine # Quote /\ raw.ind \in Nat  BY DEF Atoms, NewLine, Quote, RawLine
  <2>2. y \in Seq(Atoms) /\ x \in Seq(Atoms) /\ s \o y = Append(s, NewLine)
    <3>1. y \in Seq(Atoms)  BY <2>1
    <3>2. x \in Seq(Atoms)  BY <2>1, SpacesIs
    <3>3. s \o y = Append(s, NewLine)  BY <2>1
    <3> QED  BY <3>1, <3>2, <3>3
  <2>3. Unclosed(s \o y) <=> Unclosed(s)  BY <2>1, Appended, <2>2, UnclosedAppend
  <2>4. Kept(s, raw) = s \o ((y \o x) \o U)  BY <1>1, <1>2
  <2>5. s \o y \in Seq(Atoms) /\ (Unclosed((s \o y) \o x) <=> Unclosed(s \o y)) /\ (s \o y) \o x \in Seq(Atoms)
    <3>1. s \o y \in Seq(Atoms)  BY <2>1, <2>2, Appended
    <3> HIDE DEF y
    <3> QED  BY <2>1, <3>1, UnclosedSpaces
  <2> HIDE DEF x, y
  <2> DEFINE a == (s \o y) \o x
  <2>6. a \in Seq(Atoms) /\ (Unclosed(a) <=> Unclosed(s))  BY <2>3, <2>5
  <2>7. s \o ((y \o x) \o U) = a \o U
    <3>1. Associates(s, y, x, U)  BY <1>1, <2>2, Joins4
    <3> QED  BY <3>1, Zenon DEF Associates, a
  <2> HIDE DEF a
  <2>8. Unclosed(a \o U) <=> Unclosed(s \o U)  BY <1>1, <2>6, OpenConcat
  <2> QED  BY <2>4, <2>7, <2>8 DEF U
<1>3. CASE ~Unclosed(s)  BY <1>1, <1>3, TrimAlike DEF U
<1> QED  BY <1>2, <1>3

PendState == [ind : Nat, line : Nat, txt : Seq(Atoms), depth : Int, inStr : BOOLEAN]
\* The text of the source up to the line at hand, comments apart.
Before == KeptOf(SubSeq(doc, 1, at - 1))
ScanText ==
  /\ lines \in Seq(LogicalLine) /\ pend \in PendState
  /\ stage = "scan" =>
       /\ at \in 1..(Len(doc) + 1)
       /\ Fresh => pend.txt = <<>>
       /\ Alike(TextOf(lines) \o pend.txt, Before)
       /\ pend.inStr <=> Unclosed(Before)
  /\ stage = "parse" => Content(TextOf(lines)) = Content(KeptOf(doc))
TextInv == doc \in Documents /\ (Plain => ScanText)

\* The line at hand and the text before it.
Pad == IF pend.inStr THEN doc[at].ind ELSE 0
Text == Uncommented(Before, doc[at])
LEMMA AtHandIs ==
  ASSUME doc \in Documents, Plain, ScanText, stage = "scan", at <= Len(doc)
  PROVE  /\ doc \in Seq(RawLine) /\ Before \in Seq(Atoms) /\ doc[at] \in RawLine /\ Pad \in Nat
         /\ KeptOf(SubSeq(doc, 1, at)) = Kept(Before, doc[at])
         /\ LET V == Spaces(Pad) \o doc[at].txt
                sc == ScanLine(V, pend.inStr)
            IN  /\ V = (IF pend.inStr THEN Verbatim(doc[at]) ELSE doc[at].txt)
                /\ sc \in ScanState /\ (sc.inStr <=> Unclosed(Before \o Text))
                /\ SubSeq(V, 1, sc.end) = Spaces(Pad) \o Text
         /\ Text \in Seq(Atoms)
<1>1. doc \in Seq(RawLine)  BY ReaderAssumption DEF RawLine
<1>2. at \in 1..Len(doc)
  <2>1. at \in 1..(Len(doc) + 1) /\ Len(doc) \in Nat  BY <1>1 DEF ScanText
  <2> QED  BY <2>1
<1>3. /\ SubSeq(doc, 1, at - 1) \in Seq(RawLine) /\ doc[at] \in RawLine
      /\ SubSeq(doc, 1, at) = Append(SubSeq(doc, 1, at - 1), doc[at])
  BY <1>1, <1>2, Longer
<1>4. Before \in Seq(Atoms) /\ KeptOf(SubSeq(doc, 1, at)) = Kept(Before, doc[at])
  BY <1>3, KeptAppend DEF Before
<1>5. ~Contains(doc[at].txt, Backslash)
  <2>1. DOMAIN doc = 1..Len(doc)  BY <1>1
  <2> QED  BY <1>2, <2>1 DEF Plain
<1>6. /\ pend.inStr \in BOOLEAN /\ Pad \in Nat /\ (pend.inStr \/ Pad = 0) /\ (Unclosed(Before) <=> pend.inStr)
      /\ doc[at].txt \in Seq(Atoms)
  <2>1. doc[at].ind \in Nat /\ doc[at].txt \in Seq(Atoms)  BY <1>3 DEF RawLine, Atoms
  <2>2. pend.inStr \in BOOLEAN /\ (Unclosed(Before) <=> pend.inStr)  BY DEF ScanText, PendState
  <2> QED  BY <2>1, <2>2 DEF Pad
<1>7. Spaces(Pad) \o doc[at].txt = (IF pend.inStr THEN Verbatim(doc[at]) ELSE doc[at].txt)
  <2>1. CASE pend.inStr  BY <2>1 DEF Pad, Verbatim
  <2>2. CASE ~pend.inStr
    <3>1. Spaces(0) = <<>> /\ <<>> \o doc[at].txt = doc[at].txt  BY <1>6, NoSpaces
    <3> QED  BY <2>2, <3>1 DEF Pad
  <2> QED  BY <2>1, <2>2
<1>8. LET V == Spaces(Pad) \o doc[at].txt
          sc == ScanLine(V, pend.inStr)
      IN  /\ sc \in ScanState /\ (sc.inStr <=> Unclosed(Before \o Text))
          /\ SubSeq(V, 1, sc.end) = Spaces(Pad) \o Text
  <2> DEFINE s == Before
             raw == doc[at]
             b == pend.inStr
             n == Pad
  <2>1. s \in Seq(Atoms) /\ raw \in RawLine /\ n \in Nat /\ b \in BOOLEAN /\ (b \/ n = 0) /\ (Unclosed(s) <=> b)
        /\ ~Contains(raw.txt, Backslash)
    BY <1>3, <1>4, <1>5, <1>6
  <2> HIDE DEF s, raw, b, n
  <2>2. LET V == Spaces(n) \o raw.txt
            sc == ScanLine(V, b)
        IN  /\ sc \in ScanState /\ (sc.inStr <=> Unclosed(s \o Uncommented(s, raw)))
            /\ SubSeq(V, 1, sc.end) = Spaces(n) \o Uncommented(s, raw)
    BY <2>1, LineScan
  <2> QED  BY <2>2 DEF s, raw, b, n, Text
<1>9. Text \in Seq(Atoms)  BY <1>3, <1>4, KeptIs DEF Text
<1> QED  BY <1>1, <1>3, <1>4, <1>6, <1>7, <1>8, <1>9

\* A space that joins two texts is no part of the content.
LEMMA WithSpaceAlike ==
  ASSUME NEW a \in Seq(Atoms), NEW s \in Seq(Atoms), NEW t \in Seq(Atoms), ~Unclosed(a \o s)
  PROVE  WithSpace(s, t) \in Seq(Atoms) /\ Alike(a \o WithSpace(s, t), (a \o s) \o t)
<1>1. /\ a \o s \in Seq(Atoms) /\ (a \o s) \o t \in Seq(Atoms)
      /\ s \o t \in Seq(Atoms) /\ a \o (s \o t) = (a \o s) \o t /\ (a \o s) \o <<>> = a \o s
  BY Joins3
<1>2. (t = <<>> /\ WithSpace(s, t) = s) \/ WithSpace(s, t) = s \o t \/ WithSpace(s, t) = s \o <<Space>> \o t
  BY Zenon DEF WithSpace
<1>3. CASE WithSpace(s, t) = s /\ t = <<>>
  <2>1. Alike(a \o s, a \o s)  BY <1>1, AlikeThrough
  <2> QED  BY <1>1, <1>3, <2>1
<1>4. CASE WithSpace(s, t) = s \o t
  <2>1. Alike((a \o s) \o t, (a \o s) \o t)  BY <1>1, AlikeThrough
  <2> QED  BY <1>1, <1>4, <2>1
<1>5. CASE WithSpace(s, t) = s \o <<Space>> \o t
  <2> DEFINE y == <<Space>>
             x == a \o s
  <2>1. Space \in Atoms  BY DEF Atoms
  <2>2. y \in Seq(Atoms) /\ x \in Seq(Atoms) /\ x \o y = Append(x, Space)
    <3>1. x \in Seq(Atoms)  BY <1>1
    <3> HIDE DEF x
    <3> QED  BY <2>1, <3>1
  <2>3. Alike(x \o y, x)  BY <2>2, AlikeSpace
  <2>4. WithSpace(s, t) = (s \o y) \o t  BY <1>5
  <2> HIDE DEF y
  <2>5. (s \o y) \o t \in Seq(Atoms) /\ a \o ((s \o y) \o t) = (x \o y) \o t
    <3>1. Associates(a, s, y, t)  BY <2>2, Joins4
    <3> QED  BY <3>1, Zenon DEF Associates, x
  <2> HIDE DEF x
  <2>6. Alike((x \o y) \o t, x \o t)  BY <2>3, AlikeConcat
  <2> QED  BY <2>4, <2>5, <2>6 DEF x
<1> QED  BY <1>2, <1>3, <1>4, <1>5

\* Joining a line adds the content of it.
LEMMA JoinedText ==
  ASSUME doc \in Documents, Plain, ScanText, stage = "scan", at <= Len(doc)
  PROVE  /\ Joined \in PendState
         /\ Joined.inStr <=> Unclosed(KeptOf(SubSeq(doc, 1, at)))
         /\ Alike(TextOf(lines) \o Joined.txt, KeptOf(SubSeq(doc, 1, at)))
         /\ TextOf(lines) \in Seq(Atoms)
<1> DEFINE V == Spaces(Pad) \o doc[at].txt
           sc == ScanLine(V, pend.inStr)
           next == [pend EXCEPT !.depth = @ + sc.delta, !.inStr = sc.inStr]
           B == Before
           A == TextOf(lines)
           P == pend.txt
           U == Text
           R == TrimRight(Text)
           M == <<NewLine>>
           I == Spaces(Pad)
<1>1. /\ B \in Seq(Atoms) /\ doc[at] \in RawLine /\ at \in Nat
      /\ KeptOf(SubSeq(doc, 1, at)) = Kept(B, doc[at])
      /\ V = (IF pend.inStr THEN Verbatim(doc[at]) ELSE doc[at].txt)
      /\ sc \in ScanState /\ (sc.inStr <=> Unclosed(B \o U))
      /\ SubSeq(V, 1, sc.end) = I \o U /\ U \in Seq(Atoms) /\ I \in Seq(Atoms)
  <2>1. at \in Nat
    <3>1. doc \in Seq(RawLine)  BY AtHandIs
    <3>2. Len(doc) \in Nat /\ at \in 1..(Len(doc) + 1)  BY <3>1 DEF ScanText
    <3> QED  BY <3>2
  <2> QED  BY <2>1, AtHandIs, SpacesIs
<1>2. /\ pend \in PendState /\ Alike(A \o P, B) /\ P \in Seq(Atoms) /\ A \in Seq(Atoms)
      /\ (Fresh => P = <<>>) /\ (pend.inStr <=> Unclosed(B))
  <2>1. /\ pend \in PendState /\ Alike(A \o P, B) /\ (Fresh => P = <<>>) /\ lines \in Seq(LogicalLine)
        /\ (pend.inStr <=> Unclosed(B))
    BY DEF ScanText
  <2>2. P \in Seq(Atoms)  BY <2>1 DEF PendState
  <2>3. A \in Seq(Atoms)
    <3>1. [ind |-> 0, line |-> 0, txt |-> <<>>] \in LogicalLine  BY DEF LogicalLine
    <3> QED  BY <2>1, <3>1, TextAppend
  <2> QED  BY <2>1, <2>2, <2>3
<1>3. next \in PendState /\ next.txt = P /\ next.inStr = sc.inStr
  <2>1. pend.depth \in Int /\ sc.delta \in Int /\ sc.inStr \in BOOLEAN
    BY <1>1, <1>2 DEF PendState, ScanState
  <2> DEFINE d == pend.depth + sc.delta
             i == sc.inStr
  <2>2. next = [pend EXCEPT !.depth = d, !.inStr = i] /\ d \in Int /\ i \in BOOLEAN  BY <2>1
  <2> HIDE DEF next, d, i
  <2>3. next \in PendState /\ next.txt = pend.txt /\ next.inStr = i  BY <1>2, <2>2 DEF PendState
  <2> QED  BY <2>3 DEF i
<1>4. Joined = CASE pend.inStr -> [next EXCEPT !.txt = @ \o <<NewLine>> \o (I \o U)]
                 [] ~pend.inStr /\ pend.depth = 0 ->
                      [next EXCEPT !.txt = TrimRight(I \o U), !.ind = doc[at].ind, !.line = at]
                 [] OTHER -> [next EXCEPT !.txt = WithSpace(@, TrimRight(I \o U))]
  BY <1>1 DEF Joined
<1>5. M \in Seq(Atoms) /\ R \in Seq(Atoms)
  <2>1. NewLine \in Atoms  BY DEF Atoms
  <2>2. M \in Seq(Atoms)  BY <2>1
  <2> QED  BY <1>1, <2>2, TrimIs
<1>6. ~pend.inStr => I \o U = U
  <2>1. ~pend.inStr => I = <<>>  BY NoSpaces DEF Pad
  <2> HIDE DEF I, U
  <2>2. <<>> \o U = U  BY <1>1
  <2> QED  BY <2>1, <2>2
<1>7. /\ Unclosed(B) => Kept(B, doc[at]) = B \o ((M \o Spaces(doc[at].ind)) \o U)
      /\ ~Unclosed(B) => Kept(B, doc[at]) = B \o (IF Unclosed(B \o U) THEN R ELSE U)
      /\ Unclosed(Kept(B, doc[at])) <=> Unclosed(B \o U)
  <2>1. B \in Seq(Atoms) /\ doc[at] \in RawLine  BY <1>1
  <2> QED  BY <2>1, KeptIs, KeptOpen DEF Text
<1>8. A \o P \in Seq(Atoms)  BY <1>2, Joins3
<1>9. doc[at].ind \in Nat /\ at \in Nat  BY <1>1 DEF RawLine
<1>10. pend.inStr => I = Spaces(doc[at].ind)  BY DEF Pad
<1> HIDE DEF next, sc, V, B, U, R, I, M
<1>11. CASE pend.inStr
  <2> DEFINE z == (P \o M) \o (I \o U)
             w == (M \o I) \o U
  <2>1. Joined = [next EXCEPT !.txt = z]  BY <1>3, <1>4, <1>11 DEF M
  <2>2. z \in Seq(Atoms) /\ w \in Seq(Atoms) /\ A \o z = (A \o P) \o w
    <3> DEFINE q == P
               r == A
    <3>1. q \in Seq(Atoms) /\ r \in Seq(Atoms)  BY <1>2
    <3> HIDE DEF q, r
    <3>2. (q \o M) \o (I \o U) \in Seq(Atoms) /\ (M \o I) \o U \in Seq(Atoms)
          /\ r \o ((q \o M) \o (I \o U)) = (r \o q) \o ((M \o I) \o U)
      <4> DEFINE c == I \o U
      <4>3. c \in Seq(Atoms)  BY <1>1, Joins3
      <4>4. Associates(q, M, I, U)  BY <1>1, <1>5, <3>1, Joins4
      <4> HIDE DEF c
      <4>5. Associates(r, q, M, c)  BY <1>5, <3>1, <4>3, Joins4
      <4>1. Associates(r, q, M, I \o U) /\ Associates(q, M, I, U)  BY <4>4, <4>5 DEF c
      <4>6. M \in Seq(Atoms) /\ I \in Seq(Atoms) /\ U \in Seq(Atoms)  BY <1>1, <1>5
      <4>2. (M \o I) \o U = M \o (I \o U)  BY ONLY <4>6, Joins3
      <4> QED  BY <4>1, <4>2, ZenonT(30) DEF Associates
    <3> QED  BY <3>2 DEF q, r
  <2> HIDE DEF z, w
  <2>3. Joined \in PendState /\ Joined.txt = z /\ Joined.inStr = next.inStr
    BY <1>3, <2>1, <2>2 DEF PendState
  <2>4. Alike((A \o P) \o w, B \o w)  BY <1>2, <2>2, AlikeConcat
  <2>5. Kept(B, doc[at]) = B \o w  BY <1>2, <1>7, <1>10, <1>11 DEF w
  <2>6. Alike(A \o Joined.txt, Kept(B, doc[at]))  BY <2>2, <2>3, <2>4, <2>5
  <2> QED  BY <1>1, <1>2, <1>3, <1>7, <2>3, <2>6
<1>12. CASE ~pend.inStr
  <2>1. ~Unclosed(A \o P) /\ ~Unclosed(B) /\ I \o U = U  BY <1>2, <1>6, <1>12 DEF Alike
  <2>2. TrimRight(I \o U) = R  BY <2>1 DEF R, U
  <2>3. /\ Joined \in PendState /\ Joined.inStr = next.inStr /\ Joined.txt \in Seq(Atoms)
        /\ Alike(A \o Joined.txt, (A \o P) \o R)
    <3>1. CASE pend.depth = 0
      <4>1. Joined = [next EXCEPT !.txt = R, !.ind = doc[at].ind, !.line = at]  BY <1>4, <1>12, <2>2, <3>1
      <4>2. Joined \in PendState /\ Joined.txt = R /\ Joined.inStr = next.inStr
        BY <1>3, <1>5, <1>9, <4>1 DEF PendState
      <4>3. P = <<>> /\ A \o <<>> = A  BY <1>2, <1>12, <3>1 DEF Fresh
      <4>4. A \o R \in Seq(Atoms)  BY <1>2, <1>5, Joins3
      <4>5. Alike(A \o R, A \o R)  BY <4>4, AlikeThrough
      <4> QED  BY <1>5, <4>2, <4>3, <4>5
    <3>2. CASE pend.depth # 0
      <4> DEFINE z == WithSpace(P, R)
      <4>1. z \in Seq(Atoms) /\ Alike(A \o z, (A \o P) \o R)  BY <1>2, <1>5, <2>1, WithSpaceAlike
      <4>2. Joined = [next EXCEPT !.txt = z]  BY <1>3, <1>4, <1>12, <2>2, <3>2
      <4> HIDE DEF z
      <4>3. Joined \in PendState /\ Joined.txt = z /\ Joined.inStr = next.inStr
        BY <1>3, <4>1, <4>2 DEF PendState
      <4> QED  BY <4>1, <4>3
    <3> QED  BY <3>1, <3>2
  <2>4. Alike((A \o P) \o R, B \o R)  BY <1>2, <1>5, AlikeConcat
  <2>5. Alike(B \o R, Kept(B, doc[at]))
    <3>1. CASE Unclosed(B \o U)
      <4>1. Kept(B, doc[at]) = B \o R  BY <1>7, <2>1, <3>1
      <4>2. B \o R \in Seq(Atoms)  BY <1>1, <1>5, Joins3
      <4> QED  BY <4>1, <4>2, AlikeThrough
    <3>2. CASE ~Unclosed(B \o U)
      <4>1. Kept(B, doc[at]) = B \o U  BY <1>7, <2>1, <3>2
      <4>2. Alike(B \o R, B \o U)  BY <1>1, <3>2, TrimAlike DEF R, U
      <4> QED  BY <4>1, <4>2
    <3> QED  BY <3>1, <3>2
  <2>6. Alike(A \o Joined.txt, Kept(B, doc[at]))  BY <2>3, <2>4, <2>5, AlikeThrough
  <2> QED  BY <1>1, <1>2, <1>3, <1>7, <2>3, <2>6
<1> QED  BY <1>11, <1>12

(***************************************************************************)
(* The content of the scanned lines is the content of the source.          *)
(***************************************************************************)
\* Nothing is read at the start.
LEMMA BeginText == ReaderInit => TextInv
<1> SUFFICES ASSUME ReaderInit, Plain
             PROVE  doc \in Documents /\ ScanText
  BY DEF TextInv, ReaderInit
<1>1. doc \in Documents /\ stage = "scan" /\ at = 1 /\ lines = <<>> /\ pend = NoLine
  BY DEF ReaderInit, ScanInit
<1>2. doc \in Seq(RawLine)  BY <1>1, ReaderAssumption DEF RawLine
<1>3. lines \in Seq(LogicalLine)  BY <1>1
<1>4. pend \in PendState /\ pend.txt = <<>> /\ ~pend.inStr
  <2>1. <<>> \in Seq(Atoms)  OBVIOUS
  <2> QED  BY <1>1, <2>1 DEF PendState, NoLine
<1>5. Before = <<>>
  <2>1. SubSeq(doc, 1, at - 1) = <<>> /\ [ind |-> 0, txt |-> <<>>] \in RawLine /\ <<>> \in Seq(RawLine)
    BY <1>1, <1>2 DEF RawLine
  <2>2. KeptOf(<<>>) = <<>>  BY <2>1, KeptAppend
  <2> QED  BY <2>1, <2>2 DEF Before
<1>6. TextOf(lines) = <<>>
  <2>1. [ind |-> 0, line |-> 0, txt |-> <<>>] \in LogicalLine /\ <<>> \in Seq(LogicalLine)
    BY DEF LogicalLine
  <2>2. TextOf(<<>>) = <<>>  BY <2>1, TextAppend
  <2> QED  BY <1>1, <2>2
<1>7. <<>> \o <<>> = <<>> /\ <<>> \in Seq(Atoms)  OBVIOUS
<1>8. at \in 1..(Len(doc) + 1)  BY <1>1, <1>2
<1>9. Alike(<<>>, <<>>)  BY <1>7, AlikeThrough
<1> QED  BY <1>1, <1>3, <1>4, <1>5, <1>6, <1>7, <1>8, <1>9, UnclosedNothing DEF ScanText

\* Joining a line and reading the last one keep the content.
LEMMA ScanTextKept ==
  ASSUME TextInv, Plain, ScanRaw \/ ScanEnd
  PROVE  ScanText'
<1>0. doc \in Documents /\ ScanText /\ stage = "scan" /\ doc' = doc
  BY DEF TextInv, ScanRaw, ScanEnd
<1>1. doc \in Seq(RawLine) /\ Len(doc) \in Nat  BY <1>0, ReaderAssumption DEF RawLine
<1>2. at \in Nat /\ at \in 1..(Len(doc) + 1)  BY <1>0, <1>1 DEF ScanText
<1>3. CASE ScanRaw
  <2>1. at <= Len(doc) /\ at' = at + 1 /\ stage' = "scan" /\ at' \in 1..(Len(doc) + 1)
    BY <1>0, <1>1, <1>2, <1>3 DEF ScanRaw
  <2>2. /\ Joined \in PendState
        /\ Joined.inStr <=> Unclosed(KeptOf(SubSeq(doc, 1, at)))
        /\ Alike(TextOf(lines) \o Joined.txt, KeptOf(SubSeq(doc, 1, at)))
        /\ TextOf(lines) \in Seq(Atoms)
    BY <1>0, <2>1, JoinedText
  <2>3. Before' = KeptOf(SubSeq(doc, 1, at))
    <3>1. at' - 1 = at  BY <1>2, <2>1
    <3> QED  BY <1>0, <3>1 DEF Before
  <2>4. CASE lines' = Append(lines, Logical(Joined)) /\ pend' = NoLine /\ ~Joined.inStr
    <3>1. Logical(Joined) \in LogicalLine /\ Logical(Joined).txt = Joined.txt /\ Joined.txt \in Seq(Atoms)
      BY <2>2 DEF Logical, LogicalLine, PendState
    <3>2. lines \in Seq(LogicalLine)  BY <1>0 DEF ScanText
    <3>3. lines' \in Seq(LogicalLine)  BY <2>4, <3>1, <3>2
    <3>4. TextOf(lines') = TextOf(lines) \o Joined.txt
      BY <2>4, <3>1, <3>2, TextAppend
    <3>5. pend' \in PendState /\ pend'.txt = <<>> /\ ~pend'.inStr
      <4>1. <<>> \in Seq(Atoms)  OBVIOUS
      <4> QED  BY <2>4, <4>1 DEF PendState, NoLine
    <3>6. Alike(TextOf(lines') \o pend'.txt, Before')
      <4> DEFINE v == TextOf(lines) \o Joined.txt
      <4>1. v \in Seq(Atoms)  BY <2>2 DEF Alike
      <4> HIDE DEF v
      <4>2. v \o <<>> = v  BY <4>1
      <4> QED  BY <2>2, <2>3, <3>4, <3>5, <4>2 DEF v
    <3>7. pend'.inStr <=> Unclosed(Before')  BY <2>2, <2>3, <2>4, <3>5
    <3> QED  BY <1>0, <2>1, <3>3, <3>5, <3>6, <3>7 DEF ScanText
  <2>5. CASE pend' = Joined /\ UNCHANGED lines /\ ~(Joined.depth <= 0 /\ ~Joined.inStr)
    <3>1. lines' \in Seq(LogicalLine) /\ TextOf(lines') = TextOf(lines)  BY <1>0, <2>5 DEF ScanText
    <3>2. ~Fresh'  BY <2>5 DEF Fresh
    <3> QED  BY <1>0, <2>1, <2>2, <2>3, <2>5, <3>1, <3>2 DEF ScanText
  <2> QED  BY <1>3, <2>4, <2>5 DEF ScanRaw
<1>4. CASE ScanEnd
  <2>1. at > Len(doc) /\ stage' = (IF Fresh THEN "parse" ELSE "failed") /\ UNCHANGED <<doc, lines, pend>>
    BY <1>4 DEF ScanEnd
  <2>2. ASSUME Fresh
        PROVE  Content(TextOf(lines)) = Content(KeptOf(doc))
    <3>1. at - 1 = Len(doc)  BY <1>1, <1>2, <2>1
    <3>2. Before = KeptOf(doc)
      <4>1. SubSeq(doc, 1, Len(doc)) = doc  BY <1>1
      <4> QED  BY <3>1, <4>1 DEF Before
    <3>3. TextOf(lines) \in Seq(Atoms) /\ pend.txt = <<>>
      <4>1. lines \in Seq(LogicalLine)  BY <1>0 DEF ScanText
      <4>2. [ind |-> 0, line |-> 0, txt |-> <<>>] \in LogicalLine  BY DEF LogicalLine
      <4>3. TextOf(lines) \in Seq(Atoms)  BY <4>1, <4>2, TextAppend
      <4> QED  BY <1>0, <2>2, <4>3 DEF ScanText
    <3>4. Alike(TextOf(lines) \o pend.txt, Before)  BY <1>0 DEF ScanText
    <3> DEFINE v == TextOf(lines)
    <3>5. v \in Seq(Atoms)  BY <3>3
    <3> HIDE DEF v
    <3>6. v \o <<>> = v  BY <3>5
    <3>7. Alike(v, KeptOf(doc))  BY <3>2, <3>3, <3>4, <3>6 DEF v
    <3> QED  BY <3>7 DEF Alike, v
  <2>3. TextOf(lines') = TextOf(lines) /\ KeptOf(doc') = KeptOf(doc)  BY <2>1
  <2>4. stage' = "parse" => Content(TextOf(lines')) = Content(KeptOf(doc'))  BY <2>1, <2>2, <2>3
  <2>5. stage' # "scan"  BY <2>1
  <2>6. lines' \in Seq(LogicalLine) /\ pend' \in PendState  BY <1>0, <2>1 DEF ScanText
  <2> QED  BY <2>4, <2>5, <2>6 DEF ScanText
<1> QED  BY <1>3, <1>4

\* So does every step.
LEMMA ReadTextKept ==
  ASSUME TextInv, [Scanning \/ Parsing \/ Stop]_vars
  PROVE  TextInv'
<1>1. CASE Scanning
  <2>1. doc' = doc  BY <1>1 DEF Scanning, ScanScalar, ScanRaw, ScanEnd
  <2>2. Plain' <=> Plain  BY <2>1 DEF Plain
  <2>3. ASSUME Plain
        PROVE  ScanText'
    <3>1. ASSUME ScanScalar
          PROVE  FALSE
      <4>1. stage = "scan" /\ at <= Len(doc) /\ IsScalarKey(doc[at].txt)  BY <3>1 DEF ScanScalar
      <4>2. at \in 1..(Len(doc) + 1) /\ doc \in Seq(RawLine)
        BY <2>3, <4>1, ReaderAssumption DEF TextInv, ScanText, RawLine
      <4>3. at \in DOMAIN doc  BY <4>1, <4>2
      <4> QED  BY <2>3, <4>1, <4>3 DEF Plain
    <3> QED  BY <1>1, <2>3, <3>1, ScanTextKept DEF Scanning
  <2> QED  BY <2>1, <2>2, <2>3 DEF TextInv
<1>2. ASSUME UNCHANGED <<doc, lines, pend>>, stage' = stage \/ stage' \notin {"scan", "parse"},
             stage = "scan" => UNCHANGED at
      PROVE  TextInv'
  <2>1. TextOf(lines') = TextOf(lines) /\ KeptOf(doc') = KeptOf(doc) /\ (Plain' <=> Plain)
    BY <1>2 DEF Plain
  <2>2. ASSUME stage = "scan", stage' = "scan"
        PROVE  (Fresh' <=> Fresh) /\ Before' = Before
    BY <1>2, <2>2 DEF Fresh, Before
  <2> QED  BY <1>2, <2>1, <2>2 DEF TextInv, ScanText
<1>3. CASE Parsing
  <2>1. UNCHANGED <<doc, lines, pend>> /\ stage = "parse" /\ (stage' = stage \/ stage' \in {"done", "failed"})
    BY <1>3 DEF Parsing, BlankLine, FamilyHeadLine, FamilyFieldLine, FieldLine, BarLine, TopLine, EndPart,
                Reading, Accept, Reject, AddField, TakeBar, AddStmt, AddNamed
  <2> QED  BY <1>2, <2>1
<1>4. CASE Stop \/ UNCHANGED vars
  <2>1. UNCHANGED vars  BY <1>4 DEF Stop
  <2> QED  BY <1>2, <2>1 DEF vars
<1> QED  BY <1>1, <1>3, <1>4

(***************************************************************************)
(* Literals: what one denotes.                                             *)
(***************************************************************************)
\* The escapes a literal knows.
LEMMA EscapesAre ==
  /\ DOMAIN Escapes = {Quote, Backslash, "n", "t", "r"}
  /\ \A c \in DOMAIN Escapes : Escapes[c] \in Atoms
  /\ Escapes[Quote] = Quote /\ Escapes[Backslash] = Backslash /\ Escapes["n"] = NewLine
  /\ Quote # Backslash
<1>1. Quote # Backslash /\ Quote # "n" /\ Backslash # "n" /\ Quote # "t" /\ Backslash # "t" /\ Quote # "r" /\ Backslash # "r"
  BY DEF Quote, Backslash
<1>2. DOMAIN Escapes = {Quote, Backslash, "n", "t", "r"}  BY DEF Escapes
<1>3. Escapes[Quote] = Quote /\ Escapes[Backslash] = Backslash /\ Escapes["n"] = NewLine
      /\ Escapes["t"] = "tab" /\ Escapes["r"] = "return"
  BY <1>1 DEF Escapes
<1>4. \A c \in DOMAIN Escapes : Escapes[c] \in Atoms  BY <1>2, <1>3 DEF Atoms
<1> QED  BY <1>1, <1>2, <1>3, <1>4

\* StringFrom.
ReadState == [closed : BOOLEAN, said : Seq(Atoms), next : Nat]
StillOpen(w, to) == [closed |-> FALSE, said |-> w, next |-> to]
Saying(s, c, to) == [s EXCEPT !.said = Append(@, c), !.next = to]
TakeChar(src, s, k) ==
  IF s.closed \/ k < s.next THEN s
  ELSE IF src[k] = Quote THEN [s EXCEPT !.closed = TRUE, !.next = k + 1]
  ELSE IF src[k] = Backslash /\ At(src, k + 1, DOMAIN Escapes) THEN Saying(s, Escapes[src[k + 1]], k + 2)
  ELSE Saying(s, src[k], k + 1)
From(src, j) == [n \in 1..(Len(src) - j + 1) |-> j + n - 1]
Taking(src, j) ==
  [kt \in (1..Len(From(src, j))) \X ReadState |-> TakeChar(src, kt[2], From(src, j)[kt[1]])]

\* A literal that is being read has what it denotes so far.
LEMMA SayingIs ==
  ASSUME NEW s \in ReadState, NEW c \in Atoms, NEW to \in Nat
  PROVE  Saying(s, c, to) \in ReadState
<1> DEFINE w == Append(s.said, c)
<1>1. w \in Seq(Atoms)  BY DEF ReadState
<1>2. Saying(s, c, to) = [s EXCEPT !.said = w, !.next = to]  BY DEF Saying
<1> HIDE DEF w
<1> QED  BY <1>1, <1>2 DEF ReadState

\* So it has after one atom more.
LEMMA TakeCharIs ==
  ASSUME NEW src \in Seq(Atoms), NEW s \in ReadState, NEW k \in 1..Len(src)
  PROVE  TakeChar(src, s, k) \in ReadState
<1>1. k \in Nat /\ k + 1 \in Nat /\ k + 2 \in Nat /\ src[k] \in Atoms  OBVIOUS
<1>2. [s EXCEPT !.closed = TRUE, !.next = k + 1] \in ReadState  BY <1>1 DEF ReadState
<1>3. At(src, k + 1, DOMAIN Escapes) => Saying(s, Escapes[src[k + 1]], k + 2) \in ReadState
  BY <1>1, EscapesAre, SayingIs DEF At
<1>4. Saying(s, src[k], k + 1) \in ReadState  BY <1>1, SayingIs
<1> QED  BY <1>2, <1>3, <1>4 DEF TakeChar

\* The positions of a text from j on.
LEMMA FromIs ==
  ASSUME NEW src \in Seq(Atoms), NEW j \in 1..(Len(src) + 1)
  PROVE  /\ From(src, j) \in Seq(1..Len(src)) /\ Len(From(src, j)) = Len(src) - j + 1
         /\ \A k \in 1..(Len(src) - j + 1) : From(src, j)[k] = j + k - 1
<1> DEFINE n == Len(src) - j + 1
<1>1. Len(src) \in Nat /\ n \in Nat  OBVIOUS
<1>2. \A k \in 1..n : j + k - 1 \in 1..Len(src)  BY <1>1
<1>3. From(src, j) = [k \in 1..n |-> j + k - 1]  BY DEF From
<1> HIDE DEF n
<1>4. [k \in 1..n |-> j + k - 1] \in [1..n -> 1..Len(src)]  BY <1>2
<1>5. From(src, j) \in Seq(1..Len(src)) /\ Len(From(src, j)) = n  BY <1>1, <1>3, <1>4
<1> QED  BY <1>3, <1>5 DEF n
\* What reading a literal repeats.
LEMMA StringSteps ==
  ASSUME NEW src \in Seq(Atoms), NEW j \in 1..(Len(src) + 1)
  PROVE  \E r : /\ Runs(r, Len(From(src, j)), ReadState, StillOpen(<<>>, j), Taking(src, j))
               /\ StringFrom(src, j) = r[Len(From(src, j))]
<1> DEFINE n == Len(From(src, j))
           V == ReadState
           g == Taking(src, j)
           b == StillOpen(<<>>, j)
           Is(f) == f = [S \in SUBSET (1..n) |->
                           IF S = {} THEN b ELSE TakeChar(src, f[S \ {Max(S)}], From(src, j)[Max(S)])]
           all == CHOOSE f : Is(f)
<1>1. n \in Nat /\ DOMAIN From(src, j) = 1..n /\ \A k \in 1..n : From(src, j)[k] \in 1..Len(src)  BY FromIs
<1>2. StringFrom(src, j) = all[1..n]
  BY <1>1 DEF StringFrom, From, TakeChar, StillOpen, Saying, FoldLeft, MapThenFoldSet
<1>3. b \in V  BY <1>1 DEF ReadState, StillOpen
<1>4. g \in [(1..n) \X V -> V]
  <2>1. \A t \in V, c \in 1..Len(src) : TakeChar(src, t, c) \in V  BY TakeCharIs
  <2>2. \A kt \in (1..n) \X V : kt[2] \in V /\ From(src, j)[kt[1]] \in 1..Len(src)  BY <1>1
  <2> HIDE DEF V
  <2> QED  BY <2>1, <2>2 DEF Taking, V
<1>5. \A k \in 1..n, t \in V : g[<<k, t>>] = TakeChar(src, t, From(src, j)[k])  BY DEF Taking
<1> HIDE DEF n, V, g, b
<1>6. PICK F \in [SUBSET (1..n) -> V] : FoldsUp(F, n, b, g)  BY <1>1, <1>3, <1>4, FoldExists
<1>7. Is(F)
  <2>1. ASSUME NEW S \in SUBSET (1..n), S # {}
        PROVE  F[S] = TakeChar(src, F[S \ {Max(S)}], From(src, j)[Max(S)])
    <3>1. Max(S) \in 1..n /\ S \ {Max(S)} \in SUBSET (1..n)  BY <1>1, <2>1, LastOf
    <3>2. F[S] = g[<<Max(S), F[S \ {Max(S)}]>>]  BY <1>6, <2>1 DEF FoldsUp
    <3> QED  BY <1>5, <3>1, <3>2
  <2>2. F[{}] = b  BY <1>6 DEF FoldsUp
  <2>3. F = [S \in SUBSET (1..n) |-> F[S]]  OBVIOUS
  <2> QED  BY <2>1, <2>2, <2>3
<1>8. Is(all)
  <2> HIDE DEF Is
  <2> QED  BY <1>7
<1> HIDE DEF all
<1>9. Chain(all, n, V, b, g)
  <2>1. ASSUME NEW k \in 1..n, all[1..(k - 1)] \in V
        PROVE  all[1..k] = g[<<k, all[1..(k - 1)]>>]
    <3>1. 1..k \in SUBSET (1..n) /\ 1..k # {} /\ Max(1..k) = k /\ (1..k) \ {k} = 1..(k - 1)
      BY <1>1, FirstNumbers
    <3>2. all[1..k] = TakeChar(src, all[1..(k - 1)], From(src, j)[k])  BY <1>8, <3>1
    <3> QED  BY <1>5, <2>1, <3>2
  <2>2. all[{}] = b  BY <1>8
  <2> QED  BY <2>1, <2>2 DEF Chain
<1> HIDE DEF Is
<1>10. PICK r : Follows(r, all, n, V, b, g)
  <2>1. n \in Nat  BY <1>1
  <2> QED  BY <2>1, <1>3, <1>4, <1>9, FoldRepeats
<1> QED  BY <1>2, <1>10 DEF n, V, g, b, Follows

(***************************************************************************)
(* Reading a literal atom by atom.                                         *)
(***************************************************************************)
\* The run of StringFrom over a literal, and what stands in it after its mth atom.
Reads(src, r) ==
  src \in Seq(Atoms) /\ Runs(r, Len(src) - 1, ReadState, StillOpen(<<>>, 2), Taking(src, 2)) /\ Len(src) >= 2
Stands(src, m, u) ==
  m \in Nat /\ m + Len(u) <= Len(src) - 1 /\ \A i \in 1..Len(u) : src[m + 1 + i] = u[i]
\* Reading u within a literal adds w to what it denotes.
Says(u, w) ==
  /\ u \in Seq(Atoms) /\ w \in Seq(Atoms)
  /\ \A src, r, m, v :
       Reads(src, r) /\ Stands(src, m, u) /\ v \in Seq(Atoms) /\ r[m] = StillOpen(v, m + 2)
         => r[m + Len(u)] = StillOpen(v \o w, m + Len(u) + 2)

\* One step of the run.
LEMMA ReadStep ==
  ASSUME NEW src, NEW r, Reads(src, r), NEW m \in Nat, m + 2 <= Len(src)
  PROVE  r[m + 1] = TakeChar(src, r[m], m + 2)
<1>1. src \in Seq(Atoms) /\ Len(src) \in Nat /\ 2 \in 1..(Len(src) + 1)  BY DEF Reads
<1>2. /\ Len(From(src, 2)) = Len(src) - 1 /\ \A k \in 1..(Len(src) - 1) : From(src, 2)[k] = k + 1
  <2>1. Len(From(src, 2)) = Len(src) - 2 + 1 /\ \A k \in 1..(Len(src) - 2 + 1) : From(src, 2)[k] = 2 + k - 1
    BY <1>1, FromIs
  <2> QED  BY <1>1, <2>1
<1> DEFINE k == m + 1
<1>3. k \in 1..(Len(src) - 1) /\ k - 1 = m /\ k + 1 = m + 2 /\ m \in 0..(Len(src) - 1)  BY <1>1
<1> HIDE DEF k
<1>4. r[k] = Taking(src, 2)[<<k, r[m]>>] /\ r[m] \in ReadState
  <2>1. r[k] = Taking(src, 2)[<<k, r[k - 1]>>]  BY <1>3 DEF Reads, Runs, Repeated
  <2> QED  BY <1>3, <2>1 DEF Reads, Runs
<1>5. Taking(src, 2)[<<k, r[m]>>] = TakeChar(src, r[m], From(src, 2)[k])
  <2>1. <<k, r[m]>> \in (1..Len(From(src, 2))) \X ReadState /\ <<k, r[m]>>[1] = k /\ <<k, r[m]>>[2] = r[m]
    BY <1>2, <1>3, <1>4
  <2> QED  BY <2>1 DEF Taking
<1>6. From(src, 2)[k] = m + 2  BY <1>2, <1>3
<1> QED  BY <1>4, <1>5, <1>6 DEF k

\* Reading nothing adds nothing.
LEMMA SaysNothing == Says(<<>>, <<>>)
<1>1. <<>> \in Seq(Atoms) /\ Len(<<>>) = 0  OBVIOUS
<1>2. ASSUME NEW src, NEW r, NEW m, NEW v,
             Reads(src, r) /\ Stands(src, m, <<>>) /\ v \in Seq(Atoms) /\ r[m] = StillOpen(v, m + 2)
      PROVE  r[m + Len(<<>>)] = StillOpen(v \o <<>>, m + Len(<<>>) + 2)
  <2>1. m \in Nat /\ m + 0 = m /\ v \o <<>> = v  BY <1>2 DEF Stands
  <2> QED  BY <1>1, <1>2, <2>1
<1> QED  BY <1>1, <1>2 DEF Says

\* Reading u and then x adds what each of them adds.
LEMMA SaysBoth ==
  ASSUME NEW u, NEW w, NEW x, NEW y, Says(u, w), Says(x, y)
  PROVE  Says(u \o x, w \o y)
<1>1. u \in Seq(Atoms) /\ w \in Seq(Atoms) /\ x \in Seq(Atoms) /\ y \in Seq(Atoms)  BY DEF Says
<1>2. /\ u \o x \in Seq(Atoms) /\ w \o y \in Seq(Atoms) /\ Len(u) \in Nat /\ Len(x) \in Nat
      /\ Len(u \o x) = Len(u) + Len(x)
      /\ \A i \in 1..Len(u) : (u \o x)[i] = u[i]
      /\ \A i \in 1..Len(x) : (u \o x)[Len(u) + i] = x[i]
  BY <1>1
<1>3. ASSUME NEW src, NEW r, NEW m, NEW v,
             Reads(src, r), Stands(src, m, u \o x), v \in Seq(Atoms), r[m] = StillOpen(v, m + 2)
      PROVE  r[m + Len(u \o x)] = StillOpen(v \o (w \o y), m + Len(u \o x) + 2)
  <2>0. m \in Nat /\ Len(src) \in Nat  BY <1>3 DEF Reads, Stands
  <2> DEFINE q == m + Len(u)
  <2>1. Stands(src, m, u)
    <3>1. m + Len(u) <= Len(src) - 1  BY <1>2, <1>3, <2>0 DEF Stands
    <3>2. \A i \in 1..Len(u) : src[m + 1 + i] = u[i]
      <4> TAKE i \in 1..Len(u)
      <4>1. i \in 1..Len(u \o x)  BY <1>2
      <4>2. src[m + 1 + i] = (u \o x)[i]  BY <1>3, <4>1 DEF Stands
      <4> QED  BY <1>2, <4>2
    <3> QED  BY <2>0, <3>1, <3>2 DEF Stands
  <2>2. Stands(src, q, x) /\ q + Len(x) = m + Len(u \o x) /\ q \in Nat
    <3>1. q + Len(x) <= Len(src) - 1 /\ q \in Nat /\ q + Len(x) = m + Len(u \o x)
      BY <1>2, <1>3, <2>0 DEF Stands
    <3>2. \A i \in 1..Len(x) : src[q + 1 + i] = x[i]
      <4> TAKE i \in 1..Len(x)
      <4>1. Len(u) + i \in 1..Len(u \o x) /\ m + 1 + (Len(u) + i) = q + 1 + i  BY <1>2, <2>0
      <4>2. src[m + 1 + (Len(u) + i)] = (u \o x)[Len(u) + i]  BY <1>3, <4>1 DEF Stands
      <4> QED  BY <1>2, <4>1, <4>2
    <3> QED  BY <3>1, <3>2 DEF Stands
  <2>3. r[q] = StillOpen(v \o w, q + 2)  BY <1>3, <2>1 DEF Says
  <2> HIDE DEF q
  <2>4. v \o w \in Seq(Atoms) /\ (v \o w) \o y = v \o (w \o y)
    <3>1. v \in Seq(Atoms)  BY <1>3
    <3>2. w \in Seq(Atoms) /\ y \in Seq(Atoms)  BY <1>1
    <3> QED  BY ONLY <3>1, <3>2, Joins3
  <2>5. r[q + Len(x)] = StillOpen((v \o w) \o y, q + Len(x) + 2)  BY <1>3, <2>2, <2>3, <2>4 DEF Says
  <2> QED  BY <2>2, <2>4, <2>5
<1> HIDE DEF Says
<1>4. \A src, r, m, v :
       Reads(src, r) /\ Stands(src, m, u \o x) /\ v \in Seq(Atoms) /\ r[m] = StillOpen(v, m + 2)
         => r[m + Len(u \o x)] = StillOpen(v \o (w \o y), m + Len(u \o x) + 2)
  BY <1>3
<1> QED  BY <1>2, <1>4 DEF Says

\* What adding one atom to an open literal leaves.
LEMMA SayingMore ==
  ASSUME NEW v \in Seq(Atoms), NEW c \in Atoms, NEW k \in Nat, NEW to \in Nat
  PROVE  Saying(StillOpen(v, k), c, to) = StillOpen(v \o <<c>>, to)
<1> DEFINE w == Append(v, c)
<1>1. w = v \o <<c>>  OBVIOUS
<1>2. Saying(StillOpen(v, k), c, to) = [StillOpen(v, k) EXCEPT !.said = w, !.next = to]
  BY DEF Saying, StillOpen
<1>3. w \in Seq(Atoms)  OBVIOUS
<1> DEFINE s == StillOpen(v, k)
           t == [s EXCEPT !.said = w, !.next = to]
           z == StillOpen(w, to)
<1> HIDE DEF w
<1>4. s \in ReadState /\ ~s.closed  BY DEF StillOpen, ReadState
<1>5. z \in ReadState /\ ~z.closed /\ z.said = w /\ z.next = to  BY <1>3 DEF StillOpen, ReadState
<1> HIDE DEF s, z
<1>6. t \in ReadState /\ ~t.closed /\ t.said = w /\ t.next = to  BY <1>3, <1>4 DEF ReadState
<1> HIDE DEF t
<1>7. t = z
  <2>1. t.closed = FALSE /\ z.closed = FALSE  BY <1>5, <1>6 DEF ReadState
  <2> QED  BY <1>5, <1>6, <2>1 DEF ReadState
<1> QED  BY <1>1, <1>2, <1>7 DEF s, t, z

\* An atom that is neither a quote nor a backslash is read as itself.
LEMMA SaysItself ==
  ASSUME NEW c \in Atoms \ {Quote, Backslash}
  PROVE  Says(<<c>>, <<c>>)
<1>1. <<c>> \in Seq(Atoms) /\ Len(<<c>>) = 1 /\ <<c>>[1] = c /\ 1 \in 1..1  OBVIOUS
<1>2. ASSUME NEW src, NEW r, NEW m, NEW v,
             Reads(src, r), Stands(src, m, <<c>>), v \in Seq(Atoms), r[m] = StillOpen(v, m + 2)
      PROVE  r[m + Len(<<c>>)] = StillOpen(v \o <<c>>, m + Len(<<c>>) + 2)
  <2>1. m \in Nat /\ m + 1 <= Len(src) - 1 /\ src[m + 1 + 1] = c /\ Len(src) \in Nat
    BY <1>1, <1>2 DEF Stands, Reads
  <2>2. src[m + 2] = c /\ m + 2 <= Len(src)  BY <2>1
  <2>3. r[m + 1] = TakeChar(src, r[m], m + 2)  BY <1>2, <2>1, <2>2, ReadStep
  <2> DEFINE s == StillOpen(v, m + 2)
  <2>4. ~s.closed /\ s.next = m + 2  BY DEF StillOpen
  <2>5. TakeChar(src, s, m + 2) = Saying(s, c, m + 2 + 1)  BY <2>1, <2>2, <2>4 DEF TakeChar
  <2>6. m + 2 + 1 = m + 1 + 2 /\ m + 2 + 1 \in Nat /\ m + 2 \in Nat  BY <2>1
  <2>7. Saying(s, c, m + 2 + 1) = StillOpen(v \o <<c>>, m + 2 + 1)  BY <1>2, <2>6, SayingMore
  <2> HIDE DEF s
  <2> QED  BY <1>1, <1>2, <2>3, <2>5, <2>6, <2>7 DEF s
<1> QED  BY <1>1, <1>2 DEF Says

\* A quote, a backslash or an n after a backslash is read as its escape.
LEMMA SaysEscape ==
  ASSUME NEW c \in {Quote, Backslash, "n"}
  PROVE  Says(<<Backslash, c>>, <<Escapes[c]>>)
<1> DEFINE e == Escapes[c]
           u == <<Backslash, c>>
<1>0. c \in Atoms /\ Backslash \in Atoms /\ c \in DOMAIN Escapes /\ e \in Atoms /\ Quote # Backslash
  BY EscapesAre DEF Atoms
<1> HIDE DEF e
<1>1. u \in Seq(Atoms) /\ <<e>> \in Seq(Atoms) /\ Len(u) = 2 /\ u[1] = Backslash /\ u[2] = c
  BY <1>0
<1>2. ASSUME NEW src, NEW r, NEW m, NEW v,
             Reads(src, r), Stands(src, m, u), v \in Seq(Atoms), r[m] = StillOpen(v, m + 2)
      PROVE  r[m + Len(u)] = StillOpen(v \o <<e>>, m + Len(u) + 2)
  <2>1. m \in Nat /\ m + 2 <= Len(src) - 1 /\ src[m + 1 + 1] = Backslash /\ src[m + 1 + 2] = c
        /\ Len(src) \in Nat /\ DOMAIN src = 1..Len(src)
    BY <1>1, <1>2 DEF Stands, Reads
  <2>2. src[m + 2] = Backslash /\ src[m + 3] = c /\ m + 2 <= Len(src) /\ (m + 1) + 2 <= Len(src)
        /\ m + 1 \in Nat /\ m + 3 \in DOMAIN src /\ m + 2 + 1 = m + 3 /\ m + 2 + 2 = m + 4 /\ m + 4 \in Nat /\ m + 2 \in Nat
        /\ (m + 1) + 2 = m + 3 /\ (m + 1) + 1 = m + 2 /\ m + 3 < m + 4
    BY <2>1
  <2>3. r[m + 1] = TakeChar(src, r[m], m + 2)  BY <1>2, <2>1, <2>2, ReadStep
  <2>4. r[m + 2] = TakeChar(src, r[m + 1], m + 3)
    <3> DEFINE q == m + 1
    <3>1. q \in Nat /\ q + 2 <= Len(src) /\ q + 2 = m + 3 /\ q + 1 = m + 2  BY <2>2
    <3> HIDE DEF q
    <3>2. r[q + 1] = TakeChar(src, r[q], q + 2)  BY <1>2, <3>1, ReadStep
    <3> QED  BY <3>1, <3>2 DEF q
  <2> DEFINE s == StillOpen(v, m + 2)
             t == StillOpen(v \o <<e>>, m + 4)
  <2>5. ~s.closed /\ s.next = m + 2 /\ t.next = m + 4  BY DEF StillOpen
  <2>6. TakeChar(src, s, m + 2) = Saying(s, e, m + 4)
    <3>1. At(src, m + 2 + 1, DOMAIN Escapes)  BY <1>0, <2>2 DEF At
    <3>2. src[m + 2] # Quote /\ ~(m + 2 < s.next)  BY <1>0, <2>2, <2>5
    <3>3. Escapes[src[m + 2 + 1]] = e  BY <2>2 DEF e
    <3> HIDE DEF s
    <3> QED  BY <2>2, <2>5, <3>1, <3>2, <3>3 DEF TakeChar
  <2>7. Saying(s, e, m + 4) = t  BY <1>0, <1>2, <2>2, SayingMore
  <2> HIDE DEF s, t
  <2>8. TakeChar(src, t, m + 3) = t  BY <2>2, <2>5 DEF TakeChar
  <2>9. r[m + 2] = t  BY <1>2, <2>3, <2>4, <2>6, <2>7, <2>8 DEF s
  <2>10. m + Len(u) = m + 2 /\ m + Len(u) + 2 = m + 4  BY <1>1, <2>1
  <2> QED  BY <2>9, <2>10 DEF t
<1> HIDE DEF u
<1>3. Says(u, <<e>>)  BY <1>1, <1>2 DEF Says
<1> QED  BY <1>3 DEF u, e

(***************************************************************************)
(* Escaped lines are read as they stood.                                   *)
(***************************************************************************)
Esc(c) == IF c \in {Quote, Backslash} THEN <<Backslash, c>> ELSE <<c>>
Escaping(s) == [kt \in (1..Len(s)) \X Seq(Atoms) |-> kt[2] \o Esc(s[kt[1]])]
\* An escaped atom is one or two atoms.
LEMMA EscIs ==
  ASSUME NEW s \in Seq(Atoms), NEW c \in Atoms
  PROVE  Esc(c) \in Seq(Atoms) /\ s \o Esc(c) \in Seq(Atoms)
<1>1. Backslash \in Atoms  BY DEF Atoms
<1>2. <<Backslash, c>> \in Seq(Atoms) /\ <<c>> \in Seq(Atoms)  BY <1>1
<1>3. Esc(c) \in Seq(Atoms)  BY <1>2 DEF Esc
<1> QED  BY <1>3
\* escapeStringLiteral.
LEMMA EscapedSteps ==
  ASSUME NEW s \in Seq(Atoms)
  PROVE  \E r : Runs(r, Len(s), Seq(Atoms), <<>>, Escaping(s)) /\ Escaped(s) = r[Len(s)]
<1> DEFINE n == Len(s)
           V == Seq(Atoms)
           g == Escaping(s)
           b == <<>>
           Is(f) == f = [S \in SUBSET (1..n) |->
                           IF S = {} THEN b ELSE f[S \ {Max(S)}] \o Esc(s[Max(S)])]
           all == CHOOSE f : Is(f)
<1>1. n \in Nat /\ DOMAIN s = 1..n /\ \A k \in 1..n : s[k] \in Atoms  OBVIOUS
<1>2. Escaped(s) = all[1..n]  BY <1>1 DEF Escaped, Esc, FoldLeft, MapThenFoldSet
<1>3. b \in V  OBVIOUS
<1>4. g \in [(1..n) \X V -> V]
  <2>1. \A t \in V, c \in Atoms : t \o Esc(c) \in V  BY EscIs
  <2>2. \A kt \in (1..n) \X V : kt[2] \in V /\ s[kt[1]] \in Atoms  BY <1>1
  <2> HIDE DEF V
  <2> QED  BY <2>1, <2>2 DEF Escaping, V
<1>5. \A k \in 1..n, t \in V : g[<<k, t>>] = t \o Esc(s[k])  BY DEF Escaping
<1> HIDE DEF n, V, g, b
<1>6. PICK F \in [SUBSET (1..n) -> V] : FoldsUp(F, n, b, g)  BY <1>1, <1>3, <1>4, FoldExists
<1>7. Is(F)
  <2>1. ASSUME NEW S \in SUBSET (1..n), S # {}
        PROVE  F[S] = F[S \ {Max(S)}] \o Esc(s[Max(S)])
    <3>1. Max(S) \in 1..n /\ S \ {Max(S)} \in SUBSET (1..n)  BY <1>1, <2>1, LastOf
    <3>2. F[S] = g[<<Max(S), F[S \ {Max(S)}]>>]  BY <1>6, <2>1 DEF FoldsUp
    <3> QED  BY <1>5, <3>1, <3>2
  <2>2. F[{}] = b  BY <1>6 DEF FoldsUp
  <2>3. F = [S \in SUBSET (1..n) |-> F[S]]  OBVIOUS
  <2> QED  BY <2>1, <2>2, <2>3
<1>8. Is(all)
  <2> HIDE DEF Is
  <2> QED  BY <1>7
<1> HIDE DEF all
<1>9. Chain(all, n, V, b, g)
  <2>1. ASSUME NEW k \in 1..n, all[1..(k - 1)] \in V
        PROVE  all[1..k] = g[<<k, all[1..(k - 1)]>>]
    <3>1. 1..k \in SUBSET (1..n) /\ 1..k # {} /\ Max(1..k) = k /\ (1..k) \ {k} = 1..(k - 1)
      BY <1>1, FirstNumbers
    <3>2. all[1..k] = all[1..(k - 1)] \o Esc(s[k])  BY <1>8, <3>1
    <3> QED  BY <1>5, <2>1, <3>2
  <2>2. all[{}] = b  BY <1>8
  <2> QED  BY <2>1, <2>2 DEF Chain
<1> HIDE DEF Is
<1>10. PICK r : Follows(r, all, n, V, b, g)
  <2>1. n \in Nat  BY <1>1
  <2> QED  BY <2>1, <1>3, <1>4, <1>9, FoldRepeats
<1> QED  BY <1>2, <1>10 DEF n, V, g, b, Follows

\* One atom more is escaped.
LEMMA EscapedAppend ==
  ASSUME NEW s \in Seq(Atoms), NEW c \in Atoms
  PROVE  Escaped(Append(s, c)) = Escaped(s) \o Esc(c) /\ Escaped(s) \in Seq(Atoms) /\ Escaped(<<>>) = <<>>
<1> DEFINE n == Len(s)
           t == Append(s, c)
<1>1. /\ t \in Seq(Atoms) /\ n \in Nat /\ Len(t) = n + 1
      /\ \A k \in 1..n : t[k] = s[k] /\ s[k] \in Atoms
      /\ t[n + 1] = c /\ <<>> \in Seq(Atoms) /\ Len(<<>>) = 0
  BY AppendedAt
<1> HIDE DEF n, t
<1>2. PICK f : Runs(f, n, Seq(Atoms), <<>>, Escaping(s)) /\ Escaped(s) = f[n]
  BY EscapedSteps DEF n
<1>3. PICK h : Runs(h, n + 1, Seq(Atoms), <<>>, Escaping(t)) /\ Escaped(t) = h[n + 1]
  BY <1>1, EscapedSteps
<1>4. SameSteps(Escaping(s), Escaping(t), n, Seq(Atoms))
  BY <1>1 DEF Escaping, n, SameSteps
<1>5. \A v \in Seq(Atoms) : Escaping(t)[<<n + 1, v>>] = v \o Esc(c)
  <2> TAKE v \in Seq(Atoms)
  <2>1. <<n + 1, v>> \in (1..Len(t)) \X Seq(Atoms) /\ <<n + 1, v>>[1] = n + 1 /\ <<n + 1, v>>[2] = v
    BY <1>1
  <2>2. Escaping(t)[<<n + 1, v>>] = v \o Esc(t[n + 1])  BY <2>1 DEF Escaping
  <2> QED  BY <1>1, <2>2
<1>6. f[n] \in Seq(Atoms) /\ h[n + 1] = Escaping(t)[<<n + 1, f[n]>>]
  BY <1>1, <1>2, <1>3, <1>4, OneMore
<1>7. Escaped(<<>>) = <<>>
  <2>1. PICK r : Runs(r, 0, Seq(Atoms), <<>>, Escaping(<<>>)) /\ Escaped(<<>>) = r[0]
    BY <1>1, EscapedSteps
  <2> QED  BY <2>1 DEF Runs, Repeated
<1> QED  BY <1>2, <1>3, <1>5, <1>6, <1>7 DEF t

\* An atom that was escaped is read as itself.
LEMMA SaysAtom ==
  ASSUME NEW c \in Atoms
  PROVE  Says(Esc(c), <<c>>)
<1>1. CASE c \in {Quote, Backslash}
  <2>1. Escapes[c] = c  BY <1>1, EscapesAre
  <2>2. Says(<<Backslash, c>>, <<Escapes[c]>>)  BY <1>1, SaysEscape
  <2> QED  BY <1>1, <2>1, <2>2 DEF Esc
<1>2. CASE c \notin {Quote, Backslash}
  <2>1. Says(<<c>>, <<c>>)  BY <1>2, SaysItself
  <2> QED  BY <1>2, <2>1 DEF Esc
<1> QED  BY <1>1, <1>2

\* A line that was escaped is read as it stood.
LEMMA SaysLine ==
  ASSUME NEW l \in Seq(Atoms)
  PROVE  Says(Escaped(l), l)
<1> DEFINE n == Len(l)
           K == {k \in 0..n : Says(Escaped(SubSeq(l, 1, k)), SubSeq(l, 1, k))}
<1>1. n \in Nat /\ SubSeq(l, 1, 0) = <<>> /\ SubSeq(l, 1, n) = l  OBVIOUS
<1>2. 0 \in K
  <2>1. Space \in Atoms /\ <<>> \in Seq(Atoms)  BY DEF Atoms
  <2>2. Escaped(<<>>) = <<>>  BY <2>1, EscapedAppend
  <2>3. 0 \in 0..n  BY <1>1
  <2> QED  BY <1>1, <2>2, <2>3, SaysNothing
<1>3. ASSUME NEW k \in 1..n, k - 1 \in K
      PROVE  k \in K
  <2> DEFINE u == SubSeq(l, 1, k - 1)
             c == l[k]
  <2>1. u \in Seq(Atoms) /\ c \in Atoms /\ SubSeq(l, 1, k) = Append(u, c) /\ k \in 0..n  BY Longer
  <2>2. Says(Escaped(u), u)  BY <1>3
  <2> HIDE DEF u, c
  <2>3. Escaped(Append(u, c)) = Escaped(u) \o Esc(c)  BY <2>1, EscapedAppend
  <2>4. Append(u, c) = u \o <<c>>  BY <2>1
  <2>5. Says(Escaped(u) \o Esc(c), u \o <<c>>)  BY <2>1, <2>2, SaysAtom, SaysBoth
  <2>6. Says(Escaped(SubSeq(l, 1, k)), SubSeq(l, 1, k))  BY <2>1, <2>3, <2>4, <2>5
  <2> QED  BY <2>1, <2>6
<1>4. n \in K
  <2>1. n \in 0..n  BY <1>1
  <2> HIDE DEF K
  <2> QED  BY <1>1, <1>2, <1>3, <2>1, Upwards
<1> QED  BY <1>1, <1>4

\* The lines of a block scalar, escaped and as they stand.
Texts == Seq(Seq(Atoms))
Numbers(content) == [j \in DOMAIN content |-> j]
Between(j, sep) == IF j = 1 THEN <<>> ELSE sep
EscapingLines(content) ==
  [kt \in (1..Len(Numbers(content))) \X Seq(Atoms) |->
     kt[2] \o Between(Numbers(content)[kt[1]], <<Backslash, "n">>) \o Escaped(content[Numbers(content)[kt[1]]])]
JoiningLines(content) ==
  [kt \in (1..Len(Numbers(content))) \X Seq(Atoms) |->
     kt[2] \o Between(Numbers(content)[kt[1]], <<NewLine>>) \o content[Numbers(content)[kt[1]]]]
\* The positions of the lines.
LEMMA NumbersAre ==
  ASSUME NEW content \in Texts
  PROVE  /\ Numbers(content) \in Seq(1..Len(content)) /\ Len(Numbers(content)) = Len(content)
         /\ \A k \in 1..Len(content) : Numbers(content)[k] = k /\ content[k] \in Seq(Atoms)
<1>1. Len(content) \in Nat /\ DOMAIN content = 1..Len(content) /\ \A k \in 1..Len(content) : content[k] \in Seq(Atoms)
  BY DEF Texts
<1>2. Numbers(content) \in [1..Len(content) -> 1..Len(content)]  BY <1>1 DEF Numbers
<1> QED  BY <1>1, <1>2 DEF Numbers
\* One line more, after its break.
LEMMA LineJoins ==
  ASSUME NEW content \in Texts, NEW t \in Seq(Atoms), NEW j \in 1..Len(content)
  PROVE  /\ t \o Between(j, <<Backslash, "n">>) \o Escaped(content[j]) \in Seq(Atoms)
         /\ t \o Between(j, <<NewLine>>) \o content[j] \in Seq(Atoms)
<1> DEFINE x == Between(j, <<Backslash, "n">>)
           y == Between(j, <<NewLine>>)
           l == content[j]
           e == Escaped(content[j])
<1>1. x \in Seq(Atoms) /\ y \in Seq(Atoms)
  <2>1. Backslash \in Atoms /\ "n" \in Atoms /\ NewLine \in Atoms  BY DEF Atoms
  <2>2. <<Backslash, "n">> \in Seq(Atoms) /\ <<NewLine>> \in Seq(Atoms) /\ <<>> \in Seq(Atoms)  BY <2>1
  <2> QED  BY <2>2 DEF Between
<1>2. l \in Seq(Atoms) /\ e \in Seq(Atoms)
  <2>1. l \in Seq(Atoms)  BY NumbersAre
  <2>2. Space \in Atoms  BY DEF Atoms
  <2> QED  BY <2>1, <2>2, EscapedAppend
<1> HIDE DEF x, y, l, e
<1>3. (t \o x) \o e \in Seq(Atoms) /\ (t \o y) \o l \in Seq(Atoms)  BY <1>1, <1>2
<1> QED  BY <1>3 DEF x, y, l, e
\* EscapedLines, line by line.
LEMMA EscapedLinesSteps ==
  ASSUME NEW content \in Texts
  PROVE  \E r : /\ Runs(r, Len(Numbers(content)), Seq(Atoms), <<>>, EscapingLines(content))
               /\ EscapedLines(content) = r[Len(Numbers(content))]
<1> DEFINE n == Len(Numbers(content))
           V == Seq(Atoms)
           g == EscapingLines(content)
           b == <<>>
           Is(f) == f = [S \in SUBSET (1..n) |->
                           IF S = {} THEN b
                           ELSE f[S \ {Max(S)}] \o Between(Numbers(content)[Max(S)], <<Backslash, "n">>) \o Escaped(content[Numbers(content)[Max(S)]])]
           all == CHOOSE f : Is(f)
<1>1. n \in Nat /\ DOMAIN Numbers(content) = 1..n /\ \A k \in 1..n : Numbers(content)[k] \in 1..Len(content)
  BY NumbersAre
<1>2. EscapedLines(content) = all[1..n]
  BY <1>1 DEF EscapedLines, Numbers, Between, FoldLeft, MapThenFoldSet
<1>3. b \in V  OBVIOUS
<1>4. g \in [(1..n) \X V -> V]
  <2>1. \A t \in V, c \in 1..Len(content) : t \o Between(c, <<Backslash, "n">>) \o Escaped(content[c]) \in V
    BY LineJoins
  <2>2. \A kt \in (1..n) \X V : kt[2] \in V /\ Numbers(content)[kt[1]] \in 1..Len(content)  BY <1>1
  <2> HIDE DEF V
  <2> QED  BY <2>1, <2>2 DEF EscapingLines, V
<1>5. \A k \in 1..n, t \in V : g[<<k, t>>] = t \o Between(Numbers(content)[k], <<Backslash, "n">>) \o Escaped(content[Numbers(content)[k]])
  BY DEF EscapingLines
<1> HIDE DEF n, V, g, b
<1>6. PICK F \in [SUBSET (1..n) -> V] : FoldsUp(F, n, b, g)  BY <1>1, <1>3, <1>4, FoldExists
<1>7. Is(F)
  <2>1. ASSUME NEW S \in SUBSET (1..n), S # {}
        PROVE  F[S] = F[S \ {Max(S)}] \o Between(Numbers(content)[Max(S)], <<Backslash, "n">>) \o Escaped(content[Numbers(content)[Max(S)]])
    <3>1. Max(S) \in 1..n /\ S \ {Max(S)} \in SUBSET (1..n)  BY <1>1, <2>1, LastOf
    <3>2. F[S] = g[<<Max(S), F[S \ {Max(S)}]>>]  BY <1>6, <2>1 DEF FoldsUp
    <3> QED  BY <1>5, <3>1, <3>2
  <2>2. F[{}] = b  BY <1>6 DEF FoldsUp
  <2>3. F = [S \in SUBSET (1..n) |-> F[S]]  OBVIOUS
  <2> QED  BY <2>1, <2>2, <2>3
<1>8. Is(all)
  <2> HIDE DEF Is
  <2> QED  BY <1>7
<1> HIDE DEF all
<1>9. Chain(all, n, V, b, g)
  <2>1. ASSUME NEW k \in 1..n, all[1..(k - 1)] \in V
        PROVE  all[1..k] = g[<<k, all[1..(k - 1)]>>]
    <3>1. 1..k \in SUBSET (1..n) /\ 1..k # {} /\ Max(1..k) = k /\ (1..k) \ {k} = 1..(k - 1)
      BY <1>1, FirstNumbers
    <3>2. all[1..k] = all[1..(k - 1)] \o Between(Numbers(content)[k], <<Backslash, "n">>) \o Escaped(content[Numbers(content)[k]])
      BY <1>8, <3>1
    <3> QED  BY <1>5, <2>1, <3>2
  <2>2. all[{}] = b  BY <1>8
  <2> QED  BY <2>1, <2>2 DEF Chain
<1> HIDE DEF Is
<1>10. PICK r : Follows(r, all, n, V, b, g)
  <2>1. n \in Nat  BY <1>1
  <2> QED  BY <2>1, <1>3, <1>4, <1>9, FoldRepeats
<1> QED  BY <1>2, <1>10 DEF n, V, g, b, Follows
\* LinesJoined, line by line.
LEMMA LinesJoinedSteps ==
  ASSUME NEW content \in Texts
  PROVE  \E r : /\ Runs(r, Len(Numbers(content)), Seq(Atoms), <<>>, JoiningLines(content))
               /\ LinesJoined(content) = r[Len(Numbers(content))]
<1> DEFINE n == Len(Numbers(content))
           V == Seq(Atoms)
           g == JoiningLines(content)
           b == <<>>
           Is(f) == f = [S \in SUBSET (1..n) |->
                           IF S = {} THEN b
                           ELSE f[S \ {Max(S)}] \o Between(Numbers(content)[Max(S)], <<NewLine>>) \o content[Numbers(content)[Max(S)]]]
           all == CHOOSE f : Is(f)
<1>1. n \in Nat /\ DOMAIN Numbers(content) = 1..n /\ \A k \in 1..n : Numbers(content)[k] \in 1..Len(content)
  BY NumbersAre
<1>2. LinesJoined(content) = all[1..n]  BY <1>1 DEF LinesJoined, Numbers, Between, FoldLeft, MapThenFoldSet
<1>3. b \in V  OBVIOUS
<1>4. g \in [(1..n) \X V -> V]
  <2>1. \A t \in V, c \in 1..Len(content) : t \o Between(c, <<NewLine>>) \o content[c] \in V  BY LineJoins
  <2>2. \A kt \in (1..n) \X V : kt[2] \in V /\ Numbers(content)[kt[1]] \in 1..Len(content)  BY <1>1
  <2> HIDE DEF V
  <2> QED  BY <2>1, <2>2 DEF JoiningLines, V
<1>5. \A k \in 1..n, t \in V : g[<<k, t>>] = t \o Between(Numbers(content)[k], <<NewLine>>) \o content[Numbers(content)[k]]
  BY DEF JoiningLines
<1> HIDE DEF n, V, g, b
<1>6. PICK F \in [SUBSET (1..n) -> V] : FoldsUp(F, n, b, g)  BY <1>1, <1>3, <1>4, FoldExists
<1>7. Is(F)
  <2>1. ASSUME NEW S \in SUBSET (1..n), S # {}
        PROVE  F[S] = F[S \ {Max(S)}] \o Between(Numbers(content)[Max(S)], <<NewLine>>) \o content[Numbers(content)[Max(S)]]
    <3>1. Max(S) \in 1..n /\ S \ {Max(S)} \in SUBSET (1..n)  BY <1>1, <2>1, LastOf
    <3>2. F[S] = g[<<Max(S), F[S \ {Max(S)}]>>]  BY <1>6, <2>1 DEF FoldsUp
    <3> QED  BY <1>5, <3>1, <3>2
  <2>2. F[{}] = b  BY <1>6 DEF FoldsUp
  <2>3. F = [S \in SUBSET (1..n) |-> F[S]]  OBVIOUS
  <2> QED  BY <2>1, <2>2, <2>3
<1>8. Is(all)
  <2> HIDE DEF Is
  <2> QED  BY <1>7
<1> HIDE DEF all
<1>9. Chain(all, n, V, b, g)
  <2>1. ASSUME NEW k \in 1..n, all[1..(k - 1)] \in V
        PROVE  all[1..k] = g[<<k, all[1..(k - 1)]>>]
    <3>1. 1..k \in SUBSET (1..n) /\ 1..k # {} /\ Max(1..k) = k /\ (1..k) \ {k} = 1..(k - 1)
      BY <1>1, FirstNumbers
    <3>2. all[1..k] = all[1..(k - 1)] \o Between(Numbers(content)[k], <<NewLine>>) \o content[Numbers(content)[k]]
      BY <1>8, <3>1
    <3> QED  BY <1>5, <2>1, <3>2
  <2>2. all[{}] = b  BY <1>8
  <2> QED  BY <2>1, <2>2 DEF Chain
<1> HIDE DEF Is
<1>10. PICK r : Follows(r, all, n, V, b, g)
  <2>1. n \in Nat  BY <1>1
  <2> QED  BY <2>1, <1>3, <1>4, <1>9, FoldRepeats
<1> QED  BY <1>2, <1>10 DEF n, V, g, b, Follows

\* What the literal of a block scalar holds says the lines with breaks between.
LEMMA SaysLines ==
  ASSUME NEW content \in Texts
  PROVE  Says(EscapedLines(content), LinesJoined(content))
<1> DEFINE n == Len(content)
           V == Seq(Atoms)
           b == <<>>
<1>1. n \in Nat /\ Len(Numbers(content)) = n /\ \A k \in 1..n : Numbers(content)[k] = k /\ content[k] \in Seq(Atoms)
  <2>1. n \in Nat  BY DEF Texts
  <2> QED  BY <2>1, NumbersAre
<1> HIDE DEF V, b
<1>2. PICK q : Runs(q, n, V, b, EscapingLines(content)) /\ EscapedLines(content) = q[n]
  BY <1>1, EscapedLinesSteps DEF V, b
<1>3. PICK r : Runs(r, n, V, b, JoiningLines(content)) /\ LinesJoined(content) = r[n]
  BY <1>1, LinesJoinedSteps DEF V, b
<1> DEFINE K == {k \in 0..n : Says(q[k], r[k])}
<1>4. 0 \in K
  <2>1. q[0] = <<>> /\ r[0] = <<>> /\ 0 \in 0..n  BY <1>1, <1>2, <1>3 DEF Runs, Repeated, b
  <2> QED  BY <2>1, SaysNothing
<1>5. ASSUME NEW k \in 1..n, k - 1 \in K
      PROVE  k \in K
  <2> DEFINE e == Between(k, <<Backslash, "n">>)
             d == Between(k, <<NewLine>>)
             l == content[k]
  <2>1. k - 1 \in 0..n /\ k \in 0..n /\ q[k - 1] \in V /\ r[k - 1] \in V /\ Says(q[k - 1], r[k - 1]) /\ l \in Seq(Atoms)
    BY <1>1, <1>2, <1>3, <1>5 DEF Runs
  <2>2. q[k] = EscapingLines(content)[<<k, q[k - 1]>>] /\ r[k] = JoiningLines(content)[<<k, r[k - 1]>>]
    BY <1>2, <1>3 DEF Runs, Repeated
  <2>3. q[k] = q[k - 1] \o e \o Escaped(l) /\ r[k] = r[k - 1] \o d \o l
    <3> DEFINE D == (1..Len(Numbers(content))) \X Seq(Atoms)
               x == <<k, q[k - 1]>>
               y == <<k, r[k - 1]>>
    <3>1. x \in D /\ x[1] = k /\ x[2] = q[k - 1] /\ y \in D /\ y[1] = k /\ y[2] = r[k - 1]
      BY <1>1, <2>1 DEF V
    <3> HIDE DEF x, y
    <3>2. EscapingLines(content)[x] = x[2] \o Between(Numbers(content)[x[1]], <<Backslash, "n">>) \o Escaped(content[Numbers(content)[x[1]]])
      BY <3>1 DEF EscapingLines
    <3>3. JoiningLines(content)[y] = y[2] \o Between(Numbers(content)[y[1]], <<NewLine>>) \o content[Numbers(content)[y[1]]]
      BY <3>1 DEF JoiningLines
    <3>4. Numbers(content)[x[1]] = k /\ Numbers(content)[y[1]] = k  BY <1>1, <3>1
    <3> QED  BY <2>2, <3>1, <3>2, <3>3, <3>4 DEF x, y
  <2>4. Says(e, d)
    <3>1. CASE k = 1  BY <3>1, SaysNothing DEF Between
    <3>2. CASE k # 1
      <4>1. Says(<<Backslash, "n">>, <<Escapes["n"]>>)  BY SaysEscape
      <4> QED  BY <3>2, <4>1, EscapesAre DEF Between
    <3> QED  BY <3>1, <3>2
  <2>5. Says(Escaped(l), l)  BY <2>1, SaysLine
  <2> HIDE DEF e, d, l
  <2>6. Says(q[k - 1] \o e, r[k - 1] \o d)  BY <2>1, <2>4, SaysBoth
  <2>7. Says((q[k - 1] \o e) \o Escaped(l), (r[k - 1] \o d) \o l)  BY <2>5, <2>6, SaysBoth
  <2>8. Says(q[k], r[k])  BY <2>3, <2>7
  <2> QED  BY <2>1, <2>8
<1>6. n \in K
  <2>1. n \in 0..n  BY <1>1
  <2> HIDE DEF K
  <2> QED  BY <1>1, <1>4, <1>5, <2>1, Upwards
<1> QED  BY <1>2, <1>3, <1>6

\* The literal of a block scalar is closed at its end, and denotes the lines.
LEMMA LiteralDenotes ==
  ASSUME NEW content \in Texts
  PROVE  /\ Literal(content) \in Seq(Atoms) /\ Len(Literal(content)) \in Nat /\ Len(Literal(content)) >= 2
         /\ Literal(content)[1] = Quote
         /\ LET s == StringFrom(Literal(content), 2)
            IN  s.closed /\ s.said = LinesJoined(content) /\ s.next = Len(Literal(content)) + 1
<1> DEFINE J == EscapedLines(content)
           T == LinesJoined(content)
           src == Literal(content)
           n == Len(J)
<1>1. Says(J, T) /\ J \in Seq(Atoms) /\ T \in Seq(Atoms)
  <2>1. Says(J, T)  BY SaysLines
  <2> QED  BY <2>1 DEF Says
<1> HIDE DEF J, T
<1>2. /\ src \in Seq(Atoms) /\ Len(src) = n + 2 /\ n \in Nat /\ src[1] = Quote /\ src[n + 2] = Quote
      /\ \A i \in 1..n : src[0 + 1 + i] = J[i]
  <2>1. Quote \in Atoms  BY DEF Atoms
  <2>2. src = (<<Quote>> \o J) \o <<Quote>>  BY DEF Literal, J
  <2> DEFINE x == <<Quote>>
  <2>3. x \in Seq(Atoms) /\ Len(x) = 1 /\ x[1] = Quote  BY <2>1
  <2>4. src = (x \o J) \o x  BY <2>2
  <2> HIDE DEF x, src
  <2>5. /\ x \o J \in Seq(Atoms) /\ Len(x \o J) = n + 1 /\ (x \o J)[1] = x[1]
        /\ \A i \in 1..n : (x \o J)[1 + i] = J[i]
    <3> HIDE DEF n
    <3>1. /\ x \o J \in Seq(Atoms) /\ Len(J) \in Nat /\ Len(x \o J) = Len(x) + Len(J)
          /\ \A i \in 1..Len(x) : (x \o J)[i] = x[i]
          /\ \A i \in 1..Len(J) : (x \o J)[Len(x) + i] = J[i]
      BY <1>1, <2>3, BothParts
    <3>2. 1 \in 1..Len(x) /\ Len(J) = n /\ 1 + n = n + 1  BY <2>3, <3>1 DEF n
    <3> QED  BY <2>3, <3>1, <3>2
  <2> DEFINE y == x \o J
  <2>6. y \in Seq(Atoms) /\ Len(y) = n + 1 /\ y[1] = Quote /\ \A i \in 1..n : y[1 + i] = J[i]  BY <2>3, <2>5
  <2>7. src = y \o x /\ n \in Nat  BY <1>1, <2>4
  <2> HIDE DEF y, n
  <2>8. src \in Seq(Atoms) /\ Len(src) = n + 2 /\ src[n + 2] = x[1] /\ \A i \in 1..(n + 1) : src[i] = y[i]
    <3>1. /\ y \o x \in Seq(Atoms) /\ Len(y \o x) = Len(y) + Len(x)
          /\ \A i \in 1..Len(y) : (y \o x)[i] = y[i]
          /\ \A i \in 1..Len(x) : (y \o x)[Len(y) + i] = x[i]
      BY <2>3, <2>6, BothParts
    <3>2. 1 \in 1..Len(x) /\ n + 1 + 1 = n + 2  BY <2>3, <2>7
    <3> QED  BY <2>3, <2>6, <2>7, <3>1, <3>2
  <2>9. \A i \in 1..n : src[0 + 1 + i] = J[i]
    <3> TAKE i \in 1..n
    <3>1. 0 + 1 + i = 1 + i /\ 1 + i \in 1..(n + 1)  BY <2>7
    <3> QED  BY <2>6, <2>8, <3>1
  <2>10. src[1] = Quote  BY <2>6, <2>7, <2>8
  <2> QED  BY <2>3, <2>7, <2>8, <2>9, <2>10
<1> HIDE DEF src, n
<1>3. 2 \in 1..(Len(src) + 1) /\ Len(From(src, 2)) = n + 1
  <2>1. 2 \in 1..(Len(src) + 1)  BY <1>2
  <2>2. Len(From(src, 2)) = Len(src) - 2 + 1  BY <1>2, <2>1, FromIs
  <2> QED  BY <1>2, <2>1, <2>2
<1>4. PICK r : /\ Runs(r, n + 1, ReadState, StillOpen(<<>>, 2), Taking(src, 2))
               /\ StringFrom(src, 2) = r[n + 1]
  BY <1>2, <1>3, StringSteps
<1>5. Reads(src, r)
  <2>1. Len(src) - 1 = n + 1  BY <1>2
  <2> QED  BY <1>2, <1>4, <2>1 DEF Reads
<1>6. r[n] = StillOpen(T, n + 2)
  <2>1. Stands(src, 0, J)  BY <1>2 DEF Stands, n
  <2>2. r[0] = StillOpen(<<>>, 0 + 2) /\ <<>> \in Seq(Atoms)  BY <1>4 DEF Runs, Repeated
  <2>3. r[0 + Len(J)] = StillOpen(<<>> \o T, 0 + Len(J) + 2)  BY <1>1, <1>5, <2>1, <2>2 DEF Says
  <2>4. <<>> \o T = T /\ 0 + Len(J) = n /\ 0 + Len(J) + 2 = n + 2  BY <1>1, <1>2 DEF n
  <2> QED  BY <2>3, <2>4
<1>7. r[n + 1] = TakeChar(src, r[n], n + 2)
  <2>1. n \in Nat /\ n + 2 <= Len(src)  BY <1>2
  <2> QED  BY <1>5, <2>1, ReadStep
<1> DEFINE s == StillOpen(T, n + 2)
<1>8. s \in ReadState /\ ~s.closed /\ s.next = n + 2 /\ s.said = T  BY <1>1, <1>2 DEF StillOpen, ReadState
<1> HIDE DEF s
<1>9. TakeChar(src, s, n + 2) = [s EXCEPT !.closed = TRUE, !.next = n + 2 + 1]
  BY <1>2, <1>8 DEF TakeChar
<1>10. LET t == TakeChar(src, s, n + 2) IN t.closed /\ t.said = T /\ t.next = n + 2 + 1
  BY <1>8, <1>9 DEF ReadState
<1>11. LET t == StringFrom(src, 2) IN t.closed /\ t.said = T /\ t.next = Len(src) + 1
  BY <1>2, <1>4, <1>6, <1>7, <1>10 DEF s
<1> QED  BY <1>2, <1>11 DEF src, T

(***************************************************************************)
(* A literal is one token, and one token a tree.                           *)
(***************************************************************************)
\* One step of LexExpr.
LexTake(src, s, i) ==
  LET c == src[i]
      two == SubSeq(src, i, Min({i + 1, Len(src)}))
      lit == StringFrom(src, i + 1)
      Token(k, text, to) == [s EXCEPT !.ts = Append(@, Tok(k, text)), !.next = to]
      To(k, to) == Token(k, SubSeq(src, i, to - 1), to)
  IN  IF ~s.ok \/ i < s.next THEN s
      ELSE IF c = Space THEN [s EXCEPT !.next = i + 1]
      ELSE IF c = "." /\ At(src, i + 1, Digit) /\ TokenEndsValue(s.ts) THEN To("op", i + 1)
      ELSE IF c \in Digit \/ (c = "." /\ At(src, i + 1, Digit)) THEN To("num", NumberEnd(src, i))
      ELSE IF c = Quote /\ lit.closed THEN Token("str", lit.said, lit.next)
      ELSE IF c \in Word THEN To("id", i + 1)
      ELSE IF two \in TwoAtomOps THEN To("op", i + 2)
      ELSE IF c \in OneAtomOps THEN To("op", i + 1)
      ELSE [s EXCEPT !.ok = FALSE]
NoTokens == [ok |-> TRUE, ts |-> <<>>, next |-> 1]
Lexes(f, src, m) ==
  f = [S \in SUBSET (1..m) |-> IF S = {} THEN NoTokens ELSE LexTake(src, f[S \ {Max(S)}], Max(S))]
\* The function LexExpr is defined with exists, whatever the text.
LEMMA LexExists ==
  ASSUME NEW src, NEW n \in Nat
  PROVE  \E f : Lexes(f, src, n)
<1> DEFINE E(m) == \E f : Lexes(f, src, m)
           K == {m \in 0..n : E(m)}
<1>1. E(0)
  <2> DEFINE f == [S \in SUBSET (1..0) |-> NoTokens]
  <2>1. \A S \in SUBSET (1..0) : S = {}  OBVIOUS
  <2>2. Lexes(f, src, 0)  BY <2>1 DEF Lexes
  <2> QED  BY <2>2
<1>2. ASSUME NEW m \in 1..n, E(m - 1)
      PROVE  E(m)
  <2>1. PICK f : Lexes(f, src, m - 1)  BY <1>2
  <2> DEFINE G == [S \in SUBSET (1..m) |-> IF m \in S THEN LexTake(src, f[S \ {m}], m) ELSE f[S]]
  <2>2. ASSUME NEW S \in SUBSET (1..m)
        PROVE  /\ m \in S => S \ {m} \in SUBSET (1..(m - 1)) /\ Max(S) = m
               /\ m \notin S => S \in SUBSET (1..(m - 1))
    <3>1. m \in S => Max(S) = m
      <4>1. S \in SUBSET Nat /\ \A y \in S : y <= m  OBVIOUS
      <4> QED  BY <4>1, GreatestIs
    <3> QED  BY <3>1
  <2>3. ASSUME NEW S \in SUBSET (1..m), S # {}
        PROVE  G[S] = LexTake(src, G[S \ {Max(S)}], Max(S))
    <3>1. CASE m \in S
      <4>1. m \notin S \ {m} /\ S \ {m} \in SUBSET (1..m)  OBVIOUS
      <4>2. G[S \ {m}] = f[S \ {m}] /\ G[S] = LexTake(src, f[S \ {m}], m)  BY <3>1, <4>1
      <4> HIDE DEF G
      <4> QED  BY <2>2, <3>1, <4>2
    <3>2. CASE m \notin S
      <4>1. S \in SUBSET (1..(m - 1))  BY <2>2, <3>2
      <4>2. f[S] = LexTake(src, f[S \ {Max(S)}], Max(S))  BY <2>1, <2>3, <4>1 DEF Lexes
      <4>3. G[S] = f[S]  BY <3>2
      <4>4. G[S \ {Max(S)}] = f[S \ {Max(S)}]  BY <3>2
      <4> HIDE DEF G
      <4> QED  BY <4>2, <4>3, <4>4
    <3> QED  BY <3>1, <3>2
  <2>4. G[{}] = NoTokens
    <3>1. G[{}] = f[{}] /\ f[{}] = NoTokens  BY <2>1 DEF Lexes
    <3> QED  BY <3>1
  <2>5. G = [S \in SUBSET (1..m) |-> G[S]]  OBVIOUS
  <2> HIDE DEF G
  <2>6. Lexes(G, src, m)  BY <2>3, <2>4, <2>5 DEF Lexes
  <2> QED  BY <2>6
<1> HIDE DEF E
<1>3. 0 \in K /\ \A k \in 1..n : k - 1 \in K => k \in K
  <2>1. \A k \in 1..n : k \in 0..n  OBVIOUS
  <2>2. 0 \in 0..n  OBVIOUS
  <2> QED  BY <1>1, <1>2, <2>1, <2>2
<1>4. n \in K
  <2>1. n \in 0..n  OBVIOUS
  <2> HIDE DEF K
  <2> QED  BY <1>3, <2>1, Upwards
<1> QED  BY <1>4 DEF E

LexIs(f, src, n) ==
  LexExpr(src) = f[1..n] /\ f[{}] = NoTokens /\ \A k \in 1..n : f[1..k] = LexTake(src, f[1..(k - 1)], k)
\* LexExpr goes through a text one atom after the other.
LEMMA LexSteps ==
  ASSUME NEW src \in Seq(Atoms)
  PROVE  \E f : LexIs(f, src, Len(src))
<1> DEFINE n == Len(src)
           s == [i \in DOMAIN src |-> i]
           b == NoTokens
           Is(f) == f = [S \in SUBSET (1..n) |->
                           IF S = {} THEN b ELSE LexTake(src, f[S \ {Max(S)}], s[Max(S)])]
           all == CHOOSE f : Is(f)
<1>1. n \in Nat /\ DOMAIN s = 1..n /\ \A k \in 1..n : s[k] = k  OBVIOUS
<1>2. LexExpr(src) = all[1..n]  BY <1>1 DEF LexExpr, LexTake, NoTokens, FoldLeft, MapThenFoldSet
<1> HIDE DEF s, b, n
<1>3. PICK F : Lexes(F, src, n)  BY <1>1, LexExists
<1>4. ASSUME NEW S \in SUBSET (1..n), S # {}
      PROVE  s[Max(S)] = Max(S)
  <2>1. Max(S) \in 1..n  BY <1>1, <1>4, LastOf
  <2> QED  BY <1>1, <2>1
<1>5. Is(F)  BY <1>3, <1>4 DEF Lexes, b
<1>6. Is(all)
  <2> HIDE DEF Is
  <2> QED  BY <1>5
<1> HIDE DEF all
<1>7. all[{}] = NoTokens  BY <1>6 DEF b
<1>8. ASSUME NEW k \in 1..n
      PROVE  all[1..k] = LexTake(src, all[1..(k - 1)], k)
  <2>1. 1..k \in SUBSET (1..n) /\ 1..k # {} /\ Max(1..k) = k /\ (1..k) \ {k} = 1..(k - 1)
    BY <1>1, FirstNumbers
  <2>2. all[1..k] = LexTake(src, all[1..(k - 1)], s[k])  BY <1>6, <2>1
  <2> QED  BY <1>1, <2>2
<1> HIDE DEF Is
<1>9. LexIs(all, src, n)  BY <1>2, <1>7, <1>8 DEF LexIs
<1> QED  BY <1>9 DEF n

\* After one atom of a literal its token is read.
LEMMA OneToken ==
  ASSUME NEW v, NEW m
  PROVE  [NoTokens EXCEPT !.ts = v, !.next = m] = [ok |-> TRUE, ts |-> v, next |-> m]
<1> DEFINE S == [ok : BOOLEAN, ts : {<<>>, v}, next : {1, m}]
           s == NoTokens
           t == [s EXCEPT !.ts = v, !.next = m]
           u == [ok |-> TRUE, ts |-> v, next |-> m]
<1>1. s \in S /\ s.ok = TRUE  BY DEF NoTokens
<1>2. u \in S /\ u.ok = TRUE /\ u.ts = v /\ u.next = m  OBVIOUS
<1> HIDE DEF s, u
<1>3. t \in S /\ t.ok = TRUE /\ t.ts = v /\ t.next = m  BY <1>1
<1> HIDE DEF t
<1>4. t = u  BY <1>2, <1>3
<1> QED  BY <1>4 DEF t, s, u

\* A text that is one closed literal.
IsLiteral(src, text) ==
  /\ src \in Seq(Atoms) /\ Len(src) \in Nat /\ Len(src) >= 2 /\ src[1] = Quote
  /\ StringFrom(src, 2).closed /\ StringFrom(src, 2).said = text /\ StringFrom(src, 2).next = Len(src) + 1
\* The lexer reads a closed literal as one token.
LEMMA LexLiteral ==
  ASSUME NEW src, NEW text, IsLiteral(src, text)
  PROVE  LexExpr(src).ok /\ LexExpr(src).ts = <<Tok("str", text)>>
<1>1. src \in Seq(Atoms)  BY DEF IsLiteral
<1>2. PICK f : LexIs(f, src, Len(src))  BY <1>1, LexSteps
<1> DEFINE n == Len(src)
           s1 == [ok |-> TRUE, ts |-> <<Tok("str", text)>>, next |-> n + 1]
           K == {k \in 0..n : k = 0 \/ f[1..k] = s1}
<1>3. n \in Nat /\ n >= 2 /\ 1 \in 1..n  BY DEF IsLiteral
<1>4. f[1..1] = s1
  <2>1. f[1..1] = LexTake(src, f[1..(1 - 1)], 1)  BY <1>2, <1>3 DEF LexIs
  <2>2. 1..(1 - 1) = {} /\ 1 + 1 = 2  OBVIOUS
  <2>3. f[1..1] = LexTake(src, NoTokens, 1)  BY <1>2, <2>1, <2>2 DEF LexIs
  <2>4. Quote # Space /\ Quote # "." /\ Quote \notin Digit  BY DEF Quote, Space, Digit
  <2>5. src[1] = Quote /\ StringFrom(src, 1 + 1).closed /\ StringFrom(src, 1 + 1).said = text
        /\ StringFrom(src, 1 + 1).next = n + 1
    BY <2>2 DEF IsLiteral
  <2>6. NoTokens.ok /\ ~(1 < NoTokens.next)  BY DEF NoTokens
  <2>7. LexTake(src, NoTokens, 1) = [NoTokens EXCEPT !.ts = Append(@, Tok("str", text)), !.next = n + 1]
    BY <2>4, <2>5, <2>6 DEF LexTake
  <2> DEFINE w == Tok("str", text)
  <2>8. Append(<<>>, w) = <<w>>  OBVIOUS
  <2> HIDE DEF w
  <2>9. [NoTokens EXCEPT !.ts = Append(@, w), !.next = n + 1] = [ok |-> TRUE, ts |-> <<w>>, next |-> n + 1]
    <3> DEFINE v == <<w>>
    <3>1. Append(NoTokens.ts, w) = v  BY <2>8 DEF NoTokens
    <3>2. [NoTokens EXCEPT !.ts = Append(@, w), !.next = n + 1] = [NoTokens EXCEPT !.ts = v, !.next = n + 1]
      BY <3>1
    <3> HIDE DEF v
    <3>3. [NoTokens EXCEPT !.ts = v, !.next = n + 1] = [ok |-> TRUE, ts |-> v, next |-> n + 1]  BY OneToken
    <3> QED  BY <3>2, <3>3 DEF v
  <2> QED  BY <2>3, <2>7, <2>9 DEF w
<1>5. s1.ok /\ s1.next = n + 1 /\ s1.ts = <<Tok("str", text)>>  OBVIOUS
<1> HIDE DEF s1
<1>6. ASSUME NEW k \in 1..n, k - 1 \in K
      PROVE  k \in K
  <2>1. k \in 0..n  OBVIOUS
  <2>2. CASE k = 1  BY <1>4, <2>1, <2>2
  <2>3. CASE k # 1
    <3>1. f[1..(k - 1)] = s1 /\ k < n + 1  BY <1>6, <2>3
    <3>2. f[1..k] = LexTake(src, s1, k)  BY <1>2, <3>1 DEF LexIs
    <3>3. LexTake(src, s1, k) = s1  BY <1>5, <3>1 DEF LexTake
    <3> QED  BY <2>1, <3>2, <3>3
  <2> QED  BY <2>2, <2>3
<1>7. n \in K
  <2>1. 0 \in K /\ n \in 0..n  BY <1>3
  <2> HIDE DEF K
  <2> QED  BY <1>3, <1>6, <2>1, Upwards
<1>8. f[1..n] = s1  BY <1>3, <1>7
<1>9. LexExpr(src) = f[1..n]  BY <1>2 DEF LexIs
<1> QED  BY <1>5, <1>8, <1>9

(***************************************************************************)
(* Parsing one literal.                                                    *)
(***************************************************************************)
\* No operator and no word is in the tokens of a literal.
OneString(ts, text) == ts = <<Tok("str", text)>>
LEMMA NoOperator ==
  ASSUME NEW ts, NEW text, OneString(ts, text)
  PROVE  /\ Places(ts) = 0..2
         /\ \A i, op : ~IsOp(ts, i, op) /\ ~IsWord(ts, i, op) /\ ~IsKind(ts, i, {"op"})
         /\ IsKind(ts, 1, {"num", "str", "id"}) /\ ~IsKind(ts, 2, {"num", "str", "id"})
         /\ ts[1].k = "str" /\ ts[1].s = text
<1>1. DOMAIN ts = {1} /\ Len(ts) = 1 /\ ts[1] = Tok("str", text)  BY DEF OneString
<1>2. ts[1].k = "str" /\ ts[1].s = text  BY <1>1 DEF Tok
<1> QED  BY <1>1, <1>2 DEF Places, IsOp, IsWord, IsKind

Value(text) == [e |-> Node("str", text, <<>>), next |-> 2]
\* A literal alone is read as a string.
LEMMA ReadsAs ==
  ASSUME NEW text
  PROVE  /\ Value(text).e = Node("str", text, <<>>) /\ Value(text).next = 2 /\ Fail.next = 0
         /\ \A e : Read(e, 0) = Fail
         /\ \A e : Read(e, 2).e = e /\ Read(e, 2).next = 2 /\ Read(Value(text).e, 2) = Value(text)
BY DEF Value, Fail, Read

\* A fold over nothing.
LEMMA GroupedNothing ==
  ASSUME NEW b
  PROVE  Grouped(b, <<>>) = b
<1> DEFINE z == <<>>
           Is(f) == f = [S \in SUBSET (DOMAIN z) |->
                           IF S = {} THEN b
                           ELSE Node("bin", z[Max(S)].op, <<f[S \ {Max(S)}], z[Max(S)].e>>)]
           all == CHOOSE f : Is(f)
           g == [S \in SUBSET (DOMAIN z) |-> b]
<1>1. Grouped(b, z) = all[DOMAIN z]  BY DEF Grouped, FoldLeft, MapThenFoldSet
<1>2. DOMAIN z = {}  OBVIOUS
<1> HIDE DEF z
<1>3. Is(g)  BY <1>2
<1>4. Is(all)
  <2> HIDE DEF Is, g
  <2> QED  BY <1>3
<1>5. all[{}] = b
  <2>1. {} \in SUBSET (DOMAIN z)  OBVIOUS
  <2> HIDE DEF all
  <2> QED  BY <1>4, <2>1
<1> HIDE DEF all
<1> QED  BY <1>1, <1>2, <1>5 DEF z

LEMMA AppliedNothing ==
  ASSUME NEW b
  PROVE  FoldLeft(Applied, b, <<>>) = b
<1> DEFINE z == <<>>
           Is(f) == f = [S \in SUBSET (DOMAIN z) |->
                           IF S = {} THEN b ELSE Applied(f[S \ {Max(S)}], z[Max(S)])]
           all == CHOOSE f : Is(f)
           g == [S \in SUBSET (DOMAIN z) |-> b]
<1>1. FoldLeft(Applied, b, z) = all[DOMAIN z]  BY DEF FoldLeft, MapThenFoldSet
<1>2. DOMAIN z = {}  OBVIOUS
<1> HIDE DEF z
<1>3. Is(g)  BY <1>2
<1>4. Is(all)
  <2> HIDE DEF Is, g
  <2> QED  BY <1>3
<1>5. all[{}] = b
  <2>1. {} \in SUBSET (DOMAIN z)  OBVIOUS
  <2> HIDE DEF all
  <2> QED  BY <1>4, <2>1
<1> HIDE DEF all
<1> QED  BY <1>1, <1>2, <1>5 DEF z

\* After a literal no suffix follows and no operator.
LEMMA PrimaryIs ==
  ASSUME NEW ts, NEW text, OneString(ts, text), NEW P
  PROVE  ParsePrimary(ts, P, 1) = Value(text) /\ ParsePrimary(ts, P, 2) = Fail
<1>1. ~IsWord(ts, 1, "snapshot") /\ IsKind(ts, 1, {"num", "str", "id"}) /\ ts[1].k = "str" /\ ts[1].s = text
  BY NoOperator
<1>2. Read(Node("str", text, <<>>), 1 + 1) = Value(text)  BY ReadsAs DEF Value
<1>3. ParsePrimary(ts, P, 1) = Value(text)
  <2>1. ~IsOp(ts, 1, "(") /\ ~IsOp(ts, 1, "[")  BY NoOperator
  <2>2. ParsePrimary(ts, P, 1) = Read(Node(ts[1].k, ts[1].s, <<>>), 1 + 1)  BY <1>1, <2>1 DEF ParsePrimary
  <2> QED  BY <1>1, <1>2, <2>2
<1>4. ~IsWord(ts, 2, "snapshot") /\ ~IsKind(ts, 2, {"num", "str", "id"}) /\ ~IsOp(ts, 2, "(") /\ ~IsOp(ts, 2, "[")
  BY NoOperator
<1>5. ParsePrimary(ts, P, 2) = Fail  BY <1>4 DEF ParsePrimary
<1> QED  BY <1>3, <1>5

\* No suffix.
LEMMA PostfixIs ==
  ASSUME NEW ts, NEW text, OneString(ts, text), NEW P, NEW first \in {Value(text), Fail}
  PROVE  Postfix(ts, P, first) = first
<1> DEFINE C(j) == \E op \in {".", "(", "{", "[", "@"} : IsOp(ts, j, op)
           D(f, j) == LET n == Suffix(ts, P, j)
                          more == f[n.next]
                      IN  Read(<<n.e>> \o more.e, more.next)
           Is(f) == f = [j \in Places(ts) |-> IF C(j) THEN D(f, j) ELSE Read(<<>>, j)]
           all == CHOOSE f : Is(f)
           g == [j \in Places(ts) |-> Read(<<>>, j)]
           ns == all[first.next]
           Misplaced(n) == ns.e[n].k = "geom" /\ ~(n = 1 /\ first.e.k = "id")
<1>1. Postfix(ts, P, first) =
        IF ns.next = 0 \/ \E n \in DOMAIN ns.e : Misplaced(n) THEN Fail
        ELSE Read(FoldLeft(Applied, first.e, ns.e), ns.next)
  BY DEF Postfix
<1>2. Places(ts) = 0..2 /\ \A j : ~C(j)  BY NoOperator
<1> HIDE DEF C, D
<1>3. Is(g)  BY <1>2
<1>4. Is(all)
  <2> HIDE DEF Is, g
  <2> QED  BY <1>3
<1> HIDE DEF all
<1>5. all[0] = Read(<<>>, 0) /\ all[2] = Read(<<>>, 2)
  <2>1. 0 \in Places(ts) /\ 2 \in Places(ts)  BY <1>2
  <2>2. all = [j \in Places(ts) |-> Read(<<>>, j)]  BY <1>2, <1>4
  <2> QED  BY <2>1, <2>2
<1> HIDE DEF Is, g
<1>6. CASE first = Fail
  <2>1. ns = Fail  BY <1>5, <1>6, ReadsAs
  <2>2. ns.next = 0  BY <2>1, ReadsAs
  <2> HIDE DEF ns
  <2> QED  BY <1>1, <1>6, <2>2
<1>7. CASE first = Value(text)
  <2>1. first.next = 2  BY <1>7, ReadsAs
  <2>2. ns = Read(<<>>, 2)  BY <1>5, <2>1
  <2>3. ns.e = <<>> /\ ns.next = 2 /\ DOMAIN ns.e = {}  BY <2>2, ReadsAs
  <2> HIDE DEF ns, Misplaced
  <2>4. Postfix(ts, P, first) = Read(FoldLeft(Applied, first.e, <<>>), 2)  BY <1>1, <2>3
  <2>5. FoldLeft(Applied, first.e, <<>>) = first.e  BY AppliedNothing
  <2> QED  BY <1>7, <2>4, <2>5, ReadsAs
<1> QED  BY <1>6, <1>7

\* No sign.
LEMMA UnaryIs ==
  ASSUME NEW ts, NEW text, OneString(ts, text), NEW P
  PROVE  ParseUnary(ts, P, 1) = Value(text) /\ ParseUnary(ts, P, 2) = Fail
<1>1. ~IsOp(ts, 1, "-") /\ ~IsOp(ts, 2, "-")  BY NoOperator
<1>2. ParsePrimary(ts, P, 1) = Value(text) /\ ParsePrimary(ts, P, 2) = Fail  BY PrimaryIs
<1>3. Postfix(ts, P, Value(text)) = Value(text) /\ Postfix(ts, P, Fail) = Fail  BY PostfixIs
<1> QED  BY <1>1, <1>2, <1>3 DEF ParseUnary

\* No binary operator.
LEMMA BinaryIs ==
  ASSUME NEW ts, NEW text, OneString(ts, text), NEW P, NEW level, NEW first \in {Value(text), Fail}
  PROVE  ParseBinary(ts, P, level, first) = first
<1> DEFINE C(j) == IsKind(ts, j, {"op"}) /\ ts[j].s \in Operators[level]
           D(f, j) == LET e == P[<<Tighter[level], j + 1>>]
                          more == f[e.next]
                      IN  Read(<<[op |-> ts[j].s, e |-> e.e]>> \o more.e, more.next)
           Is(f) == f = [j \in Places(ts) |-> IF ~C(j) THEN Read(<<>>, j) ELSE D(f, j)]
           all == CHOOSE f : Is(f)
           g == [j \in Places(ts) |-> Read(<<>>, j)]
           rights == all[first.next]
<1>1. ParseBinary(ts, P, level, first) = Read(Grouped(first.e, rights.e), rights.next)
  BY DEF ParseBinary
<1>2. Places(ts) = 0..2 /\ \A j : ~C(j)  BY NoOperator
<1> HIDE DEF C, D
<1>3. Is(g)  BY <1>2
<1>4. Is(all)
  <2> HIDE DEF Is, g
  <2> QED  BY <1>3
<1> HIDE DEF all
<1>5. all[0] = Read(<<>>, 0) /\ all[2] = Read(<<>>, 2)
  <2>1. 0 \in Places(ts) /\ 2 \in Places(ts)  BY <1>2
  <2>2. all = [j \in Places(ts) |-> Read(<<>>, j)]  BY <1>2, <1>4
  <2> QED  BY <2>1, <2>2
<1> HIDE DEF Is, g
<1>6. CASE first = Fail
  <2>1. rights = Fail  BY <1>5, <1>6, ReadsAs
  <2>2. rights.next = 0  BY <2>1, ReadsAs
  <2> HIDE DEF rights
  <2> QED  BY <1>1, <1>6, <2>2, ReadsAs
<1>7. CASE first = Value(text)
  <2>1. first.next = 2  BY <1>7, ReadsAs
  <2>2. rights = Read(<<>>, 2)  BY <1>5, <2>1
  <2>3. rights.e = <<>> /\ rights.next = 2  BY <2>2, ReadsAs
  <2> HIDE DEF rights
  <2>4. ParseBinary(ts, P, level, first) = Read(first.e, 2)  BY <1>1, <2>3, GroupedNothing
  <2> QED  BY <1>7, <2>4, ReadsAs
<1> QED  BY <1>6, <1>7

\* No range and no condition.
LEMMA RangeAndCondAre ==
  ASSUME NEW ts, NEW text, OneString(ts, text), NEW P, NEW first
  PROVE  ParseRange(ts, P, first) = first /\ ParseCond(ts, P, first) = first
<1>1. \A i, op : ~IsOp(ts, i, op) /\ ~IsWord(ts, i, op) /\ ~IsKind(ts, i, {"op"})  BY NoOperator
<1>2. ParseRange(ts, P, first) = first  BY <1>1 DEF ParseRange
<1>3. ParseCond(ts, P, first) = first
  <2>1. ~IsOp(ts, first.next, "?") /\ ~IsWord(ts, first.next, "if")  BY <1>1
  <2> QED  BY <2>1 DEF ParseCond
<1> QED  BY <1>2, <1>3

\* The grammar's rules over the one token.
RulesOver(ts, P) ==
  P = [r \in Rules \X Places(ts) |-> IF r[2] = 0 THEN Fail ELSE Parse(ts, P, r[1], r[2])]
\* The rules of the grammar.
LEMMA RuleNames == Rules = {"cond", "range", "unary", "cmp", "add", "mul"}
                   /\ Tighter["cmp"] = "add" /\ Tighter["add"] = "mul" /\ Tighter["mul"] = "unary"
BY DEF Rules, Operators, Tighter

\* Every rule reads the one token as the string.
LEMMA RulesAgree ==
  ASSUME NEW ts, NEW text, OneString(ts, text)
  PROVE  \E P : RulesOver(ts, P)
<1> DEFINE G == [r \in Rules \X Places(ts) |-> IF r[2] = 1 THEN Value(text) ELSE Fail]
<1>1. Places(ts) = 0..2  BY NoOperator
<1>2. \A rule \in Rules : G[<<rule, 0>>] = Fail /\ G[<<rule, 1>>] = Value(text) /\ G[<<rule, 2>>] = Fail
  BY <1>1
<1>3. G = [r \in Rules \X Places(ts) |-> G[r]]  OBVIOUS
<1> HIDE DEF G
<1>4. ASSUME NEW rule \in Rules, NEW i \in {1, 2}
      PROVE  Parse(ts, G, rule, i) = G[<<rule, i>>]
  <2> DEFINE v == G[<<rule, i>>]
  <2>1. v \in {Value(text), Fail}  BY <1>2, <1>4
  <2>2. \A r \in Rules : G[<<r, i>>] = v  BY <1>2, <1>4
  <2> HIDE DEF v
  <2>3. ParseUnary(ts, G, i) = v
    <3>1. ParseUnary(ts, G, i) = G[<<rule, i>>]  BY <1>2, <1>4, UnaryIs
    <3> QED  BY <3>1 DEF v
  <2>4. \A level : ParseBinary(ts, G, level, v) = v  BY <2>1, BinaryIs
  <2>5. ParseRange(ts, G, v) = v /\ ParseCond(ts, G, v) = v  BY RangeAndCondAre
  <2>6. G[<<"range", i>>] = v /\ G[<<"cmp", i>>] = v /\ G[<<"add", i>>] = v /\ G[<<"mul", i>>] = v /\ G[<<"unary", i>>] = v
    BY <2>2, RuleNames
  <2>7. rule \in {"cond", "range", "unary", "cmp", "add", "mul"}  BY <1>4, RuleNames
  <2>8. Parse(ts, G, rule, i) = v  BY <2>3, <2>4, <2>5, <2>6, <2>7, RuleNames DEF Parse
  <2> QED  BY <2>8 DEF v
<1>5. G = [r \in Rules \X Places(ts) |-> IF r[2] = 0 THEN Fail ELSE Parse(ts, G, r[1], r[2])]
  <2>1. ASSUME NEW r \in Rules \X Places(ts)
        PROVE  G[r] = IF r[2] = 0 THEN Fail ELSE Parse(ts, G, r[1], r[2])
    <3>1. r[1] \in Rules /\ r = <<r[1], r[2]>> /\ (r[2] = 0 \/ r[2] \in {1, 2})  BY <1>1
    <3> DEFINE a == r[1]
               i == r[2]
    <3> HIDE DEF a, i
    <3>2. G[<<a, i>>] = IF i = 0 THEN Fail ELSE Parse(ts, G, a, i)  BY <1>2, <1>4, <3>1 DEF a, i
    <3> QED  BY <3>1, <3>2 DEF a, i
  <2> QED  BY <1>3, <2>1
<1>6. RulesOver(ts, G)  BY <1>5 DEF RulesOver
<1> QED  BY <1>6

\* ParseExpr of the literal of a text is the text.
LEMMA StringParses ==
  ASSUME NEW ts, NEW text, OneString(ts, text)
  PROVE  ParseTokens(ts) = Value(text)
<1> DEFINE P == CHOOSE P : RulesOver(ts, P)
<1>1. ParseTokens(ts) = P[<<"cond", 1>>]  BY DEF ParseTokens, RulesOver
<1>2. RulesOver(ts, P)  BY RulesAgree
<1> HIDE DEF P
<1>3. \A rule \in Rules : P[<<rule, 1>>] = Parse(ts, P, rule, 1)
  <2>1. 1 \in Places(ts)  BY NoOperator
  <2> QED  BY <1>2, <2>1 DEF RulesOver
<1> DEFINE v == Value(text)
<1>4. ParseUnary(ts, P, 1) = v  BY UnaryIs
<1>5. (\A level : ParseBinary(ts, P, level, v) = v) /\ ParseRange(ts, P, v) = v /\ ParseCond(ts, P, v) = v
  BY BinaryIs, RangeAndCondAre
<1> HIDE DEF v
<1>6. P[<<"unary", 1>>] = v  BY <1>3, <1>4, RuleNames DEF Parse
<1>7. P[<<"mul", 1>>] = v  BY <1>3, <1>5, <1>6, RuleNames DEF Parse
<1>8. P[<<"add", 1>>] = v  BY <1>3, <1>5, <1>7, RuleNames DEF Parse
<1>9. P[<<"cmp", 1>>] = v  BY <1>3, <1>5, <1>8, RuleNames DEF Parse
<1>10. P[<<"range", 1>>] = v  BY <1>3, <1>5, <1>9, RuleNames DEF Parse
<1>11. P[<<"cond", 1>>] = v  BY <1>3, <1>5, <1>10, RuleNames DEF Parse
<1> QED  BY <1>1, <1>11 DEF v

\* parseExpr: the literal of a block scalar is a string of its lines.
LEMMA LiteralParses ==
  ASSUME NEW content \in Texts
  PROVE  ParseExpr(Literal(content)).e = Node("str", LinesJoined(content), <<>>)
<1> DEFINE src == Literal(content)
           text == LinesJoined(content)
<1>1. IsLiteral(src, text)  BY LiteralDenotes DEF IsLiteral
<1>2. LexExpr(src).ok /\ LexExpr(src).ts = <<Tok("str", text)>>  BY <1>1, LexLiteral
<1> HIDE DEF src, text
<1>3. ParseTokens(LexExpr(src).ts) = Value(text)  BY <1>2, StringParses DEF OneString
<1>4. ParseExpr(src).e = Value(text).e  BY <1>2, <1>3 DEF ParseExpr, ParseLexed, Complete
<1> QED  BY <1>4, ReadsAs DEF src, text

(***************************************************************************)
(* The text under a key.                                                   *)
(***************************************************************************)
\* An indent is a text.
LEMMA SpacesAre ==
  ASSUME NEW n \in Int
  PROVE  Spaces(n) \in Seq(Atoms)
<1>1. Space \in Atoms  BY DEF Atoms
<1>2. CASE n >= 0  BY <1>1, <1>2 DEF Spaces
<1>3. CASE n < 0
  <2>1. 1..n = 1..0  BY <1>3
  <2>2. Spaces(n) = [i \in 1..0 |-> Space]  BY <2>1 DEF Spaces
  <2> QED  BY <1>1, <2>2
<1> QED  BY <1>2, <1>3

\* The lines under a key without their common indent are texts.
LEMMA DedentedIs ==
  ASSUME NEW body \in Seq(RawLine)
  PROVE  Dedented(body) \in Texts
<1> DEFINE n == Len(body)
           filled == {j \in DOMAIN body : ~IsBlank(body[j])}
           inds == {body[j].ind : j \in filled}
           margin == Min(inds)
           Line1(raw) == IF IsBlank(raw) THEN <<>> ELSE Spaces(raw.ind - margin) \o raw.txt
           a == Min(filled)
           z == Max(filled)
<1>1. n \in Nat /\ DOMAIN body = 1..n /\ \A j \in 1..n : body[j] \in RawLine  OBVIOUS
<1>2. Dedented(body) = IF filled = {} THEN <<>> ELSE [j \in 1..(z - a + 1) |-> Line1(body[j + a - 1])]
  BY DEF Dedented
<1>3. filled \subseteq 1..n  BY <1>1
<1>4. CASE filled = {}
  <2>1. Dedented(body) = <<>>  BY <1>2, <1>4
  <2> QED  BY <2>1 DEF Texts
<1>5. CASE filled # {}
  <2>1. inds \in SUBSET Nat /\ inds # {}  BY <1>1, <1>3, <1>5 DEF RawLine
  <2> HIDE DEF inds
  <2>2. margin \in Nat  BY <2>1, LeastElement
  <2> HIDE DEF margin
  <2>3. ASSUME NEW raw \in RawLine
        PROVE  Line1(raw) \in Seq(Atoms)
    <3>1. raw.txt \in Seq(Atoms) /\ raw.ind - margin \in Int  BY <2>2 DEF RawLine, Atoms
    <3>2. Spaces(raw.ind - margin) \in Seq(Atoms)  BY <3>1, SpacesAre
    <3> QED  BY <3>1, <3>2
  <2> HIDE DEF filled, n, Line1
  <2>4. a \in 1..n /\ z \in 1..n /\ a <= z
    <3>1. filled \in SUBSET Nat  BY <1>3
    <3>2. a \in filled /\ \A x \in filled : a <= x  BY <1>5, <3>1, LeastElement
    <3>3. z \in filled  BY <1>1, <1>3, <1>5, LastOf
    <3> QED  BY <1>3, <3>2, <3>3
  <2>5. \A j \in 1..(z - a + 1) : Line1(body[j + a - 1]) \in Seq(Atoms)
    <3> TAKE j \in 1..(z - a + 1)
    <3>1. j + a - 1 \in 1..n  BY <1>1, <2>4
    <3> QED  BY <1>1, <2>3, <3>1
  <2>6. z - a + 1 \in Nat  BY <1>1, <2>4
  <2> HIDE DEF a, z
  <2>7. Dedented(body) = [j \in 1..(z - a + 1) |-> Line1(body[j + a - 1])]  BY <1>2, <1>5
  <2> QED  BY <2>5, <2>6, <2>7 DEF Texts
<1> QED  BY <1>4, <1>5

\* The lines below a key.
ScalarContent(i) == Dedented(SubSeq(doc, i + 1, BodyEnd(doc, i) - 1))
LEMMA ContentIs ==
  ASSUME doc \in Seq(RawLine), NEW i \in 1..Len(doc)
  PROVE  ScalarContent(i) \in Texts /\ BodyEnd(doc, i) \in (i + 1)..(Len(doc) + 1)
<1> DEFINE ends == {j \in (i + 1)..(Len(doc) + 1) :
                      j = Len(doc) + 1 \/ ~(IsBlank(doc[j]) \/ doc[j].ind > doc[i].ind)}
           e == BodyEnd(doc, i)
<1>1. Len(doc) \in Nat  OBVIOUS
<1>2. e = Min(ends)  BY DEF BodyEnd
<1>3. ends \in SUBSET Nat /\ Len(doc) + 1 \in ends /\ ends \subseteq (i + 1)..(Len(doc) + 1)  BY <1>1
<1> HIDE DEF ends, e
<1>4. e \in (i + 1)..(Len(doc) + 1)
  <2>1. e \in ends  BY <1>2, <1>3, LeastElement
  <2> QED  BY <1>3, <2>1
<1>5. SubSeq(doc, i + 1, e - 1) \in Seq(RawLine)
  <2>1. i + 1 \in Nat \ {0} /\ e - 1 \in Nat /\ e - 1 <= Len(doc)  BY <1>1, <1>4
  <2> DEFINE m == i + 1
             w == e - 1
  <2> HIDE DEF m, w
  <2>2. m \in Nat \ {0} /\ w \in Nat /\ w <= Len(doc)  BY <2>1 DEF m, w
  <2>3. SubSeq(doc, m, w) \in Seq(RawLine)  BY <2>2
  <2> QED  BY <2>3 DEF m, w
<1> QED  BY <1>4, <1>5, DedentedIs DEF ScalarContent, e

(***************************************************************************)
(* The field a block scalar is read as.                                    *)
(***************************************************************************)
\* A literal begins and ends with a quote.
LEMMA LiteralEnds ==
  ASSUME NEW content \in Texts
  PROVE  /\ Literal(content) \in Seq(Atoms) /\ Len(Literal(content)) \in Nat /\ Len(Literal(content)) >= 2
         /\ Literal(content)[1] = Quote /\ Literal(content)[Len(Literal(content))] = Quote
<1> DEFINE J == EscapedLines(content)
<1>1. J \in Seq(Atoms)
  <2>1. Says(J, LinesJoined(content))  BY SaysLines
  <2> QED  BY <2>1 DEF Says
<1>2. Quote \in Atoms  BY DEF Atoms
<1> HIDE DEF J
<1>3. (<<Quote>> \o J \o <<Quote>>)[Len(<<Quote>> \o J \o <<Quote>>)] = Quote  BY <1>1, <1>2
<1>4. Literal(content) = <<Quote>> \o J \o <<Quote>>  BY DEF Literal, J
<1>5. Literal(content)[Len(Literal(content))] = Quote  BY <1>3, <1>4
<1> QED  BY <1>5, LiteralDenotes

\* A sequence from its ath element on.
LEMMA TailIs ==
  ASSUME NEW S, NEW s \in Seq(S), NEW a \in Nat, a < Len(s)
  PROVE  /\ SubSeq(s, a + 1, Len(s)) \in Seq(S) /\ Len(SubSeq(s, a + 1, Len(s))) = Len(s) - a
         /\ \A j \in 1..(Len(s) - a) : SubSeq(s, a + 1, Len(s))[j] = s[a + j]
<1> DEFINE b == a + 1
           n == Len(s)
<1>1. n \in Nat /\ b \in Nat \ {0} /\ b <= n  OBVIOUS
<1> HIDE DEF b
<1>2. SubSeq(s, b, n) \in Seq(S) /\ Len(SubSeq(s, b, n)) = n - b + 1
      /\ \A j \in 1..(n - b + 1) : SubSeq(s, b, n)[j] = s[b + j - 1]
  BY <1>1
<1>3. n - b + 1 = n - a /\ \A j \in 1..(n - a) : b + j - 1 = a + j  BY <1>1 DEF b
<1> HIDE DEF n
<1> QED  BY <1>2, <1>3 DEF b, n

\* parseFieldLine: set and rate before a name mark a field.
Marked(s) == Len(s) >= 2 /\ s[1] \in {"rate", "set"} /\ s[2] \in Word
Unmarked(s) == IF Marked(s) THEN Tail(s) ELSE s

\* scanBlockScalar and parseFieldLine see the same name in a key, and no colon
\* is part of it.
LEMMA KeyIs ==
  ASSUME NEW txt \in Seq(Atoms), IsScalarKey(txt)
  PROVE  /\ Len(txt) \in Nat /\ Len(txt) >= 3
         /\ \E m \in {0, 1} :
              /\ m = 1 <=> Len(txt) > 3 /\ txt[1] \in {"set", "rate"} /\ txt[2] \in Word
              /\ m + 3 <= Len(txt) /\ txt[Len(txt) - 1] = ":"
              /\ \A i \in (m + 1)..(Len(txt) - 2) : txt[i] # ":"
              /\ txt[2] \in Word => Len(txt) > 3
<1> DEFINE marked == Len(txt) > 3 /\ txt[1] \in {"set", "rate"} /\ txt[2] \in Word
           key == IF marked THEN Tail(txt) ELSE txt
           m == IF marked THEN 1 ELSE 0
           name == SubSeq(key, 1, Len(key) - 2)
           n == Len(key)
<1>1. /\ Len(key) >= 3
      /\ SubSeq(key, Len(key) - 1, Len(key)) = <<":", "|">>
      /\ \A i \in DOMAIN name : name[i] \in Word \cup Digit \cup {"."}
  BY DEF IsScalarKey
<1>2. /\ Len(txt) \in Nat /\ key \in Seq(Atoms) /\ n \in Nat /\ n = Len(txt) - m /\ m \in {0, 1}
      /\ \A i \in 1..n : key[i] = txt[m + i]
  OBVIOUS
<1>3. ":" \notin Word \cup Digit \cup {"."}  BY ReaderAssumption DEF Digit
<1>4. \A i \in 1..(n - 2) : name[i] = key[i] /\ i \in DOMAIN name
  <2> HIDE DEF key, n
  <2>1. key \in Seq(Atoms) /\ n = Len(key) /\ n \in Nat /\ n >= 3  BY <1>1, <1>2 DEF n
  <2> QED  BY <2>1
<1>5. key[n - 1] = ":"
  <2> HIDE DEF key
  <2>1. key \in Seq(Atoms) /\ n = Len(key) /\ n \in Nat /\ n >= 3  BY <1>1, <1>2
  <2>2. SubSeq(key, Len(key) - 1, Len(key))[1] = key[n - 1]  BY <2>1
  <2>3. <<":", "|">>[1] = ":"  OBVIOUS
  <2> QED  BY <1>1, <2>2, <2>3
<1>9. (m = 1 <=> marked) /\ n >= 3  BY <1>1
<1> HIDE DEF key, name, n, m
<1>6. txt[Len(txt) - 1] = ":" /\ m + 3 <= Len(txt) /\ Len(txt) >= 3
  <2>1. n - 1 \in 1..n /\ m + (n - 1) = Len(txt) - 1  BY <1>2, <1>9
  <2>2. m + 3 <= Len(txt) /\ Len(txt) >= 3  BY <1>2, <1>9
  <2> QED  BY <1>2, <1>5, <2>1, <2>2
<1>7. \A i \in (m + 1)..(Len(txt) - 2) : txt[i] # ":"
  <2> TAKE i \in (m + 1)..(Len(txt) - 2)
  <2>1. i - m \in 1..(n - 2) /\ i - m \in 1..n /\ m + (i - m) = i  BY <1>2
  <2>2. txt[i] = key[i - m] /\ key[i - m] = name[i - m] /\ i - m \in DOMAIN name  BY <1>2, <1>4, <2>1
  <2> QED  BY <1>1, <1>3, <2>2
<1>8. txt[2] \in Word => Len(txt) > 3
  <2>1. CASE Len(txt) = 3
    <3>1. txt[2] = ":"  BY <1>6, <2>1
    <3> QED  BY <1>3, <3>1
  <2>2. CASE Len(txt) # 3  BY <1>2, <1>6, <2>2
  <2> QED  BY <2>1, <2>2
<1> QED  BY <1>2, <1>6, <1>7, <1>8, <1>9

\* The first colon of a text.
LEMMA ColonIs ==
  ASSUME NEW s \in Seq(Atoms), NEW k \in 1..Len(s), s[k] = ":", \A i \in 1..(k - 1) : s[i] # ":"
  PROVE  Colon(s) = k
<1> DEFINE S == {i \in DOMAIN s : s[i] = ":"} \cup {Len(s) + 1}
<1>1. Len(s) \in Nat /\ DOMAIN s = 1..Len(s)  OBVIOUS
<1>2. S \in SUBSET Nat /\ k \in S /\ \A i \in S : k <= i
  <2>1. \A i \in 1..Len(s) : s[i] = ":" => k <= i  BY <1>1
  <2> QED  BY <1>1, <2>1
<1>3. Colon(s) = Min(S)  BY DEF Colon
<1> HIDE DEF S
<1>4. Min(S) \in S /\ \A i \in S : Min(S) <= i  BY <1>2, LeastElement
<1>5. Min(S) <= k /\ k <= Min(S) /\ Min(S) \in Nat  BY <1>2, <1>4
<1> QED  BY <1>1, <1>3, <1>5

\* A text that does not end with a colon has none at its end.
LEMMA NoColonAtEnd ==
  ASSUME NEW s \in Seq(Atoms), s # <<>>, s[Len(s)] # ":"
  PROVE  Colon(s) # Len(s)
<1> DEFINE S == {i \in DOMAIN s : s[i] = ":"} \cup {Len(s) + 1}
<1>1. Len(s) \in Nat /\ DOMAIN s = 1..Len(s)  OBVIOUS
<1>2. S \in SUBSET Nat /\ Len(s) + 1 \in S  BY <1>1
<1>3. Len(s) \notin S
  <2> DEFINE n == Len(s)
  <2>1. n \in Nat /\ s[n] # ":"  BY <1>1
  <2> HIDE DEF n
  <2>2. n \notin {i \in DOMAIN s : s[i] = ":"} \cup {n + 1}  BY <2>1
  <2> QED  BY <2>2 DEF n
<1>4. Colon(s) = Min(S)  BY DEF Colon
<1> HIDE DEF S
<1>5. Min(S) \in S  BY <1>2, LeastElement
<1> QED  BY <1>3, <1>4, <1>5

\* The key and the literal, the mark apart.
LEMMA ScalarTextIs ==
  ASSUME NEW txt \in Seq(Atoms), IsScalarKey(txt),
         NEW lit \in Seq(Atoms), Len(lit) >= 2, lit[1] = Quote, lit[Len(lit)] = Quote
  PROVE  LET t == Front(txt) \o lit
             s == Unmarked(t)
         IN  /\ t \in Seq(Atoms) /\ Colon(t) # Len(t)
             /\ s \in Seq(Atoms) /\ Rest(s, Colon(s)) = lit
<1> DEFINE t == Front(txt) \o lit
           s == Unmarked(t)
           N == Len(txt)
           z == Len(lit)
<1>1. N \in Nat /\ N >= 3 /\ z \in Nat /\ z >= 2  BY KeyIs
<1>2. PICK m \in {0, 1} :
        /\ m = 1 <=> N > 3 /\ txt[1] \in {"set", "rate"} /\ txt[2] \in Word
        /\ m + 3 <= N /\ txt[N - 1] = ":"
        /\ \A i \in (m + 1)..(N - 2) : txt[i] # ":"
        /\ txt[2] \in Word => N > 3
  BY KeyIs
<1>3. /\ t \in Seq(Atoms) /\ Len(t) = N - 1 + z
      /\ \A i \in 1..(N - 1) : t[i] = txt[i]
      /\ \A j \in 1..z : t[N - 1 + j] = lit[j]
  <2> DEFINE h == Front(txt)
  <2>1. h \in Seq(Atoms) /\ Len(h) = N - 1 /\ \A i \in 1..(N - 1) : h[i] = txt[i]  BY <1>1 DEF Front
  <2> HIDE DEF h
  <2>2. /\ h \o lit \in Seq(Atoms) /\ Len(h \o lit) = N - 1 + z
        /\ \A i \in 1..(N - 1) : (h \o lit)[i] = h[i]
        /\ \A j \in 1..z : (h \o lit)[N - 1 + j] = lit[j]
    <3> DEFINE w == N - 1
    <3>1. w \in Nat /\ Len(h) = w  BY <1>1, <2>1
    <3> HIDE DEF w
    <3>2. /\ h \o lit \in Seq(Atoms) /\ Len(h \o lit) = w + z
          /\ \A i \in 1..w : (h \o lit)[i] = h[i]
          /\ \A j \in 1..z : (h \o lit)[w + j] = lit[j]
      BY <1>1, <2>1, <3>1, BothParts
    <3> QED  BY <3>2 DEF w
  <2> QED  BY <2>1, <2>2 DEF h
<1> HIDE DEF t
<1>4. Marked(t) <=> m = 1
  <2>1. t[1] = txt[1] /\ t[2] = txt[2] /\ Len(t) >= 2  BY <1>1, <1>3
  <2> QED  BY <1>2, <2>1 DEF Marked
<1>5. /\ s \in Seq(Atoms) /\ Len(s) = N - 1 + z - m
      /\ \A i \in 1..(N - 1 + z - m) : s[i] = t[i + m]
  <2>1. CASE m = 1
    <3>1. s = Tail(t)  BY <1>4, <2>1 DEF Unmarked
    <3>2. Len(t) \in Nat /\ Len(t) >= 2  BY <1>1, <1>3
    <3>3. Tail(t) \in Seq(Atoms) /\ Len(Tail(t)) = Len(t) - 1 /\ \A i \in 1..(Len(t) - 1) : Tail(t)[i] = t[i + 1]
      BY <1>3, <3>2
    <3> QED  BY <1>1, <1>3, <2>1, <3>1, <3>3
  <2>2. CASE m = 0
    <3>1. s = t  BY <1>4, <2>2 DEF Unmarked
    <3> QED  BY <1>1, <1>3, <2>2, <3>1
  <2> QED  BY <1>2, <2>1, <2>2
<1> HIDE DEF s
<1>6. Colon(s) = N - 1 - m
  <2>1. N - 1 - m \in 1..Len(s)  BY <1>1, <1>2, <1>5
  <2>2. s[N - 1 - m] = ":"
    <3>1. s[N - 1 - m] = t[N - 1 - m + m] /\ N - 1 - m + m = N - 1 /\ N - 1 \in 1..(N - 1)
      BY <1>1, <1>2, <1>5, <2>1
    <3> QED  BY <1>2, <1>3, <3>1
  <2>3. \A i \in 1..(N - 1 - m - 1) : s[i] # ":"
    <3> TAKE i \in 1..(N - 1 - m - 1)
    <3>1. i \in 1..(N - 1 + z - m) /\ i + m \in 1..(N - 1) /\ i + m \in (m + 1)..(N - 2)  BY <1>1, <1>2
    <3>2. s[i] = t[i + m] /\ t[i + m] = txt[i + m]  BY <1>3, <1>5, <3>1
    <3> QED  BY <1>2, <3>1, <3>2
  <2> QED  BY <1>5, <2>1, <2>2, <2>3, ColonIs
<1>7. Rest(s, N - 1 - m) = lit
  <2> DEFINE a == N - 1 - m
             r == SubSeq(s, a + 1, Len(s))
  <2>1. a \in Nat /\ Len(s) = a + z
    <3> HIDE DEF N, z
    <3> QED  BY <1>1, <1>2, <1>5
  <2>2. \A j \in 1..z : s[a + j] = lit[j]
    <3> TAKE j \in 1..z
    <3>1. a + j \in 1..(N - 1 + z - m) /\ a + j + m = N - 1 + j  BY <1>1, <1>2
    <3>2. s[a + j] = t[a + j + m]  BY <1>5, <3>1
    <3> QED  BY <1>3, <3>1, <3>2
  <2> HIDE DEF a
  <2>3. r \in Seq(Atoms) /\ Len(r) = z /\ \A j \in 1..z : r[j] = s[a + j]
    <3>1. a < Len(s) /\ Len(s) - a = z  BY <1>1, <2>1
    <3> QED  BY <1>5, <2>1, <3>1, TailIs
  <2> HIDE DEF r
  <2>4. r = lit  BY <2>2, <2>3, SameSeq
  <2> QED  BY <2>4 DEF Rest, r, a
<1>8. Colon(t) # Len(t)
  <2>1. t # <<>> /\ t[Len(t)] = Quote  BY <1>1, <1>3
  <2>2. Quote # ":"  BY DEF Quote
  <2> QED  BY <1>3, <2>1, <2>2, NoColonAtEnd
<1> QED  BY <1>3, <1>5, <1>6, <1>7, <1>8 DEF s, t

\* A literal is no fold and no loop.
LEMMA LiteralNoFold ==
  ASSUME NEW lit \in Seq(Atoms), Len(lit) >= 2, lit[1] = Quote
  PROVE  ~IsFold(lit) /\ FieldText(lit) = lit /\ lit[1] # "from"
<1>1. Quote # "scan" /\ Quote # "from"  BY DEF Quote
<1>2. SubSeq(lit, 1, 2)[1] = lit[1]  OBVIOUS
<1>3. <<"scan", "(">>[1] = "scan"  OBVIOUS
<1>4. ~IsFold(lit)  BY <1>1, <1>2, <1>3 DEF IsFold
<1> QED  BY <1>1, <1>4 DEF FieldText

\* A block scalar is read as a field with the text under its key.
LEMMA ScalarRead ==
  ASSUME doc \in Seq(RawLine), NEW i \in 1..Len(doc), IsScalarKey(doc[i].txt),
         NEW ls, ls[1] = ScalarLine(doc, i), ParseRecordFieldLine(ls).ok
  PROVE  LET f == ParseRecordFieldLine(ls)
         IN  f.line = i /\ f.e = Node("str", LinesJoined(ScalarContent(i)), <<>>)
<1> DEFINE l == ls[1]
           content == ScalarContent(i)
           lit == Literal(content)
           s == Unmarked(l.txt)
           f == ParseRecordFieldLine(ls)
<1>1. doc[i] \in RawLine /\ doc[i].txt \in Seq(Atoms)
  <2>1. doc[i] \in RawLine  OBVIOUS
  <2> QED  BY <2>1 DEF RawLine, Atoms
<1>2. content \in Texts  BY ContentIs
<1> HIDE DEF content
<1>3. lit \in Seq(Atoms) /\ Len(lit) >= 2 /\ lit[1] = Quote /\ lit[Len(lit)] = Quote  BY <1>2, LiteralEnds
<1>4. l.line = i /\ l.txt = Front(doc[i].txt) \o lit  BY DEF ScalarLine, ScalarContent, content
<1>5. ParseExpr(lit).e = Node("str", LinesJoined(content), <<>>)  BY <1>2, LiteralParses
<1> HIDE DEF lit
<1>6. Colon(l.txt) # Len(l.txt) /\ Rest(s, Colon(s)) = lit  BY <1>1, <1>3, <1>4, ScalarTextIs
<1> HIDE DEF l
<1>7. f = ParseFieldLine(l)
  <2>1. ~IsGeomField(ls)  BY <1>6 DEF IsGeomField, l
  <2>2. f = ParseFieldLines(<<l>>)[1]  BY <2>1 DEF ParseRecordFieldLine, RecordField, l
  <2>3. DOMAIN <<l>> = {1} /\ <<l>>[1] = l  OBVIOUS
  <2> QED  BY <2>2, <2>3 DEF ParseFieldLines
<1>8. ParseFieldLine(l) = Field(l, s, SubSeq(s, 1, Colon(s) - 1), lit, ParseExpr(lit))
  <2>1. ParseFieldLine(l) = Field(l, s, SubSeq(s, 1, Colon(s) - 1), Rest(s, Colon(s)), ParseExpr(FieldText(Rest(s, Colon(s)))))
    BY DEF ParseFieldLine, Unmarked, Marked
  <2> QED  BY <1>3, <1>6, <2>1, LiteralNoFold
<1>9. f.line = l.line /\ f.e = ParseExpr(lit).e
  <2>1. NoField.ok = FALSE  BY DEF NoField
  <2>2. ~IsFold(lit)  BY <1>3, LiteralNoFold
  <2> DEFINE nm == SubSeq(s, 1, Colon(s) - 1)
             pe == ParseExpr(lit)
             g == Field(l, s, nm, lit, pe)
  <2>3. g.ok  BY <1>7, <1>8
  <2> HIDE DEF nm, pe, s
  <2>4. g.line = l.line /\ g.e = pe.e  BY <2>1, <2>2, <2>3 DEF Field, NoField
  <2> QED  BY <1>7, <1>8, <2>4 DEF pe, nm
<1> QED  BY <1>4, <1>5, <1>9 DEF content

(***************************************************************************)
(* Every logical line stands for the physical line it began on.            *)
(***************************************************************************)
StandsFor(l) ==
  l.line \in DOMAIN doc /\ (IsScalarKey(doc[l.line].txt) => l = ScalarLine(doc, l.line))
AllStand == \A n \in DOMAIN lines : StandsFor(lines[n])
KeyInv ==
  /\ AllStand
  /\ stage = "scan" /\ ~Fresh => pend.line \in DOMAIN doc /\ ~IsScalarKey(doc[pend.line].txt)

\* At the start no line is read.
LEMMA BeginKeys == ReaderInit => KeyInv
<1> SUFFICES ASSUME ReaderInit
             PROVE  KeyInv
  OBVIOUS
<1>1. lines = <<>> /\ pend = NoLine  BY DEF ReaderInit, ScanInit
<1>2. DOMAIN <<>> = {}  OBVIOUS
<1>3. Fresh  BY <1>1 DEF Fresh, NoLine
<1> QED  BY <1>1, <1>2, <1>3 DEF KeyInv, AllStand

\* scanBlockScalar: a key makes its line, and no other line begins on a key.
LEMMA ScanKeepsKeys ==
  ASSUME IInv, KeyInv, ScanScalar \/ ScanRaw \/ ScanEnd
  PROVE  KeyInv'
<1>0. ScanStands /\ stage = "scan" /\ doc' = doc
  BY DEF IInv, ScanScalar, ScanRaw, ScanEnd
<1>1. doc \in Seq(RawLine) /\ Len(doc) \in Nat /\ DOMAIN doc = 1..Len(doc)
  BY <1>0, ReaderAssumption DEF ScanStands, RawLine
<1>2. (\A n \in DOMAIN lines' : StandsFor(lines'[n])) => AllStand'  BY <1>0 DEF StandsFor, AllStand
<1>3. at \in Nat \ {0} /\ IsSeq(lines)  BY <1>0 DEF ScanStands, LinesStand
<1>4. ASSUME NEW l, StandsFor(l), lines' = Append(lines, l)
      PROVE  AllStand'
  <2>1. /\ Len(lines) \in Nat /\ DOMAIN lines = 1..Len(lines)
        /\ DOMAIN lines' = 1..(Len(lines) + 1)
        /\ \A i \in DOMAIN lines : lines'[i] = lines[i]
        /\ lines'[Len(lines) + 1] = l
    BY <1>3, <1>4, SeqIs, AppendSeq
  <2>2. \A n \in DOMAIN lines' : n \in DOMAIN lines \/ n = Len(lines) + 1  BY <2>1
  <2>3. \A n \in DOMAIN lines' : StandsFor(lines'[n])
    <3> TAKE n \in DOMAIN lines'
    <3>1. CASE n \in DOMAIN lines  BY <2>1, <3>1 DEF KeyInv, AllStand
    <3>2. CASE n = Len(lines) + 1  BY <1>4, <2>1, <3>2
    <3> QED  BY <2>2, <3>1, <3>2
  <2> QED  BY <1>2, <2>3
<1>5. CASE ScanScalar
  <2>1. /\ at \in DOMAIN doc /\ Fresh /\ lines' = Append(lines, ScalarLine(doc, at))
        /\ UNCHANGED <<stage, pend>>
    BY <1>1, <1>3, <1>5 DEF ScanScalar
  <2>2. ScalarLine(doc, at).line = at  BY DEF ScalarLine
  <2>3. StandsFor(ScalarLine(doc, at))  BY <2>1, <2>2 DEF StandsFor
  <2>4. AllStand'  BY <1>4, <2>1, <2>3
  <2>5. Fresh'  BY <2>1 DEF Fresh
  <2> QED  BY <2>4, <2>5 DEF KeyInv
<1>6. CASE ScanRaw
  <2>1. /\ at \in DOMAIN doc /\ ~(Fresh /\ IsScalarKey(doc[at].txt)) /\ stage' = stage
    BY <1>1, <1>3, <1>6 DEF ScanRaw
  <2>2. Joined.line \in DOMAIN doc /\ ~IsScalarKey(doc[Joined.line].txt)
    <3>1. "line" \in DOMAIN pend  BY <1>0 DEF ScanStands, NoLine
    <3>2. CASE Fresh
      <4>1. Joined.line = at  BY <3>1, <3>2 DEF Joined, Fresh
      <4> QED  BY <2>1, <3>2, <4>1
    <3>3. CASE ~Fresh
      <4>1. Joined.line = pend.line  BY <3>1, <3>3 DEF Joined, Fresh
      <4> QED  BY <1>0, <3>3, <4>1 DEF KeyInv
    <3> QED  BY <3>2, <3>3
  <2>3. CASE lines' = Append(lines, Logical(Joined)) /\ pend' = NoLine
    <3>1. Logical(Joined).line = Joined.line  BY DEF Logical
    <3>2. StandsFor(Logical(Joined))  BY <2>2, <3>1 DEF StandsFor
    <3>3. Fresh'  BY <2>3 DEF Fresh, NoLine
    <3>4. AllStand'  BY <1>4, <2>3, <3>2
    <3> QED  BY <3>3, <3>4 DEF KeyInv
  <2>4. CASE pend' = Joined /\ lines' = lines
    <3>1. AllStand'  BY <1>2, <2>4 DEF KeyInv, AllStand
    <3>2. pend'.line \in DOMAIN doc' /\ ~IsScalarKey(doc'[pend'.line].txt)  BY <1>0, <2>2, <2>4
    <3> QED  BY <3>1, <3>2 DEF KeyInv
  <2> QED  BY <1>6, <2>3, <2>4 DEF ScanRaw
<1>7. CASE ScanEnd
  <2>1. stage' # "scan" /\ lines' = lines  BY <1>7 DEF ScanEnd
  <2> QED  BY <1>2, <2>1 DEF KeyInv, AllStand
<1> QED  BY <1>5, <1>6, <1>7

(***************************************************************************)
(* Every field read so far is read from a line.                            *)
(***************************************************************************)
StmtFields(s) == IF s.k = "sceneDef" THEN FieldsIn(s.body) ELSE FieldsOf(s)
TreeFields == UNION {StmtFields(s) : s \in Range(tree)}
FieldInv == \A f \in FieldsIn(Ended(p)) \cup TreeFields : FromLine(f)

\* Nothing read, no field.
LEMMA NoFields == FieldsIn(<<>>) = {} /\ FieldsIn(Ended(Empty)) = {}
<1>1. FieldsIn(<<>>) = {}  BY EmptyIsSeq DEF FieldsIn
<1> QED  BY <1>1, NothingRead

\* Nothing held, no field.
LEMMA NothingHeld ==
  ASSUME p = Empty, tree = <<>>
  PROVE  FieldInv
<1>1. FieldsIn(Ended(p)) = {}  BY NoFields
<1>2. TreeFields = {}  BY EmptyIsSeq DEF TreeFields
<1> QED  BY <1>1, <1>2 DEF FieldInv

\* The fields of a part are those of its statements.
LEMMA PartKeepsFields ==
  ASSUME IInv, FieldInv, EndPart
  PROVE  FieldInv'
<1> DEFINE stmts == Ended(p)
           sd == [k |-> "sceneDef", line |-> def, body |-> stmts]
           new == IF def = 0 THEN stmts ELSE <<sd>>
<1>1. /\ stage = "parse" /\ tree' = tree \o new /\ p' = Empty /\ lines' = lines
  BY DEF EndPart, Ended
<1>2. Layout(stmts) /\ IsSeq(stmts) /\ IsSeq(tree)
  BY <1>1 DEF IInv, PartStands, Layout, TreeStands
<1>3. \A f : FromLine(f) => FromLine(f)'  BY <1>1 DEF FromLine
<1>4. IsSeq(new) /\ UNION {StmtFields(s) : s \in Range(new)} = FieldsIn(stmts)
  <2> HIDE DEF stmts
  <2>1. CASE def = 0
    <3>1. \A s \in Range(stmts) : StmtFields(s) = FieldsOf(s)  BY <1>2 DEF Layout, WellRead, StmtFields
    <3> QED  BY <1>2, <2>1, <3>1 DEF FieldsIn
  <2>2. CASE def # 0
    <3>1. sd.k = "sceneDef" /\ sd.body = stmts  OBVIOUS
    <3> HIDE DEF sd
    <3>2. IsSeq(<<sd>>) /\ Range(<<sd>>) = {sd}  BY EmptyIsSeq, OneSeq
    <3>3. StmtFields(sd) = FieldsIn(stmts)  BY <3>1 DEF StmtFields
    <3> QED  BY <2>2, <3>2, <3>3
  <2> QED  BY <2>1, <2>2
<1> HIDE DEF new, stmts
<1>5. Range(tree') = Range(tree) \cup Range(new)  BY <1>1, <1>2, <1>4, ConcatSeq
<1>6. TreeFields' = TreeFields \cup FieldsIn(stmts)  BY <1>4, <1>5 DEF TreeFields
<1>7. FieldsIn(Ended(p))' = {}  BY <1>1, NoFields
<1> QED  BY <1>3, <1>6, <1>7 DEF FieldInv, stmts

\* What a step takes, it takes from the lines at hand.
LEMMA TookKeepsFields ==
  ASSUME FieldInv, Took
  PROVE  FieldInv'
<1>1. lines' = lines /\ tree' = tree  BY DEF Took
<1>2. \A f : FromLine(f) => FromLine(f)'  BY <1>1 DEF FromLine
<1>3. TreeFields' = TreeFields  BY <1>1 DEF TreeFields
<1>4. \A f \in FieldsIn(Ended(p')) : FromLine(f)  BY DEF Took, FieldInv
<1> QED  BY <1>2, <1>3, <1>4 DEF FieldInv

\* Every step of the parser takes fields from lines only.
LEMMA ReadingKeepsFields ==
  ASSUME IInv, FieldInv, Parsing
  PROVE  FieldInv'
<1>1. CASE EndPart  BY <1>1, PartKeepsFields
<1>2. ASSUME Took \/ Reject
      PROVE  FieldInv'
  <2>1. CASE Took  BY <2>1, TookKeepsFields
  <2>2. CASE Reject
    <3>1. lines' = lines /\ tree' = tree /\ p' = p  BY <2>2 DEF Reject
    <3> QED  BY <3>1 DEF FieldInv, TreeFields, FromLine
  <2> QED  BY <1>2, <2>1, <2>2
<1>3. CASE BlankLine  BY <1>2, <1>3, BlankLineTook
<1>4. CASE FamilyHeadLine  BY <1>2, <1>4, FamilyHeadLineTook
<1>5. CASE FamilyFieldLine  BY <1>2, <1>5, FamilyFieldLineTook
<1>6. CASE FieldLine  BY <1>2, <1>6, FieldLineTook
<1>7. CASE BarLine  BY <1>2, <1>7, BarLineTook
<1>8. CASE TopLine  BY <1>2, <1>8, TopLineTook
<1> QED  BY <1>1, <1>3, <1>4, <1>5, <1>6, <1>7, <1>8 DEF Parsing

(***************************************************************************)
(* The invariant of the text.                                              *)
(***************************************************************************)
TextIInv == IInv /\ TextInv /\ KeyInv /\ FieldInv

\* The invariant holds at the start.
LEMMA BeginAll == ReaderInit => TextIInv
<1>1. ReaderInit => p = Empty /\ tree = <<>>  BY DEF ReaderInit
<1> QED  BY <1>1, InitIInv, BeginText, BeginKeys, NothingHeld DEF TextIInv

\* Every step keeps it.
LEMMA StepKeepsAll ==
  ASSUME TextIInv, [Scanning \/ Parsing \/ Stop]_vars
  PROVE  TextIInv'
<1>1. IInv /\ TextInv /\ KeyInv /\ FieldInv  BY DEF TextIInv
<1>2. TextInv'  BY <1>1, ReadTextKept
<1>3. CASE Scanning
  <2>1. IInv'  BY <1>1, <1>3, ScanningKeeps
  <2>2. KeyInv'  BY <1>1, <1>3, ScanKeepsKeys DEF Scanning
  <2>3. stage = "scan" /\ p' = p /\ tree' = tree  BY <1>3 DEF Scanning, ScanScalar, ScanRaw, ScanEnd
  <2>4. p = Empty /\ tree = <<>>  BY <1>1, <2>3 DEF IInv
  <2>5. FieldInv'
    <3>1. FieldsIn(Ended(p))' = {}  BY <2>3, <2>4, NoFields
    <3>2. TreeFields' = {}  BY <2>3, <2>4, EmptyIsSeq DEF TreeFields
    <3> QED  BY <3>1, <3>2 DEF FieldInv
  <2> QED  BY <1>2, <2>1, <2>2, <2>5 DEF TextIInv
<1>4. CASE Parsing
  <2>1. IInv'  BY <1>1, <1>4, ParsingKeeps
  <2>2. UNCHANGED <<doc, lines>> /\ stage' # "scan"
    BY <1>4 DEF Parsing, BlankLine, FamilyHeadLine, FamilyFieldLine, FieldLine, BarLine, TopLine, EndPart,
                Reading, Accept, Reject, AddField, TakeBar, AddStmt, AddNamed
  <2>3. KeyInv'  BY <1>1, <2>2 DEF KeyInv, AllStand, StandsFor
  <2>4. FieldInv'  BY <1>1, <1>4, ReadingKeepsFields
  <2> QED  BY <1>2, <2>1, <2>3, <2>4 DEF TextIInv
<1>5. CASE Stop \/ UNCHANGED vars
  <2>1. UNCHANGED vars  BY <1>5 DEF Stop
  <2>2. IInv'  BY <1>1, <2>1, SameKeeps
  <2>3. UNCHANGED <<doc, stage, lines, pend, tree, p>>  BY <2>1 DEF vars
  <2>4. KeyInv'  BY <1>1, <2>3 DEF KeyInv, AllStand, StandsFor, Fresh
  <2>5. FieldInv'  BY <1>1, <2>3 DEF FieldInv, TreeFields, FromLine
  <2> QED  BY <1>2, <2>2, <2>4, <2>5 DEF TextIInv
<1> QED  BY <1>3, <1>4, <1>5

\* A field that is read begins on its first line.
LEMMA FieldLineIs ==
  ASSUME NEW ls, ParseRecordFieldLine(ls).ok
  PROVE  ParseRecordFieldLine(ls).line = ls[1].line
<1>1. CASE IsGeomField(ls)
  <2> DEFINE fs == ParseFieldLines(Deeper(Rest(ls, 2), ls[2]))
  <2>1. ParseRecordFieldLine(ls) = GeomField(ls[1], ls[2], fs)
    BY <1>1 DEF ParseRecordFieldLine, RecordField
  <2> HIDE DEF fs
  <2>2. NoField.ok = FALSE  BY DEF NoField
  <2>3. GeomField(ls[1], ls[2], fs).ok => GeomField(ls[1], ls[2], fs).line = ls[1].line
    BY <2>2 DEF GeomField, NoField
  <2> QED  BY <2>1, <2>3
<1>2. CASE ~IsGeomField(ls)
  <2>1. ParseRecordFieldLine(ls) = ParseFieldLines(<<ls[1]>>)[1]
    BY <1>2 DEF ParseRecordFieldLine, RecordField
  <2>2. DOMAIN <<ls[1]>> = {1} /\ <<ls[1]>>[1] = ls[1]  OBVIOUS
  <2>3. ParseRecordFieldLine(ls) = ParseFieldLine(ls[1])  BY <2>1, <2>2 DEF ParseFieldLines
  <2> QED  BY <2>3, ParsedLine
<1> QED  BY <1>1, <1>2

\* The fields of the records of a score are those the invariant speaks of.
LEMMA RecordFieldsHeld ==
  ASSUME TreeStands, NEW r \in Records
  PROVE  Range(r.fields) \subseteq TreeFields
<1>1. ASSUME NEW s \in Statements, s.k # "sceneDef"
      PROVE  FieldsOf(s) \subseteq TreeFields
  <2>1. PICK i \in DOMAIN tree :
          s = tree[i] \/ (tree[i].k = "sceneDef" /\ s \in Range(tree[i].body))
    BY StatementsRead
  <2>2. tree[i] \in Range(tree)  BY DEF Range
  <2>3. FieldsOf(s) \subseteq StmtFields(tree[i])  BY <1>1, <2>1 DEF StmtFields, FieldsIn
  <2> QED  BY <2>2, <2>3 DEF TreeFields
<1>2. CASE r \in Statements /\ r.k = "record"
  <2>1. FieldsOf(r) = Range(r.fields)  BY <1>2 DEF FieldsOf
  <2> QED  BY <1>1, <1>2, <2>1
<1>3. CASE ~(r \in Statements /\ r.k = "record")
  <2>1. PICK s \in Statements : s.k = "family" /\ r \in Range(s.members)  BY <1>3 DEF Records
  <2>2. Range(r.fields) \subseteq FieldsOf(s)  BY <2>1 DEF FieldsOf
  <2> QED  BY <1>1, <2>1, <2>2
<1> QED  BY <1>2, <1>3

\* A field on a key is the text under it.
LEMMA ScalarsAre ==
  ASSUME TextIInv, NEW r \in Records, NEW f \in Range(r.fields), IsScalarKey(doc[f.line].txt)
  PROVE  f.e = Node("str", LinesJoined(ScalarContent(f.line)), <<>>)
<1>1. IInv /\ KeyInv /\ FieldInv /\ TreeStands /\ ScanStands  BY DEF TextIInv, IInv
<1>2. f \in TreeFields  BY <1>1, RecordFieldsHeld
<1>3. PICK n \in DOMAIN lines : f.ok /\ f = ParseRecordFieldLine(Rest(lines, n - 1))
  BY <1>1, <1>2 DEF FieldInv, FromLine
<1> DEFINE ls == Rest(lines, n - 1)
<1>4. ls[1] = lines[n]
  <2>1. IsSeq(lines) /\ Len(lines) \in Nat /\ n \in 1..Len(lines)  BY <1>1, SeqIs DEF ScanStands, LinesStand
  <2>2. n - 1 \in 0..Len(lines) /\ 1 \in 1..(Len(lines) - (n - 1)) /\ (n - 1) + 1 = n  BY <2>1
  <2>3. ls[1] = lines[(n - 1) + 1]  BY <2>1, <2>2, RestIs
  <2> QED  BY <2>2, <2>3
<1> HIDE DEF ls
<1>5. f.line = lines[n].line  BY <1>3, <1>4, FieldLineIs DEF ls
<1>6. f.line \in DOMAIN doc /\ lines[n] = ScalarLine(doc, f.line)
  BY <1>1, <1>5 DEF KeyInv, AllStand, StandsFor
<1>7. doc \in Seq(RawLine) /\ DOMAIN doc = 1..Len(doc)
  BY <1>1, ReaderAssumption DEF ScanStands, RawLine
<1> QED  BY <1>3, <1>4, <1>6, <1>7, ScalarRead DEF ls

\* scan.go, ScanSource: joining lines keeps what is in the literals as it
\* stands, line breaks, indents and blanks included, those blanks apart that
\* end the line a literal opens on (the TrimRight of a fresh line); outside
\* the literals only comments, spaces and line breaks go. And parse.go reads
\* the literal that scanBlockScalar writes as the lines below the key, whatever
\* characters they hold.
THEOREM TextIsKept == ReaderSpec => []TextKept
<1>1. TextIInv => TextKept
  <2> SUFFICES ASSUME TextIInv
               PROVE  TextKept
    OBVIOUS
  <2>1. stage = "parse" /\ Plain => Content(TextOf(lines)) = Content(KeptOf(doc))
    BY DEF TextIInv, TextInv, ScanText
  <2>2. ScalarsVerbatim  BY ScalarsAre DEF ScalarsVerbatim, ScalarContent
  <2> QED  BY <2>1, <2>2 DEF TextKept
<1>2. ReaderInit => TextIInv  BY BeginAll
<1>3. TextIInv /\ [Scanning \/ Parsing \/ Stop]_vars => TextIInv'  BY StepKeepsAll
<1> QED  BY <1>1, <1>2, <1>3, PTL DEF ReaderSpec
=============================================================================
