----------------------------- MODULE Broadcast -----------------------------
(***************************************************************************)
(* How a row over [*] becomes one animation per element: expandArrow,      *)
(* expandRowVariants, expandExprStars and expandSeq of                     *)
(* internal/pdtt/compile.go. An expression with stars stands for its       *)
(* variants, one for each choice of an element for every star; a variant   *)
(* has the elements' keys as indexes and binds what was chosen: i, j, k, l *)
(* for the first four stars, it for all of them and the name of [* as n].  *)
(***************************************************************************)
EXTENDS Expressions, Integers

CONSTANT Keys   \* the keys of each group's elements; 0, 1, ... but for families

NoBinds == [chosen |-> <<>>, it |-> <<>>, named |-> <<>>]
Letters(b) == SubSeq(b.chosen, 1, Min({4, Len(b.chosen)}))

\* starChoices: a group's or a list's elements; any other value is one entity.
StarChoices(base) ==
  CASE base.k = "id" -> Keys[base.s[1]]
    [] base.k = "list" -> [n \in DOMAIN base.xs |-> n - 1]
    [] OTHER -> <<0>>

Chosen(b, key, pos, name) ==
  [chosen |-> Append(b.chosen, key), it |-> Append(b.it, pos),
   named |-> IF name = <<>> THEN b.named
             ELSE SelectSeq(b.named, LAMBDA n : n.name # name) \o <<[name |-> name, key |-> key]>>]

\* The operands in the order they are expanded: a condition comes first.
Operands(e) == IF e.k = "cond" THEN <<e.xs[2], e.xs[1], e.xs[3]>> ELSE e.xs
Rebuilt(e, es) ==
  [e EXCEPT !.xs = IF e.k = "cond" THEN <<es[2], es[1], es[3]>> ELSE es]
Each(vs, Of(_)) == FlattenSeq([n \in DOMAIN vs |-> Of(vs[n])])

Extended(es, vs) == [n \in DOMAIN vs |-> [es |-> Append(es, vs[n].e), b |-> vs[n].b]]

RECURSIVE ExpandExprStars(_, _)
\* Mutant: every operand starts from the same bindings.
ExpandSeqApart(es, binds) ==
  LET Extend(acc, e) == Each(acc, LAMBDA v : Extended(v.es, ExpandExprStars(e, binds)))
  IN  FoldLeft(Extend, <<[es |-> <<>>, b |-> binds]>>, es)

\* Each operand is expanded under the bindings of the ones before it.
ExpandSeq(es, binds) ==
  LET Extend(acc, e) == Each(acc, LAMBDA v : Extended(v.es, ExpandExprStars(e, v.b)))
  IN  FoldLeft(Extend, <<[es |-> <<>>, b |-> binds]>>, es)

FanOut(x, name) ==
  LET keys == StarChoices(x.e)
  IN  [n \in DOMAIN keys |->
         [e |-> Node("index", <<>>, <<x.e, Node("num", <<ToString(keys[n])>>, <<>>)>>),
          b |-> Chosen(x.b, keys[n], n - 1, name)]]

ExpandExprStars(e, binds) ==
  IF e.k = "star" THEN Each(ExpandExprStars(e.xs[1], binds), LAMBDA x : FanOut(x, e.s))
  ELSE Each(ExpandSeq(Operands(e), binds), LAMBDA v : <<[e |-> Rebuilt(e, v.es), b |-> v.b]>>)

\* expandRowVariants: the left side's bindings hold in the right side.
ExpandRowVariants(lhs, rhs) ==
  LET Sides(l, rs) == [n \in DOMAIN rs |-> [lhs |-> l, rhs |-> rs[n].e, b |-> rs[n].b]]
  IN  Each(ExpandExprStars(lhs, NoBinds), LAMBDA l : Sides(l.e, ExpandExprStars(rhs, l.b)))

\* expandArrow with checkRowTargetConflicts: an animation for each variant,
\* staggered by its number, unless two of them write the same target.
Clash(vs) == \E m, n \in DOMAIN vs : m # n /\ vs[m].lhs = vs[n].lhs
Staggered(vs, stagger) ==
  [ok |-> ~Clash(vs),
   anims |-> IF Clash(vs) THEN <<>>
             ELSE [n \in DOMAIN vs |-> [target |-> vs[n].lhs, goal |-> vs[n].rhs, b |-> vs[n].b,
                                        from |-> (n - 1) * stagger]]]
ExpandArrow(lhs, rhs, stagger) == Staggered(ExpandRowVariants(lhs, rhs), stagger)
=============================================================================
