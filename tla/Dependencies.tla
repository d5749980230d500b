---------------------------- MODULE Dependencies ----------------------------
(***************************************************************************)
(* What an expression reads: exprDeps of internal/pdtt/expr.go.            *)
(***************************************************************************)
EXTENDS Expressions

\* exprDeps: the names and name.field paths a live expression reads. What is
\* under a snapshot was read when it was taken and is no dependency.
RECURSIVE Deps(_)
\* Mutant: what a snapshot reads is followed as well.
DepsThroughSnapshots(e) ==
  CASE e.k = "id" -> {e.s}
    [] e.k = "attr" /\ e.xs[1].k = "id" -> {e.xs[1].s \o e.s}
    [] OTHER -> UNION {Deps(e.xs[i]) : i \in DOMAIN e.xs}

Deps(e) ==
  CASE e.k = "id" -> {e.s}
    [] e.k = "attr" /\ e.xs[1].k = "id" -> {e.xs[1].s \o e.s}
    [] e.k = "snapshot" -> {}
    [] e.k = "fold" -> Deps(e.xs[1]) \cup {e.s}
    [] OTHER -> UNION {Deps(e.xs[i]) : i \in DOMAIN e.xs}
=============================================================================
