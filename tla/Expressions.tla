---------------------------- MODULE Expressions ----------------------------
(***************************************************************************)
(* The expressions of a score: lexer, precedence parser and dependencies   *)
(* of internal/pdtt/expr.go.                                               *)
(*                                                                         *)
(* Source text is a sequence of atoms: a word (a whole identifier), one    *)
(* digit, one space, or one other character. Two neighbouring words stand  *)
(* for two identifiers with a space between them. A syntax tree is a       *)
(* record of its kind k, its own text s and its operands xs.               *)
(***************************************************************************)
EXTENDS Naturals, FiniteSetsExt, SequencesExt, TLC

CONSTANT Word   \* the identifiers, keywords included

Digit == {"0", "1", "2"}
Quote == "\""
Backslash == "\\"
NewLine == "newline"
Space == " "

(***************************************************************************)
(* Lexer (lexExpr). A token is [k, s]: number, string, identifier or       *)
(* operator, and its text; a string's text is what it denotes.             *)
(***************************************************************************)
Tok(k, s) == [k |-> k, s |-> s]
At(s, i, atoms) == i \in DOMAIN s /\ s[i] \in atoms

\* tokenEndsValue: after a value, a dot before a digit is an attribute.
TokenEndsValue(ts) ==
  ts # <<>> /\ (Last(ts).k # "op" \/ Last(ts).s \in {<<")">>, <<"]">>})

\* The first position a number that begins at i does not reach: digits with
\* at most one dot, which a digit has to follow.
NumberEnd(src, i) ==
  LET InNumber(j) == \/ At(src, j, Digit)
                     \/ /\ At(src, j, {"."}) /\ At(src, j + 1, Digit)
                        /\ \A d \in i..(j - 1) : src[d] # "."
  IN  Min({j \in (i + 1)..(Len(src) + 1) : ~InNumber(j)})

\* Escapes a string literal knows; any other backslash stands for itself.
Escapes == [c \in {Quote, Backslash, "n", "t", "r"} |->
              CASE c = "n" -> NewLine [] c = "t" -> "tab" [] c = "r" -> "return" [] OTHER -> c]

\* The literal whose opening quote is before j: what it denotes and where the
\* text goes on; not closed when the text ends first.
StringFrom(src, j) ==
  LET Said(s, c, to) == [s EXCEPT !.said = Append(@, c), !.next = to]
      Take(s, k) ==
        IF s.closed \/ k < s.next THEN s
        ELSE IF src[k] = Quote THEN [s EXCEPT !.closed = TRUE, !.next = k + 1]
        ELSE IF src[k] = Backslash /\ At(src, k + 1, DOMAIN Escapes)
             THEN Said(s, Escapes[src[k + 1]], k + 2)
        ELSE Said(s, src[k], k + 1)
  IN  FoldLeft(Take, [closed |-> FALSE, said |-> <<>>, next |-> j],
               [n \in 1..(Len(src) - j + 1) |-> j + n - 1])

TwoAtomOps == {<<".", ".">>, <<"=", "=">>, <<"!", "=">>, <<"<", "=">>, <<">", "=">>}
OneAtomOps == {"+", "-", "*", "/", "%", "(", ")", "[", "]", "{", "}", ",", ".",
               "@", "<", ">", "?", ":"}

LexExpr(src) ==
  LET Token(s, k, text, to) == [s EXCEPT !.ts = Append(@, Tok(k, text)), !.next = to]
      Take(s, i) ==
        LET c == src[i]
            two == SubSeq(src, i, Min({i + 1, Len(src)}))
            lit == StringFrom(src, i + 1)
            To(k, to) == Token(s, k, SubSeq(src, i, to - 1), to)
        IN  IF ~s.ok \/ i < s.next THEN s
            ELSE IF c = Space THEN [s EXCEPT !.next = i + 1]
            ELSE IF c = "." /\ At(src, i + 1, Digit) /\ TokenEndsValue(s.ts) THEN To("op", i + 1)
            ELSE IF c \in Digit \/ (c = "." /\ At(src, i + 1, Digit)) THEN To("num", NumberEnd(src, i))
            ELSE IF c = Quote /\ lit.closed THEN Token(s, "str", lit.said, lit.next)
            ELSE IF c \in Word THEN To("id", i + 1)
            ELSE IF two \in TwoAtomOps THEN To("op", i + 2)
            ELSE IF c \in OneAtomOps THEN To("op", i + 1)
            ELSE [s EXCEPT !.ok = FALSE]
  IN  FoldLeft(Take, [ok |-> TRUE, ts |-> <<>>, next |-> 1], [i \in DOMAIN src |-> i])

(***************************************************************************)
(* Parser (exprParser). A result is the tree and the position after it.    *)
(* Position 0 is a syntax error: no caller recovers from one, and what is  *)
(* read from there on fails too.                                           *)
(***************************************************************************)
Node(k, s, xs) == [k |-> k, s |-> s, xs |-> xs]
Fail == [e |-> Node("none", <<>>, <<>>), next |-> 0]
Read(e, next) == IF next = 0 THEN Fail ELSE [e |-> e, next |-> next]

IsKind(ts, i, kinds) == i \in DOMAIN ts /\ ts[i].k \in kinds
IsOp(ts, i, op) == IsKind(ts, i, {"op"}) /\ ts[i].s = <<op>>
IsWord(ts, i, word) == IsKind(ts, i, {"id"}) /\ ts[i].s = <<word>>
After(ts, i, op) == IF IsOp(ts, i, op) THEN i + 1 ELSE 0
AfterWord(ts, i, word) == IF IsWord(ts, i, word) THEN i + 1 ELSE 0

\* The rules of the grammar: P[<<rule, i>>] reads what the rule stands for from
\* token i on. An operator's rule names the one of its operands.
Tighter == [cmp |-> "add", add |-> "mul", mul |-> "unary"]
Operators == [cmp |-> {<<"=", "=">>, <<"!", "=">>, <<"<", "=">>, <<">", "=">>, <<"<">>, <<">">>},
              add |-> {<<"+">>, <<"-">>}, mul |-> {<<"*">>, <<"/">>, <<"%">>}]
Rules == {"cond", "range", "unary"} \cup DOMAIN Operators
Places(ts) == 0..(Len(ts) + 1)

\* After the first value: cond ? then : else, or then if cond else else; both
\* group to the right.
ParseCond(ts, P, first) ==
  LET then == P[<<"cond", After(ts, first.next, "?")>>]
      else == P[<<"cond", After(ts, then.next, ":")>>]
      cond == P[<<"cmp", AfterWord(ts, first.next, "if")>>]
      other == P[<<"cond", AfterWord(ts, cond.next, "else")>>]
  IN  CASE IsOp(ts, first.next, "?") ->
             Read(Node("cond", <<>>, <<then.e, first.e, else.e>>), else.next)
        [] IsWord(ts, first.next, "if") ->
             Read(Node("cond", <<>>, <<first.e, cond.e, other.e>>), other.next)
        [] OTHER -> first

ParseRange(ts, P, first) ==
  LET end == P[<<"cmp", first.next + 1>>]
  IN  IF IsKind(ts, first.next, {"op"}) /\ ts[first.next].s = <<".", ".">>
      THEN Read(Node("range", <<>>, <<first.e, end.e>>), end.next) ELSE first

\* Mutant: operators of one level group to the right.
GroupedRight(left, rights) ==
  LET From[n \in 0..Len(rights)] ==
        LET e == IF n = 0 THEN left ELSE rights[n].e
        IN  IF n = Len(rights) THEN e ELSE Node("bin", rights[n + 1].op, <<e, From[n + 1]>>)
  IN  From[0]

Grouped(left, rights) == FoldLeft(LAMBDA e, r : Node("bin", r.op, <<e, r.e>>), left, rights)

\* parseCmp, parseAdd and parseMul: after the first operand as many operators
\* of the level as follow, each with its operand, grouped to the left.
ParseBinary(ts, P, level, first) ==
  LET Rights[j \in Places(ts)] ==
        LET e == P[<<Tighter[level], j + 1>>]
            more == Rights[e.next]
        IN  IF ~(IsKind(ts, j, {"op"}) /\ ts[j].s \in Operators[level]) THEN Read(<<>>, j)
            ELSE Read(<<[op |-> ts[j].s, e |-> e.e]>> \o more.e, more.next)
      rights == Rights[first.next]
  IN  Read(Grouped(first.e, rights.e), rights.next)

\* Comma-separated expressions up to a closing bracket, the first at i.
List(ts, P, i, close) ==
  LET Items[j \in Places(ts)] ==
        LET e == P[<<"cond", j>>]
            rest == Items[e.next + 1]
        IN  CASE IsOp(ts, e.next, close) -> Read(<<e.e>>, e.next + 1)
              [] IsOp(ts, e.next, ",") -> Read(<<e.e>> \o rest.e, rest.next)
              [] OTHER -> Fail
  IN  IF IsOp(ts, i, close) THEN Read(<<>>, i + 1) ELSE Items[i]

\* name: expr fields up to the closing brace: a constructor without its name.
BraceFields(ts, P, i) ==
  LET Fields[j \in Places(ts)] ==
        LET e == P[<<"cond", IF IsKind(ts, j, {"id"}) THEN After(ts, j + 1, ":") ELSE 0>>]
            rest == Fields[e.next + 1]
        IN  CASE IsOp(ts, e.next, "}") -> Read(Node("geom", ts[j].s, <<e.e>>), e.next + 1)
              [] IsOp(ts, e.next, ",") ->
                   Read(Node("geom", ts[j].s \o rest.e.s, <<e.e>> \o rest.e.xs), rest.next)
              [] OTHER -> Fail
  IN  IF IsOp(ts, i, "}") THEN Read(Node("geom", <<>>, <<>>), i + 1) ELSE Fields[i]

\* [*] or [* as name], after the star.
Star(ts, i) ==
  CASE ~IsWord(ts, i, "as") -> Read(Node("star", <<>>, <<>>), After(ts, i, "]"))
    [] IsWord(ts, i, "as") /\ IsKind(ts, i + 1, {"id"}) ->
         Read(Node("star", ts[i + 1].s, <<>>), After(ts, i + 2, "]"))
    [] OTHER -> Fail

Fractional(s) == \E d, j \in DOMAIN s : d < j /\ s[d] = "." /\ s[j] # "0"

\* One attribute, call, constructor, index or alpha, without the value it is
\* applied to.
Suffix(ts, P, p) ==
  LET inner == P[<<"cond", p + 1>>]
      args == List(ts, P, p + 1, ")")
  IN  CASE IsOp(ts, p, ".") ->
             IF \/ ~IsKind(ts, p + 1, {"id", "num"})
                \/ ts[p + 1].k = "num" /\ Fractional(ts[p + 1].s)
             THEN Fail ELSE Read(Node("attr", ts[p + 1].s, <<>>), p + 2)
        [] IsOp(ts, p, "(") -> Read(Node("call", <<>>, args.e), args.next)
        [] IsOp(ts, p, "{") -> BraceFields(ts, P, p + 1)
        [] IsOp(ts, p, "[") /\ IsOp(ts, p + 1, "*") -> Star(ts, p + 2)
        [] IsOp(ts, p, "[") -> Read(Node("index", <<>>, <<inner.e>>), After(ts, inner.next, "]"))
        [] OTHER -> \* @
             IF IsKind(ts, p + 1, {"num"})
             THEN Read(Node("alpha", ts[p + 1].s, <<>>), After(ts, p + 2, "%")) ELSE Fail

ParsePrimary(ts, P, i) ==
  LET inner == P[<<"cond", i + 1>>]
      items == List(ts, P, i + 1, "]")
      taken == P[<<"unary", i + 1>>]
  IN  CASE IsWord(ts, i, "snapshot") -> Read(Node("snapshot", <<>>, <<taken.e>>), taken.next)
        [] IsKind(ts, i, {"num", "str", "id"}) /\ ~IsWord(ts, i, "snapshot") ->
             Read(Node(ts[i].k, ts[i].s, <<>>), i + 1)
        [] IsOp(ts, i, "(") -> Read(inner.e, After(ts, inner.next, ")"))
        [] IsOp(ts, i, "[") -> Read(Node("list", <<>>, items.e), items.next)
        [] OTHER -> Fail

\* After a primary as many suffixes as follow; the braces of a constructor
\* follow its name, any other suffix any value.
Applied(base, n) ==
  IF n.k = "geom" THEN [n EXCEPT !.s = base.s \o @] ELSE [n EXCEPT !.xs = <<base>> \o @]
Postfix(ts, P, first) ==
  LET Following[j \in Places(ts)] ==
        LET n == Suffix(ts, P, j)
            more == Following[n.next]
        IN  IF \E op \in {".", "(", "{", "[", "@"} : IsOp(ts, j, op)
            THEN Read(<<n.e>> \o more.e, more.next) ELSE Read(<<>>, j)
      ns == Following[first.next]
      Misplaced(n) == ns.e[n].k = "geom" /\ ~(n = 1 /\ first.e.k = "id")
  IN  IF ns.next = 0 \/ \E n \in DOMAIN ns.e : Misplaced(n) THEN Fail
      ELSE Read(FoldLeft(Applied, first.e, ns.e), ns.next)

ParseUnary(ts, P, i) ==
  LET e == P[<<"unary", i + 1>>]
  IN  IF IsOp(ts, i, "-") THEN Read(Node("neg", <<>>, <<e.e>>), e.next)
      ELSE Postfix(ts, P, ParsePrimary(ts, P, i))

Parse(ts, P, rule, i) ==
  CASE rule = "cond" -> ParseCond(ts, P, P[<<"range", i>>])
    [] rule = "range" -> ParseRange(ts, P, P[<<"cmp", i>>])
    [] rule = "unary" -> ParseUnary(ts, P, i)
    [] OTHER -> ParseBinary(ts, P, rule, P[<<Tighter[rule], i>>])
ParseTokens(ts) ==
  LET P[r \in Rules \X Places(ts)] == IF r[2] = 0 THEN Fail ELSE Parse(ts, P, r[1], r[2])
  IN  P[<<"cond", 1>>]

\* ParseExpr: the whole text is one expression.
Complete(r, end) == [ok |-> r.next = end, e |-> r.e]
ParseLexed(lexed) ==
  IF lexed.ok THEN Complete(ParseTokens(lexed.ts), Len(lexed.ts) + 1) ELSE Complete(Fail, 1)
ParseExpr(src) == ParseLexed(LexExpr(src))
=============================================================================
