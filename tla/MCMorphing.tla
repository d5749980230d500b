----------------------------- MODULE MCMorphing -----------------------------
(* Paths of a few commands, documents of a few elements, and morphs of some *)
(* texts with shapes of each kind and with other texts.                     *)
EXTENDS OutlineClaims

\* A command, with absolute or relative coordinates, and its numbers.
Abs(c, ns) == <<[cmd |-> c, rel |-> FALSE, num |-> 0]>> \o [k \in DOMAIN ns |-> [NoCommand EXCEPT !.num = ns[k]]]
Rel(c, ns) == [Abs(c, ns) EXCEPT ![1].rel = TRUE]
Pieces ==
  {Abs("M", <<1, 2>>), Rel("M", <<1, 1, 2, 0>>), Abs("L", <<2, 0, 1, 1>>), Rel("L", <<1, 0>>), Abs("H", <<2>>),
   Rel("H", <<1, 2>>), Abs("V", <<2>>), Rel("V", <<1>>), Abs("C", <<0, 1, 1, 1, 2, 0>>),
   Rel("C", <<1, 0, 0, 1, 1, 1>>), Abs("Q", <<1, 1, 2, 0>>), Rel("Q", <<0, 1, 1, 1>>),
   Abs("Z", <<>>), Abs("Z", <<1>>), Abs("X", <<>>), Abs("L", <<1>>), Rel("Q", <<1>>)}
Upto(n, s) == UNION {[1..k -> s] : k \in 1..n}
LinePieces ==
  {Rel("M", <<1, 1, 2, 0>>), Abs("L", <<2, 0, 1, 1>>), Rel("L", <<1, 0>>), Abs("H", <<2>>), Rel("V", <<1>>),
   Rel("C", <<1, 0, 0, 1, 1, 1>>), Abs("Z", <<>>), Abs("Z", <<1>>)}
Paths == {Abs("M", <<0, 1>>) \o FlattenSeq(ps) : ps \in Upto(2, Pieces) \cup [1..3 -> LinePieces]}
           \cup Pieces

\* Elements.
Tag(tag, open) == [tag |-> tag, open |-> open, id |-> NoId, d |-> <<>>, text |-> FALSE,
                   tf |-> <<>>, x |-> 0, y |-> 0]
Element(tag, inner) == <<tag>> \o inner \o <<Tag(tag.tag, FALSE)>>
PathOf(d) == Element([Tag("path", TRUE) EXCEPT !.d = d], <<>>)
Symbol(id, ps) == Element([Tag("symbol", TRUE) EXCEPT !.id = id], FlattenSeq(ps))
UseOf(id, x) == Element([Tag("use", TRUE) EXCEPT !.id = id, !.x = x], <<>>)
Group(inner) == Element(Tag("g", TRUE), inner)
TextGroup(tf, inner) == Element([Tag("g", TRUE) EXCEPT !.text = TRUE, !.tf = tf], inner)

Square == Abs("M", <<0, 0>>) \o Rel("H", <<2>>) \o Rel("V", <<2>>) \o Rel("H", <<-2>>) \o Abs("Z", <<>>)
Bar == Abs("M", <<4, 0>>) \o Abs("V", <<4>>) \o Abs("H", <<5>>) \o Abs("V", <<0>>) \o Abs("Z", <<>>)
Hole == Square \o Abs("M", <<1, 1>>) \o Rel("V", <<1>>) \o Rel("H", <<1>>) \o Rel("V", <<-1>>) \o Abs("Z", <<>>)
Flip == <<[Identity EXCEPT !.d = -1, !.e = 1]>>
Plain == <<Identity>>

Fragments ==
  {Symbol("a", <<PathOf(Square)>>), Symbol("a", <<PathOf(Bar), PathOf(Hole)>>), Symbol("b", <<PathOf(Bar)>>),
   PathOf(Bar), UseOf("a", 0), Group(UseOf("a", 1)), TextGroup(Plain, UseOf("a", 1) \o UseOf("b", 0)),
   TextGroup(Flip, Group(UseOf("b", 1)) \o UseOf("a", 2)), TextGroup(<<>>, UseOf("a", 0)),
   TextGroup(Plain, TextGroup(Flip, UseOf("b", 0)) \o UseOf(NoId, 0)), Group(TextGroup(Flip, UseOf("a", 0))),
   <<Tag("malformed", FALSE)>>}
TextOf(ps) == TextGroup(Plain, UseOf("a", 0)) \o Symbol("a", ps)

\* Shapes.
Shape(kind, closed, c) == [kind |-> kind, closed |-> closed, contours |-> <<c>>,
                           color |-> <<[v |-> 1, a |-> 1]>>, stroke |-> <<>>, fill |-> <<>>]
Corner == << <<0, 0>>, <<3, 0>>, <<3, 2>>, <<1, 2>>, <<1, 4>> >>
Shapes ==
  {Shape("path", FALSE, Corner), Shape("path", TRUE, << <<0, 0>>, <<0, 4>>, <<4, 4>>, <<4, 0>> >>),
   [Shape("path", TRUE, << <<3, 1>>, <<1, 1>>, <<1, 3>>, <<3, 3>> >>) EXCEPT !.fill = <<[v |-> 2, a |-> 1]>>],
   Shape("dot", TRUE, << <<5, 1>>, <<4, 2>>, <<3, 1>>, <<4, 0>> >>), Shape("path", FALSE, << <<1, 1>> >>),
   Shape("path", FALSE, << <<0, 1>>, <<2, 4>>, <<2, 4>>, <<5, 0>> >>),
   [Shape("dot", TRUE, << <<2, 1>>, <<1, 3>>, <<-1, 2>>, <<0, 0>> >>) EXCEPT !.fill = <<[v |-> 2, a |-> 0]>>],
   [Shape("text", FALSE, <<>>) EXCEPT !.contours = << << <<0, 0>>, <<2, 0>>, <<1, 3>> >>, << <<1, 1>> >>,
                                                      << <<4, 1>>, <<5, 3>>, <<6, 1>> >> >>],
   [Shape("text", FALSE, <<>>) EXCEPT !.contours = << << <<5, 0>>, <<4, 3>>, <<6, 3>> >>, << <<3, 3>>, <<3, 1>>, <<2, 2>> >>,
                                                      << <<0, 0>>, <<1, 1>>, <<0, 2>> >> >>],
   [Shape("text", FALSE, <<>>) EXCEPT !.contours = <<>>]}
Texts == {TextOf(<<PathOf(Square)>>), TextOf(<<PathOf(Hole)>>), TextOf(<<PathOf(Bar), PathOf(Hole)>>),
          TextOf(<<PathOf(Bar), PathOf(Square), PathOf(Bar)>>), TextOf(<<>>)}

Work(doc, color, partner, textFirst) ==
  [doc |-> doc, color |-> color, partner |-> partner, textFirst |-> textFirst]
MCWorks ==
  {Work(TextOf(<<PathOf(d)>>), <<>>, <<>>, TRUE) : d \in Paths}
    \cup {Work(FlattenSeq(fs), <<>>, <<>>, TRUE) : fs \in Upto(3, Fragments)}
    \cup {Work(t, c, <<s>>, b) : t \in Texts, s \in Shapes, b \in BOOLEAN,
                                c \in {<<>>, <<[v |-> 1, a |-> 0]>>, <<[v |-> 1, a |-> 1]>>}}
=============================================================================
