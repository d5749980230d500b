--------------------------- MODULE MCSceneRuntime ---------------------------
(* Entities ea, eb with an opacity each, slots x, y, z and a capture home.   *)
EXTENDS SceneClaims

CONSTANTS ea, eb, ao, bo, x, y, z, home

MCOpacity == [e \in Entities |-> IF e = ea THEN ao ELSE bo]
MCPreset == [e \in Entities |-> <<MCOpacity[e]>>]
MCDefault == [f \in Fields |-> IF f \in {ao, bo} THEN Full ELSE 0]

Ref(s) == [src |-> s, off |-> 0]
Declare(f, e, rest) == [g \in Fields |-> IF g = f THEN e ELSE rest[g]]
Bare == [f \in Fields |-> None]

\* y may follow x and z may follow y, through one literal declaration of x; or
\* x and y may read each other, which does not compile.
ChainDeclarations ==
  {Bare,
   Declare(x, Const(16), Declare(y, Ref(x), Declare(z, Ref(y), Bare))),
   Declare(x, Ref(y), Declare(y, Ref(x), Bare))}
ChainGoals == {Const(32), Ref(x), [src |-> y, off |-> 8]}

BareDeclaration == {Bare}
PairDeclaration == {Declare(x, Const(16), Declare(y, Ref(x), Bare))}
FarGoals == {Const(64), Const(0)}

\* ea's opacity is declared, eb's is not.
FadeDeclarations == {Declare(ao, Const(8), Bare)}
FadeGoals == {Const(8)}

\* In addition z is a rate of 4 a tick, and what is set or captured is eb's
\* opacity at the time.
StageDeclarations == {Declare(ao, Const(8), Declare(z, Const(4), Bare))}
StageGoals == {Ref(bo)}

\* eb's opacity is a rate of 4 a tick.
DimDeclarations == {Declare(bo, Const(4), Bare)}

\* The end of a block (a window that would end before it begins), and one that
\* can reach past the block.
StageWindows == {<<1, 0>>, <<1, 2>>}
\* ea can be morphed into eb; a morph the other way is a crossfade.
OneWay == {<<ea, eb>>}
=============================================================================
