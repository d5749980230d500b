---------------------------- MODULE SceneClaims ----------------------------
(***************************************************************************)
(* What the documents of the language and the comments of its compiler     *)
(* promise of a scene and the code does not always keep. Each property has *)
(* a configuration of its own, in which TLC finds a shortest scene that    *)
(* breaks it; SceneRuntime has the properties that hold.                   *)
(***************************************************************************)
EXTENDS SceneRuntime

\* md/full.md: "redeclare a record with set field: expr when you need to
\* replace a live field definition at that point in the score". When a set has
\* run and no window on the field reaches past it, the field is what it was
\* set to. (Step runs the event before the tween that closes at the same time.)
SetTakesEffect ==
  stage = "frame" =>
    \A e \in DOMAIN events :
      LET ev == events[e]
      IN  /\ ev.kind = "set" /\ ev.done /\ ev.rhs.src = None
          /\ \A o \in DOMAIN events : events[o].slot = ev.slot => o <= e
          /\ \A i \in DOMAIN anims : Writes(i, ev.slot) => anims[i].t1 <= ev.t
          => val[ev.slot] = ev.rhs.off

\* md/glossary.md: a capture "evaluates expr once at that point in the score
\* and freezes it". In the frame of its own time, a capture is the value its
\* expression has there.
CaptureIsOfItsTime ==
  stage = "frame" =>
    \A e \in DOMAIN events :
      LET ev == events[e]
      IN  ev.kind = "capture" /\ ev.done /\ ev.t = now /\ ~HasWriter(ev.slot)
          => val[ev.slot] = Eval(ev.rhs)

\* md/syntax.md: an entrance "snaps the preset's hidden fields, then tweens
\* them back to the declared values over the window". A finished entrance that
\* owns its field shows the declared value (here the default, for a scene that
\* declares nothing else).
EntranceRestores ==
  stage = "frame" =>
    \A i \in DOMAIN anims :
      LET a == anims[i]
      IN  a.kind = "enter" /\ a.status = "done" /\ Owns(i, a.ref)
          => val[a.ref] = Default[a.ref]

\* md/tween.md: "interpolate path from its current value toward expr". In the
\* frame at which a window opens, a tween that owns its slot leaves it as the
\* frame before drew it, unless something else changed too.
TweenStartsAsDrawn ==
  stage = "frame" =>
    \A i \in DOMAIN anims :
      LET a == anims[i]
      IN  /\ a.kind = "tween" /\ Owns(i, a.ref) /\ now = a.t0 /\ a.t0 < a.t1
          /\ \A s \in Slots \ {a.ref} : val[s] = drawn[s]
          /\ \A e \in DOMAIN events : events[e].t # now
          => val[a.ref] = drawn[a.ref]

\* compile.go, on a field a set has run on: "static again, tweenable again". A
\* tween of such a field is on the curve from the value it started at, as for
\* any static field. (The set does not clear the live flag the tween looks at,
\* so the tween starts over from the current value in every frame.)
StaticAfterSet ==
  stage = "frame" =>
    \A i \in DOMAIN anims :
      LET a == anims[i]
      IN  /\ a.kind = "tween" /\ a.status = "started" /\ Owns(i, a.ref)
          /\ a.goal.src = None /\ ~SetSince(i, a.ref) /\ a.ref \in frozen
          => val[a.ref] = Lerp(a.from, Eval(a.goal), a)

\* md/glossary.md: "A value field re-evaluates every frame". A declared field
\* that was not set and that no row has begun to write is its expression.
FieldIsItsExpression ==
  stage = "frame" =>
    \A f \in Fields \ (frozen \cup Rates) :
      def[f] # None /\ (\A i \in DOMAIN anims : Writes(i, f) => ~Begun(i))
      => val[f] = Eval(def[f])

\* md/tween.md: "After the window: path is expr", and it "keeps tracking it".
\* A finished tween that owns its slot shows the value of its goal.
GoalIsKept ==
  stage = "frame" =>
    \A i \in DOMAIN anims :
      LET a == anims[i]
      IN  /\ a.kind = "tween" /\ a.status = "done" /\ Owns(i, a.ref)
          /\ ~SetSince(i, a.ref) /\ a.goal.src # a.ref
          => val[a.ref] = Eval(a.goal)

\* liveness.go, on the pass that rejects a tween of a rate: it "enforces one
\* writer", and for a rate "the integrator is the writer". A literal rate has
\* in every frame what was integrated since time 0. (The pass looks at the
\* targets of an animation, among which a morph's destination is not.)
IntegratorWrites ==
  stage = "frame" =>
    \A f \in Rates \ frozen :
      def[f] # None /\ def[f].src = None
      => val[f] = Default[f] + def[f].off * now
=============================================================================
