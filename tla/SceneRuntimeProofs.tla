------------------------- MODULE SceneRuntimeProofs -------------------------
(***************************************************************************)
(* Proofs about the scene runtime, for every scene and every value of the  *)
(* constants: its types, where held assignments come from, what brings an  *)
(* entity in, and that a capture is frozen, all from one inductive         *)
(* invariant, IInv; from a second one what the frames show; and from a     *)
(* third who decides what is on a slot.                                    *)
(***************************************************************************)
EXTENDS SceneRuntime, SequenceTheorems, TLAPS

\* Rows of a presence name their entities, and the open block is in the past.
RowsNameEntities ==
  /\ block <= cursor
  /\ \A i \in DOMAIN anims :
       /\ anims[i].kind # "tween" => anims[i].ent \in Entities
       /\ anims[i].kind = "morph" => anims[i].dst \in Entities

\* A set is of a field; a name is captured by one event at most.
EventsNameSlots ==
  \A e \in DOMAIN events :
    /\ events[e].kind = "set" => events[e].slot \in Fields
    /\ events[e].kind = "capture" =>
         /\ events[e].slot \in captured
         /\ \A o \in DOMAIN events :
              events[o].kind = "capture" /\ events[o].slot = events[e].slot
              => o = e
    /\ stage = "score" => ~events[e].done

\* What a loop still has to do can be done when its turn comes: an event has
\* not run, a held assignment is there, an animation has opened and is not
\* over, and a field to evaluate has an expression.
WorkIsReady ==
  /\ stage = "score" => lives = {}
  /\ \A f \in lives : def[f] # None
  /\ \A f \in liveFields \ frozen : def[f] # None
  /\ stage \in {"top", "events"} => \A e \in todo : ~events[e].done
  /\ stage \in {"posts", "reposts"} => \A s \in todo : post[s] # None
  /\ stage = "anims" =>
       \A i \in todo : anims[i].t0 <= now /\ anims[i].status # "done"
  /\ stage = "rates" => \A f \in todo : def[f] # None

IInv ==
  /\ TypeOK /\ RowsNameEntities /\ EventsNameSlots /\ WorkIsReady
  /\ HeldByFinished /\ PresenceEarned

(***************************************************************************)
(* Values.                                                                 *)
(***************************************************************************)

LEMMA HiddenInt == Hidden \in Int /\ Full \in Int
  BY DEF Hidden, Full

LEMMA ConstExpr ==
  ASSUME NEW v \in Int
  PROVE  Const(v) \in Expr /\ Const(v).src = None
  BY DEF Const, Expr

\* Evaluating an expression, or any point of a window's curve, gives a value.
LEMMA EvalInt ==
  ASSUME TypeOK, NEW e \in Expr
  PROVE  Eval(e) \in Int
  BY SMT DEF Eval, TypeOK, Expr

LEMMA LerpInt ==
  ASSUME TypeOK, NEW from \in Int, NEW to \in Int, NEW an \in Anim,
         an.t0 <= now
  PROVE  Lerp(from, to, an) \in Int
<1> DEFINE n == now - an.t0
           d == an.t1 - an.t0
<1>1. CASE now >= an.t1
  BY <1>1 DEF Lerp
<1>2. CASE ~(now >= an.t1)
  <2>1. n \in Nat /\ d \in Nat /\ d > 0
    BY <1>2 DEF TypeOK, Anim
  <2> HIDE DEF n, d
  <2>2. d * d * d \in Nat /\ d * d * d > 0
    <3>1. d * d \in Nat /\ d * d > 0
      BY <2>1
    <3> DEFINE q == d * d
    <3> HIDE DEF q
    <3>2. q * d \in Nat /\ q * d > 0
      BY <2>1, <3>1 DEF q
    <3> QED
      BY <3>2 DEF q
  <2>3. (to - from) * n * n * (3 * d - 2 * n) \in Int
    BY <2>1
  <2> DEFINE num == (to - from) * n * n * (3 * d - 2 * n)
             den == d * d * d
  <2>4. Lerp(from, to, an) = from + (num \div den)
    BY <1>2 DEF Lerp, n, d
  <2> HIDE DEF num, den
  <2>5. num \in Int /\ den \in Nat /\ den > 0
    BY <2>2, <2>3 DEF num, den
  <2>6. num \div den \in Int
    BY <2>5
  <2> QED
    BY <2>4, <2>6
<1> QED
  BY <1>1, <1>2

(***************************************************************************)
(* Animations: what is appended by the score, and what one turn changes.   *)
(***************************************************************************)

\* Rows not yet begun can be appended without touching what is held or shown.
LEMMA AppendRows ==
  ASSUME IInv, NEW new \in Seq(Anim),
         \A k \in DOMAIN new :
           /\ new[k].status = "new" /\ new[k].t0 <= new[k].t1
           /\ new[k].kind # "tween" => new[k].ent \in Entities
           /\ new[k].kind = "morph" => new[k].dst \in Entities,
         anims' = anims \o new,
         UNCHANGED <<cursor, block, post, active>>
  PROVE  /\ anims' \in Seq(Anim)
         /\ \A i \in DOMAIN anims' : anims'[i].t0 <= anims'[i].t1
         /\ RowsNameEntities' /\ HeldByFinished' /\ PresenceEarned'
<1>1. anims \in Seq(Anim)
  BY DEF IInv, TypeOK
<1>2. anims' \in Seq(Anim) /\ Len(anims') = Len(anims) + Len(new)
  BY <1>1, ConcatProperties
<1>3. /\ DOMAIN anims = 1..Len(anims) /\ DOMAIN new = 1..Len(new)
      /\ DOMAIN anims' = 1..Len(anims')
      /\ Len(anims) \in Nat /\ Len(new) \in Nat
  BY <1>1, <1>2, LenProperties
<1>4. ASSUME NEW i \in DOMAIN anims
      PROVE  i \in DOMAIN anims' /\ anims'[i] = anims[i]
  BY <1>1, <1>2, <1>3, <1>4, ConcatProperties
<1>5. ASSUME NEW i \in DOMAIN anims', i \notin DOMAIN anims
      PROVE  \E k \in DOMAIN new : anims'[i] = new[k]
  <2>1. i - Len(anims) \in DOMAIN new
    BY <1>2, <1>3, <1>5
  <2>2. anims'[i] = new[i - Len(anims)]
    BY <1>1, <1>2, <1>3, <1>5, ConcatProperties
  <2> QED
    BY <2>1, <2>2
<1>6. \A i \in DOMAIN anims' : anims'[i].t0 <= anims'[i].t1
  BY <1>4, <1>5 DEF IInv, TypeOK
<1>7. RowsNameEntities'
  <2>1. block' <= cursor'
    BY DEF IInv, RowsNameEntities
  <2>2. ASSUME NEW i \in DOMAIN anims'
        PROVE  /\ anims'[i].kind # "tween" => anims'[i].ent \in Entities
               /\ anims'[i].kind = "morph" => anims'[i].dst \in Entities
    BY <1>4, <1>5, <2>2 DEF IInv, RowsNameEntities
  <2> QED
    BY <2>1, <2>2 DEF RowsNameEntities
<1>8. HeldByFinished'
  <2>1. SUFFICES ASSUME NEW s \in Slots, post'[s] # None
                 PROVE  \E i \in DOMAIN anims' :
                          /\ anims'[i].ref = s /\ anims'[i].status = "done"
                          /\ anims'[i].goal = post'[s]
    BY DEF HeldByFinished
  <2>2. PICK i \in DOMAIN anims :
          anims[i].ref = s /\ anims[i].status = "done" /\ anims[i].goal = post[s]
    BY <2>1 DEF IInv, HeldByFinished
  <2> QED
    BY <1>4, <2>2
<1>9. PresenceEarned'
  BY <1>4 DEF IInv, PresenceEarned, Begun, Touches
<1> QED
  BY <1>2, <1>6, <1>7, <1>8, <1>9

\* One turn changes the status and the start values of one animation, which
\* has opened and was not over.
LEMMA DriveTurn ==
  ASSUME IInv, NEW i, NEW from \in Int, NEW dstFrom \in Int,
         Drive(i, from, dstFrom)
  PROVE  /\ i \in DOMAIN anims /\ anims[i] \in Anim
         /\ anims[i].t0 <= now /\ anims[i].status # "done"
         /\ stage = "anims" /\ lives = {} /\ todo' = todo \ {i}
         /\ anims' \in Seq(Anim) /\ DOMAIN anims' = DOMAIN anims
         /\ \A j \in DOMAIN anims :
              /\ anims'[j].kind = anims[j].kind /\ anims'[j].ref = anims[j].ref
              /\ anims'[j].ent = anims[j].ent /\ anims'[j].dst = anims[j].dst
              /\ anims'[j].goal = anims[j].goal
              /\ anims'[j].t0 = anims[j].t0 /\ anims'[j].t1 = anims[j].t1
              /\ j # i => anims'[j] = anims[j]
         /\ anims'[i].status = IF Closing(anims[i]) THEN "done" ELSE "started"
<1>1. stage = "anims" /\ lives = {} /\ i \in todo /\ todo' = todo \ {i}
  BY DEF Drive, Turn
<1>2. i \in DOMAIN anims /\ anims[i].t0 <= now /\ anims[i].status # "done"
  BY <1>1 DEF IInv, TypeOK, WorkIsReady
<1>3. anims \in Seq(Anim) /\ DOMAIN anims = 1..Len(anims) /\ Len(anims) \in Nat
  BY LenProperties DEF IInv, TypeOK
<1>4. anims[i] \in Anim
  BY <1>2, <1>3
<1> DEFINE new == [anims[i] EXCEPT
                     !.status = IF Closing(anims[i]) THEN "done" ELSE "started",
                     !.from = from, !.dstFrom = dstFrom]
<1>5. new \in Anim
  BY <1>4 DEF Anim
<1>6. anims' = [anims EXCEPT ![i] = new]
  BY <1>2, <1>3 DEF Drive
<1>7. anims' \in Seq(Anim) /\ DOMAIN anims' = DOMAIN anims
  BY <1>2, <1>3, <1>5, <1>6, ExceptSeq
<1>8. \A j \in DOMAIN anims : anims'[j] = IF j = i THEN new ELSE anims[j]
  BY <1>2, <1>3, <1>5, <1>6, ExceptSeq
<1>9. /\ new.kind = anims[i].kind /\ new.ref = anims[i].ref
      /\ new.ent = anims[i].ent /\ new.dst = anims[i].dst
      /\ new.goal = anims[i].goal
      /\ new.t0 = anims[i].t0 /\ new.t1 = anims[i].t1
      /\ new.status = IF Closing(anims[i]) THEN "done" ELSE "started"
  BY <1>4 DEF Anim
<1> HIDE DEF new
<1> QED
  BY <1>1, <1>2, <1>4, <1>7, <1>8, <1>9

(***************************************************************************)
(* The score keeps the invariant: one lemma per statement and row.         *)
(***************************************************************************)
LEMMA BlockIInv ==
  ASSUME IInv, NEW d \in 1..MaxTime, Block(d)
  PROVE  IInv'
<1>1. cursor \in Nat /\ d \in Nat
  BY SceneAssumption DEF IInv, TypeOK
<1>2. TypeOK'
  BY <1>1 DEF IInv, TypeOK, Block, Idle, linked, StepStages
<1>3. RowsNameEntities'
  BY <1>1 DEF IInv, RowsNameEntities, Block
<1>4. EventsNameSlots'
  BY DEF IInv, EventsNameSlots, Block
<1>5. WorkIsReady'
  BY DEF IInv, WorkIsReady, Block, Idle, linked
<1>6. HeldByFinished' /\ PresenceEarned'
  BY DEF IInv, HeldByFinished, PresenceEarned, Begun, Touches, Block
<1> QED
  BY <1>2, <1>3, <1>4, <1>5, <1>6 DEF IInv

\* A row's window lies in time and ends no earlier than it begins.
LEMMA WindowOrdered ==
  ASSUME IInv, NEW w \in RowWindows
  PROVE  /\ block + w[1] \in Nat /\ block + w[2] \in Nat
         /\ block + w[1] <= block + w[2]
<1>1. cursor \in Nat /\ block \in Nat /\ block <= cursor
  BY DEF IInv, TypeOK, RowsNameEntities
<1>2. CASE w = <<0, cursor - block>>
  BY <1>1, <1>2
<1>3. CASE \E v \in Windows : w = Clamp(v)
  BY <1>1, <1>3, SceneAssumption DEF Clamp
<1> QED
  BY <1>2, <1>3 DEF RowWindows

\* A row about a slot of the scene is an animation that has not begun.
LEMMA NewAnimShape ==
  ASSUME IInv, NEW kind \in {"tween", "enter", "exit", "morph"},
         NEW ref \in Slots, NEW ent \in Entities \cup {None},
         NEW dst \in Entities \cup {None}, NEW goal \in Expr,
         NEW w \in RowWindows,
         NEW an, an = NewAnim(kind, ref, ent, dst, goal, w)
  PROVE  /\ an \in Anim /\ an.status = "new" /\ an.t0 <= an.t1
         /\ an.kind = kind /\ an.ent = ent /\ an.dst = dst
  BY WindowOrdered DEF NewAnim, Anim

LEMMA ArrowIInv ==
  ASSUME IInv, NEW s \in Slots, NEW g \in Goals, NEW w \in RowWindows,
         Arrow(s, g, w)
  PROVE  IInv'
<1> DEFINE an == NewAnim("tween", s, None, None, g, w)
           new == <<an>>
<1>1. an \in Anim /\ an.status = "new" /\ an.t0 <= an.t1 /\ an.kind = "tween"
  BY NewAnimShape, SceneAssumption
<1>2. new \in Seq(Anim) /\ DOMAIN new = {1} /\ new[1] = an
  BY <1>1
<1>3. anims' = anims \o new
  BY <1>1, AppendIsConcat DEF Arrow, IInv, TypeOK
<1> HIDE DEF an, new
<1>4. /\ anims' \in Seq(Anim)
      /\ \A i \in DOMAIN anims' : anims'[i].t0 <= anims'[i].t1
      /\ RowsNameEntities' /\ HeldByFinished' /\ PresenceEarned'
  BY <1>1, <1>2, <1>3, AppendRows DEF Arrow
<1>5. TypeOK'
  BY <1>4 DEF IInv, TypeOK, Arrow, Row, Idle, linked, StepStages
<1>6. EventsNameSlots'
  BY DEF IInv, EventsNameSlots, Arrow
<1>7. WorkIsReady'
  BY DEF IInv, WorkIsReady, Arrow, Row, Idle, linked
<1> QED
  BY <1>4, <1>5, <1>6, <1>7 DEF IInv

LEMMA MorphIInv ==
  ASSUME IInv, NEW e \in Entities, NEW d \in Entities, NEW w \in RowWindows,
         Morph(e, d, w)
  PROVE  IInv'
<1> DEFINE an == NewAnim("morph", Opacity[e], e, d, Const(Hidden), w)
           new == <<an>>
<1>1. /\ an \in Anim /\ an.status = "new" /\ an.t0 <= an.t1
      /\ an.ent \in Entities /\ an.dst \in Entities
  <2>1. Opacity[e] \in Slots
    BY SceneAssumption DEF Slots
  <2> QED
    BY <2>1, ConstExpr, HiddenInt, NewAnimShape
<1>2. new \in Seq(Anim) /\ DOMAIN new = {1} /\ new[1] = an
  BY <1>1
<1>3. anims' = anims \o new
  BY <1>1, AppendIsConcat DEF Morph, IInv, TypeOK
<1> HIDE DEF an, new
<1>4. /\ anims' \in Seq(Anim)
      /\ \A i \in DOMAIN anims' : anims'[i].t0 <= anims'[i].t1
      /\ RowsNameEntities' /\ HeldByFinished' /\ PresenceEarned'
  BY <1>1, <1>2, <1>3, AppendRows DEF Morph
<1>5. TypeOK'
  BY <1>4 DEF IInv, TypeOK, Morph, Row, Idle, linked, StepStages
<1>6. EventsNameSlots'
  BY DEF IInv, EventsNameSlots, Morph
<1>7. WorkIsReady'
  BY DEF IInv, WorkIsReady, Morph, Row, Idle, linked
<1> QED
  BY <1>4, <1>5, <1>6, <1>7 DEF IInv

\* The rows of a preset, one animation per field, none begun.
PresetAnims(kind, e, goal, w) ==
  [k \in DOMAIN Preset[e] |->
     NewAnim(kind, Preset[e][k], e, None, goal[Preset[e][k]], w)]

LEMMA PresetRows ==
  ASSUME IInv, NEW kind \in {"enter", "exit"}, NEW e \in Entities,
         NEW goal \in [Fields -> Expr], NEW w \in RowWindows
  PROVE  /\ PresetAnims(kind, e, goal, w) \in Seq(Anim)
         /\ \A k \in DOMAIN PresetAnims(kind, e, goal, w) :
              LET an == PresetAnims(kind, e, goal, w)[k]
              IN  /\ an.status = "new" /\ an.t0 <= an.t1
                  /\ an.kind # "tween" => an.ent \in Entities
                  /\ an.kind = "morph" => an.dst \in Entities
<1>1. Preset[e] \in Seq(Fields)
  BY SceneAssumption
<1>2. /\ Len(Preset[e]) \in Nat /\ DOMAIN Preset[e] = 1..Len(Preset[e])
      /\ \A k \in DOMAIN Preset[e] : Preset[e][k] \in Fields
  BY <1>1, LenProperties, ElementOfSeq
<1> DEFINE row(k) == NewAnim(kind, Preset[e][k], e, None, goal[Preset[e][k]], w)
<1>3. ASSUME NEW k \in DOMAIN Preset[e]
      PROVE  /\ row(k) \in Anim /\ row(k).status = "new"
             /\ row(k).t0 <= row(k).t1
             /\ row(k).kind = kind /\ row(k).ent = e
  <2>1. Preset[e][k] \in Slots /\ goal[Preset[e][k]] \in Expr
    BY <1>2, <1>3 DEF Slots
  <2> QED
    BY <2>1, WindowOrdered DEF NewAnim, Anim
<1>4. PresetAnims(kind, e, goal, w) = [k \in DOMAIN Preset[e] |-> row(k)]
  BY DEF PresetAnims
<1> HIDE DEF row
<1>5. PresetAnims(kind, e, goal, w) \in [1..Len(Preset[e]) -> Anim]
  BY <1>2, <1>3, <1>4
<1>6. PresetAnims(kind, e, goal, w) \in Seq(Anim)
  BY <1>2, <1>5, SeqDef
<1>7. /\ DOMAIN PresetAnims(kind, e, goal, w) = DOMAIN Preset[e]
      /\ \A k \in DOMAIN Preset[e] : PresetAnims(kind, e, goal, w)[k] = row(k)
  BY <1>4
<1> QED
  BY <1>3, <1>6, <1>7

LEMMA ExitIInv ==
  ASSUME IInv, NEW e \in Entities, NEW w \in RowWindows, Exit(e, w)
  PROVE  IInv'
<1> DEFINE goal == [f \in Fields |-> Const(Hidden)]
           new == PresetAnims("exit", e, goal, w)
<1>1. goal \in [Fields -> Expr]
  BY HiddenInt, ConstExpr
<1>2. anims' = anims \o new
  <2>1. \A k \in DOMAIN Preset[e] : goal[Preset[e][k]] = Const(Hidden)
    BY SceneAssumption, LenProperties, ElementOfSeq
  <2> QED
    BY <2>1 DEF Exit, PresetAnims
<1> HIDE DEF goal
<1>3. /\ new \in Seq(Anim)
      /\ \A k \in DOMAIN new :
           /\ new[k].status = "new" /\ new[k].t0 <= new[k].t1
           /\ new[k].kind # "tween" => new[k].ent \in Entities
           /\ new[k].kind = "morph" => new[k].dst \in Entities
  BY <1>1, PresetRows
<1> HIDE DEF new
<1>4. /\ anims' \in Seq(Anim)
      /\ \A i \in DOMAIN anims' : anims'[i].t0 <= anims'[i].t1
      /\ RowsNameEntities' /\ HeldByFinished' /\ PresenceEarned'
  BY <1>2, <1>3, AppendRows DEF Exit
<1>5. TypeOK'
  BY <1>4 DEF IInv, TypeOK, Exit, Row, Idle, linked, StepStages
<1>6. EventsNameSlots'
  BY DEF IInv, EventsNameSlots, Exit
<1>7. WorkIsReady'
  BY DEF IInv, WorkIsReady, Exit, Row, Idle, linked
<1> QED
  BY <1>4, <1>5, <1>6, <1>7 DEF IInv

LEMMA EntranceIInv ==
  ASSUME IInv, NEW e \in Entities, NEW w \in RowWindows, Entrance(e, w)
  PROVE  IInv'
<1> DEFINE goal == [f \in Fields |-> IF def[f] = None THEN Const(val[f]) ELSE def[f]]
           new == PresetAnims("enter", e, goal, w)
<1>1. goal \in [Fields -> Expr]
  <2> SUFFICES ASSUME NEW f \in Fields
               PROVE  (IF def[f] = None THEN Const(val[f]) ELSE def[f]) \in Expr
    OBVIOUS
  <2>1. val[f] \in Int /\ def[f] \in Expr \cup {None}
    BY DEF IInv, TypeOK, Slots
  <2> QED
    BY <2>1, ConstExpr
<1>2. anims' = anims \o new
  <2>1. \A k \in DOMAIN Preset[e] : Preset[e][k] \in Fields
    BY SceneAssumption, LenProperties, ElementOfSeq
  <2> QED
    BY <2>1 DEF Entrance, PresetAnims
<1> HIDE DEF goal
<1>3. /\ new \in Seq(Anim)
      /\ \A k \in DOMAIN new :
           /\ new[k].status = "new" /\ new[k].t0 <= new[k].t1
           /\ new[k].kind # "tween" => new[k].ent \in Entities
           /\ new[k].kind = "morph" => new[k].dst \in Entities
  BY <1>1, PresetRows
<1> HIDE DEF new
<1>4. /\ anims' \in Seq(Anim)
      /\ \A i \in DOMAIN anims' : anims'[i].t0 <= anims'[i].t1
      /\ RowsNameEntities' /\ HeldByFinished' /\ PresenceEarned'
  BY <1>2, <1>3, AppendRows DEF Entrance
<1>5. PresetFields(e) \subseteq Fields
  BY SceneAssumption, LenProperties, ElementOfSeq DEF PresetFields
<1>6. TypeOK'
  <2>1. val' \in [Slots -> Int]
    BY HiddenInt DEF IInv, TypeOK, Entrance
  <2>2. def' \in [Fields -> Expr \cup {None}]
    BY DEF IInv, TypeOK, Entrance
  <2>3. frozen' \subseteq Fields /\ live' \subseteq Fields
    BY <1>5 DEF IInv, TypeOK, Entrance
  <2> QED
    BY <1>4, <2>1, <2>2, <2>3
    DEF IInv, TypeOK, Entrance, Row, Idle, linked, StepStages
<1>7. EventsNameSlots'
  BY DEF IInv, EventsNameSlots, Entrance
<1>8. WorkIsReady'
  <2>1. \A f \in liveFields' \ frozen' : def'[f] # None
    BY DEF IInv, TypeOK, WorkIsReady, Entrance, Idle, linked
  <2> QED
    BY <2>1 DEF IInv, WorkIsReady, Entrance, Row, Idle, linked
<1> QED
  BY <1>4, <1>6, <1>7, <1>8 DEF IInv

\* A statement appends one event, which has not run.
LEMMA AppendEvent ==
  ASSUME IInv, NEW ev \in Event, events' = Append(events, ev)
  PROVE  /\ events' \in Seq(Event)
         /\ DOMAIN events' = DOMAIN events \cup {Len(events) + 1}
         /\ Len(events) + 1 \notin DOMAIN events
         /\ \A e \in DOMAIN events : events'[e] = events[e]
         /\ events'[Len(events) + 1] = ev
<1>1. events \in Seq(Event)
  BY DEF IInv, TypeOK
<1>2. DOMAIN events = 1..Len(events) /\ Len(events) \in Nat
  BY <1>1, LenProperties
<1>3. /\ events' \in Seq(Event) /\ Len(events') = Len(events) + 1
      /\ \A e \in 1..Len(events) : events'[e] = events[e]
      /\ events'[Len(events) + 1] = ev
  BY <1>1, AppendProperties
<1>4. DOMAIN events' = 1..Len(events')
  BY <1>3, LenProperties
<1> QED
  BY <1>2, <1>3, <1>4

LEMMA SetIInv ==
  ASSUME IInv, NEW f \in Fields, NEW g \in Goals, SetStmt(f, g)
  PROVE  IInv'
<1> DEFINE ev == NewEvent("set", f, g)
<1>1. ev \in Event /\ ev.kind = "set" /\ ev.slot = f /\ ~ev.done
  BY SceneAssumption DEF NewEvent, Event, Slots, IInv, TypeOK
<1>2. events' = Append(events, ev)
  BY DEF SetStmt
<1> HIDE DEF ev
<1>3. TypeOK'
  BY <1>1, <1>2, AppendEvent DEF IInv, TypeOK, SetStmt, Idle, linked, StepStages
<1>4. RowsNameEntities' /\ HeldByFinished' /\ PresenceEarned'
  BY DEF IInv, RowsNameEntities, HeldByFinished, PresenceEarned, Begun, Touches,
         SetStmt
<1>5. EventsNameSlots'
  BY <1>1, <1>2, AppendEvent DEF IInv, EventsNameSlots, SetStmt
<1>6. WorkIsReady'
  BY DEF IInv, WorkIsReady, SetStmt, Idle, linked
<1> QED
  BY <1>3, <1>4, <1>5, <1>6 DEF IInv

LEMMA CaptureIInv ==
  ASSUME IInv, NEW s \in Globals, NEW g \in Goals, CaptureStmt(s, g)
  PROVE  IInv'
<1> DEFINE ev == NewEvent("capture", s, g)
<1>1. ev \in Event /\ ev.kind = "capture" /\ ev.slot = s /\ ~ev.done
  BY SceneAssumption DEF NewEvent, Event, Slots, IInv, TypeOK
<1>2. events' = Append(events, ev) /\ captured' = captured \cup {s}
      /\ s \notin captured /\ stage = "score" /\ stage' = "score"
  BY DEF CaptureStmt
<1> HIDE DEF ev
<1>3. TypeOK'
  <2>1. Eval(g) \in Int
    BY EvalInt, SceneAssumption DEF IInv
  <2>2. val' \in [Slots -> Int]
    BY <2>1 DEF IInv, TypeOK, CaptureStmt
  <2> QED
    BY <1>1, <1>2, <2>2, AppendEvent
    DEF IInv, TypeOK, CaptureStmt, Idle, linked, StepStages
<1>4. RowsNameEntities' /\ HeldByFinished' /\ PresenceEarned'
  BY DEF IInv, RowsNameEntities, HeldByFinished, PresenceEarned, Begun, Touches,
         CaptureStmt
<1>5. EventsNameSlots'
  <2> DEFINE last == Len(events) + 1
  <2>1. /\ DOMAIN events' = DOMAIN events \cup {last} /\ last \notin DOMAIN events
        /\ \A e \in DOMAIN events : events'[e] = events[e]
        /\ events'[last] = ev
    BY <1>1, <1>2, AppendEvent
  <2> HIDE DEF last
  <2>2. \A e \in DOMAIN events : events[e].kind = "capture" => events[e].slot # s
    BY <1>2 DEF IInv, EventsNameSlots
  <2> QED
    BY <1>1, <1>2, <2>1, <2>2 DEF IInv, EventsNameSlots
<1>6. WorkIsReady'
  BY DEF IInv, WorkIsReady, CaptureStmt, Idle, linked
<1> QED
  BY <1>3, <1>4, <1>5, <1>6 DEF IInv

LEMMA ScoreIInv == IInv /\ Score => IInv'
<1> SUFFICES ASSUME IInv, Score
             PROVE  IInv'
  OBVIOUS
<1>1. ASSUME NEW d \in 1..MaxTime, Block(d) PROVE IInv'
  BY <1>1, BlockIInv
<1>2. ASSUME NEW s \in Slots, NEW g \in Goals, NEW w \in RowWindows, Arrow(s, g, w)
      PROVE  IInv'
  BY <1>2, ArrowIInv
<1>3. ASSUME NEW e \in Entities, NEW w \in RowWindows, Entrance(e, w) \/ Exit(e, w)
      PROVE  IInv'
  BY <1>3, EntranceIInv, ExitIInv
<1>4. ASSUME NEW e \in Entities, NEW d \in Entities, NEW w \in RowWindows,
             Morph(e, d, w)
      PROVE  IInv'
  BY <1>4, MorphIInv
<1>5. ASSUME NEW f \in Fields, NEW g \in Goals, SetStmt(f, g) PROVE IInv'
  BY <1>5, SetIInv
<1>6. ASSUME NEW s \in Globals, NEW g \in Goals, CaptureStmt(s, g) PROVE IInv'
  BY <1>6, CaptureIInv
<1> QED
  BY <1>1, <1>2, <1>3, <1>4, <1>5, <1>6 DEF Score

(***************************************************************************)
(* The end of Compile keeps the invariant.                                 *)
(***************************************************************************)

\* What neither rows nor events nor held assignments nor presence depend on.
LEMMA SceneUntouched ==
  ASSUME IInv, UNCHANGED <<cursor, block, anims, post, active>>
  PROVE  RowsNameEntities' /\ HeldByFinished' /\ PresenceEarned'
  BY DEF IInv, RowsNameEntities, HeldByFinished, PresenceEarned, Begun, Touches

LEMMA EventsUntouched ==
  ASSUME IInv, UNCHANGED <<events, captured>>, stage' # "score"
  PROVE  EventsNameSlots'
  BY DEF IInv, EventsNameSlots

LEMMA CompiledIInv == IInv /\ Compiled => IInv'
<1> SUFFICES ASSUME IInv, Compiled
             PROVE  IInv'
  OBVIOUS
<1>1. CASE CloseScore
  <2>1. TypeOK'
    BY <1>1 DEF IInv, TypeOK, CloseScore, program, linked, StepStages
  <2>2. WorkIsReady'
    BY <1>1 DEF IInv, WorkIsReady, EventsNameSlots, CloseScore, program, linked
  <2> QED
    BY <1>1, <2>1, <2>2, SceneUntouched, EventsUntouched
    DEF CloseScore, program, IInv
<1>2. CASE Resolve
  <2>1. TypeOK'
    BY <1>2 DEF IInv, TypeOK, Resolve, Unresolved, program, linked, StepStages
  <2>2. WorkIsReady'
    BY <1>2 DEF IInv, WorkIsReady, Resolve, Unresolved, program, linked
  <2> QED
    BY <1>2, <2>1, <2>2, SceneUntouched, EventsUntouched
    DEF Resolve, program, IInv
<1>3. CASE CycleError
  <2>1. TypeOK'
    BY <1>3 DEF IInv, TypeOK, CycleError, program, linked, StepStages
  <2>2. WorkIsReady'
    BY <1>3 DEF IInv, WorkIsReady, CycleError, program, linked
  <2> QED
    BY <1>3, <2>1, <2>2, SceneUntouched, EventsUntouched
    DEF CycleError, program, IInv
<1>4. CASE Link
  <2>1. LiveSet \subseteq Fields /\ \A f \in LiveSet : def[f] # None
    BY DEF LiveSet, Candidates, Unresolved
  <2>2. {def[f].src : f \in LiveSet} \ {None} \subseteq Slots
    BY <2>1 DEF IInv, TypeOK, Expr
  <2> DEFINE deps == {def[f].src : f \in LiveSet} \ {None}
  <2>3. /\ stage' \in {"error", "ready"}
        /\ live' \subseteq Fields /\ liveFields' \subseteq Fields
        /\ liveDeps' \subseteq Slots
        /\ liveFields' = liveFields \/ liveFields' = LiveSet
    <3>1. CASE \E i \in DOMAIN anims : anims[i].ref \in Rates
      BY <1>4, <3>1 DEF Link, IInv, TypeOK, linked
    <3>2. CASE ~ \E i \in DOMAIN anims : anims[i].ref \in Rates
      <4>1. /\ stage' = "ready" /\ live' = LiveSet /\ liveFields' = LiveSet
            /\ liveDeps' = LiveSet \cup deps
        BY <1>4, <3>2 DEF Link
      <4> HIDE DEF deps
      <4> QED
        BY <2>1, <2>2, <4>1 DEF Slots, deps
    <3> QED
      BY <3>1, <3>2
  <2>4. TypeOK'
    BY <1>4, <2>3 DEF IInv, TypeOK, Link, program, StepStages
  <2>5. WorkIsReady'
    BY <1>4, <2>1, <2>3 DEF IInv, WorkIsReady, Link, program
  <2> QED
    BY <1>4, <2>3, <2>4, <2>5, SceneUntouched, EventsUntouched
    DEF Link, program, IInv
<1>5. ASSUME NEW f \in Fields, InitField(f)
      PROVE  IInv'
  <2>1. def[f] \in Expr
    BY <1>5 DEF InitField, IInv, TypeOK, WorkIsReady
  <2>2. val' \in [Slots -> Int]
    BY <1>5, <2>1, EvalInt, SceneAssumption DEF InitField, IInv, TypeOK
  <2>3. TypeOK'
    BY <1>5, <2>2 DEF IInv, TypeOK, InitField, program, linked, StepStages
  <2>4. WorkIsReady'
    BY <1>5 DEF IInv, WorkIsReady, InitField, program, linked
  <2> QED
    BY <1>5, <2>3, <2>4, SceneUntouched, EventsUntouched
    DEF InitField, program, IInv
<1> QED
  BY <1>1, <1>2, <1>3, <1>4, <1>5 DEF Compiled

(***************************************************************************)
(* A frame keeps the invariant: the phases around the animations.          *)
(***************************************************************************)
LEMMA FrameIInv ==
  ASSUME IInv, NextFrame \/ LastFrame
  PROVE  IInv'
<1>1. CASE NextFrame
  <2>1. FrameTime \in Nat
    BY SceneAssumption DEF FrameTime, IInv, TypeOK
  <2>2. TypeOK'
    BY <1>1, <2>1 DEF IInv, TypeOK, NextFrame, Due, program, linked, StepStages
  <2>3. WorkIsReady'
    BY <1>1 DEF IInv, WorkIsReady, NextFrame, Due, program, linked
  <2> QED
    BY <1>1, <2>2, <2>3, SceneUntouched, EventsUntouched
    DEF NextFrame, program, IInv
<1>2. CASE LastFrame
  <2>1. TypeOK'
    BY <1>2 DEF IInv, TypeOK, LastFrame, program, linked, StepStages
  <2>2. WorkIsReady'
    BY <1>2 DEF IInv, WorkIsReady, LastFrame, program, linked
  <2> QED
    BY <1>2, <2>1, <2>2, SceneUntouched, EventsUntouched
    DEF LastFrame, program, IInv
<1> QED
  BY <1>1, <1>2

LEMMA NextStageIInv ==
  ASSUME IInv, NextStage
  PROVE  IInv'
<1>1. stage' \in {"posts", "live", "anims", "settle", "reposts", "resettle",
                  "rates", "frame"}
  BY DEF NextStage, After, StepStages
<1>2. /\ stage' \in {"posts", "reposts"} => todo' = {k \in Slots : post[k] # None}
      /\ stage' = "anims" => todo' = {i \in DOMAIN anims :
                               anims[i].status # "done" /\ anims[i].t0 <= now}
      /\ stage' = "rates" => todo' \subseteq {f \in Rates : def[f] # None}
  BY DEF NextStage, Work
<1>3. lives' \subseteq liveFields \ frozen
  BY DEF NextStage, LivePass
<1>4. TypeOK'
  BY <1>1, <1>2, <1>3 DEF IInv, TypeOK, NextStage, program, linked, StepStages
<1>5. WorkIsReady'
  BY <1>1, <1>2, <1>3 DEF IInv, WorkIsReady, NextStage, program, linked
<1> QED
  BY <1>1, <1>4, <1>5, SceneUntouched, EventsUntouched
  DEF NextStage, program, IInv

LEMMA FireEventIInv ==
  ASSUME IInv, NEW e \in DOMAIN events, FireEvent(e)
  PROVE  IInv'
<1>1. /\ events \in Seq(Event) /\ DOMAIN events = 1..Len(events)
      /\ events[e] \in Event
  BY LenProperties DEF IInv, TypeOK
<1> DEFINE ev == [events[e] EXCEPT !.done = TRUE]
<1>2. ev \in Event /\ ev.kind = events[e].kind /\ ev.slot = events[e].slot
  BY <1>1 DEF Event
<1>3. events' = [events EXCEPT ![e] = ev]
  BY <1>1 DEF FireEvent
<1> HIDE DEF ev
<1>4. /\ events' \in Seq(Event) /\ DOMAIN events' = DOMAIN events
      /\ \A o \in DOMAIN events : events'[o] = IF o = e THEN ev ELSE events[o]
  BY <1>1, <1>2, <1>3, ExceptSeq
<1>5. Eval(events[e].rhs) \in Int /\ events[e].slot \in Slots
  BY <1>1, EvalInt DEF IInv, Event
<1>6. TypeOK'
  <2>1. val' \in [Slots -> Int]
    BY <1>5 DEF FireEvent, IInv, TypeOK
  <2>2. frozen' \subseteq Fields /\ post' \in [Slots -> Expr \cup {None}]
    BY DEF FireEvent, IInv, TypeOK
  <2>3. todo' \subseteq DOMAIN events' /\ stage' = stage
    BY <1>4 DEF FireEvent, IInv, TypeOK
  <2> QED
    BY <1>4, <2>1, <2>2, <2>3 DEF FireEvent, IInv, TypeOK, linked, StepStages
<1>7. EventsNameSlots'
  BY <1>2, <1>4 DEF IInv, EventsNameSlots, FireEvent
<1>8. WorkIsReady'
  <2>1. /\ stage' = stage /\ stage \in {"top", "events"} /\ todo' = todo \ {e}
        /\ lives' = lives /\ def' = def /\ liveFields' = liveFields
        /\ frozen \subseteq frozen'
    BY DEF FireEvent, linked
  <2>2. \A o \in todo' : o \in DOMAIN events /\ o # e /\ ~events[o].done
    BY <2>1 DEF IInv, TypeOK, WorkIsReady
  <2> QED
    BY <1>4, <2>1, <2>2 DEF IInv, WorkIsReady
<1>9. RowsNameEntities' /\ PresenceEarned'
  BY DEF IInv, RowsNameEntities, PresenceEarned, Begun, Touches, FireEvent
<1>10. HeldByFinished'
  <2>1. \A s \in Slots : post'[s] # None => post[s] = post'[s]
    BY DEF FireEvent, IInv, TypeOK
  <2> QED
    BY <2>1 DEF IInv, HeldByFinished, FireEvent
<1> QED
  BY <1>6, <1>7, <1>8, <1>9, <1>10 DEF IInv

\* The steps that only write a value: they leave the scene as it is.
LEMMA PassIInv ==
  ASSUME IInv,
         \/ \E s \in Slots : ApplyPost(s)
         \/ \E f \in Fields : EvalLive(f) \/ Integrate(f)
         \/ \E i \in DOMAIN anims : Relive(i)
  PROVE  IInv'
<1>1. ASSUME NEW s \in Slots, ApplyPost(s)
      PROVE  IInv'
  <2>1. Eval(post[s]) \in Int
    BY <1>1, EvalInt DEF ApplyPost, IInv, TypeOK, WorkIsReady
  <2>2. TypeOK'
    BY <1>1, <2>1 DEF IInv, TypeOK, ApplyPost, program, linked, StepStages
  <2>3. WorkIsReady'
    BY <1>1 DEF IInv, WorkIsReady, ApplyPost, program, linked
  <2> QED
    BY <1>1, <2>2, <2>3, SceneUntouched, EventsUntouched
    DEF ApplyPost, program, IInv
<1>2. ASSUME NEW f \in Fields, EvalLive(f)
      PROVE  IInv'
  <2>1. Eval(def[f]) \in Int
    BY <1>2, EvalInt DEF EvalLive, IInv, TypeOK, WorkIsReady
  <2>2. TypeOK'
    BY <1>2, <2>1 DEF IInv, TypeOK, EvalLive, program, linked, StepStages
  <2>3. WorkIsReady'
    BY <1>2 DEF IInv, WorkIsReady, EvalLive, program, linked
  <2> QED
    BY <1>2, <2>2, <2>3, SceneUntouched, EventsUntouched
    DEF EvalLive, program, IInv, StepStages
<1>3. ASSUME NEW f \in Fields, Integrate(f)
      PROVE  IInv'
  <2>1. Eval(def[f]) \in Int
    BY <1>3, EvalInt DEF Integrate, IInv, TypeOK, WorkIsReady
  <2>2. FrameStep * Eval(def[f]) \in Int
    BY <2>1, SceneAssumption
  <2>3. val' \in [Slots -> Int]
    BY <1>3, <2>2 DEF Integrate, IInv, TypeOK, Slots
  <2>4. TypeOK'
    BY <1>3, <2>3 DEF IInv, TypeOK, Integrate, program, linked, StepStages
  <2>5. WorkIsReady'
    BY <1>3 DEF IInv, WorkIsReady, Integrate, program, linked
  <2> QED
    BY <1>3, <2>4, <2>5, SceneUntouched, EventsUntouched
    DEF Integrate, program, IInv
<1>4. ASSUME NEW i \in DOMAIN anims, Relive(i)
      PROVE  IInv'
  <2>1. lives' \subseteq liveFields \ frozen
    BY <1>4 DEF Relive, LivePass
  <2>2. TypeOK'
    BY <1>4, <2>1 DEF IInv, TypeOK, Relive, program, linked, StepStages
  <2>3. WorkIsReady'
    BY <1>4, <2>1 DEF IInv, WorkIsReady, Relive, Turn, program, linked
  <2> QED
    BY <1>4, <2>2, <2>3, SceneUntouched, EventsUntouched
    DEF Relive, Turn, program, IInv
<1> QED
  BY <1>1, <1>2, <1>3, <1>4

(***************************************************************************)
(* A frame keeps the invariant: the animations.                            *)
(***************************************************************************)

\* What a turn leaves alone, and what it needs to keep the whole invariant:
\* a value for every slot, a held assignment only if it ends on it, and the
\* presence of its own entities only.
LEMMA TurnIInv ==
  ASSUME IInv, NEW i, NEW from \in Int, NEW dstFrom \in Int,
         Drive(i, from, dstFrom),
         val' \in [Slots -> Int],
         def' \in [Fields -> Expr \cup {None}],
         \A f \in Fields \ frozen' : def'[f] = def[f],
         live' \subseteq Fields, frozen' \subseteq Fields, frozen \subseteq frozen',
         post' \in [Slots -> Expr \cup {None}],
         \A s \in Slots :
           post'[s] = post[s] \/ post'[s] = None
             \/ /\ Closing(anims[i]) /\ s = anims[i].ref
                /\ post'[s] = anims[i].goal,
         active' \subseteq Entities,
         \A e \in active' \ active : Touches(i, e) /\ anims[i].kind # "exit"
  PROVE  IInv'
<1>1. /\ i \in DOMAIN anims /\ anims[i] \in Anim
      /\ anims[i].t0 <= now /\ anims[i].status # "done"
      /\ stage = "anims" /\ lives = {} /\ todo' = todo \ {i}
      /\ anims' \in Seq(Anim) /\ DOMAIN anims' = DOMAIN anims
      /\ \A j \in DOMAIN anims :
           /\ anims'[j].kind = anims[j].kind /\ anims'[j].ref = anims[j].ref
           /\ anims'[j].ent = anims[j].ent /\ anims'[j].dst = anims[j].dst
           /\ anims'[j].goal = anims[j].goal
           /\ anims'[j].t0 = anims[j].t0 /\ anims'[j].t1 = anims[j].t1
           /\ j # i => anims'[j] = anims[j]
      /\ anims'[i].status = IF Closing(anims[i]) THEN "done" ELSE "started"
  BY DriveTurn
<1>2. /\ stage' = stage /\ dirty' \in BOOLEAN /\ cursor' = cursor
      /\ block' = block /\ open' = open /\ events' = events
      /\ captured' = captured /\ liveFields' = liveFields
      /\ liveDeps' = liveDeps /\ now' = now /\ lives' = lives /\ drawn' = drawn
  BY <1>1 DEF Drive, linked, IInv, TypeOK
<1>3. TypeOK'
  BY <1>1, <1>2 DEF IInv, TypeOK, StepStages
<1>4. RowsNameEntities'
  BY <1>1, <1>2 DEF IInv, RowsNameEntities
<1>5. EventsNameSlots'
  BY <1>1, <1>2 DEF IInv, EventsNameSlots
<1>6. WorkIsReady'
  <2>1. \A f \in liveFields' \ frozen' : def'[f] # None
    BY <1>2 DEF IInv, TypeOK, WorkIsReady
  <2>2. \A j \in todo' : anims'[j].t0 <= now' /\ anims'[j].status # "done"
    <3> SUFFICES ASSUME NEW j \in todo'
                 PROVE  anims'[j].t0 <= now' /\ anims'[j].status # "done"
      OBVIOUS
    <3>1. j \in todo /\ j # i /\ j \in DOMAIN anims
      BY <1>1 DEF IInv, TypeOK
    <3> QED
      BY <1>1, <1>2, <3>1 DEF IInv, WorkIsReady
  <2> QED
    BY <1>1, <1>2, <2>1, <2>2 DEF WorkIsReady
<1>7. HeldByFinished'
  <2> SUFFICES ASSUME NEW s \in Slots, post'[s] # None
               PROVE  \E j \in DOMAIN anims' :
                        /\ anims'[j].ref = s /\ anims'[j].status = "done"
                        /\ anims'[j].goal = post'[s]
    BY DEF HeldByFinished
  <2>1. CASE post'[s] = post[s]
    <3>1. PICK j \in DOMAIN anims :
            anims[j].ref = s /\ anims[j].status = "done" /\ anims[j].goal = post[s]
      BY <2>1 DEF IInv, HeldByFinished
    <3>2. j # i
      BY <1>1, <3>1
    <3> QED
      BY <1>1, <2>1, <3>1, <3>2
  <2>2. CASE /\ Closing(anims[i]) /\ s = anims[i].ref
             /\ post'[s] = anims[i].goal
    BY <1>1, <2>2
  <2> QED
    BY <2>1, <2>2
<1>8. PresenceEarned'
  <2> SUFFICES ASSUME NEW e \in active'
               PROVE  \E j \in DOMAIN anims' :
                        /\ anims'[j].status # "new"
                        /\ anims'[j].kind \in {"enter", "exit", "morph"}
                        /\ e \in {anims'[j].ent, anims'[j].dst}
                        /\ anims'[j].kind # "exit"
    BY DEF PresenceEarned, Begun, Touches
  <2>1. CASE e \in active
    <3>1. PICK j \in DOMAIN anims :
            Begun(j) /\ Touches(j, e) /\ anims[j].kind # "exit"
      BY <2>1 DEF IInv, PresenceEarned
    <3>2. anims'[j].status # "new"
      BY <1>1, <3>1 DEF Begun
    <3> QED
      BY <1>1, <3>1, <3>2 DEF Touches
  <2>2. CASE e \notin active
    <3>1. Touches(i, e) /\ anims[i].kind # "exit"
      BY <2>2
    <3> QED
      BY <1>1, <3>1 DEF Touches
  <2> QED
    BY <2>1, <2>2
<1> QED
  BY <1>3, <1>4, <1>5, <1>6, <1>7, <1>8 DEF IInv

\* The start value of a turn is a value, and so is every point of its curve.
LEMMA TurnValues ==
  ASSUME IInv, NEW i, Turn(i)
  PROVE  /\ i \in DOMAIN anims /\ anims[i] \in Anim /\ anims[i].t0 <= now
         /\ anims[i].ref \in Slots /\ StartFrom(anims[i]) \in Int
         /\ \A L : Tweened(anims[i], L) \in [Slots -> Int]
         /\ Held(anims[i]) \in [Slots -> Expr \cup {None}]
         /\ \A s \in Slots :
              Held(anims[i])[s] = post[s] \/ Held(anims[i])[s] = None
                \/ /\ Closing(anims[i]) /\ s = anims[i].ref
                   /\ Held(anims[i])[s] = anims[i].goal
<1>1. i \in DOMAIN anims /\ anims[i].t0 <= now
  BY DEF Turn, IInv, TypeOK, WorkIsReady
<1>2. anims[i] \in Anim
  BY <1>1, LenProperties DEF IInv, TypeOK
<1>3. anims[i].ref \in Slots /\ anims[i].goal \in Expr /\ anims[i].from \in Int
  BY <1>2 DEF Anim
<1>4. val \in [Slots -> Int] /\ post \in [Slots -> Expr \cup {None}]
  BY DEF IInv, TypeOK
<1>5. StartFrom(anims[i]) \in Int
  BY <1>3, <1>4 DEF StartFrom
<1>6. Eval(anims[i].goal) \in Int
  BY <1>3, EvalInt DEF IInv
<1>7. ASSUME NEW L
      PROVE  Tweened(anims[i], L) \in [Slots -> Int]
  <2> DEFINE from == IF anims[i].ref \in L THEN val[anims[i].ref]
                     ELSE StartFrom(anims[i])
  <2>1. from \in Int
    BY <1>3, <1>4, <1>5
  <2> HIDE DEF from
  <2>2. Lerp(from, Eval(anims[i].goal), anims[i]) \in Int
    BY <1>1, <1>2, <1>6, <2>1, LerpInt DEF IInv
  <2>3. Tweened(anims[i], L) =
          [val EXCEPT ![anims[i].ref] = Lerp(from, Eval(anims[i].goal), anims[i])]
    BY DEF Tweened, from
  <2> QED
    BY <1>3, <1>4, <2>2, <2>3
<1>8. Held(anims[i]) \in [Slots -> Expr \cup {None}]
  BY <1>3, <1>4 DEF Held
<1>9. \A s \in Slots :
        Held(anims[i])[s] = post[s] \/ Held(anims[i])[s] = None
          \/ /\ Closing(anims[i]) /\ s = anims[i].ref
             /\ Held(anims[i])[s] = anims[i].goal
  BY <1>3, <1>4 DEF Held
<1> QED
  BY <1>1, <1>2, <1>3, <1>5, <1>7, <1>8, <1>9

LEMMA RunTweenIInv ==
  ASSUME IInv, NEW i \in DOMAIN anims, RunTween(i)
  PROVE  IInv'
<1>1. Turn(i) /\ Drive(i, StartFrom(anims[i]), 0)
  BY DEF RunTween, Drive
<1>2. /\ val' = Tweened(anims[i], live) /\ post' = Held(anims[i])
      /\ UNCHANGED <<def, live, frozen, active>>
  BY DEF RunTween
<1>3. /\ def \in [Fields -> Expr \cup {None}] /\ live \subseteq Fields
      /\ frozen \subseteq Fields /\ active \subseteq Entities
  BY DEF IInv, TypeOK
<1> QED
  BY <1>1, <1>2, <1>3, TurnValues, TurnIInv

LEMMA RunEntranceIInv ==
  ASSUME IInv, NEW i \in DOMAIN anims, RunEntrance(i)
  PROVE  IInv'
<1>1. Turn(i) /\ Drive(i, StartFrom(anims[i]), 0)
  BY DEF RunEntrance, Drive
<1>2. /\ val' = Tweened(anims[i], live) /\ post' = Held(anims[i])
      /\ UNCHANGED <<def, live, frozen>>
      /\ anims[i].kind = "enter" /\ active' \subseteq active \cup {anims[i].ent}
  BY DEF RunEntrance
<1>3. /\ def \in [Fields -> Expr \cup {None}] /\ live \subseteq Fields
      /\ frozen \subseteq Fields /\ active \subseteq Entities
      /\ anims[i].ent \in Entities
  BY <1>2 DEF IInv, TypeOK, RowsNameEntities
<1>4. /\ active' \subseteq Entities
      /\ \A e \in active' \ active : Touches(i, e) /\ anims[i].kind # "exit"
  BY <1>2, <1>3 DEF Touches
<1> QED
  BY <1>1, <1>2, <1>3, <1>4, TurnValues, TurnIInv

LEMMA RunExitIInv ==
  ASSUME IInv, NEW i \in DOMAIN anims, RunExit(i)
  PROVE  IInv'
<1>1. Turn(i) /\ Drive(i, StartFrom(anims[i]), 0)
  BY DEF RunExit, Drive
<1>2. /\ val' = Tweened(anims[i], live') /\ post' = Held(anims[i])
      /\ active' \subseteq active
  BY DEF RunExit, ExitPresence
<1> DEFINE gone == IF Fresh(anims[i]) THEN {anims[i].ref} \cap Fields ELSE {}
<1>3. /\ def' = [f \in Fields |-> IF f \in gone THEN None ELSE def[f]]
      /\ live' = live \ gone /\ frozen' = frozen \cup gone
  BY DEF RunExit
<1>4. gone \subseteq Fields
  OBVIOUS
<1> HIDE DEF gone
<1>5. /\ def \in [Fields -> Expr \cup {None}] /\ live \subseteq Fields
      /\ frozen \subseteq Fields /\ active \subseteq Entities
  BY DEF IInv, TypeOK
<1>6. /\ def' \in [Fields -> Expr \cup {None}]
      /\ \A f \in Fields \ frozen' : def'[f] = def[f]
      /\ live' \subseteq Fields /\ frozen' \subseteq Fields
      /\ frozen \subseteq frozen'
  BY <1>3, <1>4, <1>5
<1>7. active' \subseteq Entities /\ active' \ active = {}
  BY <1>2, <1>5
<1> QED
  BY <1>1, <1>2, <1>6, <1>7, TurnValues, TurnIInv

LEMMA RunMorphIInv ==
  ASSUME IInv, NEW i \in DOMAIN anims, RunMorph(i)
  PROVE  IInv'
<1> DEFINE a == anims[i]
           from == StartFrom(a)
           dstFrom == DstFrom(a)
           Fade(x, y) == IF MorphsOutline(a) /\ ~Closing(a) THEN x
                         ELSE Lerp(x, y, a)
<1>1. Turn(i) /\ Drive(i, from, dstFrom) /\ a.kind = "morph"
  BY DEF RunMorph, Drive
<1>2. /\ val' = [val EXCEPT ![a.ref] = Fade(from, Hidden),
                            ![Opacity[a.dst]] = Fade(dstFrom, Full)]
      /\ post' = (IF Fresh(a) THEN [post EXCEPT ![a.ref] = None] ELSE post)
      /\ active' = MorphPresence(a)
      /\ UNCHANGED <<def, live, frozen>>
  BY DEF RunMorph
<1>3. /\ a \in Anim /\ a.t0 <= now /\ a.ref \in Slots /\ from \in Int
      /\ a.ent \in Entities /\ a.dst \in Entities
  BY <1>1, TurnValues DEF IInv, RowsNameEntities
<1>4. /\ def \in [Fields -> Expr \cup {None}] /\ live \subseteq Fields
      /\ frozen \subseteq Fields /\ active \subseteq Entities
      /\ val \in [Slots -> Int] /\ post \in [Slots -> Expr \cup {None}]
  BY DEF IInv, TypeOK
<1>5. Opacity[a.dst] \in Slots
  BY <1>3, SceneAssumption DEF Slots
<1>6. dstFrom \in Int
  <2>1. a.dstFrom \in Int
    BY <1>3 DEF Anim
  <2> QED
    BY <1>4, <1>5, <2>1, HiddenInt DEF DstFrom
<1> HIDE DEF a, from, dstFrom
<1>7. Fade(from, Hidden) \in Int /\ Fade(dstFrom, Full) \in Int
  BY <1>3, <1>6, HiddenInt, LerpInt DEF IInv
<1> HIDE DEF Fade
<1>8. val' \in [Slots -> Int]
  BY <1>2, <1>3, <1>4, <1>5, <1>7
<1>9. /\ post' \in [Slots -> Expr \cup {None}]
      /\ \A s \in Slots : post'[s] = post[s] \/ post'[s] = None
  BY <1>2, <1>3, <1>4
<1>10. active' \subseteq active \cup {a.ent, a.dst}
  BY <1>2 DEF MorphPresence
<1>11. /\ active' \subseteq Entities
       /\ \A e \in active' \ active : Touches(i, e) /\ anims[i].kind # "exit"
  BY <1>1, <1>3, <1>4, <1>10 DEF Touches, a
<1> QED
  BY <1>1, <1>2, <1>3, <1>4, <1>6, <1>8, <1>9, <1>11, TurnIInv

LEMMA StepIInv == IInv /\ Step => IInv'
<1> SUFFICES ASSUME IInv, Step
             PROVE  IInv'
  OBVIOUS
<1>1. CASE NextFrame \/ LastFrame
  BY <1>1, FrameIInv
<1>2. CASE NextStage
  BY <1>2, NextStageIInv
<1>3. ASSUME NEW e \in DOMAIN events, FireEvent(e) PROVE IInv'
  BY <1>3, FireEventIInv
<1>4. CASE \/ \E s \in Slots : ApplyPost(s)
           \/ \E f \in Fields : EvalLive(f) \/ Integrate(f)
           \/ \E i \in DOMAIN anims : Relive(i)
  BY <1>4, PassIInv
<1>5. ASSUME NEW i \in DOMAIN anims,
             RunTween(i) \/ RunEntrance(i) \/ RunExit(i) \/ RunMorph(i)
      PROVE  IInv'
  BY <1>5, RunTweenIInv, RunEntranceIInv, RunExitIInv, RunMorphIInv
<1> QED
  BY <1>1, <1>2, <1>3, <1>4, <1>5 DEF Step

LEMMA InitIInv == Init => IInv
<1> SUFFICES ASSUME Init
             PROVE  IInv
  OBVIOUS
<1>1. anims \in Seq(Anim) /\ DOMAIN anims = {}
  BY EmptySeq DEF Init
<1>2. events \in Seq(Event) /\ DOMAIN events = {}
  BY EmptySeq DEF Init
<1>3. /\ val \in [Slots -> Int] /\ post \in [Slots -> Expr \cup {None}]
      /\ def \in [Fields -> Expr \cup {None}]
  BY SceneAssumption DEF Init, Slots
<1>4. TypeOK
  BY <1>1, <1>2, <1>3 DEF Init, TypeOK, StepStages
<1>5. RowsNameEntities /\ EventsNameSlots
  BY <1>1, <1>2 DEF Init, RowsNameEntities, EventsNameSlots
<1>6. WorkIsReady
  BY DEF Init, WorkIsReady
<1>7. HeldByFinished /\ PresenceEarned
  BY DEF Init, HeldByFinished, PresenceEarned
<1> QED
  BY <1>4, <1>5, <1>6, <1>7 DEF IInv

LEMMA NextIInv == IInv /\ [Next]_vars => IInv'
<1> SUFFICES ASSUME IInv, [Next]_vars
             PROVE  IInv'
  OBVIOUS
<1>1. CASE Score
  BY <1>1, ScoreIInv
<1>2. CASE Compiled
  BY <1>2, CompiledIInv
<1>3. CASE Step
  BY <1>3, StepIInv
<1>4. CASE UNCHANGED vars
  <2>1. TypeOK'
    BY <1>4 DEF IInv, TypeOK, vars, StepStages
  <2>2. RowsNameEntities' /\ EventsNameSlots' /\ WorkIsReady'
    BY <1>4 DEF IInv, RowsNameEntities, EventsNameSlots, WorkIsReady, vars
  <2>3. HeldByFinished' /\ PresenceEarned'
    BY <1>4 DEF IInv, HeldByFinished, PresenceEarned, Begun, Touches, vars
  <2> QED
    BY <2>1, <2>2, <2>3 DEF IInv
<1> QED
  BY <1>1, <1>2, <1>3, <1>4 DEF Next, Finished

LEMMA Inductive == Spec => []IInv
BY InitIInv, NextIInv, PTL DEF Spec

(***************************************************************************)
(* The theorems.                                                           *)
(***************************************************************************)

\* Every scene the score can write keeps its types through Compile and every
\* frame: no step evaluates a field without an expression, divides a window of
\* length zero or drives an animation the scene does not have.
THEOREM Typing == Spec => []TypeOK
<1>1. IInv => TypeOK
  BY DEF IInv
<1> QED
  BY <1>1, Inductive, PTL

\* Whatever rt.post holds on a slot, in every phase of every frame, is the
\* goal of an animation of that slot whose window is over: no assignment
\* outlives the start of the next tween with the value of an unfinished one.
THEOREM HeldIsEarned == Spec => []HeldByFinished
<1>1. IInv => HeldByFinished
  BY DEF IInv
<1> QED
  BY <1>1, Inductive, PTL

\* Nothing but an entrance or a morph that has begun makes an entity present.
THEOREM PresenceIsEarned == Spec => []PresenceEarned
<1>1. IInv => PresenceEarned
  BY DEF IInv
<1> QED
  BY <1>1, Inductive, PTL

\* Once the event of a capture has run, only a row that writes the name can
\* change it. This rests on the invariant: a held assignment on the name would
\* have come from such a row, no second event is of the name, and every other
\* step writes a field.
THEOREM CaptureStaysFrozen == Spec => CaptureIsFrozen
<1>1. ASSUME IInv, Next, NEW e \in DOMAIN events,
             events[e].kind = "capture", events[e].done,
             ~HasWriter(events[e].slot)
      PROVE  val'[events[e].slot] = val[events[e].slot]
  <2> DEFINE g == events[e].slot
  <2>1. g \in Globals /\ g \in Slots /\ g \notin Fields
    BY <1>1, SceneAssumption DEF IInv, TypeOK, EventsNameSlots, Slots
  <2>2. ~HasWriter(g) /\ val \in [Slots -> Int]
    BY <1>1 DEF IInv, TypeOK
  <2>3. CASE Score
    <3>1. stage = "score"
      BY <2>3 DEF Score, Block, Arrow, Entrance, Exit, Morph, SetStmt,
                  CaptureStmt, Row
    <3> QED
      BY <1>1, <3>1 DEF IInv, EventsNameSlots
  <2>4. CASE Compiled
    BY <2>1, <2>2, <2>4
    DEF Compiled, CloseScore, Resolve, CycleError, Link, InitField
  <2>5. ASSUME NEW o \in DOMAIN events, FireEvent(o)
        PROVE  val'[g] = val[g]
    <3>1. o # e
      BY <1>1, <2>5 DEF IInv, WorkIsReady, FireEvent
    <3>2. events[o].slot # g
      <4>1. events[o] \in Event
        BY <1>1, LenProperties DEF IInv, TypeOK
      <4>2. CASE events[o].kind = "set"
        BY <1>1, <2>1, <4>2 DEF IInv, EventsNameSlots
      <4>3. CASE events[o].kind = "capture"
        BY <1>1, <3>1, <4>3 DEF IInv, EventsNameSlots
      <4> QED
        BY <4>1, <4>2, <4>3 DEF Event
    <3> QED
      BY <2>1, <2>2, <2>5, <3>2 DEF FireEvent
  <2>6. ASSUME NEW s \in Slots, ApplyPost(s)
        PROVE  val'[g] = val[g]
    <3>1. post[s] # None
      BY <1>1, <2>6 DEF IInv, WorkIsReady, ApplyPost
    <3>2. HasWriter(s)
      BY <1>1, <3>1 DEF IInv, HeldByFinished, HasWriter
    <3> QED
      BY <2>1, <2>2, <2>6, <3>2 DEF ApplyPost
  <2>7. ASSUME NEW f \in Fields, EvalLive(f) \/ Integrate(f)
        PROVE  val'[g] = val[g]
    BY <2>1, <2>2, <2>7 DEF EvalLive, Integrate
  <2>8. ASSUME NEW i \in DOMAIN anims, RunTween(i) \/ RunEntrance(i) \/ RunExit(i)
        PROVE  val'[g] = val[g]
    <3>1. \E L : val' = Tweened(anims[i], L)
      BY <2>8 DEF RunTween, RunEntrance, RunExit
    <3>2. anims[i].ref # g
      BY <2>2 DEF HasWriter
    <3> QED
      BY <2>1, <2>2, <3>1, <3>2 DEF Tweened
  <2>9. ASSUME NEW i \in DOMAIN anims, RunMorph(i)
        PROVE  val'[g] = val[g]
    <3>1. anims[i].ref # g
      BY <2>2 DEF HasWriter
    <3>2. anims[i].dst \in Entities
      BY <1>1, <2>9 DEF RunMorph, IInv, RowsNameEntities
    <3>3. Opacity[anims[i].dst] # g
      BY <2>1, <3>2, SceneAssumption
    <3>4. \E xx, yy : val' = [val EXCEPT ![anims[i].ref] = xx,
                                       ![Opacity[anims[i].dst]] = yy]
      BY <2>9 DEF RunMorph
    <3> QED
      BY <2>1, <2>2, <3>1, <3>3, <3>4
  <2>10. ASSUME NEW i \in DOMAIN anims, Relive(i)
         PROVE  val'[g] = val[g]
    BY <2>10 DEF Relive
  <2>11. CASE NextFrame \/ NextStage \/ LastFrame
    BY <2>11 DEF NextFrame, NextStage, LastFrame
  <2>12. CASE Finished
    BY <2>12 DEF Finished, vars
  <2>13. CASE Step
    BY <2>5, <2>6, <2>7, <2>8, <2>9, <2>10, <2>11, <2>13 DEF Step
  <2> QED
    BY <1>1, <2>3, <2>4, <2>12, <2>13 DEF Next
<1>2. IInv /\ [Next]_vars =>
        [\A e \in DOMAIN events :
           events[e].kind = "capture" /\ events[e].done
             /\ ~HasWriter(events[e].slot)
           => val'[events[e].slot] = val[events[e].slot]]_vars
  BY <1>1
<1> QED
  BY <1>2, Inductive, PTL DEF Spec, CaptureIsFrozen

(***************************************************************************)
(* What the frames of a scene show: the last frame closes the score, rates *)
(* are integrals, live fields follow, and presence follows the rows.       *)
(*                                                                         *)
(* The inductive invariant is a conjunction of groups, each kept by every  *)
(* step with the help of the groups above it: what never changes in a row  *)
(* or an event, the clock, the live fields, and on these the properties.   *)
(***************************************************************************)
Waiting == {"score", "top", "init", "ready", "error"}
Running == StepStages \cup {"frame", "done"}

\* A row's own part of the frame is over: its turn has come, or the row had
\* nothing to do.
Turned(i) ==
  \/ stage \in {"settle", "reposts", "resettle", "rates", "frame", "done"}
  \/ stage = "anims" /\ i \notin todo

(***************************************************************************)
(* The invariant.                                                          *)
(***************************************************************************)
\* Rows are of slots that are known and that no rate is integrated into, an
\* entrance or exit is of one entity, and a morph is of two.
RowsStand ==
  /\ \A i \in DOMAIN anims :
       /\ Known(anims[i].ref)
       /\ stage \in {"ready"} \cup Running => anims[i].ref \notin Rates
       /\ anims[i].kind \in {"enter", "exit"} => anims[i].dst = None
       /\ anims[i].kind = "morph" =>
            /\ anims[i].ent # anims[i].dst /\ anims[i].ref = Opacity[anims[i].ent]
            /\ Begun(i) /\ MorphsOutline(anims[i]) => anims[i].dstFrom = Hidden

\* The clock stands on the frame grid and within the score.
ClockOnGrid ==
  /\ \E k \in Nat : now = k * FrameStep
  /\ stage \in Waiting => now = 0
  /\ stage \in Running => now <= cursor
  /\ stage = "done" => cursor < now + FrameStep

\* Every event is behind the score's cursor, runs in the first frame that
\* reaches it and, in that frame, before any row that begins after it.
EventsOnTime ==
  /\ \A e \in DOMAIN events : events[e].t <= cursor
  /\ open => \A e \in DOMAIN events : events[e].t <= block
  /\ \A e \in DOMAIN events, i \in DOMAIN anims :
       events[e].kind = "capture" /\ anims[i].ref = events[e].slot
       => events[e].t <= anims[i].t0
  /\ stage \in Running => \A e \in DOMAIN events :
       events[e].t <= now /\ ~events[e].done => stage = "events" /\ e \in todo
  /\ stage = "events" => \A e \in todo, i \in DOMAIN anims :
       Begun(i) => anims[i].t0 < events[e].t

\* A row begins in the first frame that reaches its window, is over in the
\* first that reaches the end of it, and takes its turn after the rows before
\* it: when it begins, they have begun, and those that end by then are over;
\* when it is over, those of them that end no later are.
RowsOnTime ==
  /\ stage \in Waiting => \A i \in DOMAIN anims : ~Begun(i)
  /\ \A i \in DOMAIN anims :
       /\ Begun(i) => anims[i].t0 <= now
       /\ anims[i].status = "done" => anims[i].t1 <= now
       /\ stage \in {"events", "posts", "live"} /\ anims[i].status = "done"
            => anims[i].t1 < now
       /\ Turned(i) /\ anims[i].t0 <= now =>
            Begun(i) /\ (anims[i].t1 <= now => anims[i].status = "done")
  /\ \A i, j \in DOMAIN anims :
       Begun(j) /\ Before(i, j) /\ i # j =>
         /\ Begun(i) /\ (anims[i].t1 <= anims[j].t0 => anims[i].status = "done")
         /\ anims[j].status = "done" /\ anims[i].t1 <= anims[j].t1
              => anims[i].status = "done"

\* The live fields are those linked, until a row or a set freezes one, and a
\* pass has only fields of its kind left.
LiveStands ==
  /\ liveFields \cap Rates = {}
  /\ liveFields \ frozen \subseteq live
  /\ stage \notin {"init", "error", "live", "anims", "settle", "resettle"} => lives = {}
  /\ stage \in StepStages => lives \subseteq LivePass(stage = "live")

\* A literal rate, before and after its turn in a frame.
Grown(f) ==
  IF stage \in {"frame", "done"} \/ (stage = "rates" /\ f \notin todo)
  THEN now ELSE IF now = 0 THEN 0 ELSE now - FrameStep
RatesGrow ==
  /\ stage \in {"init", "ready"} \cup Running =>
       \A f \in Rates \ frozen :
         /\ def[f] # None /\ def[f].src = None
         /\ f \notin lives
         /\ \A i \in DOMAIN anims : ~Writes(i, f)
         => val[f] = Default[f] + def[f].off * Grown(f)
  /\ stage = "init" => lives \subseteq Unresolved
  /\ stage = "rates" /\ now = 0 => todo = {}

\* In a pass without writers, what has been evaluated is settled: it shows its
\* expression, which reads nothing that is still to be evaluated.
PassSettles ==
  /\ stage \in {"settle", "resettle"} =>
       \A f \in LivePass(FALSE) \ lives :
         def[f].src \notin lives /\ val[f] = Eval(def[f])
  /\ stage \in {"rates", "frame"} =>
       \A f \in LivePass(FALSE) : def[f].src \notin Rates => val[f] = Eval(def[f])

\* The last presence row to have begun decides, but for a morph whose window
\* ends in this frame and whose turn has not come.
Pending(i) ==
  stage = "anims" /\ i \in todo /\ anims[i].kind = "morph" /\ Closing(anims[i])
LastDecides ==
  \A e \in Entities : Apart(e) => \A i \in DOMAIN anims : LastOf(i, e) =>
    /\ Shows(i, e) /\ ~Pending(i) => e \in active
    /\ Hides(i, e) => e \notin active

FramesInv ==
  /\ IInv /\ RowsStand /\ ClockOnGrid /\ EventsOnTime /\ RowsOnTime
  /\ LiveStands /\ RatesGrow /\ PassSettles /\ LastDecides

(***************************************************************************)
(* What the steps do: the score adds rows and events, everything after it  *)
(* leaves them as they were written.                                       *)
(***************************************************************************)
SameRows ==
  /\ DOMAIN anims' = DOMAIN anims
  /\ \A i \in DOMAIN anims :
       /\ anims'[i].kind = anims[i].kind /\ anims'[i].ref = anims[i].ref
       /\ anims'[i].ent = anims[i].ent /\ anims'[i].dst = anims[i].dst
       /\ anims'[i].goal = anims[i].goal
       /\ anims'[i].t0 = anims[i].t0 /\ anims'[i].t1 = anims[i].t1
SameEvents ==
  /\ DOMAIN events' = DOMAIN events
  /\ \A e \in DOMAIN events :
       /\ events'[e].kind = events[e].kind /\ events'[e].slot = events[e].slot
       /\ events'[e].t = events[e].t

TurnStep(i) == RunTween(i) \/ RunEntrance(i) \/ RunExit(i) \/ RunMorph(i)

\* A row added to the open block.
NewRow(a) ==
  /\ a.status = "new" /\ block <= a.t0 /\ Known(a.ref)
  /\ a.kind \in {"enter", "exit"} => a.dst = None
  /\ a.kind = "morph" => a.ent # a.dst /\ a.ref = Opacity[a.ent]

\* The types of rows and events.
LEMMA Shapes ==
  ASSUME TypeOK
  PROVE  /\ DOMAIN anims = 1..Len(anims) /\ Len(anims) \in Nat
         /\ DOMAIN events = 1..Len(events) /\ Len(events) \in Nat
         /\ \A i \in DOMAIN anims :
              /\ anims[i] \in Anim /\ anims[i].t0 \in Nat /\ anims[i].t1 \in Nat
              /\ anims[i].t0 <= anims[i].t1 /\ anims[i].ref \in Slots
              /\ anims[i].goal \in Expr /\ anims[i].from \in Int
              /\ anims[i].status \in {"new", "started", "done"}
              /\ anims[i].kind \in {"tween", "enter", "exit", "morph"}
         /\ \A e \in DOMAIN events :
              /\ events[e] \in Event /\ events[e].t \in Nat
              /\ events[e].slot \in Slots /\ events[e].done \in BOOLEAN
              /\ events[e].kind \in {"set", "capture"} /\ events[e].rhs \in Expr
<1>1. /\ anims \in Seq(Anim) /\ events \in Seq(Event)
      /\ \A i \in DOMAIN anims : anims[i].t0 <= anims[i].t1
  BY DEF TypeOK
<1>2. /\ DOMAIN anims = 1..Len(anims) /\ Len(anims) \in Nat
      /\ DOMAIN events = 1..Len(events) /\ Len(events) \in Nat
  BY <1>1, LenProperties
<1>3. \A i \in DOMAIN anims : anims[i] \in Anim
  BY <1>1, <1>2
<1>4. \A e \in DOMAIN events : events[e] \in Event
  BY <1>1, <1>2
<1> QED
  BY <1>1, <1>2, <1>3, <1>4 DEF Anim, Event

\* Rows are appended behind the ones there are.
LEMMA Appended ==
  ASSUME anims \in Seq(Anim), NEW new \in Seq(Anim), anims' = anims \o new,
         \A k \in DOMAIN new : NewRow(new[k])
  PROVE  /\ \A i \in DOMAIN anims : i \in DOMAIN anims' /\ anims'[i] = anims[i]
         /\ \A i \in DOMAIN anims' : i \in DOMAIN anims \/ NewRow(anims'[i])
<1>1. /\ anims' \in Seq(Anim) /\ Len(anims') = Len(anims) + Len(new)
      /\ \A i \in 1..Len(anims) : anims'[i] = anims[i]
      /\ \A i \in Len(anims) + 1 .. Len(anims) + Len(new) :
           anims'[i] = new[i - Len(anims)]
  BY ConcatProperties
<1>2. /\ DOMAIN anims = 1..Len(anims) /\ DOMAIN new = 1..Len(new)
      /\ DOMAIN anims' = 1..Len(anims')
      /\ Len(anims) \in Nat /\ Len(new) \in Nat
  BY <1>1, LenProperties
<1>3. ASSUME NEW i \in DOMAIN anims', i \notin DOMAIN anims
      PROVE  NewRow(anims'[i])
  <2>1. i - Len(anims) \in DOMAIN new
    BY <1>1, <1>2, <1>3
  <2>2. anims'[i] = new[i - Len(anims)]
    BY <1>1, <1>2, <1>3
  <2> QED
    BY <2>1, <2>2
<1> QED
  BY <1>1, <1>2, <1>3

\* The score adds a block, rows to the open block, or an event at its cursor,
\* which closes the block.
LEMMA ScoreStep ==
  ASSUME IInv, Score
  PROVE  /\ stage = "score" /\ stage' = "score" /\ UNCHANGED <<now, todo, lives, linked, post, active>>
         /\ cursor <= cursor' /\ captured \subseteq captured'
         /\ \A i \in DOMAIN anims : i \in DOMAIN anims' /\ anims'[i] = anims[i]
         /\ \A e \in DOMAIN events : e \in DOMAIN events' /\ events'[e] = events[e]
         /\ \/ /\ UNCHANGED <<anims, events, captured>>
               /\ block' = cursor /\ block <= cursor
            \/ /\ open /\ open' /\ UNCHANGED <<block, cursor, events, captured>>
               /\ \A i \in DOMAIN anims' : i \in DOMAIN anims \/ NewRow(anims'[i])
            \/ /\ ~open' /\ UNCHANGED <<anims, cursor, block>>
               /\ \A e \in DOMAIN events' : e \in DOMAIN events
                    \/ /\ events'[e].t = cursor /\ ~events'[e].done
                       /\ events'[e].kind = "capture" =>
                            /\ events'[e].slot \in Globals \ captured
                            /\ events'[e].slot \in captured'
<1>1. stage = "score" /\ stage' = "score" /\ UNCHANGED <<now, todo, lives, linked, post, active>>
  BY DEF Score, Block, Arrow, Entrance, Exit, Morph, SetStmt, CaptureStmt, Row, Idle, linked
<1>2. anims \in Seq(Anim) /\ cursor \in Nat /\ block \in Nat /\ block <= cursor
  BY DEF IInv, TypeOK, RowsNameEntities
<1>3. ASSUME NEW d \in 1..MaxTime, Block(d)
      PROVE  UNCHANGED <<anims, events, captured>> /\ block' = cursor /\ cursor <= cursor'
  <2>1. d \in Nat
    BY SceneAssumption
  <2> QED
    BY <1>2, <1>3, <2>1 DEF Block
<1>4. ASSUME NEW new \in Seq(Anim), anims' = anims \o new,
             \A k \in DOMAIN new : NewRow(new[k]),
             open, open', UNCHANGED <<block, cursor, events, captured>>
      PROVE  /\ open /\ open' /\ UNCHANGED <<block, cursor, events, captured>>
             /\ \A i \in DOMAIN anims : i \in DOMAIN anims' /\ anims'[i] = anims[i]
             /\ \A i \in DOMAIN anims' : i \in DOMAIN anims \/ NewRow(anims'[i])
  BY <1>2, <1>4, Appended
<1> DEFINE More == /\ open /\ open' /\ UNCHANGED <<block, cursor, events, captured>>
                   /\ \A i \in DOMAIN anims : i \in DOMAIN anims' /\ anims'[i] = anims[i]
                   /\ \A i \in DOMAIN anims' : i \in DOMAIN anims \/ NewRow(anims'[i])
<1>5. ASSUME NEW w \in RowWindows
      PROVE  block + w[1] \in Nat /\ block <= block + w[1]
  <2>1. CASE w = <<0, cursor - block>>
    BY <1>2, <2>1
  <2>2. CASE \E v \in Windows : w = Clamp(v)
    BY <1>2, <2>2, SceneAssumption DEF Clamp
  <2> QED
    BY <1>5, <2>1, <2>2 DEF RowWindows
<1>6. ASSUME NEW s \in Slots, NEW g \in Goals, NEW w \in RowWindows, Arrow(s, g, w)
      PROVE  More
  <2> DEFINE an == NewAnim("tween", s, None, None, g, w)
             new == <<an>>
  <2>1. an \in Anim
    BY NewAnimShape, SceneAssumption
  <2>2. NewRow(an)
    BY <1>5, <1>6 DEF Arrow, NewRow, NewAnim
  <2>3. anims' = anims \o new
    BY <1>2, <1>6, <2>1, AppendIsConcat DEF Arrow
  <2>4. open /\ open' /\ UNCHANGED <<block, cursor, events, captured>>
    BY <1>6 DEF Arrow, Row
  <2> HIDE DEF an
  <2>5. new \in Seq(Anim) /\ \A k \in DOMAIN new : NewRow(new[k])
    BY <2>1, <2>2
  <2> QED
    BY <1>4, <2>3, <2>4, <2>5
<1>7. ASSUME NEW e \in Entities, NEW d \in Entities, NEW w \in RowWindows, Morph(e, d, w)
      PROVE  More
  <2> DEFINE an == NewAnim("morph", Opacity[e], e, d, Const(Hidden), w)
             new == <<an>>
  <2>1. an \in Anim /\ Opacity[e] \in Fields
    <3>1. Opacity[e] \in Fields /\ Opacity[e] \in Slots
      BY SceneAssumption DEF Slots
    <3> QED
      BY <3>1, ConstExpr, HiddenInt, NewAnimShape
  <2>2. NewRow(an)
    BY <1>5, <1>7, <2>1, SceneAssumption DEF Morph, NewRow, NewAnim, Known
  <2>3. anims' = anims \o new
    BY <1>2, <1>7, <2>1, AppendIsConcat DEF Morph
  <2>4. open /\ open' /\ UNCHANGED <<block, cursor, events, captured>>
    BY <1>7 DEF Morph, Row
  <2> HIDE DEF an
  <2>5. new \in Seq(Anim) /\ \A k \in DOMAIN new : NewRow(new[k])
    BY <2>1, <2>2
  <2> QED
    BY <1>4, <2>3, <2>4, <2>5
<1>8. ASSUME NEW kind \in {"enter", "exit"}, NEW e \in Entities, NEW w \in RowWindows,
             NEW goal \in [Fields -> Expr]
      PROVE  \A k \in DOMAIN PresetAnims(kind, e, goal, w) :
               NewRow(PresetAnims(kind, e, goal, w)[k])
  <2>1. \A k \in DOMAIN Preset[e] : Preset[e][k] \in Fields
    BY SceneAssumption, LenProperties, ElementOfSeq
  <2>2. \A f \in Fields : Known(f)
    BY SceneAssumption DEF Known
  <2> QED
    BY <1>5, <2>1, <2>2 DEF NewRow, NewAnim, PresetAnims
<1>9. ASSUME NEW e \in Entities, NEW w \in RowWindows, Entrance(e, w)
      PROVE  More
  <2> DEFINE goal == [f \in Fields |-> IF def[f] = None THEN Const(val[f]) ELSE def[f]]
  <2>1. goal \in [Fields -> Expr]
    <3> SUFFICES ASSUME NEW f \in Fields
                 PROVE  (IF def[f] = None THEN Const(val[f]) ELSE def[f]) \in Expr
      OBVIOUS
    <3>1. val[f] \in Int /\ def[f] \in Expr \cup {None}
      BY DEF IInv, TypeOK, Slots
    <3> QED
      BY <3>1, ConstExpr
  <2>2. anims' = anims \o PresetAnims("enter", e, goal, w)
    <3>1. \A k \in DOMAIN Preset[e] : Preset[e][k] \in Fields
      BY SceneAssumption, LenProperties, ElementOfSeq
    <3> QED
      BY <1>9, <3>1 DEF Entrance, PresetAnims
  <2>3. open /\ open' /\ UNCHANGED <<block, cursor, events, captured>>
    BY <1>9 DEF Entrance, Row
  <2> HIDE DEF goal
  <2>4. PresetAnims("enter", e, goal, w) \in Seq(Anim)
    BY <2>1, PresetRows
  <2> QED
    BY <1>4, <1>8, <2>1, <2>2, <2>3, <2>4
<1>10. ASSUME NEW e \in Entities, NEW w \in RowWindows, Exit(e, w)
       PROVE  More
  <2> DEFINE goal == [f \in Fields |-> Const(Hidden)]
  <2>1. goal \in [Fields -> Expr]
    BY HiddenInt, ConstExpr
  <2>2. anims' = anims \o PresetAnims("exit", e, goal, w)
    <3>1. \A k \in DOMAIN Preset[e] : goal[Preset[e][k]] = Const(Hidden)
      BY SceneAssumption, LenProperties, ElementOfSeq
    <3> QED
      BY <1>10, <3>1 DEF Exit, PresetAnims
  <2>3. open /\ open' /\ UNCHANGED <<block, cursor, events, captured>>
    BY <1>10 DEF Exit, Row
  <2> HIDE DEF goal
  <2>4. PresetAnims("exit", e, goal, w) \in Seq(Anim)
    BY <2>1, PresetRows
  <2> QED
    BY <1>4, <1>8, <2>1, <2>2, <2>3, <2>4
<1> DEFINE Event1 == /\ ~open' /\ UNCHANGED <<anims, cursor, block>>
                     /\ captured \subseteq captured'
                     /\ \A o \in DOMAIN events : o \in DOMAIN events' /\ events'[o] = events[o]
                     /\ \A o \in DOMAIN events' : o \in DOMAIN events
                          \/ /\ events'[o].t = cursor /\ ~events'[o].done
                             /\ events'[o].kind = "capture" =>
                                  /\ events'[o].slot \in Globals \ captured
                                  /\ events'[o].slot \in captured'
<1>11. ASSUME NEW f \in Fields, NEW g \in Goals, SetStmt(f, g)
       PROVE  Event1
  <2> DEFINE ev == NewEvent("set", f, g)
  <2>1. ev \in Event /\ ev.t = cursor /\ ~ev.done /\ ev.kind = "set"
    BY SceneAssumption DEF NewEvent, Event, Slots, IInv, TypeOK
  <2>2. events' = Append(events, ev) /\ ~open' /\ UNCHANGED <<anims, cursor, block, captured>>
    BY <1>11 DEF SetStmt
  <2> HIDE DEF ev
  <2> QED
    BY <2>1, <2>2, AppendEvent
<1>12. ASSUME NEW s \in Globals, NEW g \in Goals, CaptureStmt(s, g)
       PROVE  Event1
  <2> DEFINE ev == NewEvent("capture", s, g)
  <2>1. ev \in Event /\ ev.t = cursor /\ ~ev.done /\ ev.kind = "capture" /\ ev.slot = s
    BY SceneAssumption DEF NewEvent, Event, Slots, IInv, TypeOK
  <2>2. /\ events' = Append(events, ev) /\ ~open' /\ UNCHANGED <<anims, cursor, block>>
        /\ s \notin captured /\ captured' = captured \cup {s}
    BY <1>12 DEF CaptureStmt
  <2> HIDE DEF ev
  <2> QED
    BY <2>1, <2>2, AppendEvent
<1>13. CASE \E d \in 1..MaxTime : Block(d)
  BY <1>1, <1>2, <1>3, <1>13
<1>14. CASE More
  BY <1>1, <1>2, <1>14
<1>15. CASE Event1
  BY <1>1, <1>2, <1>15
<1> HIDE DEF More, Event1
<1> QED
  BY <1>6, <1>7, <1>9, <1>10, <1>11, <1>12, <1>13, <1>14, <1>15 DEF Score

\* A turn begins or ends its row and leaves the others as they are.
LEMMA TurnRow ==
  ASSUME IInv, NEW i \in DOMAIN anims, TurnStep(i)
  PROVE  /\ i \in todo /\ (\A j \in todo : Before(i, j))
         /\ stage = "anims" /\ lives = {} /\ todo' = todo \ {i}
         /\ anims[i].t0 <= now /\ anims[i].status # "done"
         /\ UNCHANGED <<stage, cursor, block, open, events, captured, linked, now, lives>>
         /\ SameRows /\ \A j \in DOMAIN anims : j # i => anims'[j] = anims[j]
         /\ anims'[i].status = IF Closing(anims[i]) THEN "done" ELSE "started"
         /\ anims'[i].from = StartFrom(anims[i])
         /\ anims[i].kind = "morph" => anims'[i].dstFrom = DstFrom(anims[i])
<1> DEFINE a == anims[i]
<1>1. /\ Turn(i) /\ a \in Anim /\ StartFrom(a) \in Int
      /\ val \in [Slots -> Int] /\ DOMAIN anims = 1..Len(anims) /\ Len(anims) \in Nat
  <2>1. Turn(i)
    BY DEF TurnStep, RunTween, RunEntrance, RunExit, RunMorph, Drive
  <2> QED
    BY <2>1, TurnValues, Shapes DEF IInv, TypeOK
<1>2. DstFrom(a) \in Int \/ a.kind # "morph"
  <2>1. a.kind = "morph" => a.dst \in Entities /\ Opacity[a.dst] \in Slots
    BY SceneAssumption DEF IInv, RowsNameEntities, Slots
  <2> QED
    BY <1>1, <2>1, HiddenInt DEF DstFrom, Anim
<1>3. PICK dstFrom \in Int : /\ Drive(i, StartFrom(a), dstFrom)
                             /\ a.kind = "morph" => dstFrom = DstFrom(a)
  <2>1. CASE RunMorph(i)
    BY <1>2, <2>1 DEF RunMorph
  <2>2. CASE RunTween(i) \/ RunEntrance(i) \/ RunExit(i)
    BY <2>2 DEF RunTween, RunEntrance, RunExit
  <2> QED
    BY <2>1, <2>2 DEF TurnStep
<1> HIDE DEF a
<1>4. /\ i \in todo /\ (\A j \in todo : Before(i, j))
      /\ UNCHANGED <<stage, cursor, block, open, events, captured, linked, now, lives>>
  BY <1>1, <1>3 DEF Drive, Turn
<1>5. anims' = [anims EXCEPT ![i].status = IF Closing(a) THEN "done" ELSE "started",
                             ![i].from = StartFrom(a), ![i].dstFrom = dstFrom]
  BY <1>3 DEF Drive, a
<1>6. /\ anims'[i].from = StartFrom(a) /\ anims'[i].dstFrom = dstFrom
      /\ \A j \in DOMAIN anims : j # i => anims'[j] = anims[j]
  <2>1. anims[i] \in Anim
    BY <1>1 DEF a
  <2> QED
    BY <1>5, <2>1 DEF Anim
<1>7. /\ stage = "anims" /\ lives = {} /\ todo' = todo \ {i}
      /\ a.t0 <= now /\ a.status # "done" /\ SameRows
      /\ anims'[i].status = IF Closing(a) THEN "done" ELSE "started"
  <2>1. Drive(i, StartFrom(anims[i]), dstFrom) /\ StartFrom(anims[i]) \in Int
    BY <1>1, <1>3 DEF a
  <2> QED
    BY <2>1, DriveTurn DEF SameRows, a
<1> QED
  BY <1>3, <1>4, <1>6, <1>7 DEF a

\* What a turn writes: its own slots, and what is held on its slot.
LEMMA TurnWrites ==
  ASSUME IInv, NEW i \in DOMAIN anims, TurnStep(i)
  PROVE  /\ \A s \in Slots : ~Writes(i, s) => val'[s] = val[s]
         /\ \A s \in Slots : s # anims[i].ref => post'[s] = post[s]
         /\ anims[i].kind # "morph" => post'[anims[i].ref] = Held(anims[i])[anims[i].ref]
         /\ anims[i].kind = "morph" =>
              post'[anims[i].ref] = IF Fresh(anims[i]) THEN None ELSE post[anims[i].ref]
         /\ live' \subseteq live /\ live \ live' \subseteq {anims[i].ref}
         /\ frozen \subseteq frozen' /\ frozen' \ frozen \subseteq {anims[i].ref}
         /\ live \ live' \subseteq frozen'
         /\ \A f \in Fields : f # anims[i].ref => def'[f] = def[f]
         /\ \A f \in Fields \ frozen' : def'[f] = def[f]
<1> DEFINE a == anims[i]
<1>1. /\ a.ref \in Slots /\ val \in [Slots -> Int] /\ post \in [Slots -> Expr \cup {None}]
      /\ def \in [Fields -> Expr \cup {None}] /\ live \subseteq Fields
  BY Shapes DEF IInv, TypeOK
<1>2. CASE a.kind # "morph"
  <2>1. /\ \E L : val' = Tweened(a, L)
        /\ post' = Held(a)
    BY <1>2 DEF TurnStep, RunTween, RunEntrance, RunExit, RunMorph
  <2>2. \A s \in Slots : s # a.ref => val'[s] = val[s] /\ post'[s] = post[s]
    BY <1>1, <2>1 DEF Tweened, Held
  <2>3. CASE RunExit(i)
    <3> DEFINE gone == IF Fresh(a) THEN {a.ref} \cap Fields ELSE {}
    <3>1. /\ def' = [f \in Fields |-> IF f \in gone THEN None ELSE def[f]]
          /\ live' = live \ gone /\ frozen' = frozen \cup gone
      BY <2>3 DEF RunExit
    <3>2. gone \subseteq {a.ref}
      OBVIOUS
    <3> HIDE DEF gone
    <3> QED
      BY <1>1, <1>2, <2>1, <2>2, <3>1, <3>2 DEF Writes
  <2>4. CASE RunTween(i) \/ RunEntrance(i)
    <3>1. UNCHANGED <<def, live, frozen>>
      BY <2>4 DEF RunTween, RunEntrance
    <3> QED
      BY <1>1, <1>2, <2>1, <2>2, <3>1 DEF Writes
  <2> QED
    BY <1>2, <2>3, <2>4 DEF TurnStep, RunMorph
<1>3. CASE a.kind = "morph"
  <2>1. /\ \E x, y : val' = [val EXCEPT ![a.ref] = x, ![Opacity[a.dst]] = y]
        /\ post' = (IF Fresh(a) THEN [post EXCEPT ![a.ref] = None] ELSE post)
        /\ UNCHANGED <<def, live, frozen>>
    BY <1>3 DEF TurnStep, RunTween, RunEntrance, RunExit, RunMorph
  <2>2. \A s \in Slots : ~Writes(i, s) => s # a.ref /\ s # Opacity[a.dst]
    BY <1>3 DEF Writes
  <2> HIDE DEF a
  <2>3. \A s \in Slots : ~Writes(i, s) => val'[s] = val[s]
    BY <1>1, <2>1, <2>2
  <2> QED
    BY <1>1, <1>3, <2>1, <2>3 DEF a
<1> QED
  BY <1>2, <1>3

\* After the score, rows and events stand as written, and only a turn begins
\* or ends a row.
LEMMA LaterStep ==
  ASSUME IInv, Compiled \/ Step \/ UNCHANGED vars
  PROVE  /\ SameRows /\ SameEvents /\ UNCHANGED <<cursor, block, open, captured>>
         /\ \A e \in DOMAIN events : events[e].done => events'[e].done
         /\ \/ UNCHANGED anims
            \/ \E i \in DOMAIN anims : TurnStep(i)
<1>1. ASSUME NEW e \in DOMAIN events, FireEvent(e)
      PROVE  /\ SameEvents /\ UNCHANGED <<anims, cursor, block, open, captured>>
             /\ \A o \in DOMAIN events : events[o].done => events'[o].done
  <2>1. events[e] \in Event
    BY Shapes DEF IInv
  <2>2. events' = [events EXCEPT ![e].done = TRUE]
    BY <1>1 DEF FireEvent
  <2> QED
    BY <1>1, <2>1, <2>2 DEF FireEvent, SameEvents, Event
<1>2. UNCHANGED anims => SameRows
  BY DEF SameRows
<1>3. UNCHANGED events => SameEvents /\ \A e \in DOMAIN events : events[e].done => events'[e].done
  BY DEF SameEvents
<1>4. CASE Compiled \/ UNCHANGED vars
  <2>1. UNCHANGED <<anims, events, cursor, block, open, captured>>
    BY <1>4 DEF Compiled, CloseScore, Resolve, CycleError, Link, InitField, program, vars
  <2> QED
    BY <1>2, <1>3, <2>1
<1>5. ASSUME NEW i \in DOMAIN anims, TurnStep(i)
      PROVE  /\ SameRows /\ UNCHANGED <<events, cursor, block, open, captured>>
  BY <1>5, TurnRow
<1>6. CASE \/ NextFrame \/ NextStage \/ LastFrame
           \/ \E s \in Slots : ApplyPost(s)
           \/ \E f \in Fields : EvalLive(f) \/ Integrate(f)
           \/ \E i \in DOMAIN anims : Relive(i)
  <2>1. UNCHANGED <<anims, events, cursor, block, open, captured>>
    BY <1>6 DEF NextFrame, NextStage, LastFrame, ApplyPost, EvalLive, Integrate, Relive, program
  <2> QED
    BY <1>2, <1>3, <2>1
<1> QED
  BY <1>1, <1>2, <1>3, <1>4, <1>5, <1>6 DEF Step, TurnStep

\* The kinds of steps the invariant is kept by, one group of actions each.
Compiles == CloseScore \/ Resolve \/ CycleError \/ \E f \in Fields : InitField(f)
Passes ==
  \/ \E s \in Slots : ApplyPost(s)
  \/ \E f \in Fields : EvalLive(f) \/ Integrate(f)
  \/ \E i \in DOMAIN anims : Relive(i)

LEMMA StepKinds ==
  ASSUME [Next]_vars
  PROVE  \/ Score \/ Compiles \/ Link \/ NextFrame \/ LastFrame \/ NextStage \/ Passes
         \/ \E e \in DOMAIN events : FireEvent(e)
         \/ \E i \in DOMAIN anims : TurnStep(i)
         \/ UNCHANGED vars
  BY DEF Next, Compiled, Step, Finished, Compiles, Passes, TurnStep

\* What a pass over slots or fields leaves alone.
LEMMA PassKeeps ==
  ASSUME Passes
  PROVE  /\ stage \in StepStages
         /\ UNCHANGED <<stage, program, linked, live, frozen, active, post, now, drawn>>
         /\ stage \in {"events", "anims"} => UNCHANGED todo
  BY DEF Passes, ApplyPost, EvalLive, Integrate, Relive, Turn, StepStages

(***************************************************************************)
(* Rows, the clock and the events.                                         *)
(***************************************************************************)
LEMMA RowsStandNext ==
  ASSUME IInv, RowsStand, [Next]_vars
  PROVE  RowsStand'
<1> USE DEF Running, StepStages
<1>1. CASE Score
  <2>1. /\ stage' = "score" /\ captured \subseteq captured'
        /\ \A i \in DOMAIN anims : anims'[i] = anims[i]
        /\ \A i \in DOMAIN anims' : \/ i \in DOMAIN anims
                                    \/ NewRow(anims'[i]) /\ UNCHANGED captured
    BY <1>1, ScoreStep
  <2> QED
    BY <2>1 DEF RowsStand, NewRow, Known, Begun, MorphsOutline
<1>2. CASE Link
  BY <1>2 DEF Link, program, RowsStand, Known, Begun, MorphsOutline
<1>3. CASE Compiles \/ UNCHANGED vars
  <2>1. /\ UNCHANGED <<anims, captured>>
        /\ stage' \in {"ready"} \cup Running => stage \in {"ready"} \cup Running
    BY <1>3 DEF Compiles, CloseScore, Resolve, CycleError, InitField, program, vars
  <2> QED
    BY <2>1 DEF RowsStand, Known, Begun, MorphsOutline
<1>4. CASE \/ NextFrame \/ LastFrame \/ NextStage \/ Passes
           \/ \E e \in DOMAIN events : FireEvent(e)
  <2>1. /\ UNCHANGED <<anims, captured>>
        /\ stage' \in {"ready"} \cup Running => stage \in {"ready"} \cup Running
    BY <1>4, PassKeeps DEF NextFrame, LastFrame, NextStage, FireEvent, program
  <2> QED
    BY <2>1 DEF RowsStand, Known, Begun, MorphsOutline
<1>5. ASSUME NEW i \in DOMAIN anims, TurnStep(i)
      PROVE  RowsStand'
  <2>1. /\ UNCHANGED <<stage, captured>> /\ SameRows
        /\ \A j \in DOMAIN anims : j # i => anims'[j] = anims[j]
        /\ anims[i].kind = "morph" => anims'[i].dstFrom = DstFrom(anims[i])
    BY <1>5, TurnRow
  <2>2. ASSUME NEW j \in DOMAIN anims, anims'[j].kind = "morph",
               MorphsOutline(anims'[j]), anims'[j].status # "new"
        PROVE  anims'[j].dstFrom = Hidden
    <3>1. MorphsOutline(anims[j]) /\ anims[j].kind = "morph"
      BY <2>1, <2>2 DEF SameRows, MorphsOutline
    <3>2. CASE j = i
      BY <2>1, <3>1, <3>2 DEF DstFrom, RowsStand, Begun, Fresh
    <3>3. CASE j # i
      BY <2>1, <2>2, <3>1, <3>3 DEF RowsStand, Begun
    <3> QED
      BY <3>2, <3>3
  <2> QED
    BY <2>1, <2>2 DEF SameRows, RowsStand, Known, Begun
<1> QED
  BY <1>1, <1>2, <1>3, <1>4, <1>5, StepKinds

LEMMA ClockOnGridNext ==
  ASSUME IInv, ClockOnGrid, [Next]_vars
  PROVE  ClockOnGrid'
<1> USE DEF Running, StepStages, Waiting
<1>1. /\ now \in Nat /\ cursor \in Nat /\ FrameStep \in Nat \ {0}
      /\ stage \in Waiting \cup Running
  BY SceneAssumption DEF IInv, TypeOK
<1>2. CASE NextFrame
  <2>1. now' = FrameTime /\ now' <= cursor' /\ stage' = "events"
    BY <1>2 DEF NextFrame, FramesLeft, program
  <2>2. \E k \in Nat : now' = k * FrameStep
    <3>1. CASE stage = "ready"
      BY <1>1, <2>1, <3>1 DEF FrameTime
    <3>2. CASE stage # "ready"
      <4>1. PICK k \in Nat : now = k * FrameStep
        BY DEF ClockOnGrid
      <4>2. now' = (k + 1) * FrameStep
        BY <1>1, <2>1, <3>2, <4>1 DEF FrameTime
      <4> QED
        BY <4>2
    <3> QED
      BY <3>1, <3>2
  <2> QED
    BY <2>1, <2>2 DEF ClockOnGrid
<1>3. CASE LastFrame
  <2>1. /\ stage \in {"ready", "frame"} /\ stage' = "done" /\ UNCHANGED <<now, cursor>>
        /\ ~(FrameTime <= cursor)
    BY <1>3 DEF LastFrame, FramesLeft, program
  <2>2. stage = "frame"
    BY <1>1, <2>1 DEF FrameTime
  <2> QED
    BY <1>1, <2>1, <2>2 DEF ClockOnGrid, FrameTime
<1>4. CASE Score
  BY <1>4, ScoreStep DEF ClockOnGrid
<1>5. CASE Link \/ Compiles \/ Passes \/ UNCHANGED vars
  <2>1. /\ UNCHANGED <<now, cursor>>
        /\ (stage \in Waiting /\ stage' \in Waiting) \/ stage' = stage
    BY <1>5, PassKeeps DEF Link, Compiles, CloseScore, Resolve, CycleError, InitField,
         program, vars
  <2> QED
    BY <1>1, <2>1 DEF ClockOnGrid
<1>7. CASE NextStage
  <2>1. UNCHANGED <<now, cursor>> /\ stage \in StepStages /\ stage' = After[stage]
    BY <1>7 DEF NextStage, program
  <2>2. stage' \in StepStages \cup {"frame"}
    BY <2>1 DEF After
  <2> QED
    BY <1>1, <2>1, <2>2 DEF ClockOnGrid
<1>6. CASE \/ \E e \in DOMAIN events : FireEvent(e)
           \/ \E i \in DOMAIN anims : TurnStep(i)
  <2>1. UNCHANGED <<now, cursor, stage>>
    BY <1>6, TurnRow DEF FireEvent
  <2> QED
    BY <2>1 DEF ClockOnGrid
<1> QED
  BY <1>2, <1>3, <1>4, <1>5, <1>6, <1>7, StepKinds

LEMMA EventsOnTimeNext ==
  ASSUME IInv, IInv', RowsStand, ClockOnGrid, RowsOnTime, EventsOnTime, [Next]_vars
  PROVE  EventsOnTime'
<1> USE DEF Running, StepStages, Waiting
<1>1. /\ now \in Nat /\ cursor \in Nat /\ block \in Nat /\ FrameStep \in Nat \ {0}
      /\ block <= cursor /\ captured \subseteq Globals
      /\ stage \in Waiting \cup Running
  BY SceneAssumption DEF IInv, TypeOK, RowsNameEntities
<1>2. /\ \A e \in DOMAIN events : events[e].t \in Nat /\ events[e].done \in BOOLEAN
      /\ \A i \in DOMAIN anims : anims[i].t0 \in Nat
  BY Shapes DEF IInv
<1>3. CASE Score
  <2>1. /\ stage' = "score" /\ cursor <= cursor' /\ cursor' \in Nat /\ block' \in Nat
        /\ \A i \in DOMAIN anims : i \in DOMAIN anims' /\ anims'[i] = anims[i]
        /\ \A e \in DOMAIN events : e \in DOMAIN events' /\ events'[e] = events[e]
    BY <1>3, ScoreStep DEF IInv, TypeOK
  <2>2. CASE UNCHANGED <<anims, events, captured>> /\ block' = cursor
    BY <1>1, <1>2, <2>1, <2>2 DEF EventsOnTime
  <2>3. CASE /\ open /\ UNCHANGED <<block, cursor, events, captured>>
             /\ \A i \in DOMAIN anims' : i \in DOMAIN anims \/ NewRow(anims'[i])
    <3>1. ASSUME NEW e \in DOMAIN events', NEW i \in DOMAIN anims',
                 events'[e].kind = "capture", anims'[i].ref = events'[e].slot
          PROVE  events'[e].t <= anims'[i].t0
      <4>1. CASE i \in DOMAIN anims
        BY <2>1, <2>3, <3>1, <4>1 DEF EventsOnTime
      <4>2. CASE NewRow(anims'[i])
        <5>1. block <= anims'[i].t0 /\ events'[e].t <= block /\ events'[e].t \in Nat
          BY <1>2, <2>3, <4>2 DEF EventsOnTime, NewRow
        <5>2. anims'[i] \in Anim
          BY LenProperties DEF IInv, TypeOK
        <5> QED
          BY <1>1, <5>1, <5>2 DEF Anim
      <4> QED
        BY <2>3, <4>1, <4>2
    <3> QED
      BY <2>1, <2>3, <3>1 DEF EventsOnTime
  <2>4. CASE /\ ~open' /\ UNCHANGED <<anims, cursor, block>>
             /\ \A e \in DOMAIN events' : e \in DOMAIN events
                    \/ /\ events'[e].t = cursor /\ ~events'[e].done
                       /\ events'[e].kind = "capture" =>
                            /\ events'[e].slot \in Globals \ captured
                            /\ events'[e].slot \in captured'
    <3>1. \A i \in DOMAIN anims : Known(anims[i].ref)
      BY DEF RowsStand
    <3> QED
      BY <1>1, <2>1, <2>4, <3>1 DEF EventsOnTime, Known
  <2> QED
    BY <1>3, <2>2, <2>3, <2>4, ScoreStep
<1>4. CASE NextFrame
  <2>1. /\ UNCHANGED <<anims, events, cursor, block, open>>
        /\ stage' = "events" /\ now' = FrameTime /\ todo' = Due(FrameTime)
        /\ stage \in {"ready", "frame"}
    BY <1>4 DEF NextFrame, program
  <2>2. ASSUME NEW e \in Due(FrameTime), NEW i \in DOMAIN anims, Begun(i)
        PROVE  anims[i].t0 < events[e].t
    <3>1. stage = "frame" /\ anims[i].t0 <= now
      BY <2>1, <2>2 DEF RowsOnTime
    <3>2. ~(events[e].t <= now)
      BY <2>2, <3>1 DEF EventsOnTime, Due
    <3> QED
      BY <1>1, <1>2, <2>2, <3>1, <3>2 DEF Due
  <2> QED
    BY <2>1, <2>2 DEF EventsOnTime, Due, Begun
<1>5. CASE Compiles \/ Link \/ UNCHANGED vars
  <2>1. /\ UNCHANGED <<anims, events, cursor, block, open, now>>
        /\ stage' \notin Running \/ (stage' = stage /\ todo' = todo)
    BY <1>5 DEF Link, Compiles, CloseScore, Resolve, CycleError, InitField, program, vars
  <2> QED
    BY <2>1 DEF EventsOnTime, Begun
<1>6. CASE Passes
  <2>1. UNCHANGED <<anims, events, cursor, block, open, now, stage>>
        /\ (stage = "events" => UNCHANGED todo)
    BY <1>6, PassKeeps DEF program
  <2> QED
    BY <2>1 DEF EventsOnTime, Begun
<1>7. CASE LastFrame
  <2>1. /\ UNCHANGED <<anims, events, cursor, block, open, now>>
        /\ stage' = "done" /\ stage \in {"ready", "frame"}
        /\ stage = "ready" => FrameTime = 0
    BY <1>7 DEF LastFrame, program, FrameTime
  <2>2. stage = "frame"
    BY <1>1, <1>7, <2>1 DEF LastFrame, FramesLeft
  <2> QED
    BY <2>1, <2>2 DEF EventsOnTime
<1>8. CASE NextStage
  <2>1. /\ UNCHANGED <<anims, events, cursor, block, open, now>>
        /\ stage \in StepStages /\ todo = {} /\ stage' = After[stage]
    BY <1>8 DEF NextStage, program
  <2>2. stage' \in Running \ {"events"}
    BY <2>1 DEF After
  <2> QED
    BY <2>1, <2>2 DEF EventsOnTime
<1>9. ASSUME NEW e \in DOMAIN events, FireEvent(e)
      PROVE  EventsOnTime'
  <2>1. /\ UNCHANGED <<anims, cursor, block, open, now, stage>> /\ SameEvents
        /\ todo' = todo \ {e} /\ events' = [events EXCEPT ![e].done = TRUE]
    <3>1. SameEvents
      BY <1>9, LaterStep DEF Step
    <3> QED
      BY <1>9, <3>1 DEF FireEvent
  <2>2. \A o \in DOMAIN events : o # e => events'[o] = events[o]
    BY <2>1
  <2>3. events'[e].done
    BY <2>1, Shapes DEF IInv, Event
  <2> QED
    BY <2>1, <2>2, <2>3 DEF EventsOnTime, SameEvents, Begun
<1>10. ASSUME NEW i \in DOMAIN anims, TurnStep(i)
       PROVE  EventsOnTime'
  <2>1. /\ UNCHANGED <<events, cursor, block, open, now, stage>> /\ SameRows
        /\ stage = "anims"
    BY <1>10, TurnRow
  <2> QED
    BY <2>1 DEF EventsOnTime, SameRows
<1> QED
  BY <1>3, <1>4, <1>5, <1>6, <1>7, <1>8, <1>9, <1>10, StepKinds

LEMMA RowsOnTimeNext ==
  ASSUME IInv, ClockOnGrid, RowsOnTime, [Next]_vars
  PROVE  RowsOnTime'
<1> USE DEF Running, StepStages, Waiting
<1>1. /\ now \in Nat /\ FrameStep \in Nat \ {0} /\ stage \in Waiting \cup Running
  BY SceneAssumption DEF IInv, TypeOK
<1>2. \A i \in DOMAIN anims :
        /\ anims[i].t0 \in Nat /\ anims[i].t1 \in Nat
        /\ anims[i].status \in {"new", "started", "done"}
  BY Shapes DEF IInv
<1>3. CASE Score
  <2>1. /\ stage = "score" /\ stage' = "score"
        /\ \A i \in DOMAIN anims' :
             (i \in DOMAIN anims /\ anims'[i] = anims[i]) \/ NewRow(anims'[i])
    BY <1>3, ScoreStep
  <2>2. \A i \in DOMAIN anims' : anims'[i].status = "new"
    BY <2>1 DEF RowsOnTime, Begun, NewRow
  <2> QED
    BY <2>1, <2>2 DEF RowsOnTime, Begun, Turned
<1>4. CASE NextFrame
  <2>1. /\ UNCHANGED anims /\ stage' = "events" /\ now' = FrameTime
        /\ stage \in {"ready", "frame"}
    BY <1>4 DEF NextFrame, program
  <2>2. CASE stage = "ready"
    BY <1>1, <2>1, <2>2 DEF RowsOnTime, Begun, Turned
  <2>3. CASE stage = "frame"
    <3>1. now' \in Nat /\ now < now'
      BY <1>1, <2>1, <2>3 DEF FrameTime
    <3> QED
      BY <1>1, <1>2, <2>1, <2>3, <3>1 DEF RowsOnTime, Begun, Turned, Before
  <2> QED
    BY <2>1, <2>2, <2>3
<1>5. CASE Compiles \/ Link \/ UNCHANGED vars
  <2>1. /\ UNCHANGED <<anims, now>>
        /\ (stage \in Waiting /\ stage' \in Waiting) \/ (stage' = stage /\ todo' = todo)
    BY <1>5 DEF Link, Compiles, CloseScore, Resolve, CycleError, InitField, program, vars
  <2> QED
    BY <2>1 DEF RowsOnTime, Begun, Turned, Before
<1>6. CASE Passes
  <2>1. UNCHANGED <<anims, now, stage>> /\ (stage = "anims" => UNCHANGED todo)
    BY <1>6, PassKeeps DEF program
  <2> QED
    BY <2>1 DEF RowsOnTime, Begun, Turned, Before
<1>7. CASE LastFrame
  <2>1. UNCHANGED <<anims, now>> /\ stage' = "done" /\ stage \in {"ready", "frame"}
    BY <1>7 DEF LastFrame, program
  <2>2. stage = "ready" => FALSE
    <3>1. stage = "ready" => FrameTime = 0 /\ cursor \in Nat
      BY DEF FrameTime, IInv, TypeOK
    <3> QED
      BY <1>7, <3>1 DEF LastFrame, FramesLeft
  <2> QED
    BY <2>1, <2>2 DEF RowsOnTime, Begun, Turned, Before
<1>8. CASE NextStage
  <2>1. /\ UNCHANGED <<anims, now>> /\ stage \in StepStages /\ todo = {}
        /\ stage' = After[stage] /\ todo' = Work(stage')
    BY <1>8 DEF NextStage, program
  <2>2. /\ stage' \in Running /\ stage' \notin {"events", "done"}
        /\ stage' \in {"posts", "live"} => stage \in {"events", "posts"}
        /\ stage' = "anims" => stage = "live"
        /\ stage' \in {"settle", "reposts", "resettle", "rates", "frame"}
           => stage \in {"anims", "settle", "reposts", "resettle", "rates"}
    BY <2>1 DEF After
  <2>3. stage' = "anims" => todo' = {i \in DOMAIN anims : anims[i].status # "done" /\ anims[i].t0 <= now}
    BY <2>1 DEF Work
  <2>4. ASSUME NEW i \in DOMAIN anims, Turned(i)', anims[i].t0 <= now
        PROVE  Begun(i) /\ (anims[i].t1 <= now => anims[i].status = "done")
    <3>1. CASE stage' = "anims"
      BY <2>3, <2>4, <3>1 DEF Turned, Begun
    <3>2. CASE stage' # "anims"
      <4>1. Turned(i)
        BY <2>1, <2>2, <2>4, <3>2 DEF Turned
      <4> QED
        BY <2>4, <4>1 DEF RowsOnTime
    <3> QED
      BY <3>1, <3>2
  <2> QED
    BY <2>1, <2>2, <2>4 DEF RowsOnTime, Begun, Before
<1>9. CASE \E e \in DOMAIN events : FireEvent(e)
  <2>1. UNCHANGED <<anims, now, stage>> /\ stage \in {"top", "events"}
    BY <1>9 DEF FireEvent
  <2> QED
    BY <2>1 DEF RowsOnTime, Begun, Turned, Before
<1>10. ASSUME NEW k \in DOMAIN anims, TurnStep(k)
       PROVE  RowsOnTime'
  <2>1. /\ k \in todo /\ (\A j \in todo : Before(k, j))
        /\ stage = "anims" /\ todo' = todo \ {k} /\ UNCHANGED <<stage, now>>
        /\ anims[k].t0 <= now /\ SameRows
        /\ \A j \in DOMAIN anims : j # k => anims'[j] = anims[j]
        /\ anims'[k].status = IF Closing(anims[k]) THEN "done" ELSE "started"
    BY <1>10, TurnRow
  <2>2. Closing(anims[k]) <=> anims[k].t1 <= now
    BY <1>1, <1>2 DEF Closing
  <2>3. \A i \in DOMAIN anims : Begun(i) => Begun(i)'
    BY <2>1 DEF Begun
  <2>4. \A i \in DOMAIN anims : anims[i].status = "done" /\ i # k => anims'[i].status = "done"
    BY <2>1
  <2>5. DOMAIN anims = 1..Len(anims) /\ Len(anims) \in Nat
    BY Shapes DEF IInv
  <2>6. ASSUME NEW i \in DOMAIN anims, Before(i, k), i # k
        PROVE  /\ Begun(i) /\ (anims[i].t1 <= anims[k].t0 => anims[i].status = "done")
               /\ Closing(anims[k]) /\ anims[i].t1 <= anims[k].t1 => anims[i].status = "done"
    <3>1. ~Before(k, i)
      BY <1>2, <2>5, <2>6 DEF Before
    <3>2. Turned(i) /\ anims[i].t0 <= now
      BY <1>1, <1>2, <2>1, <2>6, <3>1 DEF Turned, Before
    <3> QED
      BY <1>1, <1>2, <2>1, <2>2, <3>2 DEF RowsOnTime
  <2>7. \A i, j \in DOMAIN anims : Before(i, j)' <=> Before(i, j)
    BY <2>1 DEF Before, SameRows
  <2>8. ASSUME NEW i \in DOMAIN anims, NEW j \in DOMAIN anims, Begun(j)', Before(i, j), i # j
        PROVE  /\ Begun(i)' /\ (anims[i].t1 <= anims[j].t0 => anims'[i].status = "done")
               /\ anims'[j].status = "done" /\ anims[i].t1 <= anims[j].t1
                    => anims'[i].status = "done"
    <3>1. /\ Begun(i) /\ (anims[i].t1 <= anims[j].t0 => anims[i].status = "done")
          /\ anims'[j].status = "done" /\ anims[i].t1 <= anims[j].t1
               => anims[i].status = "done"
      <4>1. CASE j = k
        BY <2>1, <2>6, <2>8, <4>1
      <4>2. CASE j # k
        BY <2>1, <2>8, <4>2 DEF RowsOnTime, Begun
      <4> QED
        BY <4>1, <4>2
    <3>2. anims[k].status # "done"
      BY <1>10, TurnRow
    <3> QED
      BY <2>3, <2>4, <2>8, <3>1, <3>2
  <2>9. ASSUME NEW i \in DOMAIN anims
        PROVE  /\ Begun(i)' => anims[i].t0 <= now
               /\ anims'[i].status = "done" => anims[i].t1 <= now
               /\ Turned(i)' /\ anims[i].t0 <= now =>
                    Begun(i)' /\ (anims[i].t1 <= now => anims'[i].status = "done")
    <3>1. CASE i = k
      BY <2>1, <2>2, <3>1 DEF Begun
    <3>2. CASE i # k
      BY <2>1, <3>2 DEF RowsOnTime, Begun, Turned
    <3> QED
      BY <3>1, <3>2
  <2> QED
    BY <2>1, <2>7, <2>8, <2>9 DEF RowsOnTime, SameRows
<1> QED
  BY <1>3, <1>4, <1>5, <1>6, <1>7, <1>8, <1>9, <1>10, StepKinds

LEMMA LiveStandsNext ==
  ASSUME IInv, LiveStands, [Next]_vars
  PROVE  LiveStands'
<1> USE DEF StepStages
<1>1. liveFields \subseteq Fields /\ live \subseteq Fields /\ frozen \subseteq Fields
  BY DEF IInv, TypeOK
<1>2. CASE Score
  <2>1. stage' = "score" /\ UNCHANGED <<lives, linked>> /\ stage = "score"
    BY <1>2, ScoreStep
  <2>2. \/ UNCHANGED <<live, frozen>>
        \/ \E F : frozen' = frozen \cup F /\ live' = live \ F
    BY <1>2 DEF Score, Block, Arrow, Entrance, Exit, Morph, SetStmt, CaptureStmt
  <2> QED
    BY <2>1, <2>2 DEF LiveStands, linked
<1>3. CASE Link
  <2>1. UNCHANGED <<frozen, lives>> /\ stage' \in {"error", "ready"} /\ lives = {}
    BY <1>3 DEF Link, program
  <2>2. \/ UNCHANGED <<live, liveFields>>
        \/ live' = LiveSet /\ liveFields' = LiveSet
    BY <1>3 DEF Link, linked
  <2>3. LiveSet \cap Rates = {}
    BY DEF LiveSet, Candidates
  <2> QED
    BY <2>1, <2>2, <2>3 DEF LiveStands
<1>4. CASE Compiles \/ UNCHANGED vars
  <2>1. /\ UNCHANGED <<anims, live, frozen, liveFields, now>>
        /\ \/ UNCHANGED <<stage, lives>>
           \/ stage' = "top" /\ stage = "score" /\ UNCHANGED lives
           \/ stage' \in {"init", "error"}
    BY <1>4 DEF Compiles, CloseScore, Resolve, CycleError, InitField, program, linked, vars
  <2> QED
    BY <2>1 DEF LiveStands, LivePass, HasWriter, HasActiveWriter
<1>5. CASE NextFrame \/ LastFrame
  <2>1. /\ UNCHANGED <<live, frozen, liveFields, lives>>
        /\ stage \in {"ready", "frame"} /\ stage' \in {"events", "done"}
    BY <1>5 DEF NextFrame, LastFrame, linked
  <2> QED
    BY <2>1 DEF LiveStands, LivePass
<1>6. CASE NextStage
  <2>1. /\ UNCHANGED <<anims, live, frozen, liveFields, now>>
        /\ stage \in StepStages /\ stage' = After[stage]
        /\ lives' = IF stage' = "live" THEN LivePass(TRUE)
                    ELSE IF stage' \in {"settle", "resettle"} THEN LivePass(FALSE)
                    ELSE {}
    BY <1>6 DEF NextStage, program, linked
  <2>2. \A a \in BOOLEAN : LivePass(a)' = LivePass(a)
    BY <2>1 DEF LivePass, HasWriter, HasActiveWriter
  <2> QED
    BY <2>1, <2>2 DEF LiveStands
<1>7. CASE Passes
  <2>1. UNCHANGED <<anims, live, frozen, liveFields, now, stage>>
    BY <1>7, PassKeeps DEF program, linked
  <2>2. lives' \subseteq lives \/ (stage = "anims" /\ lives' = LivePass(FALSE))
    BY <1>7 DEF Passes, ApplyPost, EvalLive, Integrate, Relive, Turn
  <2>3. \A a \in BOOLEAN : LivePass(a)' = LivePass(a)
    BY <2>1 DEF LivePass, HasWriter, HasActiveWriter
  <2> QED
    BY <2>1, <2>2, <2>3 DEF LiveStands
<1>8. ASSUME NEW e \in DOMAIN events, FireEvent(e)
      PROVE  LiveStands'
  <2>1. /\ UNCHANGED <<stage, anims, live, liveFields, lives, now>>
        /\ frozen \subseteq frozen' /\ stage \in {"top", "events"}
    BY <1>8 DEF FireEvent, linked
  <2> QED
    BY <2>1 DEF LiveStands, LivePass
<1>9. ASSUME NEW i \in DOMAIN anims, TurnStep(i)
      PROVE  LiveStands'
  <2>1. /\ lives = {} /\ UNCHANGED <<stage, liveFields, lives>>
        /\ frozen \subseteq frozen' /\ live \ live' \subseteq frozen'
    BY <1>9, TurnRow, TurnWrites DEF linked
  <2> QED
    BY <2>1 DEF LiveStands
<1> QED
  BY <1>2, <1>3, <1>4, <1>5, <1>6, <1>7, <1>8, <1>9, StepKinds

(***************************************************************************)
(* Rates.                                                                  *)
(***************************************************************************)
\* A turn leaves what a row is of.
LEMMA WritesStand ==
  ASSUME SameRows
  PROVE  \A i \in DOMAIN anims : \A s : Writes(i, s)' <=> Writes(i, s)
  BY DEF SameRows, Writes

LEMMA RatesGrowNext ==
  ASSUME IInv, IInv', ClockOnGrid, LiveStands, RatesGrow, [Next]_vars
  PROVE  RatesGrow'
<1> USE DEF Running, StepStages, Waiting
<1>1. /\ now \in Nat /\ FrameStep \in Nat \ {0} /\ Rates \subseteq Fields
      /\ Default \in [Fields -> Int] /\ def \in [Fields -> Expr \cup {None}]
      /\ val \in [Slots -> Int] /\ Fields \subseteq Slots
  BY SceneAssumption DEF IInv, TypeOK, Slots
<1> DEFINE Literal(f) == /\ f \in Rates \ frozen /\ def[f] # None /\ def[f].src = None
                         /\ \A i \in DOMAIN anims : ~Writes(i, f)
<1>2. CASE Score
  <2>1. stage' = "score"
    BY <1>2, ScoreStep
  <2> QED
    BY <2>1 DEF RatesGrow
<1>3. CASE Compiles
  <2>1. /\ UNCHANGED <<anims, def, frozen, now>>
        /\ \/ stage' \in {"top", "error"}
           \/ /\ stage' = "init" /\ lives' = Unresolved
           \/ /\ stage = "init" /\ stage' = "init"
              /\ \E g \in Fields : /\ lives' = lives \ {g}
                                   /\ val' = [val EXCEPT ![g] = IF g \in Rates THEN Default[g]
                                                                ELSE Eval(def[g])]
    BY <1>3 DEF Compiles, CloseScore, Resolve, CycleError, InitField, program
  <2>2. stage' = "init" => now = 0 /\ stage \in {"init", "top"}
    BY <1>3 DEF ClockOnGrid, Compiles, CloseScore, Resolve, CycleError, InitField
  <2>3. Unresolved' = Unresolved
    BY <2>1 DEF Unresolved
  <2>4. CASE stage' = "init" /\ lives' = Unresolved
    BY <1>1, <2>1, <2>3, <2>4 DEF RatesGrow, Unresolved
  <2>5. ASSUME stage = "init", stage' = "init",
               NEW g \in Fields, lives' = lives \ {g},
               val' = [val EXCEPT ![g] = IF g \in Rates THEN Default[g] ELSE Eval(def[g])]
        PROVE  RatesGrow'
    <3>1. now = 0
      BY <2>2, <2>5
    <3>2. ASSUME NEW f \in Rates, Literal(f), f \notin lives'
          PROVE  val'[f] = Default[f] + def[f].off * 0
      <4>1. def[f].off \in Int /\ Default[f] \in Int
        BY <1>1, <3>2 DEF Expr
      <4>2. def[f].off * 0 = 0
        BY <4>1
      <4>3. CASE f = g
        BY <1>1, <2>5, <4>1, <4>2, <4>3
      <4>4. CASE f # g
        <5>1. val[f] = Default[f] + def[f].off * Grown(f)
          BY <2>5, <3>2, <4>4 DEF RatesGrow
        <5>2. Grown(f) = 0
          BY <2>5, <3>1 DEF Grown
        <5> QED
          BY <1>1, <2>5, <4>4, <5>1, <5>2
      <4> QED
        BY <4>3, <4>4
    <3>3. \A f \in Rates : Grown(f)' = 0
      BY <2>1, <2>5, <3>1 DEF Grown
    <3>4. lives' \subseteq Unresolved'
      BY <2>3, <2>5 DEF RatesGrow
    <3>5. \A f \in Rates, i \in DOMAIN anims : Writes(i, f)' <=> Writes(i, f)
      BY <2>1 DEF Writes
    <3> HIDE DEF Literal
    <3>6. ASSUME NEW f \in Rates \ frozen', def'[f] # None, def'[f].src = None,
                 f \notin lives', \A i \in DOMAIN anims' : ~Writes(i, f)'
          PROVE  val'[f] = Default[f] + def'[f].off * Grown(f)'
      <4>1. Literal(f)
        BY <2>1, <3>5, <3>6 DEF Literal
      <4> QED
        BY <2>1, <3>2, <3>3, <3>6, <4>1
    <3> QED
      BY <2>5, <3>4, <3>6 DEF RatesGrow
  <2>6. CASE stage' \in {"top", "error"}
    BY <2>6 DEF RatesGrow
  <2> QED
    BY <2>1, <2>4, <2>5, <2>6
\* In every other step a literal rate is either left alone, and so is the
\* time it has grown for, or integrated.
<1>4. ASSUME stage \in {"init", "ready"} \cup Running, stage' # "init",
             stage' = "rates" /\ now' = 0 => todo' = {},
             Fields \cap frozen \subseteq frozen', DOMAIN anims \subseteq DOMAIN anims',
             \A i \in DOMAIN anims : \A s : Writes(i, s)' <=> Writes(i, s),
             \A f \in Fields \ frozen' : def'[f] = def[f],
             \A f \in Rates : Literal(f) /\ f \in lives => f \in lives',
             \A f \in Rates : Literal(f) /\ f \notin lives =>
               \/ val'[f] = val[f] /\ Grown(f)' = Grown(f)
               \/ val'[f] = val[f] + FrameStep * def[f].off /\ Grown(f)' = Grown(f) + FrameStep
      PROVE  RatesGrow'
  <2>1. ASSUME NEW f \in Rates \ frozen', def'[f] # None, def'[f].src = None,
               f \notin lives', \A i \in DOMAIN anims' : ~Writes(i, f)'
        PROVE  val'[f] = Default[f] + def'[f].off * Grown(f)'
    <3>1. Literal(f) /\ def'[f] = def[f] /\ f \notin lives
      BY <1>1, <1>4, <2>1
    <3>2. val[f] = Default[f] + def[f].off * Grown(f)
      BY <1>4, <3>1 DEF RatesGrow
    <3>3. CASE val'[f] = val[f] /\ Grown(f)' = Grown(f)
      BY <3>1, <3>2, <3>3
    <3>4. CASE val'[f] = val[f] + FrameStep * def[f].off /\ Grown(f)' = Grown(f) + FrameStep
      <4>1. def[f].off \in Int /\ Default[f] \in Int /\ Grown(f) \in Int
        BY <1>1, <3>1 DEF Expr, Grown
      <4>2. \A d, g \in Int : d * (g + FrameStep) = d * g + FrameStep * d
        BY <1>1
      <4> QED
        BY <1>1, <3>1, <3>2, <3>4, <4>1, <4>2
    <3> HIDE DEF Literal
    <3> QED
      BY <1>4, <2>1, <3>1, <3>3, <3>4
  <2> QED
    BY <1>4, <2>1 DEF RatesGrow
<1>5. CASE Link
  <2>1. /\ UNCHANGED <<anims, val, def, frozen, now, lives, todo>>
        /\ stage = "init" /\ stage' \in {"error", "ready"}
    BY <1>5 DEF Link, program
  <2>2. CASE stage' = "error"
    BY <2>2 DEF RatesGrow
  <2>3. CASE stage' = "ready"
    <3>1. \A f \in Rates : Grown(f)' = Grown(f)
      BY <2>1, <2>3 DEF Grown
    <3> QED
      BY <1>4, <2>1, <2>3, <3>1 DEF Writes
  <2> QED
    BY <2>1, <2>2, <2>3
<1>6. CASE NextFrame
  <2>1. /\ UNCHANGED <<anims, val, def, frozen, lives>>
        /\ stage \in {"ready", "frame"} /\ stage' = "events" /\ now' = FrameTime
    BY <1>6 DEF NextFrame, program
  <2>2. \A f \in Rates : Grown(f)' = Grown(f)
    <3>1. CASE stage = "ready"
      BY <1>1, <2>1, <3>1 DEF Grown, FrameTime, ClockOnGrid
    <3>2. CASE stage = "frame"
      BY <1>1, <2>1, <3>2 DEF Grown, FrameTime
    <3> QED
      BY <2>1, <3>1, <3>2
  <2> QED
    BY <1>4, <2>1, <2>2 DEF Writes
<1>7. CASE LastFrame
  <2>1. /\ UNCHANGED <<anims, val, def, frozen, lives, now>>
        /\ stage \in {"ready", "frame"} /\ stage' = "done"
    BY <1>7 DEF LastFrame, program
  <2>2. stage = "ready" => now = 0
    BY DEF ClockOnGrid
  <2>3. \A f \in Rates : Grown(f)' = Grown(f)
    BY <2>1, <2>2 DEF Grown
  <2> QED
    BY <1>4, <2>1, <2>3 DEF Writes
<1>8. CASE NextStage
  <2>1. /\ UNCHANGED <<anims, val, def, frozen, now>>
        /\ stage \in StepStages /\ todo = {} /\ lives = {} /\ stage' = After[stage]
        /\ todo' = Work(stage')
    BY <1>8 DEF NextStage, program
  <2>2. /\ stage' \in Running /\ stage' \notin {"init", "done"}
        /\ stage' = "frame" <=> stage = "rates"
    BY <2>1 DEF After
  <2>3. stage' = "rates" => todo' = IF now = 0 THEN {} ELSE {f \in Rates : def[f] # None}
    BY <2>1 DEF Work
  <2>4. ASSUME NEW f \in Rates, Literal(f)
        PROVE  Grown(f)' = Grown(f)
    <3>1. CASE stage' = "rates"
      BY <1>1, <2>1, <2>2, <2>3, <2>4, <3>1 DEF Grown
    <3>2. CASE stage' # "rates"
      BY <1>1, <2>1, <2>2, <3>2 DEF Grown
    <3> QED
      BY <3>1, <3>2
  <2> HIDE DEF Literal
  <2> QED
    BY <1>4, <2>1, <2>2, <2>3, <2>4 DEF Writes
<1>9. CASE Passes
  <2>1. UNCHANGED <<anims, def, frozen, now, stage>> /\ stage \in StepStages
    BY <1>9, PassKeeps DEF program
  <2>2. ASSUME NEW s \in Slots, ApplyPost(s)
        PROVE  RatesGrow'
    <3>1. \E i \in DOMAIN anims : Writes(i, s)
      BY <2>2 DEF ApplyPost, IInv, WorkIsReady, HeldByFinished, Writes
    <3>2. \A f \in Rates : Literal(f) => val'[f] = val[f]
      BY <1>1, <2>2, <3>1 DEF ApplyPost
    <3>3. UNCHANGED lives /\ stage \in {"posts", "reposts"}
      BY <2>2 DEF ApplyPost
    <3>4. \A f \in Rates : Grown(f)' = Grown(f)
      BY <2>1, <3>3 DEF Grown
    <3> HIDE DEF Literal
    <3> QED
      BY <1>4, <2>1, <3>2, <3>3, <3>4 DEF Writes
  <2>3. ASSUME NEW g \in Fields, EvalLive(g)
        PROVE  RatesGrow'
    <3>1. g \notin Rates /\ lives \cap Rates = {}
      BY <2>1, <2>3 DEF EvalLive, LiveStands, LivePass
    <3>2. /\ \A f \in Rates : val'[f] = val[f]
          /\ UNCHANGED todo
      BY <1>1, <2>3, <3>1 DEF EvalLive
    <3>3. \A f \in Rates : Grown(f)' = Grown(f)
      BY <2>1, <3>2 DEF Grown
    <3>4. stage = "rates" /\ now = 0 => todo = {}
      BY DEF RatesGrow
    <3> QED
      BY <1>4, <2>1, <3>1, <3>2, <3>3, <3>4 DEF Writes
  <2>4. ASSUME NEW g \in Fields, Integrate(g)
        PROVE  RatesGrow'
    <3>1. /\ stage = "rates" /\ g \in todo /\ todo' = todo \ {g} /\ UNCHANGED lives
          /\ val' = [val EXCEPT ![g] = val[g] + FrameStep * Eval(def[g])]
      BY <2>4 DEF Integrate
    <3>2. now # 0
      BY <3>1 DEF RatesGrow
    <3>3. ASSUME NEW f \in Rates, Literal(f)
          PROVE  \/ val'[f] = val[f] /\ Grown(f)' = Grown(f)
                 \/ val'[f] = val[f] + FrameStep * def[f].off /\ Grown(f)' = Grown(f) + FrameStep
      <4>1. CASE f # g
        BY <1>1, <2>1, <3>1, <4>1 DEF Grown
      <4>2. CASE f = g
        <5>1. Eval(def[f]) = def[f].off
          BY <1>1, <3>3 DEF Eval, Expr
        <5>2. Grown(f)' = now /\ Grown(f) = now - FrameStep
          BY <2>1, <3>1, <3>2, <4>2 DEF Grown
        <5> QED
          BY <1>1, <3>1, <4>2, <5>1, <5>2
      <4> QED
        BY <4>1, <4>2
    <3> HIDE DEF Literal
    <3> QED
      BY <1>4, <2>1, <3>1, <3>2, <3>3 DEF Writes
  <2>5. ASSUME NEW i \in DOMAIN anims, Relive(i)
        PROVE  RatesGrow'
    <3>1. UNCHANGED val /\ lives = {} /\ stage = "anims"
      BY <2>5 DEF Relive, Turn
    <3>2. \A f \in Rates : Grown(f)' = Grown(f)
      BY <2>1, <3>1 DEF Grown
    <3> QED
      BY <1>4, <2>1, <3>1, <3>2 DEF Writes
  <2> QED
    BY <1>9, <2>2, <2>3, <2>4, <2>5 DEF Passes
<1>10. ASSUME NEW e \in DOMAIN events, FireEvent(e)
       PROVE  RatesGrow'
  <2>1. /\ UNCHANGED <<anims, def, now, stage, lives>> /\ stage \in {"top", "events"}
        /\ val' = [val EXCEPT ![events[e].slot] = Eval(events[e].rhs)]
        /\ frozen' = IF events[e].kind = "set" THEN frozen \cup ({events[e].slot} \cap Fields)
                     ELSE frozen
    BY <1>10 DEF FireEvent
  <2>2. events[e].kind = "capture" => events[e].slot \notin Fields
    BY SceneAssumption DEF IInv, TypeOK, EventsNameSlots
  <2>3. events[e].kind \in {"set", "capture"}
    BY Shapes DEF IInv
  <2>4. \A f \in Fields : f # events[e].slot => val'[f] = val[f]
    BY <1>1, <2>1
  <2>5. \A f \in Rates : Grown(f)' = Grown(f)
    BY <2>1 DEF Grown
  <2>6. \A f \in Fields \ frozen' : val'[f] = val[f]
    BY <2>1, <2>2, <2>3, <2>4
  <2>7. CASE stage = "top"
    BY <2>1, <2>7 DEF RatesGrow
  <2>8. CASE stage = "events"
    <3>1. ASSUME NEW f \in Rates \ frozen', def'[f] # None, def'[f].src = None,
                 f \notin lives', \A i \in DOMAIN anims' : ~Writes(i, f)'
          PROVE  val'[f] = Default[f] + def'[f].off * Grown(f)'
      <4>1. f \in Rates \ frozen /\ \A i \in DOMAIN anims : ~Writes(i, f)
        BY <2>1, <3>1 DEF Writes
      <4> QED
        BY <1>1, <2>1, <2>5, <2>6, <2>8, <3>1, <4>1 DEF RatesGrow
    <3> QED
      BY <2>1, <2>8, <3>1 DEF RatesGrow
  <2> QED
    BY <2>1, <2>7, <2>8
<1>11. ASSUME NEW i \in DOMAIN anims, TurnStep(i)
       PROVE  RatesGrow'
  <2>1. /\ stage = "anims" /\ UNCHANGED <<stage, now, lives>> /\ SameRows
    BY <1>11, TurnRow
  <2>2. \A j \in DOMAIN anims : \A s : Writes(j, s)' <=> Writes(j, s)
    BY <2>1, WritesStand
  <2>3. /\ \A s \in Slots : ~Writes(i, s) => val'[s] = val[s]
        /\ frozen \subseteq frozen' /\ \A f \in Fields \ frozen' : def'[f] = def[f]
    BY <1>11, TurnWrites
  <2>4. \A f \in Rates : Grown(f)' = Grown(f)
    BY <2>1 DEF Grown
  <2>5. \A f \in Rates : Literal(f) => val'[f] = val[f]
    BY <1>1, <2>3
  <2> HIDE DEF Literal
  <2>6. DOMAIN anims' = DOMAIN anims
    BY <2>1 DEF SameRows
  <2> QED
    BY <1>4, <2>1, <2>2, <2>3, <2>4, <2>5, <2>6
<1>12. CASE UNCHANGED vars
  BY <1>12 DEF vars, RatesGrow, Writes, Unresolved, Grown
<1> QED
  BY <1>2, <1>3, <1>5, <1>6, <1>7, <1>8, <1>9, <1>10, <1>11, <1>12, StepKinds

(***************************************************************************)
(* Live fields.                                                            *)
(***************************************************************************)
LEMMA PassSettlesNext ==
  ASSUME IInv, LiveStands, PassSettles, [Next]_vars
  PROVE  PassSettles'
<1> USE DEF StepStages
<1>1. /\ def \in [Fields -> Expr \cup {None}] /\ val \in [Slots -> Int]
      /\ liveFields \subseteq Fields /\ Fields \subseteq Slots
      /\ \A f \in liveFields \ frozen : def[f] # None
  BY DEF IInv, TypeOK, WorkIsReady, Slots
<1>2. CASE Score \/ Compiles \/ Link \/ NextFrame \/ LastFrame
  <2>1. stage' \notin {"settle", "resettle", "rates", "frame"}
    BY <1>2, ScoreStep DEF Compiles, CloseScore, Resolve, CycleError, InitField, Link,
       NextFrame, LastFrame
  <2> QED
    BY <2>1 DEF PassSettles
<1>3. CASE \/ \E e \in DOMAIN events : FireEvent(e)
           \/ \E i \in DOMAIN anims : TurnStep(i)
  <2>1. stage' \in {"top", "events", "anims"}
    BY <1>3, TurnRow DEF FireEvent
  <2> QED
    BY <2>1 DEF PassSettles
<1>4. CASE NextStage
  <2>1. /\ UNCHANGED <<anims, val, def, frozen, liveFields, now>>
        /\ stage \in StepStages /\ lives = {} /\ stage' = After[stage]
        /\ stage' \in {"settle", "resettle"} => lives' = LivePass(FALSE)
    BY <1>4 DEF NextStage, program, linked
  <2>2. /\ stage' = "rates" => stage = "resettle"
        /\ stage' = "frame" => stage = "rates"
    BY <2>1 DEF After
  <2>3. LivePass(FALSE)' = LivePass(FALSE) /\ \A f \in Fields : Eval(def[f])' = Eval(def[f])
    BY <2>1 DEF LivePass, HasWriter, Eval
  <2>4. LivePass(FALSE) \subseteq Fields
    BY <1>1 DEF LivePass
  <2> QED
    BY <2>1, <2>2, <2>3, <2>4 DEF PassSettles
<1>5. CASE Passes
  <2>1. UNCHANGED <<anims, def, frozen, liveFields, now, stage>>
    BY <1>5, PassKeeps DEF program, linked
  <2>2. LivePass(FALSE)' = LivePass(FALSE) /\ LivePass(FALSE) \subseteq liveFields \ frozen
    BY <2>1 DEF LivePass, HasWriter
  <2>3. ASSUME NEW g \in Fields, EvalLive(g)
        PROVE  PassSettles'
    <3>1. /\ g \in lives /\ def[g].src \notin lives /\ lives' = lives \ {g}
          /\ val' = [val EXCEPT ![g] = Eval(def[g])]
      BY <2>3 DEF EvalLive
    <3>2. stage \notin {"rates", "frame"}
      BY <3>1 DEF LiveStands
    <3>3. ASSUME NEW f \in LivePass(FALSE) \ lives', stage \in {"settle", "resettle"}
          PROVE  def[f].src \notin lives' /\ val'[f] = Eval(def[f])'
      <4>1. def[f].src \notin lives
        BY <3>1, <3>3 DEF PassSettles
      <4>2. def[f].src # g /\ def[f] \in Expr
        BY <1>1, <2>2, <3>1, <3>3, <4>1
      <4>3. Eval(def[f])' = Eval(def[f])
        BY <1>1, <2>1, <3>1, <4>2 DEF Eval, Expr
      <4>4. CASE f = g
        BY <1>1, <3>1, <4>1, <4>3, <4>4
      <4>5. CASE f # g
        BY <1>1, <2>2, <3>1, <3>3, <4>1, <4>3, <4>5 DEF PassSettles
      <4> QED
        BY <4>4, <4>5
    <3> QED
      BY <2>1, <2>2, <3>2, <3>3 DEF PassSettles
  <2>4. ASSUME NEW g \in Fields, Integrate(g)
        PROVE  PassSettles'
    <3>1. /\ stage = "rates" /\ g \in Rates
          /\ val' = [val EXCEPT ![g] = @ + FrameStep * Eval(def[g])]
      BY <2>4 DEF Integrate, IInv, TypeOK
    <3>2. ASSUME NEW f \in LivePass(FALSE), def[f].src \notin Rates
          PROVE  val'[f] = Eval(def[f])'
      <4>1. f # g /\ f \in Fields /\ def[f] \in Expr /\ val[f] = Eval(def[f])
        BY <1>1, <2>2, <3>1, <3>2 DEF LiveStands, PassSettles
      <4>2. Eval(def[f])' = Eval(def[f])
        BY <1>1, <2>1, <3>1, <3>2, <4>1 DEF Eval, Expr
      <4> QED
        BY <1>1, <3>1, <4>1, <4>2
    <3> QED
      BY <2>1, <2>2, <3>1, <3>2 DEF PassSettles
  <2>5. CASE \/ \E s \in Slots : ApplyPost(s)
             \/ \E i \in DOMAIN anims : Relive(i)
    <3>1. stage \in {"posts", "reposts", "anims"}
      BY <2>5 DEF ApplyPost, Relive, Turn
    <3> QED
      BY <2>1, <3>1 DEF PassSettles
  <2> QED
    BY <1>5, <2>3, <2>4, <2>5 DEF Passes
<1>6. CASE UNCHANGED vars
  BY <1>6 DEF vars, PassSettles, LivePass, HasWriter, Eval
<1> QED
  BY <1>2, <1>3, <1>4, <1>5, <1>6, StepKinds

(***************************************************************************)
(* Presence.                                                               *)
(***************************************************************************)
\* What a turn does to the presence of an entity: nothing to those its row does
\* not name, and to those it names what the row has come to ask for.
LEMMA TurnPresence ==
  ASSUME IInv, RowsStand, NEW k \in DOMAIN anims, TurnStep(k), NEW e \in Entities
  PROVE  /\ ~Touches(k, e) => (e \in active' <=> e \in active)
         /\ Touches(k, e) =>
              /\ anims[k].kind = "enter" => (e \in active' <=> Fresh(anims[k]) \/ e \in active)
              /\ anims[k].kind = "exit" => (e \in active' <=> ~Closing(anims[k]) /\ e \in active)
              /\ anims[k].kind = "morph" =>
                   (e \in active' <=> IF Closing(anims[k]) THEN e = anims[k].dst
                                      ELSE Fresh(anims[k]) \/ e \in active)
<1> DEFINE a == anims[k]
<1>1. /\ a.kind \in {"enter", "exit"} => a.dst = None
      /\ a.kind = "morph" => a.ent # a.dst
      /\ None \notin Entities
  BY SceneAssumption DEF RowsStand
<1>2. /\ a.kind = "tween" => active' = active
      /\ a.kind = "enter" => active' = IF Fresh(a) THEN active \cup {a.ent} ELSE active
      /\ a.kind = "exit" => active' = ExitPresence(a)
      /\ a.kind = "morph" => active' = MorphPresence(a)
      /\ a.kind \in {"tween", "enter", "exit", "morph"}
  BY DEF TurnStep, RunTween, RunEntrance, RunExit, RunMorph
<1> QED
  BY <1>1, <1>2 DEF Touches, ExitPresence, MorphPresence

LEMMA LastDecidesNext ==
  ASSUME IInv, IInv', RowsStand, RowsOnTime, RowsOnTime', LastDecides, [Next]_vars
  PROVE  LastDecides'
<1> USE DEF StepStages
\* Before the first frame no row has begun.
<1>1. ASSUME stage' \in Waiting
      PROVE  LastDecides'
  <2>1. \A i \in DOMAIN anims' : anims'[i].status = "new"
    BY <1>1 DEF RowsOnTime, Begun
  <2> QED
    BY <2>1 DEF LastDecides, LastOf, PresenceRows, Begun
\* A step that leaves rows and presences alone must only not end a wait.
<1>2. ASSUME UNCHANGED <<anims, active>>, \A i \in DOMAIN anims : Pending(i) => Pending(i)'
      PROVE  LastDecides'
  <2>1. \A e \in Entities :
          /\ Apart(e)' <=> Apart(e)
          /\ \A i \in DOMAIN anims : /\ LastOf(i, e)' <=> LastOf(i, e)
                                     /\ Shows(i, e)' <=> Shows(i, e)
                                     /\ Hides(i, e)' <=> Hides(i, e)
    BY <1>2 DEF Apart, PresenceRows, Touches, SameWindow, LastOf, Shows, Hides, Begun, Before
  <2> QED
    BY <1>2, <2>1 DEF LastDecides
<1>3. CASE Score \/ Compiles \/ Link
  <2>1. stage' \in Waiting
    BY <1>3, ScoreStep DEF Compiles, CloseScore, Resolve, CycleError, InitField, Link, Waiting
  <2> QED
    BY <1>1, <2>1
<1>4. CASE NextFrame \/ LastFrame
  <2>1. UNCHANGED <<anims, active>> /\ stage # "anims"
    BY <1>4 DEF NextFrame, LastFrame, program
  <2> QED
    BY <1>2, <2>1 DEF Pending
<1>5. CASE NextStage
  <2>1. UNCHANGED <<anims, active>> /\ todo = {}
    BY <1>5 DEF NextStage, program
  <2> QED
    BY <1>2, <2>1 DEF Pending
<1>6. CASE Passes \/ UNCHANGED vars
  <2>1. UNCHANGED <<anims, active, now, stage>> /\ (stage = "anims" => UNCHANGED todo)
    BY <1>6, PassKeeps DEF program, vars
  <2> QED
    BY <1>2, <2>1 DEF Pending, Closing
<1>7. CASE \E e \in DOMAIN events : FireEvent(e)
  <2>1. UNCHANGED <<anims, active>> /\ stage # "anims"
    BY <1>7 DEF FireEvent
  <2> QED
    BY <1>2, <2>1 DEF Pending
<1>8. ASSUME NEW k \in DOMAIN anims, TurnStep(k)
      PROVE  LastDecides'
  <2>1. /\ k \in todo /\ stage = "anims" /\ todo' = todo \ {k} /\ UNCHANGED <<stage, now>>
        /\ anims[k].t0 <= now /\ anims[k].status # "done" /\ SameRows
        /\ \A j \in DOMAIN anims : j # k => anims'[j] = anims[j]
        /\ anims'[k].status = IF Closing(anims[k]) THEN "done" ELSE "started"
        /\ \A j \in todo : Before(k, j)
    BY <1>8, TurnRow
  <2>2. /\ now \in Nat /\ DOMAIN anims = 1..Len(anims) /\ Len(anims) \in Nat
        /\ \A i \in DOMAIN anims : /\ anims[i].t0 \in Nat /\ anims[i].t1 \in Nat
                                   /\ anims[i].kind \in {"tween", "enter", "exit", "morph"}
                                   /\ anims[i].status \in {"new", "started", "done"}
    BY Shapes DEF IInv, TypeOK
  <2>3. ASSUME NEW i \in DOMAIN anims, NEW j \in DOMAIN anims
        PROVE  /\ Before(i, j)' <=> Before(i, j)
               /\ SameWindow(i, j)' <=> SameWindow(i, j)
               /\ \A e : Touches(i, e)' <=> Touches(i, e)
               /\ Before(i, j) \/ Before(j, i)
               /\ Before(i, j) /\ Before(j, i) => i = j
    BY <2>1, <2>2 DEF SameRows, Before, SameWindow, Touches
  <2> SUFFICES ASSUME NEW e \in Entities, Apart(e)', NEW i \in DOMAIN anims', LastOf(i, e)'
               PROVE  /\ Shows(i, e)' /\ ~Pending(i)' => e \in active'
                      /\ Hides(i, e)' => e \notin active'
    BY DEF LastDecides
  <2>4. i \in DOMAIN anims
    BY <2>1 DEF SameRows
  <2>5. /\ \A j \in DOMAIN anims : Begun(j)' <=> Begun(j) \/ j = k
        /\ PresenceRows(e)' = PresenceRows(e) \cup {j \in {k} : Touches(k, e)}
    <3>1. \A j \in DOMAIN anims : Begun(j)' <=> Begun(j) \/ j = k
      BY <2>1 DEF Begun
    <3> QED
      BY <2>1, <2>3, <3>1 DEF PresenceRows, SameRows
  <2>6. Apart(e)
    <3>1. \A m, n \in PresenceRows(e) :
            m = n \/ ~Before(m, n)' \/ anims'[m].t1 <= anims'[n].t0 \/ SameWindow(m, n)'
      BY <2>5 DEF Apart
    <3>2. PresenceRows(e) \subseteq DOMAIN anims
      BY DEF PresenceRows
    <3>3. \A m \in DOMAIN anims : anims'[m].t1 = anims[m].t1 /\ anims'[m].t0 = anims[m].t0
      BY <2>1 DEF SameRows
    <3> QED
      BY <2>3, <3>1, <3>2, <3>3 DEF Apart
  <2>7. \A j \in PresenceRows(e)' : Before(j, i)
    BY <2>3, <2>4, <2>5 DEF LastOf, PresenceRows
  <2>8. i \in PresenceRows(e)' /\ Touches(i, e)
    BY <2>3, <2>4 DEF LastOf, PresenceRows
  <2>9. ASSUME NEW j \in DOMAIN anims, j # k
        PROVE  /\ Shows(j, e)' <=> Shows(j, e)
               /\ Hides(j, e)' <=> Hides(j, e)
               /\ Pending(j)' <=> Pending(j)
    BY <2>1, <2>9 DEF Shows, Hides, Pending, Closing
  <2>10. CASE ~Touches(k, e)
    <3>1. i # k /\ LastOf(i, e)
      BY <2>4, <2>5, <2>7, <2>8, <2>10 DEF LastOf
    <3> QED
      BY <1>8, <2>4, <2>6, <2>9, <2>10, <3>1, TurnPresence DEF LastDecides
  <2>11. CASE Touches(k, e) /\ i = k
    <3>1. CASE Fresh(anims[k])
      <4>1. /\ Shows(k, e)' => anims[k].kind = "enter" \/
                 (anims[k].kind = "morph" /\ (anims[k].dst = e \/ ~Closing(anims[k])))
            /\ Hides(k, e)' => Closing(anims[k]) /\
                 (anims[k].kind = "exit" \/ (anims[k].kind = "morph" /\ anims[k].ent = e))
        BY <2>1 DEF Shows, Hides, SameRows
      <4>2. anims[k].kind = "morph" => anims[k].ent # anims[k].dst
        BY DEF RowsStand
      <4> QED
        BY <1>8, <2>11, <3>1, <4>1, <4>2, TurnPresence
    <3>2. CASE ~Fresh(anims[k])
      <4>1. Begun(k) /\ PresenceRows(e)' = PresenceRows(e) /\ LastOf(k, e)
        BY <2>5, <2>7, <2>11, <3>2 DEF Fresh, Begun, LastOf, PresenceRows
      <4>2. anims[k].status = "started"
        BY <2>1, <2>2, <3>2 DEF Fresh
      <4>3. Shows(k, e) /\ ~Pending(k) => e \in active
        BY <2>6, <4>1 DEF LastDecides
      <4>4. Pending(k) <=> anims[k].kind = "morph" /\ Closing(anims[k])
        BY <2>1 DEF Pending
      <4>5. /\ Shows(k, e)' => Shows(k, e) /\
                 (anims[k].kind = "enter" \/
                   (anims[k].kind = "morph" /\ (anims[k].dst = e \/ ~Closing(anims[k]))))
            /\ Hides(k, e)' => Closing(anims[k]) /\
                 (anims[k].kind = "exit" \/ (anims[k].kind = "morph" /\ anims[k].ent = e))
        BY <2>1, <4>2 DEF Shows, Hides, SameRows
      <4>6. anims[k].kind = "morph" => anims[k].ent # anims[k].dst
        BY DEF RowsStand
      <4> QED
        BY <1>8, <2>11, <3>2, <4>3, <4>4, <4>5, <4>6, TurnPresence
    <3> QED
      BY <3>1, <3>2
  <2>12. CASE Touches(k, e) /\ i # k
    <3>1. k \in PresenceRows(e)' /\ Before(k, i) /\ i \in PresenceRows(e) /\ Begun(i)
      BY <2>5, <2>7, <2>8, <2>12 DEF PresenceRows
    <3>2. Begun(k) /\ k \in PresenceRows(e) /\ LastOf(i, e)
      <4>1. Begun(k)
        BY <2>4, <2>12, <3>1 DEF RowsOnTime
      <4> QED
        BY <2>5, <2>7, <2>12, <3>1, <4>1 DEF LastOf, PresenceRows
    <3>3. SameWindow(k, i)
      <4>1. ~(anims[k].t1 <= anims[i].t0)
        BY <2>1, <2>4, <2>12, <3>1 DEF RowsOnTime
      <4> QED
        BY <2>6, <2>12, <3>1, <3>2, <4>1 DEF Apart
    <3>4. anims[i].kind = anims[k].kind /\ anims[i].t1 = anims[k].t1 /\ anims[i].t0 = anims[k].t0
      BY <3>3 DEF SameWindow
    <3>5. anims[i].status = "started"
      <4>1. anims[i].status # "done"
        BY <2>1, <2>2, <2>4, <2>12, <3>1, <3>4 DEF RowsOnTime
      <4> QED
        BY <2>2, <2>4, <3>1, <4>1 DEF Begun
    <3>6. Closing(anims[k]) /\ anims[i].kind = "morph" => Pending(i)
      <4>1. Closing(anims[k]) => i \in todo
        <5>1. Closing(anims[k]) => anims[i].t1 <= now
          BY <2>2, <2>4, <3>4 DEF Closing
        <5> QED
          BY <2>1, <2>4, <3>4, <3>5, <5>1 DEF RowsOnTime, Turned
      <4> QED
        BY <2>1, <3>4, <4>1 DEF Pending, Closing
    <3>7. ~Hides(i, e)' /\ (Shows(i, e)' <=> Shows(i, e)) /\ (Pending(i)' <=> Pending(i))
      BY <2>4, <2>9, <2>12, <3>5 DEF Hides
    <3>8. Shows(i, e) => anims[k].kind \in {"enter", "morph"}
      BY <3>4 DEF Shows
    <3>9. ~Fresh(anims[k])
      BY <3>2 DEF Begun, Fresh
    <3>10. Shows(i, e) /\ ~Pending(i) => e \in active
      BY <2>4, <2>6, <3>2 DEF LastDecides
    <3> QED
      BY <1>8, <2>12, <3>4, <3>6, <3>7, <3>8, <3>9, <3>10, TurnPresence
  <2> QED
    BY <2>10, <2>11, <2>12
<1> QED
  BY <1>3, <1>4, <1>5, <1>6, <1>7, <1>8, StepKinds

(***************************************************************************)
(* The theorems.                                                           *)
(***************************************************************************)
LEMMA FramesInvInit == Init => FramesInv
<1> SUFFICES ASSUME Init
             PROVE  FramesInv
  OBVIOUS
<1>1. IInv
  BY InitIInv
<1>2. /\ stage = "score" /\ now = 0 /\ ~open /\ DOMAIN anims = {} /\ DOMAIN events = {}
      /\ liveFields = {} /\ lives = {}
  BY EmptySeq DEF Init
<1>3. ClockOnGrid
  BY <1>2, SceneAssumption DEF ClockOnGrid, Running, StepStages
<1>4. RowsStand /\ EventsOnTime /\ RowsOnTime
  BY <1>2 DEF RowsStand, EventsOnTime, RowsOnTime, Running, StepStages
<1>5. LiveStands /\ RatesGrow /\ PassSettles
  BY <1>2 DEF LiveStands, RatesGrow, PassSettles, Running, StepStages
<1>6. LastDecides
  BY <1>2 DEF LastDecides
<1> QED
  BY <1>1, <1>3, <1>4, <1>5, <1>6 DEF FramesInv

LEMMA FramesInvNext == FramesInv /\ [Next]_vars => FramesInv'
<1> SUFFICES ASSUME FramesInv, [Next]_vars
             PROVE  FramesInv'
  OBVIOUS
<1>1. IInv /\ IInv'
  BY NextIInv DEF FramesInv
<1>2. RowsStand' /\ ClockOnGrid' /\ RowsOnTime' /\ LiveStands'
  BY <1>1, RowsStandNext, ClockOnGridNext, RowsOnTimeNext, LiveStandsNext DEF FramesInv
<1>3. EventsOnTime' /\ RatesGrow' /\ PassSettles' /\ LastDecides'
  BY <1>1, <1>2, EventsOnTimeNext, RatesGrowNext, PassSettlesNext, LastDecidesNext
  DEF FramesInv
<1> QED
  BY <1>1, <1>2, <1>3 DEF FramesInv

LEMMA FramesInductive == Spec => []FramesInv
BY FramesInvInit, FramesInvNext, PTL DEF Spec

\* A multiple of the frame step within a frame of a grid point is that point.
LEMMA OnGrid ==
  ASSUME NEW step \in Nat \ {0}, NEW k \in Nat, NEW c \in Nat,
         c % step = 0, k * step <= c, c < k * step + step
  PROVE  c = k * step
<1> DEFINE q == c \div step
<1>1. q \in Int /\ c = step * q
  OBVIOUS
<1> HIDE DEF q
<1>2. ~(q >= k + 1)
  <2>1. q >= k + 1 => step * q >= step * (k + 1)
    <3>1. \A x, y \in Int : x >= y => step * x >= step * y
      OBVIOUS
    <3> QED
      BY <1>1, <3>1
  <2>2. step * (k + 1) = k * step + step
    OBVIOUS
  <2> QED
    BY <1>1, <2>1, <2>2
<1>3. q <= k => step * q <= k * step
  <2>1. \A x, y \in Int : x >= y => step * x >= step * y
    OBVIOUS
  <2> QED
    BY <1>1, <2>1
<1> QED
  BY <1>1, <1>2, <1>3

\* When the frames meet the end of the score, the last one draws it: every row
\* that ends within the score is over and every event has run. The clock has
\* stood on every grid point, so it has stood on the last, and by its frame
\* each row and event that is due has had its turn.
THEOREM LastFrameClosesScore == Spec => []LastFrameCloses
<1>1. ASSUME FramesInv
      PROVE  LastFrameCloses
  <2> SUFFICES ASSUME stage = "done", cursor % FrameStep = 0
               PROVE  /\ \A i \in DOMAIN anims :
                           anims[i].t1 <= cursor => anims[i].status = "done"
                      /\ \A e \in DOMAIN events : events[e].done
    BY DEF LastFrameCloses
  <2>1. /\ cursor \in Nat /\ FrameStep \in Nat \ {0}
        /\ stage \in Running /\ \A i \in DOMAIN anims : Turned(i)
    BY <1>1, SceneAssumption DEF FramesInv, IInv, TypeOK, Running, Turned
  <2>2. PICK k \in Nat : now = k * FrameStep
    BY <1>1 DEF FramesInv, ClockOnGrid
  <2>3. now = cursor
    <3>1. now <= cursor /\ cursor < now + FrameStep
      BY <1>1, <2>1 DEF FramesInv, ClockOnGrid
    <3> QED
      BY <2>1, <2>2, <3>1, OnGrid
  <2>4. \A e \in DOMAIN events : events[e].done
    BY <1>1, <2>1, <2>3 DEF FramesInv, EventsOnTime
  <2>5. \A i \in DOMAIN anims : anims[i].t1 <= cursor => anims[i].status = "done"
    <3>1. \A i \in DOMAIN anims :
            anims[i].t0 \in Nat /\ anims[i].t1 \in Nat /\ anims[i].t0 <= anims[i].t1
      BY <1>1, Shapes DEF FramesInv, IInv
    <3> QED
      BY <1>1, <2>1, <2>3, <3>1 DEF FramesInv, RowsOnTime
  <2> QED
    BY <2>4, <2>5
<1> QED
  BY <1>1, FramesInductive, PTL

\* A literal rate that nothing else writes is its integral in every frame.
THEOREM RatesAreIntegrals == Spec => []RateIsIntegral
<1>1. ASSUME FramesInv
      PROVE  RateIsIntegral
  <2>1. stage = "frame" => lives = {}
    BY <1>1 DEF FramesInv, LiveStands
  <2>2. stage = "frame" => \A f \in Rates : Grown(f) = now
    BY DEF Grown
  <2> QED
    BY <1>1, <2>1, <2>2 DEF FramesInv, RatesGrow, RateIsIntegral, Running
<1> QED
  BY <1>1, FramesInductive, PTL

\* A live field without a row shows its expression in every frame: the last
\* pass of the frame leaves it settled, and the rates integrated after it are
\* not read by it.
THEOREM LiveFieldsFollow == Spec => []LiveFollows
<1>1. ASSUME FramesInv
      PROVE  LiveFollows
  BY <1>1 DEF FramesInv, PassSettles, LivePass, LiveFollows
<1> QED
  BY <1>1, FramesInductive, PTL

\* In every frame an entity is present exactly when the last of its rows to
\* have begun says so.
THEOREM PresenceIsScored == Spec => []PresenceFollowsScore
<1>1. ASSUME FramesInv
      PROVE  PresenceFollowsScore
  <2> SUFFICES ASSUME stage = "frame", NEW e \in Entities, Apart(e)
               PROVE  /\ PresenceRows(e) = {} => e \notin active
                      /\ \A i \in DOMAIN anims : LastOf(i, e) =>
                           /\ Shows(i, e) => e \in active
                           /\ Hides(i, e) => e \notin active
    BY DEF PresenceFollowsScore
  <2>1. PresenceRows(e) = {} => e \notin active
    BY <1>1 DEF FramesInv, IInv, PresenceEarned, PresenceRows
  <2>2. \A i \in DOMAIN anims : ~Pending(i)
    BY DEF Pending
  <2> QED
    BY <1>1, <2>1, <2>2 DEF FramesInv, LastDecides
<1> QED
  BY <1>1, FramesInductive, PTL

(***************************************************************************)
(* What a slot shows: the row that owns it, and nothing else, decides what *)
(* is on it, and a morph hands over from its source to its destination.    *)
(***************************************************************************)
\* The only held assignment there is shows its expression from its turn on,
\* and so do the live fields that do not follow the slot.
Alone(s) == post[s] # None /\ \A q \in Slots \ {s} : post[q] = None
PostShows ==
  \A s \in Slots : Alone(s) =>
    /\ stage \in {"reposts", "resettle"} =>
         \A f \in LivePass(FALSE) \ Followers(s) : val[f] = Eval(def[f])
    /\ /\ (stage = "reposts" /\ s \notin todo) \/ stage \in {"resettle", "rates", "frame"}
       /\ post[s].src \notin Rates \cup {s} \cup Followers(s)
       => val[s] = Eval(post[s])

\* The row that owns a slot decides what is held on it.
OwnerHolds ==
  \A i \in DOMAIN anims, s \in Slots :
    anims[i].ref = s /\ Owns(i, s) /\ ~SetSince(i, s) =>
      post[s] =
        IF anims[i].kind # "morph" /\ anims[i].status = "done" /\ anims[i].goal.src # None
        THEN anims[i].goal ELSE None

\* No other row on s is to begin in this frame.
NoneDue(s) ==
  \A k \in DOMAIN anims : Writes(k, s) /\ ~Begun(k) => now < anims[k].t0

\* A row with a literal goal that owns its slot leaves it on its curve.
OwnerMoves ==
  \A i \in DOMAIN anims, s \in Slots :
    LET a == anims[i]
    IN  /\ a.ref = s /\ a.kind # "morph" /\ a.goal.src = None
        /\ Owns(i, s) /\ ~SetSince(i, s) /\ NoneDue(s)
        /\ a.status = "done" \/ (s \notin live /\ Turned(i))
        => val[s] = Lerp(a.from, Eval(a.goal), a)

\* A morph that owns both opacities leaves the destination hidden under an
\* outline morph, and hands over when its window is over.
MorphMoves ==
  \A i \in DOMAIN anims, src, dst \in Slots :
    LET a == anims[i]
    IN  /\ a.kind = "morph" /\ a.ref = src /\ Opacity[a.dst] = dst
        /\ Owns(i, src) /\ Owns(i, dst)
        /\ ~SetSince(i, src) /\ ~SetSince(i, dst)
        /\ {src, dst} \cap (liveFields \cup Rates) = {} /\ post[dst] = None
        => IF a.status = "done" THEN val[src] = Hidden /\ val[dst] = Full
           ELSE MorphsOutline(a) => val[dst] = Hidden

OwnersInv == FramesInv /\ PostShows /\ OwnerHolds /\ OwnerMoves /\ MorphMoves

(***************************************************************************)
(* Owners.                                                                 *)
(***************************************************************************)
\* When a row takes its turn, every other row that owns a slot owned it before,
\* and the turn is not of that slot.
LEMMA OthersKeepOut ==
  ASSUME FramesInv, NEW k \in DOMAIN anims, TurnStep(k),
         NEW i \in DOMAIN anims, i # k, NEW s, Owns(i, s)'
  PROVE  ~Writes(k, s) /\ Owns(i, s)
<1>1. /\ SameRows /\ anims[k].status # "done" /\ anims'[k].status # "new"
      /\ \A j \in DOMAIN anims : j # k => anims'[j] = anims[j]
  BY TurnRow DEF FramesInv
<1>2. /\ \A j \in DOMAIN anims : Writes(j, s)' <=> Writes(j, s)
      /\ \A j \in DOMAIN anims : Before(j, i)' <=> Before(j, i)
      /\ \A j \in DOMAIN anims : j # k => (Begun(j)' <=> Begun(j))
      /\ Begun(k)'
  BY <1>1, WritesStand DEF SameRows, Before, Begun
<1>3. /\ Begun(i) /\ Writes(i, s)
      /\ \A j \in DOMAIN anims \ {i} :
           Writes(j, s) => \/ ~Begun(j)'
                           \/ anims[j].t1 <= anims[i].t0 /\ Before(j, i)
  BY <1>1, <1>2 DEF Owns, SameRows
<1>4. ~Writes(k, s)
  BY <1>1, <1>2, <1>3 DEF FramesInv, RowsOnTime
<1> QED
  BY <1>2, <1>3, <1>4 DEF Owns

\* A turn runs no event.
LEMMA TurnSetsNothing ==
  ASSUME FramesInv, NEW k \in DOMAIN anims, TurnStep(k)
  PROVE  \A i \in DOMAIN anims : \A s : SetSince(i, s)' <=> SetSince(i, s)
  BY TurnRow DEF FramesInv, SetSince, SameRows

\* An event that runs after a row has begun is a set since, or not of its slots.
LEMMA EventSpares ==
  ASSUME FramesInv, NEW e \in DOMAIN events, FireEvent(e), stage # "top",
         NEW i \in DOMAIN anims, Begun(i), NEW s \in Slots, ~SetSince(i, s)',
         anims[i].ref = s \/ s \in Fields
  PROVE  /\ events[e].slot # s /\ ~SetSince(i, s)
         /\ val'[s] = val[s] /\ post'[s] = post[s]
<1>1. /\ stage = "events" /\ e \in todo /\ events' = [events EXCEPT ![e].done = TRUE]
      /\ val' = [val EXCEPT ![events[e].slot] = Eval(events[e].rhs)]
      /\ \/ post' = [post EXCEPT ![events[e].slot] = None]
         \/ UNCHANGED post
      /\ UNCHANGED anims
  BY DEF FireEvent
<1>2. /\ events[e] \in Event /\ events[e].t \in Nat /\ anims[i].t0 \in Nat
      /\ events[e].kind \in {"set", "capture"}
      /\ val \in [Slots -> Int] /\ post \in [Slots -> Expr \cup {None}]
  BY Shapes DEF FramesInv, IInv, TypeOK
<1>3. anims[i].t0 < events[e].t
  BY <1>1 DEF FramesInv, EventsOnTime
<1>4. /\ \A o \in DOMAIN events : o # e => events'[o] = events[o]
      /\ DOMAIN events' = DOMAIN events
      /\ events'[e].kind = events[e].kind /\ events'[e].slot = events[e].slot
      /\ events'[e].t = events[e].t /\ events'[e].done
  BY <1>1, <1>2 DEF Event
<1>5. events[e].slot # s
  <2>1. CASE events[e].kind = "set"
    BY <1>1, <1>3, <1>4, <2>1 DEF SetSince
  <2>2. CASE events[e].kind = "capture"
    <3>1. events[e].slot \notin Fields
      BY <2>2, SceneAssumption DEF FramesInv, IInv, TypeOK, EventsNameSlots
    <3>2. anims[i].ref # events[e].slot
      BY <1>2, <1>3, <2>2 DEF FramesInv, EventsOnTime
    <3> QED
      BY <3>1, <3>2
  <2> QED
    BY <1>2, <2>1, <2>2
<1>6. ~SetSince(i, s)
  <2> SUFFICES ASSUME NEW o \in DOMAIN events, events[o].kind = "set",
                      events[o].slot = s, events[o].done, events[o].t > anims[i].t0
               PROVE  FALSE
    BY DEF SetSince
  <2>1. o # e
    BY <1>5
  <2> QED
    BY <1>1, <1>4, <2>1 DEF SetSince
<1> QED
  BY <1>1, <1>2, <1>5, <1>6

LEMMA OwnerHoldsNext ==
  ASSUME FramesInv, FramesInv', OwnerHolds, [Next]_vars
  PROVE  OwnerHolds'
<1>1. CASE stage' \in Waiting
  <2>1. \A i \in DOMAIN anims' : ~Begun(i)'
    BY <1>1 DEF FramesInv, RowsOnTime
  <2> QED
    BY <2>1 DEF OwnerHolds, Owns
<1>2. CASE UNCHANGED <<anims, events, post>>
  BY <1>2 DEF OwnerHolds, Owns, SetSince, Begun, Writes, Before
<1>3. CASE Score \/ Compiles \/ Link
  <2>1. stage' \in Waiting
    BY <1>3, ScoreStep DEF Compiles, CloseScore, Resolve, CycleError, InitField, Link,
       Waiting, FramesInv
  <2> QED
    BY <1>1, <2>1
<1>4. CASE NextFrame \/ LastFrame \/ NextStage \/ Passes \/ UNCHANGED vars
  <2>1. UNCHANGED <<anims, events, post>>
    BY <1>4, PassKeeps DEF NextFrame, LastFrame, NextStage, program, vars
  <2> QED
    BY <1>2, <2>1
<1>5. ASSUME NEW e \in DOMAIN events, FireEvent(e), stage # "top"
      PROVE  OwnerHolds'
  <2>1. UNCHANGED anims
    BY <1>5 DEF FireEvent
  <2>2. ASSUME NEW i \in DOMAIN anims, NEW s \in Slots, anims[i].ref = s,
               Owns(i, s), ~SetSince(i, s)'
        PROVE  post'[s] =
                 IF anims[i].kind # "morph" /\ anims[i].status = "done" /\ anims[i].goal.src # None
                 THEN anims[i].goal ELSE None
    <3>1. Begun(i)
      BY <2>2 DEF Owns
    <3>2. post'[s] = post[s] /\ ~SetSince(i, s)
      BY <1>5, <2>2, <3>1, EventSpares
    <3> QED
      BY <2>2, <3>2 DEF OwnerHolds
  <2>3. \A i \in DOMAIN anims : \A s : Owns(i, s)' <=> Owns(i, s)
    BY <2>1 DEF Owns, Begun, Writes, Before
  <2> QED
    BY <2>1, <2>2, <2>3 DEF OwnerHolds
<1>6. ASSUME NEW e \in DOMAIN events, FireEvent(e), stage = "top"
      PROVE  OwnerHolds'
  BY <1>1, <1>6 DEF FireEvent, Waiting
<1>7. ASSUME NEW k \in DOMAIN anims, TurnStep(k)
      PROVE  OwnerHolds'
  <2> SUFFICES ASSUME NEW i \in DOMAIN anims', NEW s \in Slots, anims'[i].ref = s,
                      Owns(i, s)', ~SetSince(i, s)'
               PROVE  post'[s] =
                        IF /\ anims'[i].kind # "morph" /\ anims'[i].status = "done"
                           /\ anims'[i].goal.src # None
                        THEN anims'[i].goal ELSE None
    BY DEF OwnerHolds
  <2>1. /\ SameRows /\ i \in DOMAIN anims
        /\ anims[i].ref = s /\ anims'[i].kind = anims[i].kind
        /\ anims'[i].goal = anims[i].goal
        /\ \A j \in DOMAIN anims : j # k => anims'[j] = anims[j]
        /\ anims[k].status # "done"
        /\ anims'[k].status = IF Closing(anims[k]) THEN "done" ELSE "started"
    BY <1>7, TurnRow DEF FramesInv, SameRows
  <2>2. ~SetSince(i, s)
    BY <1>7, <2>1, TurnSetsNothing
  <2>3. CASE i # k
    <3>1. ~Writes(k, s) /\ Owns(i, s)
      BY <1>7, <2>1, <2>3, OthersKeepOut
    <3>2. post'[s] = post[s]
      BY <1>7, <3>1, TurnWrites DEF Writes, FramesInv
    <3> QED
      BY <2>1, <2>2, <2>3, <3>1, <3>2 DEF OwnerHolds
  <2>4. CASE i = k
    <3>1. ~Fresh(anims[k]) => post[s] = None
      <4>1. ~Fresh(anims[k]) => Owns(i, s)
        <5>1. \A j \in DOMAIN anims : Begun(j) => Begun(j)'
          BY <2>1 DEF Begun
        <5>2. \A j \in DOMAIN anims : /\ Writes(j, s)' <=> Writes(j, s)
                                      /\ Before(j, i)' <=> Before(j, i)
          BY <2>1, WritesStand DEF SameRows, Before
        <5> QED
          BY <2>1, <2>4, <5>1, <5>2 DEF Owns, Fresh, Begun, SameRows
      <4> QED
        BY <2>1, <2>2, <2>4, <4>1 DEF OwnerHolds
    <3>2. post \in [Slots -> Expr \cup {None}]
      BY DEF FramesInv, IInv, TypeOK
    <3>3. CASE anims[k].kind # "morph"
      <4>1. post'[s] = Held(anims[k])[s]
        BY <1>7, <2>1, <2>4, <3>3, TurnWrites DEF FramesInv
      <4> QED
        BY <2>1, <2>4, <3>1, <3>2, <3>3, <4>1 DEF Held
    <3>4. CASE anims[k].kind = "morph"
      <4>1. post'[s] = IF Fresh(anims[k]) THEN None ELSE post[s]
        BY <1>7, <2>1, <2>4, <3>4, TurnWrites DEF FramesInv
      <4> QED
        BY <2>1, <2>4, <3>1, <3>4, <4>1
    <3> QED
      BY <3>3, <3>4
  <2> QED
    BY <2>3, <2>4
<1> QED
  BY <1>3, <1>4, <1>5, <1>6, <1>7, StepKinds

\* A turn that does not begin from the slot's own value puts its row's slot on
\* the curve of the row.
LEMMA TurnMoves ==
  ASSUME FramesInv, NEW k \in DOMAIN anims, TurnStep(k), anims[k].kind # "morph",
         anims[k].goal.src = None, Closing(anims[k]) \/ anims[k].ref \notin live'
  PROVE  val'[anims[k].ref] = Lerp(anims'[k].from, Eval(anims[k].goal), anims[k])
<1> DEFINE a == anims[k]
<1>1. /\ a.ref \in Slots /\ a.t1 \in Nat /\ now \in Nat /\ val \in [Slots -> Int]
      /\ anims'[k].from = StartFrom(a)
  BY Shapes, TurnRow DEF FramesInv, IInv, TypeOK
<1>2. val' = Tweened(a, live')
  BY DEF TurnStep, RunTween, RunEntrance, RunExit, RunMorph
<1>3. CASE Closing(a)
  BY <1>1, <1>2, <1>3 DEF Tweened, Lerp, Closing
<1>4. CASE a.ref \notin live'
  BY <1>1, <1>2, <1>4 DEF Tweened
<1> QED
  BY <1>3, <1>4

LEMMA OwnerMovesNext ==
  ASSUME FramesInv, FramesInv', OwnerHolds, OwnerMoves, [Next]_vars
  PROVE  OwnerMoves'
<1> USE DEF StepStages
<1>1. CASE stage' \in Waiting
  <2>1. \A i \in DOMAIN anims' : ~Begun(i)'
    BY <1>1 DEF FramesInv, RowsOnTime
  <2> QED
    BY <2>1 DEF OwnerMoves, Owns
<1>2. /\ TypeOK /\ now \in Nat
      /\ \A i \in DOMAIN anims : /\ anims[i].t0 \in Nat /\ anims[i].t1 \in Nat
                                 /\ anims[i].goal \in Expr /\ anims[i].t0 <= anims[i].t1
  BY Shapes DEF FramesInv, IInv, TypeOK
<1>3. val \in [Slots -> Int]
  BY DEF FramesInv, IInv, TypeOK
\* A step that leaves the rows alone, and the slot, keeps the slot where it is.
<1>4. ASSUME UNCHANGED <<anims, live>>, now' \in Nat, now <= now',
             NEW i \in DOMAIN anims, NEW s \in Slots, anims[i].ref = s,
             anims[i].kind # "morph", anims[i].goal.src = None,
             Owns(i, s), ~SetSince(i, s), NoneDue(s)',
             anims[i].status = "done" \/ (s \notin live /\ Turned(i) /\ now' = now),
             val'[s] = val[s]
      PROVE  val'[s] = Lerp(anims[i].from, Eval(anims[i].goal), anims[i])'
  <2>1. NoneDue(s)
    <3>1. \A k \in DOMAIN anims : Writes(k, s) /\ ~Begun(k) => now' < anims[k].t0
      BY <1>4 DEF NoneDue, Writes, Begun
    <3> QED
      BY <1>2, <1>4, <3>1 DEF NoneDue
  <2>2. val[s] = Lerp(anims[i].from, Eval(anims[i].goal), anims[i])
    BY <1>4, <2>1 DEF OwnerMoves
  <2>3. Eval(anims[i].goal) = anims[i].goal.off /\ Eval(anims[i].goal)' = anims[i].goal.off
    BY <1>2, <1>4 DEF Eval, Expr
  <2>4. CASE now' = now
    BY <1>4, <2>2, <2>3, <2>4 DEF Lerp
  <2>5. CASE anims[i].status = "done"
    <3>1. anims[i].t1 <= now
      BY <2>5 DEF FramesInv, RowsOnTime
    <3>2. now >= anims[i].t1 /\ now' >= anims[i].t1
      BY <1>2, <1>4, <3>1
    <3> QED
      BY <1>4, <2>2, <2>3, <3>2 DEF Lerp
  <2> QED
    BY <1>4, <2>4, <2>5
\* So a step that leaves the rows alone only has to spare the owned slots.
<1>5. ASSUME UNCHANGED <<anims, live>>, now' \in Nat, now <= now',
             \A i \in DOMAIN anims : Turned(i)' =>
               anims[i].status = "done" \/ (Turned(i) /\ now' = now),
             \A i \in DOMAIN anims, s \in Slots :
               /\ anims[i].ref = s /\ anims[i].kind # "morph" /\ anims[i].goal.src = None
               /\ Owns(i, s) /\ ~SetSince(i, s)' /\ NoneDue(s)'
               /\ anims[i].status = "done" \/ (s \notin live /\ Turned(i) /\ now' = now)
               => val'[s] = val[s] /\ ~SetSince(i, s)
      PROVE  OwnerMoves'
  <2>1. \A i \in DOMAIN anims : \A s : Owns(i, s)' <=> Owns(i, s)
    BY <1>5 DEF Owns, Begun, Writes, Before
  <2> QED
    BY <1>4, <1>5, <2>1 DEF OwnerMoves
<1>6. CASE Score \/ Compiles \/ Link
  <2>1. stage' \in Waiting
    BY <1>6, ScoreStep DEF Compiles, CloseScore, Resolve, CycleError, InitField, Link,
       Waiting, FramesInv
  <2> QED
    BY <1>1, <2>1
<1>7. CASE NextFrame \/ LastFrame \/ UNCHANGED vars
  <2>1. /\ UNCHANGED <<anims, live, val, events>>
        /\ \A i \in DOMAIN anims : \A s : SetSince(i, s)' <=> SetSince(i, s)
    BY <1>7 DEF NextFrame, LastFrame, program, vars, SetSince
  <2>2. now' \in Nat /\ now <= now'
    <3>1. FrameTime \in Nat /\ (stage = "frame" => now <= FrameTime)
      BY <1>2, SceneAssumption DEF FrameTime
    <3>2. stage = "ready" => now = 0
      BY DEF FramesInv, ClockOnGrid, Waiting
    <3> QED
      BY <1>2, <1>7, <3>1, <3>2 DEF NextFrame, LastFrame, vars
  <2>3. CASE NextFrame
    BY <1>5, <2>1, <2>2, <2>3 DEF NextFrame, Turned
  <2>4. CASE LastFrame
    <3>1. stage = "frame"
      <4>1. stage \in {"ready", "frame"} /\ ~(FrameTime <= cursor) /\ cursor \in Nat
        BY <2>4 DEF LastFrame, FramesLeft, FramesInv, IInv, TypeOK
      <4> QED
        BY <4>1 DEF FrameTime
    <3>2. now' = now /\ stage' = "done"
      BY <2>4 DEF LastFrame
    <3> QED
      BY <1>5, <2>1, <2>2, <3>1, <3>2 DEF Turned
  <2>5. CASE UNCHANGED vars
    BY <1>5, <2>1, <2>2, <2>5 DEF vars, Turned
  <2> QED
    BY <1>7, <2>3, <2>4, <2>5
<1>8. CASE NextStage
  <2>1. /\ UNCHANGED <<anims, live, val, events, now>> /\ todo = {} /\ stage \in StepStages
        /\ stage' = After[stage] /\ todo' = Work(stage')
    BY <1>8 DEF NextStage, program
  <2>2. \A i \in DOMAIN anims : \A s : SetSince(i, s)' <=> SetSince(i, s)
    BY <2>1 DEF SetSince
  <2>3. ASSUME NEW i \in DOMAIN anims, Turned(i)'
        PROVE  anims[i].status = "done" \/ Turned(i) \/ ~Begun(i)
    <3>1. CASE stage' = "anims"
      <4>1. anims[i].t0 <= now => anims[i].status = "done"
        BY <2>1, <2>3, <3>1 DEF Turned, Work
      <4>2. Begun(i) => anims[i].t0 <= now
        BY DEF FramesInv, RowsOnTime
      <4> QED
        BY <4>1, <4>2
    <3>2. CASE stage' # "anims"
      BY <2>1, <2>3, <3>2 DEF Turned, After
    <3> QED
      BY <3>1, <3>2
  <2>4. \A i \in DOMAIN anims : \A s : Owns(i, s)' <=> Owns(i, s)
    BY <2>1 DEF Owns, Begun, Writes, Before
  <2> SUFFICES ASSUME NEW i \in DOMAIN anims, NEW s \in Slots, anims[i].ref = s,
                      anims[i].kind # "morph", anims[i].goal.src = None,
                      Owns(i, s), ~SetSince(i, s), NoneDue(s)',
                      anims[i].status = "done" \/ (s \notin live /\ Turned(i)')
               PROVE  val'[s] = Lerp(anims[i].from, Eval(anims[i].goal), anims[i])'
    BY <2>1, <2>2, <2>4 DEF OwnerMoves
  <2>5. Begun(i)
    BY DEF Owns
  <2> QED
    BY <1>2, <1>4, <2>1, <2>3, <2>5
<1>9. CASE Passes
  <2>1. UNCHANGED <<anims, live, now, stage, events>> /\ (stage = "anims" => UNCHANGED todo)
    BY <1>9, PassKeeps DEF program
  <2>2. \A i \in DOMAIN anims : \A s : SetSince(i, s)' <=> SetSince(i, s)
    BY <2>1 DEF SetSince
  <2>3. \A i \in DOMAIN anims : Turned(i)' => Turned(i)
    BY <2>1 DEF Turned
  <2> SUFFICES ASSUME NEW i \in DOMAIN anims, NEW s \in Slots, anims[i].ref = s,
                      anims[i].kind # "morph", anims[i].goal.src = None,
                      Owns(i, s), ~SetSince(i, s), NoneDue(s)',
                      anims[i].status = "done" \/ (s \notin live /\ Turned(i))
               PROVE  val'[s] = val[s]
    BY <1>2, <1>5, <2>1, <2>2, <2>3
  <2>4. ASSUME NEW q \in Slots, ApplyPost(q)
        PROVE  val'[s] = val[s]
    <3>1. post[s] = None
      BY DEF OwnerHolds
    <3>2. post[q] # None
      BY <2>4 DEF ApplyPost, FramesInv, IInv, WorkIsReady
    <3> QED
      BY <1>3, <2>4, <3>1, <3>2 DEF ApplyPost
  <2>5. ASSUME NEW f \in Fields, EvalLive(f)
        PROVE  val'[s] = val[s]
    <3>1. stage \in StepStages /\ f \in LivePass(stage = "live")
      BY <2>5 DEF EvalLive, FramesInv, LiveStands
    <3>2. f # s
      <4> SUFFICES ASSUME f = s
                   PROVE  FALSE
        OBVIOUS
      <4>1. stage = "live" /\ HasActiveWriter(s) /\ s \in live
        BY <3>1 DEF LivePass, HasWriter, FramesInv, LiveStands
      <4>2. PICK j \in DOMAIN anims : anims[j].ref = s /\ anims[j].t0 <= now /\ now <= anims[j].t1
        BY <4>1 DEF HasActiveWriter
      <4>3. anims[i].status = "done" /\ anims[i].t1 < now
        BY <4>1 DEF FramesInv, RowsOnTime
      <4>4. j # i /\ Writes(j, s)
        BY <1>2, <4>2, <4>3 DEF Writes
      <4>5. Begun(j)
        <5>1. ~Begun(j) => now < anims[j].t0
          BY <2>1, <4>4 DEF NoneDue, Writes, Begun
        <5> QED
          BY <1>2, <4>2, <5>1
      <4>6. anims[j].t1 <= anims[i].t0
        BY <4>4, <4>5 DEF Owns
      <4> QED
        BY <1>2, <4>2, <4>3, <4>6
    <3> QED
      BY <1>3, <2>5, <3>2 DEF EvalLive
  <2>6. ASSUME NEW f \in Fields, Integrate(f)
        PROVE  val'[s] = val[s]
    <3>1. f \in Rates /\ stage = "rates"
      BY <2>6 DEF Integrate, FramesInv, IInv, TypeOK
    <3>2. s \notin Rates
      BY <3>1 DEF FramesInv, RowsStand, Running
    <3> QED
      BY <1>3, <2>6, <3>1, <3>2 DEF Integrate
  <2>7. ASSUME NEW k \in DOMAIN anims, Relive(k)
        PROVE  val'[s] = val[s]
    BY <2>7 DEF Relive
  <2> QED
    BY <1>9, <2>4, <2>5, <2>6, <2>7 DEF Passes
<1>10. ASSUME NEW e \in DOMAIN events, FireEvent(e)
       PROVE  OwnerMoves'
  <2>1. CASE stage = "top"
    BY <1>1, <1>10, <2>1 DEF FireEvent, Waiting
  <2>2. CASE stage # "top"
    <3>1. /\ UNCHANGED <<anims, live, now, stage>> /\ stage = "events"
          /\ \A i \in DOMAIN anims : Turned(i)' => FALSE
      BY <1>10, <2>2 DEF FireEvent, Turned
    <3>2. \A i \in DOMAIN anims, s \in Slots :
            anims[i].ref = s /\ Owns(i, s) /\ ~SetSince(i, s)'
            => val'[s] = val[s] /\ ~SetSince(i, s)
      BY <1>10, <2>2, EventSpares DEF Owns
    <3> QED
      BY <1>2, <1>5, <3>1, <3>2
  <2> QED
    BY <2>1, <2>2
<1>11. ASSUME NEW k \in DOMAIN anims, TurnStep(k)
       PROVE  OwnerMoves'
  <2>1. /\ SameRows /\ UNCHANGED <<now, stage>> /\ todo' = todo \ {k}
        /\ \A j \in DOMAIN anims : j # k => anims'[j] = anims[j]
        /\ anims'[k].status = IF Closing(anims[k]) THEN "done" ELSE "started"
    BY <1>11, TurnRow DEF FramesInv
  <2> SUFFICES ASSUME NEW i \in DOMAIN anims, NEW s \in Slots, anims[i].ref = s,
                      anims[i].kind # "morph", anims[i].goal.src = None,
                      Owns(i, s)', ~SetSince(i, s), NoneDue(s)',
                      anims'[i].status = "done" \/ (s \notin live' /\ Turned(i)')
               PROVE  val'[s] = Lerp(anims'[i].from, Eval(anims[i].goal), anims[i])
    <3>1. \A i \in DOMAIN anims : \A s : SetSince(i, s)' <=> SetSince(i, s)
      BY <1>11, TurnSetsNothing
    <3>2. ASSUME NEW i \in DOMAIN anims, anims[i].goal.src = None
          PROVE  Lerp(anims[i].from, Eval(anims[i].goal), anims[i])'
                   = Lerp(anims'[i].from, Eval(anims[i].goal), anims[i])
      BY <2>1, <3>2 DEF Lerp, Eval, SameRows
    <3> QED
      BY <2>1, <3>1, <3>2 DEF OwnerMoves, SameRows
  <2>2. CASE i = k
    BY <1>11, <2>1, <2>2, TurnMoves
  <2>3. CASE i # k
    <3>1. ~Writes(k, s) /\ Owns(i, s)
      BY <1>11, <2>3, OthersKeepOut
    <3>2. val'[s] = val[s] /\ (s \in live' <=> s \in live)
      BY <1>11, <3>1, TurnWrites DEF Writes, FramesInv
    <3>3. NoneDue(s)
      <4>1. \A j \in DOMAIN anims : Writes(j, s)' <=> Writes(j, s)
        BY <2>1, WritesStand
      <4>2. \A j \in DOMAIN anims : j # k => (Begun(j)' <=> Begun(j))
        BY <2>1 DEF Begun
      <4> QED
        BY <2>1, <3>1, <4>1, <4>2 DEF NoneDue, SameRows
    <3>4. anims'[i] = anims[i] /\ (Turned(i)' => Turned(i))
      BY <2>1, <2>3 DEF Turned
    <3> QED
      BY <3>1, <3>2, <3>3, <3>4 DEF OwnerMoves
  <2> QED
    BY <2>2, <2>3
<1> QED
  BY <1>6, <1>7, <1>8, <1>9, <1>10, <1>11, StepKinds

(***************************************************************************)
(* Held assignments.                                                       *)
(***************************************************************************)
\* What reads a slot, or a follower of it, follows it.
LEMMA FollowersClosed ==
  ASSUME NEW s \in Slots, NEW f \in liveFields \ frozen,
         def[f].src = s \/ def[f].src \in Followers(s)
  PROVE  f \in Followers(s)
<1> DEFINE Fs == liveFields \ frozen
           Closed(L) == \A g \in Fs : def[g].src \in L => g \in L
<1>1. Followers(s) = {g \in Fs : \A L \in SUBSET Slots : s \in L /\ Closed(L) => g \in L}
  BY DEF Followers
<1>2. ASSUME NEW L \in SUBSET Slots, s \in L, Closed(L)
      PROVE  f \in L
  BY <1>1, <1>2
<1> HIDE DEF Closed
<1> QED
  BY <1>1, <1>2

LEMMA PostShowsNext ==
  ASSUME FramesInv, PostShows, [Next]_vars
  PROVE  PostShows'
<1> USE DEF StepStages
<1>1. CASE stage' \notin {"reposts", "resettle", "rates", "frame"}
  BY <1>1 DEF PostShows
<1>2. /\ TypeOK /\ def \in [Fields -> Expr \cup {None}] /\ val \in [Slots -> Int]
      /\ post \in [Slots -> Expr \cup {None}] /\ Fields \subseteq Slots
      /\ liveFields \subseteq Fields /\ \A f \in liveFields \ frozen : def[f] # None
      /\ LivePass(FALSE) \subseteq liveFields \ frozen
  BY DEF FramesInv, IInv, TypeOK, WorkIsReady, Slots, LivePass
<1>3. CASE Score \/ Compiles \/ Link \/ NextFrame \/ LastFrame
  <2>1. stage' \notin {"reposts", "resettle", "rates", "frame"}
    BY <1>3, ScoreStep DEF Compiles, CloseScore, Resolve, CycleError, InitField, Link,
       NextFrame, LastFrame, FramesInv
  <2> QED
    BY <1>1, <2>1
<1>4. CASE \/ \E e \in DOMAIN events : FireEvent(e)
           \/ \E i \in DOMAIN anims : TurnStep(i)
  <2>1. stage' \in {"top", "events", "anims"}
    BY <1>4, TurnRow DEF FireEvent, FramesInv
  <2> QED
    BY <1>1, <2>1
\* A slot with a held assignment has a row, so no pass without writers and no
\* rate is of it.
<1>5. ASSUME NEW s \in Slots, post[s] # None
      PROVE  HasWriter(s) /\ s \notin LivePass(FALSE) /\ (stage \in Running => s \notin Rates)
  <2>1. PICK i \in DOMAIN anims : anims[i].ref = s
    BY <1>5 DEF FramesInv, IInv, HeldByFinished
  <2>2. HasWriter(s)
    BY <2>1 DEF HasWriter
  <2>3. stage \in Running => s \notin Rates
    BY <2>1 DEF FramesInv, RowsStand
  <2> QED
    BY <2>2, <2>3 DEF LivePass
<1>6. ASSUME UNCHANGED <<anims, def, frozen, liveFields, post>>
      PROVE  /\ LivePass(FALSE)' = LivePass(FALSE)
             /\ \A s \in Slots : Followers(s)' = Followers(s) /\ (Alone(s)' <=> Alone(s))
  BY <1>6 DEF LivePass, HasWriter, Followers, Alone
<1>7. CASE NextStage
  <2>1. /\ UNCHANGED <<anims, def, frozen, liveFields, post, val>>
        /\ stage \in StepStages /\ todo = {} /\ lives = {} /\ stage' = After[stage]
        /\ todo' = Work(stage')
    BY <1>7 DEF NextStage, program, linked
  <2>2. /\ stage' = "reposts" <=> stage = "settle"
        /\ stage' = "resettle" <=> stage = "reposts"
        /\ stage' = "rates" <=> stage = "resettle"
        /\ stage' = "frame" <=> stage = "rates"
    BY <2>1 DEF After
  <2>3. stage' = "reposts" => todo' = {k \in Slots : post[k] # None}
    BY <2>1 DEF Work
  <2>5. stage = "settle" => \A f \in LivePass(FALSE) : val[f] = Eval(def[f])
    BY <2>1 DEF FramesInv, PassSettles
  <2> SUFFICES ASSUME NEW s \in Slots, Alone(s)
               PROVE  /\ stage' \in {"reposts", "resettle"} =>
                           \A f \in LivePass(FALSE) \ Followers(s) : val[f] = Eval(def[f])
                      /\ /\ \/ stage' = "reposts" /\ s \notin todo'
                            \/ stage' \in {"resettle", "rates", "frame"}
                         /\ post[s].src \notin Rates \cup {s} \cup Followers(s)
                         => val[s] = Eval(post[s])
    BY <1>2, <1>6, <2>1 DEF PostShows, Eval
  <2>6. stage' \in {"reposts", "resettle"} =>
          \A f \in LivePass(FALSE) \ Followers(s) : val[f] = Eval(def[f])
    BY <2>2, <2>5 DEF PostShows
  <2>7. ASSUME \/ stage' = "reposts" /\ s \notin todo'
               \/ stage' \in {"resettle", "rates", "frame"},
               post[s].src \notin Rates \cup {s} \cup Followers(s)
        PROVE  val[s] = Eval(post[s])
    <3>1. stage' # "reposts"
      BY <2>3, <2>7 DEF Alone
    <3> QED
      BY <2>1, <2>2, <2>7, <3>1 DEF PostShows
  <2> QED
    BY <2>6, <2>7
<1>8. CASE Passes
  <2>1. UNCHANGED <<anims, def, frozen, liveFields, post, stage>>
    BY <1>8, PassKeeps DEF program, linked
  <2> SUFFICES ASSUME NEW s \in Slots, Alone(s), stage \in {"reposts", "resettle", "rates", "frame"}
               PROVE  /\ stage \in {"reposts", "resettle"} =>
                           \A f \in LivePass(FALSE) \ Followers(s) : val'[f] = Eval(def[f])'
                      /\ /\ \/ stage = "reposts" /\ s \notin todo'
                            \/ stage \in {"resettle", "rates", "frame"}
                         /\ post[s].src \notin Rates \cup {s} \cup Followers(s)
                         => val'[s] = Eval(post[s])'
    BY <1>1, <1>2, <1>6, <2>1 DEF PostShows, Eval
  <2>2. post[s] # None /\ post[s] \in Expr
    BY <1>2 DEF Alone
  <2>3. \A f \in LivePass(FALSE) : def[f] \in Expr /\ f \in Slots /\ f \in liveFields \ frozen
    BY <1>2
  <2>5. ASSUME NEW q \in Slots, ApplyPost(q)
        PROVE  /\ stage \in {"reposts", "resettle"} =>
                    \A f \in LivePass(FALSE) \ Followers(s) : val'[f] = Eval(def[f])'
               /\ /\ \/ stage = "reposts" /\ s \notin todo'
                     \/ stage \in {"resettle", "rates", "frame"}
                  /\ post[s].src \notin Rates \cup {s} \cup Followers(s)
                  => val'[s] = Eval(post[s])'
    <3>1. /\ stage = "reposts" /\ q = s
          /\ val' = [val EXCEPT ![s] = Eval(post[s])]
      BY <2>5 DEF ApplyPost, FramesInv, IInv, WorkIsReady, Alone
    <3>2. ASSUME NEW f \in LivePass(FALSE) \ Followers(s)
          PROVE  val'[f] = Eval(def[f])'
      <4>1. f # s /\ def[f].src # s
        BY <1>5, <2>2, <2>3, FollowersClosed
      <4>2. val[f] = Eval(def[f])
        BY <3>1 DEF PostShows
      <4>3. Eval(def[f])' = Eval(def[f])
        BY <1>2, <2>1, <2>3, <3>1, <4>1 DEF Eval, Expr
      <4> QED
        BY <1>2, <2>3, <3>1, <4>1, <4>2, <4>3
    <3>3. ASSUME post[s].src # s
          PROVE  val'[s] = Eval(post[s])'
      <4>1. Eval(post[s])' = Eval(post[s])
        BY <1>2, <2>1, <2>2, <3>1, <3>3 DEF Eval, Expr
      <4> QED
        BY <1>2, <3>1, <4>1
    <3> QED
      BY <3>2, <3>3
  <2>6. ASSUME NEW g \in Fields, EvalLive(g)
        PROVE  /\ stage \in {"reposts", "resettle"} =>
                    \A f \in LivePass(FALSE) \ Followers(s) : val'[f] = Eval(def[f])'
               /\ /\ \/ stage = "reposts" /\ s \notin todo'
                     \/ stage \in {"resettle", "rates", "frame"}
                  /\ post[s].src \notin Rates \cup {s} \cup Followers(s)
                  => val'[s] = Eval(post[s])'
    <3>1. /\ stage = "resettle" /\ g \in LivePass(FALSE) /\ def[g].src # g
          /\ val' = [val EXCEPT ![g] = Eval(def[g])]
      BY <2>6 DEF EvalLive, FramesInv, LiveStands
    <3>2. g \notin Followers(s) => val' = val
      <4>1. g \notin Followers(s) => val[g] = Eval(def[g])
        BY <3>1 DEF PostShows
      <4> QED
        BY <1>2, <3>1, <4>1
    <3>3. ASSUME NEW f \in LivePass(FALSE) \ Followers(s)
          PROVE  val'[f] = Eval(def[f])'
      <4>1. CASE g \notin Followers(s)
        <5>1. val' = val /\ val[f] = Eval(def[f])
          BY <3>1, <3>2, <4>1 DEF PostShows
        <5> QED
          BY <2>1, <5>1 DEF Eval
      <4>2. CASE g \in Followers(s)
        <5>1. f # g /\ def[f].src # g
          BY <2>3, <3>3, <4>2, FollowersClosed
        <5>2. val[f] = Eval(def[f])
          BY <3>1 DEF PostShows
        <5>3. Eval(def[f])' = Eval(def[f])
          BY <1>2, <2>1, <2>3, <3>1, <5>1 DEF Eval, Expr
        <5> QED
          BY <1>2, <2>3, <3>1, <5>1, <5>2, <5>3
      <4> QED
        BY <4>1, <4>2
    <3>4. ASSUME post[s].src \notin Rates \cup {s} \cup Followers(s)
          PROVE  val'[s] = Eval(post[s])'
      <4>1. val[s] = Eval(post[s])
        BY <3>1, <3>4 DEF PostShows
      <4>2. s # g
        BY <1>5, <2>2, <3>1
      <4>3. CASE post[s].src = g
        BY <2>1, <3>2, <3>4, <4>1, <4>3 DEF Eval
      <4>4. CASE post[s].src # g
        <5>1. Eval(post[s])' = Eval(post[s])
          BY <1>2, <2>1, <2>2, <3>1, <4>4 DEF Eval, Expr
        <5> QED
          BY <1>2, <3>1, <4>1, <4>2, <5>1
      <4> QED
        BY <4>3, <4>4
    <3> QED
      BY <3>3, <3>4
  <2>7. ASSUME NEW g \in Fields, Integrate(g)
        PROVE  /\ stage \notin {"reposts", "resettle"}
               /\ post[s].src \notin Rates \cup {s} \cup Followers(s) /\ stage = "rates"
                  => val'[s] = Eval(post[s])'
    <3>1. /\ stage = "rates" /\ g \in Rates /\ g # s
          /\ val' = [val EXCEPT ![g] = @ + FrameStep * Eval(def[g])]
      <4>1. stage = "rates" /\ g \in Rates
        BY <2>7 DEF Integrate, FramesInv, IInv, TypeOK
      <4> QED
        BY <1>5, <2>2, <2>7, <4>1 DEF Integrate, Running
    <3>2. ASSUME post[s].src \notin Rates \cup {s} \cup Followers(s)
          PROVE  val'[s] = Eval(post[s])'
      <4>1. val[s] = Eval(post[s])
        BY <3>1, <3>2 DEF PostShows
      <4>2. Eval(post[s])' = Eval(post[s])
        BY <1>2, <2>1, <2>2, <3>1, <3>2 DEF Eval, Expr
      <4> QED
        BY <1>2, <3>1, <4>1, <4>2
    <3> QED
      BY <3>1, <3>2
  <2>8. ASSUME NEW i \in DOMAIN anims, Relive(i)
        PROVE  FALSE
    BY <2>8 DEF Relive, Turn
  <2>9. CASE \E g \in Fields : Integrate(g)
    <3>1. stage = "rates"
      BY <2>9 DEF Integrate
    <3> QED
      BY <2>7, <2>9, <3>1
  <2> QED
    BY <1>8, <2>5, <2>6, <2>8, <2>9 DEF Passes
<1>9. CASE UNCHANGED vars
  <2>1. UNCHANGED <<anims, def, frozen, liveFields, post, val, stage, todo>>
    BY <1>9 DEF vars
  <2> QED
    BY <1>2, <1>6, <2>1 DEF PostShows, Eval
<1> QED
  BY <1>3, <1>4, <1>7, <1>8, <1>9, StepKinds

(***************************************************************************)
(* Morphs.                                                                 *)
(***************************************************************************)
LEMMA MorphMovesNext ==
  ASSUME FramesInv, FramesInv', OwnerHolds, MorphMoves, [Next]_vars
  PROVE  MorphMoves'
<1> USE DEF StepStages
<1>1. CASE stage' \in Waiting
  <2>1. \A i \in DOMAIN anims' : ~Begun(i)'
    BY <1>1 DEF FramesInv, RowsOnTime
  <2> QED
    BY <2>1 DEF MorphMoves, Owns
<1>2. val \in [Slots -> Int] /\ Fields \subseteq Slots
  BY DEF FramesInv, IInv, TypeOK, Slots
\* The opacities of a morph are two fields.
<1>3. ASSUME NEW i \in DOMAIN anims, anims[i].kind = "morph"
      PROVE  /\ anims[i].ref \in Fields /\ Opacity[anims[i].dst] \in Fields
             /\ anims[i].ref # Opacity[anims[i].dst]
  <2>1. /\ anims[i].ent \in Entities /\ anims[i].dst \in Entities
        /\ anims[i].ent # anims[i].dst /\ anims[i].ref = Opacity[anims[i].ent]
    BY <1>3 DEF FramesInv, IInv, RowsNameEntities, RowsStand
  <2>2. /\ Opacity \in [Entities -> Fields]
        /\ \A e, d \in Entities : Opacity[e] = Opacity[d] => e = d
    BY SceneAssumption
  <2> QED
    BY <2>1, <2>2
\* A step that leaves the rows alone only has to spare the slots of a morph
\* that owns them.
<1>4. ASSUME UNCHANGED <<anims, liveFields>>,
             \A i \in DOMAIN anims, src, dst \in Slots :
               /\ anims[i].kind = "morph" /\ anims[i].ref = src /\ Opacity[anims[i].dst] = dst
               /\ Owns(i, src) /\ Owns(i, dst)
               /\ ~SetSince(i, src)' /\ ~SetSince(i, dst)'
               /\ {src, dst} \cap (liveFields \cup Rates) = {} /\ post'[dst] = None
               => /\ ~SetSince(i, src) /\ ~SetSince(i, dst) /\ post[dst] = None
                  /\ val'[src] = val[src] /\ val'[dst] = val[dst]
      PROVE  MorphMoves'
  <2>1. \A i \in DOMAIN anims : \A s : Owns(i, s)' <=> Owns(i, s)
    BY <1>4 DEF Owns, Begun, Writes, Before
  <2>2. \A i \in DOMAIN anims : MorphsOutline(anims[i])' <=> MorphsOutline(anims[i])
    BY <1>4 DEF MorphsOutline
  <2> QED
    BY <1>4, <2>1, <2>2 DEF MorphMoves, MorphsOutline
<1>5. CASE Score \/ Compiles \/ Link
  <2>1. stage' \in Waiting
    BY <1>5, ScoreStep DEF Compiles, CloseScore, Resolve, CycleError, InitField, Link,
       Waiting, FramesInv
  <2> QED
    BY <1>1, <2>1
<1>6. CASE NextFrame \/ LastFrame \/ NextStage \/ UNCHANGED vars
  <2>1. UNCHANGED <<anims, liveFields, val, post, events>>
    BY <1>6 DEF NextFrame, LastFrame, NextStage, program, linked, vars
  <2>2. \A i \in DOMAIN anims : \A s : SetSince(i, s)' <=> SetSince(i, s)
    BY <2>1 DEF SetSince
  <2> QED
    BY <1>4, <2>1, <2>2
<1>7. CASE Passes
  <2>1. UNCHANGED <<anims, liveFields, post, events>>
    BY <1>7, PassKeeps DEF program, linked
  <2>2. \A i \in DOMAIN anims : \A s : SetSince(i, s)' <=> SetSince(i, s)
    BY <2>1 DEF SetSince
  <2> SUFFICES ASSUME NEW i \in DOMAIN anims, NEW src \in Slots, NEW dst \in Slots,
                      anims[i].kind = "morph", anims[i].ref = src, Opacity[anims[i].dst] = dst,
                      Owns(i, src), ~SetSince(i, src),
                      {src, dst} \cap (liveFields \cup Rates) = {}, post[dst] = None
               PROVE  val'[src] = val[src] /\ val'[dst] = val[dst]
    BY <1>4, <2>1, <2>2
  <2>3. ASSUME NEW q \in Slots, ApplyPost(q)
        PROVE  val'[src] = val[src] /\ val'[dst] = val[dst]
    <3>1. post[src] = None
      BY DEF OwnerHolds
    <3>2. post[q] # None
      BY <2>3 DEF ApplyPost, FramesInv, IInv, WorkIsReady
    <3> QED
      BY <1>2, <2>3, <3>1, <3>2 DEF ApplyPost
  <2>4. ASSUME NEW f \in Fields, EvalLive(f) \/ Integrate(f)
        PROVE  val'[src] = val[src] /\ val'[dst] = val[dst]
    <3>1. f \in liveFields \cup Rates
      BY <2>4 DEF EvalLive, Integrate, FramesInv, LiveStands, LivePass, IInv, TypeOK
    <3> QED
      BY <1>2, <2>4, <3>1 DEF EvalLive, Integrate
  <2>5. ASSUME NEW k \in DOMAIN anims, Relive(k)
        PROVE  UNCHANGED val
    BY <2>5 DEF Relive
  <2> QED
    BY <1>7, <2>3, <2>4, <2>5 DEF Passes
<1>8. ASSUME NEW e \in DOMAIN events, FireEvent(e)
      PROVE  MorphMoves'
  <2>1. CASE stage = "top"
    BY <1>1, <1>8, <2>1 DEF FireEvent, Waiting
  <2>2. CASE stage # "top"
    <3>1. UNCHANGED <<anims, liveFields>>
      BY <1>8 DEF FireEvent, linked
    <3>2. ASSUME NEW i \in DOMAIN anims, anims[i].kind = "morph", Begun(i),
                 NEW s \in Slots, s \in Fields, ~SetSince(i, s)'
          PROVE  ~SetSince(i, s) /\ val'[s] = val[s] /\ post'[s] = post[s]
      BY <1>8, <2>2, <3>2, EventSpares
    <3> QED
      BY <1>3, <1>4, <3>1, <3>2 DEF Owns
  <2> QED
    BY <2>1, <2>2
<1>9. ASSUME NEW k \in DOMAIN anims, TurnStep(k)
      PROVE  MorphMoves'
  <2>1. /\ SameRows /\ UNCHANGED linked
        /\ \A j \in DOMAIN anims : j # k => anims'[j] = anims[j]
        /\ anims'[k].status = IF Closing(anims[k]) THEN "done" ELSE "started"
    BY <1>9, TurnRow DEF FramesInv
  <2>2. \A i \in DOMAIN anims : \A s : SetSince(i, s)' <=> SetSince(i, s)
    BY <1>9, TurnSetsNothing
  <2>3. \A i \in DOMAIN anims : MorphsOutline(anims'[i]) <=> MorphsOutline(anims[i])
    BY <2>1 DEF SameRows, MorphsOutline
  <2> SUFFICES ASSUME NEW i \in DOMAIN anims, NEW src \in Slots, NEW dst \in Slots,
                      anims[i].kind = "morph", anims[i].ref = src, Opacity[anims[i].dst] = dst,
                      Owns(i, src)', Owns(i, dst)', ~SetSince(i, src), ~SetSince(i, dst),
                      {src, dst} \cap (liveFields \cup Rates) = {}, post'[dst] = None
               PROVE  IF anims'[i].status = "done" THEN val'[src] = Hidden /\ val'[dst] = Full
                      ELSE MorphsOutline(anims[i]) => val'[dst] = Hidden
    BY <2>1, <2>2, <2>3 DEF MorphMoves, SameRows, linked, MorphsOutline
  <2>4. CASE i = k
    <3> DEFINE a == anims[k]
               Fade(x, y) == IF MorphsOutline(a) /\ ~Closing(a) THEN x ELSE Lerp(x, y, a)
    <3>1. val' = [val EXCEPT ![src] = Fade(StartFrom(a), Hidden), ![dst] = Fade(DstFrom(a), Full)]
      BY <1>9, <2>4 DEF TurnStep, RunTween, RunEntrance, RunExit, RunMorph
    <3>2. src # dst
      BY <1>3
    <3>3. val'[src] = Fade(StartFrom(a), Hidden) /\ val'[dst] = Fade(DstFrom(a), Full)
      BY <1>2, <3>1, <3>2
    <3>4. Closing(a) => \A x, y : Fade(x, y) = y
      BY DEF Lerp, Closing
    <3>5. ~Closing(a) /\ MorphsOutline(a) => Fade(DstFrom(a), Full) = Hidden
      <4>1. MorphsOutline(a) => DstFrom(a) = Hidden
        BY <2>4 DEF DstFrom, FramesInv, RowsStand, Begun, Fresh
      <4> QED
        BY <4>1
    <3> QED
      BY <2>1, <2>4, <3>3, <3>4, <3>5
  <2>5. CASE i # k
    <3>1. ~Writes(k, src) /\ ~Writes(k, dst) /\ Owns(i, src) /\ Owns(i, dst)
      BY <1>9, <2>5, OthersKeepOut
    <3>2. val'[src] = val[src] /\ val'[dst] = val[dst] /\ post[dst] = None
      BY <1>9, <3>1, TurnWrites DEF Writes, FramesInv
    <3> QED
      BY <2>1, <2>5, <3>1, <3>2 DEF MorphMoves
  <2> QED
    BY <2>4, <2>5
<1> QED
  BY <1>5, <1>6, <1>7, <1>8, <1>9, StepKinds

(***************************************************************************)
(* The theorems.                                                           *)
(***************************************************************************)
LEMMA OwnersInvInit == Init => OwnersInv
<1> SUFFICES ASSUME Init
             PROVE  OwnersInv
  OBVIOUS
<1>1. FramesInv
  BY FramesInvInit
<1>2. DOMAIN anims = {} /\ post = [s \in Slots |-> None]
  BY EmptySeq DEF Init
<1>3. PostShows
  BY <1>2 DEF PostShows, Alone
<1>4. OwnerHolds /\ OwnerMoves /\ MorphMoves
  BY <1>2 DEF OwnerHolds, OwnerMoves, MorphMoves
<1> QED
  BY <1>1, <1>3, <1>4 DEF OwnersInv

LEMMA OwnersInvNext == OwnersInv /\ [Next]_vars => OwnersInv'
<1> SUFFICES ASSUME OwnersInv, [Next]_vars
             PROVE  OwnersInv'
  OBVIOUS
<1>1. FramesInv /\ FramesInv'
  BY FramesInvNext DEF OwnersInv
<1> QED
  BY <1>1, PostShowsNext, OwnerHoldsNext, OwnerMovesNext, MorphMovesNext DEF OwnersInv

LEMMA OwnersInductive == Spec => []OwnersInv
BY OwnersInvInit, OwnersInvNext, PTL DEF Spec

\* In every frame the row that owns a slot is what the slot shows: a point of
\* its curve while its goal is a literal, and its goal once its window is over,
\* followed from then on when it reads another slot.
THEOREM OwnersShow == Spec => []OwnerShows
<1>1. ASSUME OwnersInv
      PROVE  OwnerShows
  <2> SUFFICES ASSUME stage = "frame", NEW i \in DOMAIN anims, NEW s, s = anims[i].ref,
                      anims[i].kind # "morph", Owns(i, s), ~SetSince(i, s),
                      \/ anims[i].goal.src = None
                      \/ /\ anims[i].status = "done"
                         /\ anims[i].goal.src \notin Rates \cup {s} \cup Followers(s)
                         /\ \A q \in Slots \ {s} : post[q] = None,
                      s \notin live \/ anims[i].status = "done"
               PROVE  val[s] = Lerp(anims[i].from, Eval(anims[i].goal), anims[i])
    BY DEF OwnerShows
  <2>1. /\ FramesInv /\ IInv /\ TypeOK /\ s \in Slots /\ anims[i].goal \in Expr
        /\ anims[i].t1 \in Nat /\ now \in Nat
    BY <1>1, Shapes DEF OwnersInv, FramesInv, IInv, TypeOK
  <2>2. \A k \in DOMAIN anims : Turned(k)
    BY DEF Turned
  <2>3. CASE anims[i].goal.src = None
    <3>1. NoneDue(s)
      <4>1. \A k \in DOMAIN anims : ~Begun(k) => ~(anims[k].t0 <= now)
        BY <2>1, <2>2 DEF FramesInv, RowsOnTime
      <4>2. \A k \in DOMAIN anims : anims[k].t0 \in Nat
        BY <2>1, Shapes
      <4> QED
        BY <2>1, <4>1, <4>2 DEF NoneDue
    <3> QED
      BY <1>1, <2>1, <2>2, <2>3, <3>1 DEF OwnersInv, OwnerMoves
  <2>4. CASE anims[i].goal.src # None
    <3>1. post[s] = anims[i].goal
      BY <1>1, <2>1, <2>4 DEF OwnersInv, OwnerHolds
    <3>2. Alone(s)
      BY <2>1, <2>4, <3>1, SceneAssumption DEF Alone
    <3>3. val[s] = Eval(anims[i].goal)
      BY <1>1, <2>1, <2>4, <3>1, <3>2 DEF OwnersInv, PostShows
    <3>4. now >= anims[i].t1
      BY <2>1, <2>4 DEF FramesInv, RowsOnTime
    <3> QED
      BY <3>3, <3>4 DEF Lerp
  <2> QED
    BY <2>3, <2>4
<1> QED
  BY <1>1, OwnersInductive, PTL

\* In every frame a morph that owns both opacities draws an outline morph's
\* destination hidden until its window is over, and has handed over after it.
THEOREM MorphsHandOver == Spec => []MorphHandsOver
<1>1. ASSUME OwnersInv
      PROVE  MorphHandsOver
  <2>1. \A i \in DOMAIN anims : anims[i].kind = "morph" =>
          anims[i].ref \in Slots /\ Opacity[anims[i].dst] \in Slots
    BY <1>1, Shapes, SceneAssumption DEF OwnersInv, FramesInv, IInv, RowsNameEntities, Slots
  <2> QED
    BY <1>1, <2>1 DEF OwnersInv, MorphMoves, MorphHandsOver, MorphsOutline
<1> QED
  BY <1>1, OwnersInductive, PTL
=============================================================================
