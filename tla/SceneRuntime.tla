---------------------------- MODULE SceneRuntime ----------------------------
(***************************************************************************)
(* The scene runtime of internal/pdtt: Compile walks the score with a time *)
(* cursor and turns rows into animations and events; Step then advances    *)
(* the compiled scene one frame at a time through a fixed order of phases  *)
(* (events, held assignments, live fields, animations, live fields, held   *)
(* assignments, live fields, rate integration).                            *)
(*                                                                         *)
(* A scene is not given: the score phase writes every scene within the     *)
(* bounds, one statement or row at a time, so a run covers all of them.    *)
(* Values are integers, an expression is "source slot + offset", and time  *)
(* is counted in ticks; FrameStep ticks separate two frames.               *)
(***************************************************************************)
EXTENDS Integers, Sequences

CONSTANTS
  Entities,      \* the records of the scene
  Fields,        \* their fields (one slot each)
  Globals,       \* names bound by captures (name = expr)
  None,          \* no expression, no slot, no entity
  Opacity,       \* the opacity field of each entity
  Preset,        \* the fields an entrance or exit of the entity animates
  Outlinable,    \* the pairs <source, destination> with outlines on both sides
  Rates,         \* the fields declared with "rate"
  Default,       \* the value a field has before it is initialised
  Declarations,  \* the declarations a scene may start from
  Goals,         \* the right-hand sides rows and statements may use
  Kinds,         \* the row and statement kinds the score may use
  Windows,       \* the row windows, in ticks from the start of the block
  MaxRows,       \* bound: animations and events of one scene
  MaxTime,       \* bound: total length of the score in ticks
  FrameStep      \* ticks between two frames

Slots == Fields \cup Globals
Expr == [src : Slots \cup {None}, off : Int]
Hidden == 0
Full == 16
Const(v) == [src |-> None, off |-> v]

ASSUME SceneAssumption ==
  /\ None \notin Slots /\ None \notin Entities /\ None \notin Expr
  /\ Fields \cap Globals = {}
  /\ Opacity \in [Entities -> Fields]
  /\ \A e, d \in Entities : Opacity[e] = Opacity[d] => e = d
  /\ Preset \in [Entities -> Seq(Fields)]
  /\ Rates \subseteq Fields
  /\ Default \in [Fields -> Int]
  /\ Declarations \subseteq [Fields -> Expr \cup {None}]
  /\ Goals \subseteq Expr
  /\ Windows \subseteq Nat \X Nat
  /\ MaxRows \in Nat /\ MaxTime \in Nat /\ FrameStep \in Nat \ {0}

VARIABLES
  stage,      \* where Compile or Step is
  cursor,     \* the score's time cursor, its total once compiled
  block,      \* the start of the open block
  open,       \* rows may be added to the block
  anims,      \* rt.Anims, in declaration order
  events,     \* rt.Events
  def,        \* Field.Def
  val,        \* Field.Val and GVar.Val
  live,       \* the fields with Field.Live
  frozen,     \* the fields with Field.Frozen
  active,     \* the entities with Entity.Active
  post,       \* rt.post: the assignment a finished tween holds on a slot
  captured,   \* the names in rt.Globals
  liveFields, \* rt.liveFields
  liveDeps,   \* rt.liveDeps
  now,        \* rt.T
  todo,       \* what is left of the loop the stage runs
  lives,      \* what is left of the live-field pass under way
  dirty,      \* runtimeStep.liveDirty
  drawn       \* the values the previous frame was drawn with

program == <<cursor, block, open, anims, events, def, captured>>
linked == <<liveFields, liveDeps>>
vars == <<stage, cursor, block, open, anims, events, def, val, live, frozen,
          active, post, captured, liveFields, liveDeps, now, todo, lives,
          dirty, drawn>>

Anim == [kind : {"tween", "enter", "exit", "morph"}, ref : Slots,
         ent : Entities \cup {None}, dst : Entities \cup {None}, goal : Expr,
         t0 : Nat, t1 : Nat, status : {"new", "started", "done"},
         from : Int, dstFrom : Int]

Event == [kind : {"set", "capture"}, slot : Slots, rhs : Expr, t : Nat,
          done : BOOLEAN]

StepStages == {"events", "posts", "live", "anims", "settle", "reposts",
               "resettle", "rates"}
\* Mutant: no live pass follows the second application of held assignments.
AfterUnsettled ==
  [events |-> "posts", posts |-> "live", live |-> "anims", anims |-> "settle",
   settle |-> "reposts", reposts |-> "rates", resettle |-> "rates",
   rates |-> "frame"]
After == [events |-> "posts", posts |-> "live", live |-> "anims",
          anims |-> "settle", settle |-> "reposts", reposts |-> "resettle",
          resettle |-> "rates", rates |-> "frame"]

TypeOK ==
  /\ stage \in {"score", "top", "init", "ready", "frame", "done", "error"}
                 \cup StepStages
  /\ cursor \in Nat /\ block \in Nat /\ open \in BOOLEAN /\ now \in Nat
  /\ anims \in Seq(Anim) /\ events \in Seq(Event)
  /\ \A i \in DOMAIN anims : anims[i].t0 <= anims[i].t1
  /\ def \in [Fields -> Expr \cup {None}]
  /\ val \in [Slots -> Int] /\ drawn \in [Slots -> Int]
  /\ post \in [Slots -> Expr \cup {None}]
  /\ live \subseteq Fields /\ frozen \subseteq Fields
  /\ liveFields \subseteq Fields /\ liveDeps \subseteq Slots
  /\ active \subseteq Entities /\ captured \subseteq Globals
  /\ lives \subseteq Fields /\ dirty \in BOOLEAN
  /\ stage \in {"top", "events"} => todo \subseteq DOMAIN events
  /\ stage = "anims" => todo \subseteq DOMAIN anims
  /\ stage \in {"posts", "reposts"} => todo \subseteq Slots
  /\ stage = "rates" => todo \subseteq Rates

(***************************************************************************)
(* Expressions, windows and the order of the loops.                        *)
(***************************************************************************)
Eval(e) == e.off + IF e.src = None THEN 0 ELSE val[e.src]

\* The value of a window's interpolation from x to y at the current time, under
\* the ease a row has when it names none ("smooth"): at the share u of the
\* window, u * u * (3 - 2 * u) of the way.
Lerp(x, y, a) ==
  LET n == now - a.t0
      d == a.t1 - a.t0
  IN  IF now >= a.t1 THEN y
      ELSE x + ((y - x) * n * n * (3 * d - 2 * n)) \div (d * d * d)

Closing(a) == now >= a.t1

\* Anims are sorted stably by T0; events are appended in time order.
Before(i, j) ==
  \/ anims[i].t0 < anims[j].t0
  \/ anims[i].t0 = anims[j].t0 /\ i <= j

HasWriter(s) == \E i \in DOMAIN anims : anims[i].ref = s
HasActiveWriter(s) ==
  \E i \in DOMAIN anims :
    anims[i].ref = s /\ anims[i].t0 <= now /\ now <= anims[i].t1

PresetFields(e) == {Preset[e][k] : k \in DOMAIN Preset[e]}

(***************************************************************************)
(* The score.                                                              *)
(***************************************************************************)
Init ==
  /\ stage = "score" /\ cursor = 0 /\ block = 0 /\ open = FALSE /\ now = 0
  /\ anims = <<>> /\ events = <<>>
  /\ def \in Declarations
  /\ val = [s \in Slots |-> IF s \in Fields THEN Default[s] ELSE 0]
  /\ drawn = val
  /\ post = [s \in Slots |-> None]
  /\ live = {} /\ frozen = {} /\ active = {} /\ captured = {}
  /\ liveFields = {} /\ liveDeps = {} /\ todo = {} /\ lives = {}
  /\ dirty = FALSE

Room == Len(anims) + Len(events) < MaxRows
Known(s) == s \in Globals => s \in captured

Idle == UNCHANGED <<linked, now, todo, lives, dirty, drawn>>

Block(d) ==
  /\ stage = "score" /\ cursor + d <= MaxTime
  /\ block' = cursor /\ cursor' = cursor + d /\ open' = TRUE
  /\ UNCHANGED <<stage, anims, events, def, val, live, frozen, active, post,
                 captured>>
  /\ Idle

Row(kind) == stage = "score" /\ open /\ kind \in Kinds /\ Room

\* The windows of the open block: the whole of it, or one of the row's own,
\* which may reach past the block and is cut to an instant when it ends before
\* it begins.
ClampNothing(w) == w \* mutant: the window is taken as it is written
Clamp(w) == IF w[2] <= w[1] THEN <<w[1], w[1]>> ELSE w
RowWindows == {<<0, cursor - block>>} \cup {Clamp(w) : w \in Windows}

NewAnim(kind, ref, ent, dst, goal, w) ==
  [kind |-> kind, ref |-> ref, ent |-> ent, dst |-> dst, goal |-> goal,
   t0 |-> block + w[1], t1 |-> block + w[2], status |-> "new", from |-> 0,
   dstFrom |-> 0]

Arrow(s, g, w) ==
  /\ Row("tween") /\ Known(s) /\ Known(g.src)
  /\ anims' = Append(anims, NewAnim("tween", s, None, None, g, w))
  /\ UNCHANGED <<stage, cursor, block, open, events, def, val, live, frozen,
                 active, post, captured>>
  /\ Idle

\* The goal of an entrance is what the field is declared as when the row is
\* expanded; the field is hidden and frozen from then on.
Entrance(e, w) ==
  LET Declared(f) == IF def[f] = None THEN Const(val[f]) ELSE def[f]
  IN  /\ Row("enter")
      /\ anims' = anims \o [k \in DOMAIN Preset[e] |->
                    NewAnim("enter", Preset[e][k], e, None,
                            Declared(Preset[e][k]), w)]
      /\ val' = [s \in Slots |-> IF s \in PresetFields(e) THEN Hidden
                                                          ELSE val[s]]
      /\ def' = [f \in Fields |-> IF f \in PresetFields(e) THEN None
                                                           ELSE def[f]]
      /\ frozen' = frozen \cup PresetFields(e)
      /\ live' = live \ PresetFields(e)
      /\ UNCHANGED <<stage, cursor, block, open, events, active, post, captured>>
      /\ Idle

Exit(e, w) ==
  /\ Row("exit")
  /\ anims' = anims \o [k \in DOMAIN Preset[e] |->
                NewAnim("exit", Preset[e][k], e, None, Const(Hidden), w)]
  /\ UNCHANGED <<stage, cursor, block, open, events, def, val, live, frozen,
                 active, post, captured>>
  /\ Idle

Morph(e, d, w) ==
  /\ Row("morph") /\ e # d
  /\ anims' = Append(anims, NewAnim("morph", Opacity[e], e, d, Const(Hidden), w))
  /\ UNCHANGED <<stage, cursor, block, open, events, def, val, live, frozen,
                 active, post, captured>>
  /\ Idle

NewEvent(kind, s, g) ==
  [kind |-> kind, slot |-> s, rhs |-> g, t |-> cursor, done |-> FALSE]

SetStmt(f, g) ==
  /\ stage = "score" /\ "set" \in Kinds /\ Room /\ Known(g.src)
  /\ events' = Append(events, NewEvent("set", f, g))
  /\ open' = FALSE
  /\ UNCHANGED <<stage, cursor, block, anims, def, val, live, frozen, active,
                 post, captured>>
  /\ Idle

\* A second capture of the same name is a compile error.
CaptureStmt(s, g) ==
  /\ stage = "score" /\ "capture" \in Kinds /\ Room
  /\ s \notin captured /\ Known(g.src)
  /\ events' = Append(events, NewEvent("capture", s, g))
  /\ captured' = captured \cup {s}
  /\ val' = [val EXCEPT ![s] = Eval(g)]
  /\ open' = FALSE
  /\ UNCHANGED <<stage, cursor, block, anims, def, live, frozen, active, post>>
  /\ Idle

(***************************************************************************)
(* The end of Compile: the events of time 0 run first, then the fields are *)
(* initialised along their dependencies, then the live ones are found.     *)
(***************************************************************************)
CloseScore ==
  /\ stage = "score"
  /\ stage' = "top"
  /\ todo' = {e \in DOMAIN events : events[e].t = 0}
  /\ UNCHANGED <<program, linked, val, live, frozen, active, post, now, lives,
                 dirty, drawn>>

\* One event: Events is walked in order and each is run once.
FireEvent(e) ==
  /\ stage \in {"top", "events"}
  /\ e \in todo /\ \A o \in todo : e <= o
  /\ todo' = todo \ {e}
  /\ events' = [events EXCEPT ![e].done = TRUE]
  /\ val' = [val EXCEPT ![events[e].slot] = Eval(events[e].rhs)]
  /\ IF events[e].kind = "set"
     THEN /\ frozen' = frozen \cup ({events[e].slot} \cap Fields)
          /\ post' = [post EXCEPT ![events[e].slot] = None]
     ELSE UNCHANGED <<frozen, post>>
  /\ UNCHANGED <<stage, cursor, block, open, anims, def, live, active, captured,
                 linked, now, lives, dirty, drawn>>

Unresolved == {f \in Fields : def[f] # None /\ f \notin frozen}

Resolve ==
  /\ stage = "top" /\ todo = {}
  /\ stage' = "init" /\ lives' = Unresolved
  /\ UNCHANGED <<program, linked, val, live, frozen, active, post, now, todo,
                 dirty, drawn>>

InitField(f) ==
  /\ stage = "init" /\ f \in lives /\ def[f].src \notin lives
  /\ lives' = lives \ {f}
  /\ val' = [val EXCEPT ![f] = IF f \in Rates THEN Default[f] ELSE Eval(def[f])]
  /\ UNCHANGED <<stage, program, linked, live, frozen, active, post, now, todo,
                 dirty, drawn>>

CycleError ==
  /\ stage = "init" /\ lives # {}
  /\ \A f \in lives : def[f].src \in lives
  /\ stage' = "error"
  /\ UNCHANGED <<program, linked, val, live, frozen, active, post, now, todo,
                 lives, dirty, drawn>>

\* markLiveFields: the least set of candidate fields closed under "depends on
\* a written slot, on a rate field, or on a live field".
Candidates == Unresolved \ Rates
LiveSet ==
  LET Root(s) == s # None /\ (HasWriter(s) \/ s \in Rates)
      Closed(L) == \A f \in Candidates :
                     Root(def[f].src) \/ def[f].src \in L => f \in L
  IN  {f \in Candidates : \A L \in SUBSET Candidates : Closed(L) => f \in L}

Link ==
  /\ stage = "init" /\ lives = {}
  /\ IF \E i \in DOMAIN anims : anims[i].ref \in Rates
     THEN stage' = "error" /\ UNCHANGED <<live, linked>>
     ELSE /\ stage' = "ready"
          /\ live' = LiveSet
          /\ liveFields' = LiveSet
          /\ liveDeps' = LiveSet \cup ({def[f].src : f \in LiveSet} \ {None})
  /\ UNCHANGED <<program, val, frozen, active, post, now, todo, lives, dirty,
                 drawn>>

(***************************************************************************)
(* One frame.                                                              *)
(***************************************************************************)
FrameTime == IF stage = "ready" THEN 0 ELSE now + FrameStep
FramesLeftButOne == FrameTime < cursor \* mutant: FrameCount without its + 1
FramesLeft == FrameTime <= cursor

Overdue(t) == {e \in DOMAIN events : events[e].t <= t} \* mutant: done is ignored
Due(t) == {e \in DOMAIN events : ~events[e].done /\ events[e].t <= t}

NextFrame ==
  /\ stage \in {"ready", "frame"}
  /\ FramesLeft
  /\ now' = FrameTime
  /\ stage' = "events"
  /\ todo' = Due(FrameTime)
  /\ drawn' = val
  /\ dirty' = FALSE
  /\ UNCHANGED <<program, linked, val, live, frozen, active, post, lives>>

LastFrame ==
  /\ stage \in {"ready", "frame"}
  /\ ~FramesLeft
  /\ stage' = "done"
  /\ UNCHANGED <<program, linked, val, live, frozen, active, post, now, todo,
                 lives, dirty, drawn>>

\* The fields a pass of evalLiveFields evaluates.
LivePass(allowActiveWritten) ==
  {f \in liveFields \ frozen :
     ~HasWriter(f) \/ (allowActiveWritten /\ HasActiveWriter(f))}

\* Mutant: rates are integrated in the first frame too.
WorkFromTheStart(s) ==
  CASE s \in {"posts", "reposts"} -> {k \in Slots : post[k] # None}
    [] s = "anims" -> {i \in DOMAIN anims :
                         anims[i].status # "done" /\ anims[i].t0 <= now}
    [] s = "rates" -> {f \in Rates : def[f] # None}
    [] OTHER -> {}
Work(s) ==
  CASE s \in {"posts", "reposts"} -> {k \in Slots : post[k] # None}
    [] s = "anims" -> {i \in DOMAIN anims :
                         anims[i].status # "done" /\ anims[i].t0 <= now}
    [] s = "rates" -> IF now = 0 THEN {} ELSE {f \in Rates : def[f] # None}
    [] OTHER -> {}

NextStage ==
  /\ stage \in StepStages /\ todo = {} /\ lives = {}
  /\ stage' = After[stage]
  /\ todo' = Work(stage')
  /\ lives' = IF stage' = "live" THEN LivePass(TRUE)
              ELSE IF stage' \in {"settle", "resettle"} THEN LivePass(FALSE)
              ELSE {}
  /\ UNCHANGED <<program, linked, val, live, frozen, active, post, now, dirty,
                 drawn>>

\* rt.post is a map: its entries are applied in any order.
ApplyPost(s) ==
  /\ stage \in {"posts", "reposts"} /\ s \in todo
  /\ todo' = todo \ {s}
  /\ val' = [val EXCEPT ![s] = Eval(post[s])]
  /\ UNCHANGED <<stage, program, linked, live, frozen, active, post, now, lives,
                 dirty, drawn>>

\* Live fields are evaluated in dependency order.
EvalLive(f) ==
  /\ stage \in StepStages /\ f \in lives /\ def[f].src \notin lives
  /\ f = CHOOSE g \in lives : def[g].src \notin lives
  /\ lives' = lives \ {f}
  /\ val' = [val EXCEPT ![f] = Eval(def[f])]
  /\ UNCHANGED <<stage, program, linked, live, frozen, active, post, now, todo,
                 dirty, drawn>>

NeedsLiveInput(a) == a.kind # "morph" /\ a.goal.src \in liveDeps

Turn(i) == /\ stage = "anims" /\ lives = {}
           /\ i \in todo /\ \A j \in todo : Before(i, j)

Relive(i) ==
  /\ Turn(i) /\ dirty /\ NeedsLiveInput(anims[i])
  /\ lives' = LivePass(FALSE) /\ dirty' = FALSE
  /\ UNCHANGED <<stage, program, linked, val, live, frozen, active, post, now,
                 todo, drawn>>

\* What every animation does when its turn comes: its status, the value it
\* starts from, and the refresh of live fields it makes due.
Drive(i, from, dstFrom) ==
  /\ Turn(i) /\ ~(dirty /\ NeedsLiveInput(anims[i]))
  /\ todo' = todo \ {i}
  /\ dirty' = (dirty \/ anims[i].ref \in liveDeps)
  /\ anims' = [anims EXCEPT
                 ![i].status = IF Closing(anims[i]) THEN "done" ELSE "started",
                 ![i].from = from, ![i].dstFrom = dstFrom]
  /\ UNCHANGED <<stage, cursor, block, open, events, captured, linked, now,
                 lives, drawn>>

Fresh(a) == a.status = "new"
StartFrom(a) == IF Fresh(a) THEN val[a.ref] ELSE a.from

\* tweenAnim.step; a tween of a live field starts from its current value.
Tweened(a, liveNow) ==
  LET from == IF a.ref \in liveNow THEN val[a.ref] ELSE StartFrom(a)
  IN  [val EXCEPT ![a.ref] = Lerp(from, Eval(a.goal), a)]

\* Starting clears the held assignment; finishing on a goal that reads other
\* slots leaves one.
\* Mutants: a new tween leaves the old assignment; one holds from its start.
HeldAlways(a) ==
  IF Closing(a) /\ a.goal.src # None THEN [post EXCEPT ![a.ref] = a.goal]
  ELSE post
HeldEarly(a) ==
  IF a.goal.src # None THEN [post EXCEPT ![a.ref] = a.goal]
  ELSE IF Fresh(a) THEN [post EXCEPT ![a.ref] = None]
  ELSE post
Held(a) ==
  IF Closing(a) /\ a.goal.src # None THEN [post EXCEPT ![a.ref] = a.goal]
  ELSE IF Fresh(a) THEN [post EXCEPT ![a.ref] = None]
  ELSE post

RunTween(i) ==
  LET a == anims[i]
  IN  /\ a.kind = "tween"
      /\ Drive(i, StartFrom(a), 0)
      /\ val' = Tweened(a, live)
      /\ post' = Held(a)
      /\ UNCHANGED <<def, live, frozen, active>>

RunEntrance(i) ==
  LET a == anims[i]
  IN  /\ a.kind = "enter"
      /\ Drive(i, StartFrom(a), 0)
      /\ val' = Tweened(a, live)
      /\ post' = Held(a)
      /\ active' = IF Fresh(a) THEN active \cup {a.ent} ELSE active
      /\ UNCHANGED <<def, live, frozen>>

\* Mutant: an exit activates its entity first, as a morph does its source.
ExitPresenceShown(a) ==
  IF Closing(a) THEN active \ {a.ent} ELSE active \cup {a.ent}
ExitPresence(a) == IF Closing(a) THEN active \ {a.ent} ELSE active

RunExit(i) ==
  LET a == anims[i]
      gone == IF Fresh(a) THEN {a.ref} \cap Fields ELSE {}
  IN  /\ a.kind = "exit"
      /\ Drive(i, StartFrom(a), 0)
      /\ def' = [f \in Fields |-> IF f \in gone THEN None ELSE def[f]]
      /\ live' = live \ gone
      /\ frozen' = frozen \cup gone
      /\ val' = Tweened(a, live')
      /\ post' = Held(a)
      /\ active' = ExitPresence(a)

\* morphAnim: the source keeps its opacity under an outline morph and fades
\* under a crossfade; the destination takes over when the window closes.
MorphsOutline(a) == <<a.ent, a.dst>> \in Outlinable

\* Mutant: the destination of an outline morph keeps the opacity it has.
DstFromCurrent(a) ==
  IF ~Fresh(a) THEN a.dstFrom
  ELSE IF a.dst \notin active THEN Hidden
  ELSE val[Opacity[a.dst]]
DstFrom(a) ==
  IF ~Fresh(a) THEN a.dstFrom
  ELSE IF MorphsOutline(a) \/ a.dst \notin active THEN Hidden
  ELSE val[Opacity[a.dst]]

\* Mutant: the source stays.
MorphPresenceBoth(a) ==
  IF Fresh(a) THEN active \cup {a.ent, a.dst} ELSE active
MorphPresence(a) ==
  LET shown == IF Fresh(a) THEN active \cup {a.ent, a.dst} ELSE active
  IN  IF Closing(a) THEN (shown \ {a.ent}) \cup {a.dst} ELSE shown

RunMorph(i) ==
  LET a == anims[i]
      src == a.ref
      dst == Opacity[a.dst]
      Fade(x, y) == IF MorphsOutline(a) /\ ~Closing(a) THEN x ELSE Lerp(x, y, a)
  IN  /\ a.kind = "morph"
      /\ Drive(i, StartFrom(a), DstFrom(a))
      /\ val' = [val EXCEPT ![src] = Fade(StartFrom(a), Hidden),
                            ![dst] = Fade(DstFrom(a), Full)]
      /\ post' = IF Fresh(a) THEN [post EXCEPT ![src] = None] ELSE post
      /\ active' = MorphPresence(a)
      /\ UNCHANGED <<def, live, frozen>>

Integrate(f) ==
  /\ stage = "rates" /\ f \in todo
  /\ todo' = todo \ {f}
  /\ val' = [val EXCEPT ![f] = @ + FrameStep * Eval(def[f])]
  /\ UNCHANGED <<stage, program, linked, live, frozen, active, post, now, lives,
                 dirty, drawn>>

Finished == stage \in {"done", "error"} /\ UNCHANGED vars

Score ==
  \/ \E d \in 1..MaxTime : Block(d)
  \/ \E s \in Slots, g \in Goals, w \in RowWindows : Arrow(s, g, w)
  \/ \E e \in Entities, w \in RowWindows : Entrance(e, w) \/ Exit(e, w)
  \/ \E e, d \in Entities, w \in RowWindows : Morph(e, d, w)
  \/ \E f \in Fields, g \in Goals : SetStmt(f, g)
  \/ \E s \in Globals, g \in Goals : CaptureStmt(s, g)

Compiled ==
  \/ CloseScore \/ Resolve \/ CycleError \/ Link
  \/ \E f \in Fields : InitField(f)

Step ==
  \/ NextFrame \/ NextStage \/ LastFrame
  \/ \E e \in DOMAIN events : FireEvent(e)
  \/ \E s \in Slots : ApplyPost(s)
  \/ \E f \in Fields : EvalLive(f) \/ Integrate(f)
  \/ \E i \in DOMAIN anims :
       Relive(i) \/ RunTween(i) \/ RunEntrance(i) \/ RunExit(i) \/ RunMorph(i)

Next == Score \/ Compiled \/ Step \/ Finished

Spec == Init /\ [][Next]_vars

(***************************************************************************)
(* Properties of the frames, read when Step returns (stage "frame").       *)
(***************************************************************************)
Writes(i, s) ==
  \/ anims[i].ref = s
  \/ anims[i].kind = "morph" /\ Opacity[anims[i].dst] = s

Begun(i) == anims[i].status # "new"

\* Animation i is the last to have begun on slot s, and no other animation's
\* window on s reaches into its own.
Owns(i, s) ==
  /\ Begun(i) /\ Writes(i, s)
  /\ \A j \in DOMAIN anims \ {i} :
       Writes(j, s) => \/ ~Begun(j)
                       \/ anims[j].t1 <= anims[i].t0 /\ Before(j, i)

SetSince(i, s) ==
  \E e \in DOMAIN events :
    /\ events[e].kind = "set" /\ events[e].slot = s /\ events[e].done
    /\ events[e].t > anims[i].t0

\* The live fields that follow s: those in every set of slots that has s and
\* every live field that reads one of its own.
Followers(s) ==
  LET Running == liveFields \ frozen
      Closed(L) == \A f \in Running : def[f].src \in L => f \in L
  IN  {f \in Running : \A L \in SUBSET Slots : s \in L /\ Closed(L) => f \in L}

\* A tween, entrance or exit that alone owns its slot is what the slot shows:
\* on its way, the point of the curve from the value it started at to its
\* literal goal; once its window is over, the goal, which it keeps following
\* when the goal reads another slot. No held assignment of an earlier tween,
\* live pass or event comes between, in whatever order the held assignments
\* are applied. Left out are the slots the code is known not to hold (a live
\* field on its way, a rate read as goal), a goal that comes back to the slot
\* through live fields, for which there may be no value to show, and goals two
\* assignments deep.
OwnerShows ==
  stage = "frame" =>
    \A i \in DOMAIN anims :
      LET a == anims[i]
          steady == \/ a.goal.src = None
                    \/ /\ a.status = "done"
                       /\ a.goal.src \notin Rates \cup {a.ref} \cup Followers(a.ref)
                       /\ \A s \in Slots \ {a.ref} : post[s] = None
      IN  /\ a.kind # "morph" /\ Owns(i, a.ref) /\ ~SetSince(i, a.ref) /\ steady
          /\ a.ref \notin live \/ a.status = "done"
          => val[a.ref] = Lerp(a.from, Eval(a.goal), a)

\* A live field no animation drives shows its expression in every frame, even
\* one a morph takes over: the values it reads were final when it was last
\* evaluated, however far down a chain of live fields the change came from. (A
\* rate is integrated after the last evaluation and is left out.)
LiveFollows ==
  stage = "frame" =>
    \A f \in liveFields \ frozen :
      ~HasWriter(f) /\ def[f].src \notin Rates => val[f] = Eval(def[f])

\* What the presence rows of e ask for: what the last of them to begin leaves
\* the entity as, when none reaches into the window of another.
Touches(i, e) ==
  /\ anims[i].kind \in {"enter", "exit", "morph"}
  /\ e \in {anims[i].ent, anims[i].dst}
PresenceRows(e) == {i \in DOMAIN anims : Touches(i, e) /\ Begun(i)}
SameWindow(i, j) ==
  /\ anims[i].kind = anims[j].kind
  /\ anims[i].t0 = anims[j].t0 /\ anims[i].t1 = anims[j].t1
Apart(e) ==
  \A i, j \in PresenceRows(e) :
    i = j \/ ~Before(i, j) \/ anims[i].t1 <= anims[j].t0 \/ SameWindow(i, j)
LastOf(i, e) == i \in PresenceRows(e) /\ \A j \in PresenceRows(e) : Before(j, i)
Shows(i, e) ==
  \/ anims[i].kind = "enter"
  \/ anims[i].kind = "morph" /\ (anims[i].dst = e \/ anims[i].status = "started")
Hides(i, e) ==
  /\ anims[i].status = "done"
  /\ anims[i].kind = "exit" \/ (anims[i].kind = "morph" /\ anims[i].ent = e)

\* An entity is present exactly when the score says so: absent until its first
\* entrance or morph begins, present from then on, absent again once an exit
\* or a morph away from it is over. Back-to-back rows, windows of length zero
\* and frames that skip a whole window do not confuse it.
PresenceFollowsScore ==
  stage = "frame" =>
    \A e \in Entities :
      Apart(e) => /\ PresenceRows(e) = {} => e \notin active
                  /\ \A i \in DOMAIN anims : LastOf(i, e) =>
                       /\ Shows(i, e) => e \in active
                       /\ Hides(i, e) => e \notin active

\* When nothing else writes the opacities of the two, a morph hands over
\* cleanly: an outline morph draws the destination at opacity zero until its
\* window is over, and afterwards the destination is at full opacity and the
\* source at zero. (That both are present meanwhile is PresenceFollowsScore's.)
MorphHandsOver ==
  stage = "frame" =>
    \A i \in DOMAIN anims :
      LET a == anims[i]
          src == a.ref
          dst == Opacity[a.dst]
      IN  /\ a.kind = "morph" /\ Owns(i, src) /\ Owns(i, dst)
          /\ ~SetSince(i, src) /\ ~SetSince(i, dst)
          /\ {src, dst} \cap (liveFields \cup Rates) = {} /\ post[dst] = None
          => IF a.status = "done" THEN val[src] = Hidden /\ val[dst] = Full
             ELSE <<a.ent, a.dst>> \in Outlinable => val[dst] = Hidden

\* The last frame is the last state of the score: when the frame grid meets
\* its end, every window that ends within the score is over and every event
\* has run.
LastFrameCloses ==
  stage = "done" /\ cursor % FrameStep = 0 =>
    /\ \A i \in DOMAIN anims :
         anims[i].t1 <= cursor => anims[i].status = "done"
    /\ \A e \in DOMAIN events : events[e].done

\* A rate declared as a literal has, in every frame, grown by that much for
\* every tick since time 0, whatever the frame step and whatever else runs: it
\* is integrated once a frame and over the whole of the frame. (An opacity may
\* be a rate; a morph into it is a second writer, see IntegratorWrites.)
RateIsIntegral ==
  stage = "frame" =>
    \A f \in Rates \ frozen :
      def[f] # None /\ def[f].src = None /\ (\A i \in DOMAIN anims : ~Writes(i, f))
      => val[f] = Default[f] + def[f].off * now

\* Once a capture's event has run at its time in the score, nothing but a row
\* that writes the name changes it again: not the slots it read, not a later
\* frame, not a live pass.
CaptureIsFrozen ==
  [][\A e \in DOMAIN events :
       events[e].kind = "capture" /\ events[e].done /\ ~HasWriter(events[e].slot)
       => val'[events[e].slot] = val[events[e].slot]]_vars

\* A held assignment was left by a finished animation of that slot.
HeldByFinished ==
  \A s \in Slots : post[s] # None =>
    \E i \in DOMAIN anims :
      anims[i].ref = s /\ anims[i].status = "done" /\ anims[i].goal = post[s]

\* An entity is only present once a row that brings it in has begun.
PresenceEarned ==
  \A e \in active : \E i \in DOMAIN anims :
    Begun(i) /\ Touches(i, e) /\ anims[i].kind # "exit"
=============================================================================
