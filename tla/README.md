# A verification of pdtt

pdtt renders scenes written in a small language into videos. A scene declares
records and their fields and moves them with a score of timed blocks; `pdtt`
renders a file on the command line and `pdttweb` serves a playground that
renders what is typed into it. This directory holds TLA+ models of the parts of
it where order matters, the TLC configurations that check them and TLAPS proofs.

    tlc -workers 2 -config MCSceneTweens.cfg MCSceneRuntime
    tlapm SceneRuntimeProofs.tla

## The system

| Part | Source | State it keeps | Operations | Correct when |
|---|---|---|---|---|
| Scene compiler and runtime | `internal/pdtt/compile.go`, `step.go`, `liveness.go`, `morph.go`, `model.go`, `refs.go` | fields, captures, animations, events, held assignments, presence | `Compile` expands the score; `Step` advances one frame | a slot shows what the score says of it in every frame, whatever else runs |
| Frame pipeline | `internal/pdtt/app.go`, `pkg/render/render.go` | draw buffer, job channel, PNG pool, ffmpeg stream, output directory | `Run`, `Render`, `WriteFrame`, `Close`, the PNG workers | no frame is lost silently; nothing writes after the run has returned; it ends |
| Render jobs | `internal/web/server.go` `handleRender`, `mp4.go`, `internal/jobs/store.go`, `cleaner.go` | a row, a video, a debug and a work directory per request | render, timeout, encode, settle, sweep | reply, row and files agree; nothing is deleted early, all of it in the end |
| Event stream, shutdown | `internal/web/events.go`, `cmd/pdttweb/main.go`, `Server.Close` | subscribers, shutdown stage | subscribe, publish, close, drain | no send on a closed channel; a shutdown ends |
| Generation | `internal/web/openrouter.go`, `internal/jobs/generation.go`, `handleGenerate` | generation log and its attempts | ask, extract, validate, ask again | each answer is logged under its attempt; a generation is settled |
| Playground page | `internal/web/views.templ` | text, last text sent, last text settled, badge | edit, debounce, abort, retry | the preview becomes that of the last text, and the badge does not claim it earlier |
| Parser | `internal/pdtt/scan.go`, `parse.go`, `expr.go` | brackets and strings left open; the record, block or family being read | join lines, read a line, flush, parse an expression | no line is lost or read twice; a tree means its text |
| Row expansion | `internal/pdtt/compile.go` 841-1235 | the elements chosen so far | stars on both sides of a row | every combination once, each with the elements it names |
| Outline matching | `internal/pdtt/svgpath.go`, `morph.go`, resampling in `render.go` | current point and contour; symbols and uses; the loops paired | read a path, place glyphs, match, align, interpolate | glyphs are as written; every loop of both sides travels once |
| Drawing | `render.go`, `text.go`, `typst.go` | fonts, caches | draw | |
| Configuration, secrets, admin pages, tracing, command line | `internal/config`, `internal/secret`, `server.go`, `trace.go`, `debug.go`, `cmd/pdtt` | read once or write only | | |

How they meet. `cmd/pdtt` calls `App.Run`, which compiles the scene, starts
ffmpeg and lets `FrameRenderer.Render` call `Runtime.Step` for each frame and
hand the picture to ffmpeg and to the PNG workers. Compiling starts with the
parser, whose statements are the rows that `SceneRuntime` begins with; a row with
stars becomes several of its animations; a morph's outlines are matched when its
animation starts. `pkg/render` runs the same
loop without ffmpeg inside a goroutine that `handleRender` starts; the handler
waits for it or for its timer, encodes the frames, settles the row and keeps the
debug session. The cleaner, a goroutine of its own, sweeps the same rows and
directories. `handleGenerate` publishes its progress to every `/events` handler
through the broadcaster, and a signal makes `main` drain the server, end the
streams, stop the cleaner and close the database.

What is hard. The runtime is sequential, but eight phases of a frame, windows
that overlap or touch, and five kinds of writers of one slot give orders nobody
wrote a test for. The parser keeps up to four statements open at once, and what a
line means depends on which. The pipeline and the server are concurrent and fail halfway;
the server also restarts, and its tests run without a store, so the life of a
row is covered by none of them. The page talks to the server
through requests that are dropped, replaced and retried. `PROJECT.json` lists each hazard with its line.

## The modules

| Module | Models | Checked by |
|---|---|---|
| `SceneRuntime` | the compiler's score and the runtime's frames | `MCSceneRuntime`, 2 configurations |
| `SceneClaims` | what the documents and comments promise and the code does not always keep | `MCSceneRuntime`, 11 configurations by hand |
| `SceneRuntimeProofs` | proofs about it: what its values are; clock, rates, live fields, presence; who decides what a slot shows | TLAPS |
| `RenderRun` | what one render promises, abstractly | refinement `RunSpec` |
| `FramePipeline` | the pipeline, which implements `RenderRun` | `MCFramePipeline`, 2 configurations |
| `FramePipelineProofs` | proofs, and the refinement | TLAPS |
| `RenderJobs` | requests, rows, files, cleaner, restarts | `MCRenderJobs` for the safety run, itself for 4 more configurations |
| `RenderJobsProofs` | proofs about it | TLAPS |
| `EventStream` | broadcaster and shutdown | itself, 1 configuration |
| `EventStreamProofs` | proofs about it | TLAPS |
| `Generation` | `/generate`: attempts, store, clients that leave | through `Playground` |
| `Playground` | the page, composed with `Generation` | itself, 2 configurations |
| `PlaygroundProofs` | proofs about both | TLAPS |
| `Expressions` | lexer and precedence parser | through `ScoreText` |
| `Dependencies` | what an expression reads | through `ScoreText` |
| `ScoreLines` | physical to logical lines | through `ScoreText` |
| `ScoreReader` | logical lines to statements | through `ScoreText` |
| `Broadcast` | the expansion of rows with stars | through `ScoreText` |
| `ScoreLayout` | what reading the lines of a score promises | through `ScoreText` |
| `ScoreLayoutProofs` | proofs about it: lines, fields, rows | TLAPS |
| `TextKeptProofs` | proofs about it: no text is lost from line to statement | TLAPS |
| `ScoreText` | what reading its expressions and rows promises | `MCScoreReader`, 2 configurations |
| `SvgPath` | the commands of a glyph's path | through `OutlineClaims` |
| `GlyphReader` | the elements of typst's SVG | through `OutlineClaims` |
| `Morphing` | matching, alignment, frames of a morph | through `OutlineClaims` |
| `OutlineClaims` | what reading and morphing outlines promises | `MCMorphing`, 1 configuration |
| `OutlineProofs` | proofs about it: paths, documents, the loops and the fill of a morph | TLAPS |

### SceneRuntime

The scene is not an input: the actions of `Score` write it one statement at a
time (`Block`, `Arrow`, `Entrance`, `Exit`, `Morph`, `SetStmt`, `CaptureStmt`),
each as the compiler's function of that row does, so a run covers every scene
within its bounds. `CloseScore` to `Link` are the end of `Compile`: the events
of time 0, the initialisation of fields along their dependencies, the liveness
fixpoint. Then `NextFrame` and one stage per phase of `Step`, in the order
`After` gives: events, held assignments, live fields, animations, live fields,
held assignments, live fields, rates. Every loop of a phase is a set of work
left (`todo`, `lives`), and one action does one element, in the code's order
where it has one (events and animations in order of time, live fields by
dependency) and in any order where the code walks a map (`ApplyPost`).

A value is an integer, an expression is a slot plus an offset, and time is in
ticks. That is what the properties tell apart: which write came last, what a
value was read from, and when. The interpolation is the default ease, exactly
as a cubic over integers; the chosen goals and durations make it exact where a
property compares it with something else.

Left out: warps, record arrows, highlights and other transients, text morphs,
broadcasts over stars and staggers, families and data columns, merged records,
live globals, the other eases, errors of evaluation, and everything about
positions and outlines. A morph of one entity onto itself is not generated.

### FramePipeline and RenderRun

A picture is the number of the frame it shows, so a worker that saved from the
shared draw buffer would save the wrong number. The main goroutine is `Main`,
one action per call of the loop; each worker takes, creates and saves. `Step`,
the file system, `WriteFrame`, ffmpeg and the directory may each fail, ffmpeg
at any time. ffmpeg may also stop reading: a write, the flush and the wait of `Close` then
block until it reads again or dies. After an error the directory is cleared, or only a part
of it is, or nothing. The `caller` is `App.Run` or `pkg/render`, chosen at the start.
`RenderRun` has no goroutines: frames appear one by one, and a run ends with
everything or with an error, after which nothing appears any more. The mapping
shows a frame when its file exists and is the identity on the outcome.

### RenderJobs

One action per statement on the database or the disk of `handleRender`, the
render goroutine and the cleaner, because a crash, an abort or the other
goroutine may come between any two. `Settle` is `MarkCompleted` or `MarkFailed`
with its guard on status and lease owner; both fail once the request's context
is cancelled, except in the timeout's branch. `age` and `finished` stand for
`completed_at`: how long ago it was, and in which order, which is what
`ListExpired` sorts by. Ages stop at one past the retention, so time has no end.
`Tick` is guarded so that a timer or goroutine that is due runs first, and ages
the rows, the work directories and the waits together. `Crash` loses every
goroutine and keeps rows and files; `Boot` starts a process with a new worker
id. Every removal of a work directory may fail, and `handleRender` does not look
(`server.go:280`, `313`): the directory stays as old as it was, or as new as what was
removed in it made it, and a later sweep takes it for an orphan. A temporary video whose removal
fails stays; nothing in the code ever removes one. The model is of a server with a store; without one there are no rows and no
cleaner, and nothing of this module applies.

### EventStream

Each method of the broadcaster holds its mutex and is one action. `Signal`
starts `Shutdown`, which runs `StopEvents` in a goroutine of its own and waits
for the handlers; `Drained` or `Expire` ends it; `Close` cancels the cleaner,
waits for it under the same context and closes the database. `net/http` is
modelled by what `main` relies on: no handler is accepted after the signal, and
`Shutdown` waits for those that were.

### Generation and Playground

A handler of `/generate` opens its row, calls the model, records the attempt and
settles the row; each of these is one action, each statement on the store may
fail, and once the client is gone every one of them does, because they carry the
request's context. Errors are ignored where the code only logs them. A server may
run without a key for the model's service (`keyed`): a generation then fails before its first
attempt (`openrouter.go:92`) and its row settles with no attempt on record. `Purge` is
the deletion of settled rows with their attempts.

`Playground` is one tab. `guard` holds what the convergence script knows
(`request`, `sentCode`, `settledCode`) and what Alpine's `renderPage` shows of it
(`busy`, `settled`, `lastRenderFailed`). `SetText` triggers the form, whose pause
is `armed`; `Send` replaces a request under way (`hx-sync`), and what became of
the one replaced is not seen. `Answer` is `afterRequest`, the guard and the swap,
in one turn of the browser's loop; `Lose` is a request with status 0. The render
behind an answer is abstracted to the statuses it may have: `RenderJobs` has its
inside. Htmx is external code and modelled from how the page uses it.

### Expressions, ScoreLines, ScoreReader and Broadcast

A source is a sequence of physical lines of atoms: a word is one atom, so that
the models decide where a name, a bracket, a string or a comment ends without
spelling names. `Expressions` is the lexer and the precedence climbing parser,
`Dependencies` is `exprDeps`. `ScoreLines` joins lines while a bracket or a string is open and takes
block scalars. Lines within brackets are joined by a space and lose the blanks at their
ends, and so does the line a literal opens on although the literal goes on; the lines within it
are kept as they stand. A capture, a binding or a fold whose literal spans lines is
refused, because the dots of their regular expressions match no line break
(`OneLine`). `ScoreReader` reads one logical line per action, with the record,
block, family and member that are open in `p`, and flushes them as `parse.go`
does. A part, which is what stands before the first scene definition or one
definition, is read from its first line to its end and then joins `tree`; `def` is
the line of the definition at hand. The grammar is one recursive function of a rule and a token position,
and a syntax error is position 0, which every rule passes on: no caller in `expr.go`
recovers from one. `Broadcast` expands a row, threading the bound names through the operands
from left to right. `ScoreLayout` and `ScoreText` state the properties without the state
the reader keeps: the text of a tree is printed from the table of operators and compared with
the source, lines are counted, fields are compared with the header above them,
stars are expanded by an odometer over the text of the whole row.

### SvgPath, GlyphReader, Morphing

`SvgPath` takes a command and the numbers after it in one step, as the loop of
`parseSVGPathContours` does. `GlyphReader` reads one tag per step, fails on malformed XML and
resolves the uses at the end of the document. `Morphing` resamples the loops of a text and of
what it is morphed with, a shape or another text on either side, pairs them one at a time and
shows the frames. Coordinates are integers: the length of an edge (`Hypot`) and a
sample between two corners are rounded down to the grid, as floating point rounds them to
its own; centroids, areas and squared distances are exact after scaling. `AlignLoop`
tries the offsets in the code's order and gives one up as soon as its sum reaches the best so
far. `OutlineClaims` says what a path
means from its segments (with de Casteljau for the curves), what a document means
from its nesting, and what matching and alignment must achieve, none of it with
the readers' state. It speaks of documents as typst writes them (`AsWritten`): in a
path every operand is there, a subpath begins with M and nothing is drawn between Z
and the next M, and no symbol stands in another.

## What is checked

| Configuration | Shows | Bounds |
|---|---|---|
| `MCSceneTweens` | `OwnerShows`, `LiveFollows`, `LastFrameCloses`, `HeldByFinished` | 3 rows or sets, 3 fields that may form a chain, 2 ticks |
| `MCSceneStage` | `TypeOK`, `PresenceFollowsScore`, `MorphHandsOver`, `PresenceEarned`, `RateIsIntegral`, `CaptureIsFrozen` | 3 rows, 2 entities, a rate and a capture, 3 ticks, frames two ticks apart, windows within a block, past it or cut to an instant |
| `MCFrame` | `TypeOK`, `FramesAccounted`, `SuccessIsComplete`, `RunSpec`, `Terminates` | both callers, 5 frames, 2 workers, a channel of 2, an ffmpeg that may die or stop reading |
| `JobsSafety` | `TypeOK`, `AccountsAgree`, `VideoHasRow`, `VideoIsKept` | 2 requests (up to their names: `SYMMETRY`), every fault, 2 processes, retention, timeout and list limit 1 |
| `JobsLiveness` | `WorkReclaimed`, `SettledGoes` | 1 request, every fault, 2 processes |
| `EventStream` | `ClosedOnce`, `ShutsDown`, `DeadlineEnds` | 2 clients, 1 generation that may hang, 3 messages, a channel of 2 |
| `Playground` | `LogTellsTheStory`, `BadgeAtRest`, `Converges` | 1 generation of 2 attempts with a key or without, 2 edits, 2 server errors, 1 lost request, 1 store fault, 4 texts (two valid, one invalid, one too long) |
| `ScoreReader` | `ReadsAsWritten`, `FollowsWhatItReads`, `EveryLineOnce`, `FieldsUnderNearest`, `RowsFitTheirBlock`, `TextKept`, `EveryElementOnce` | every document of up to 3 of 14 lines of every kind and of 3 of 11 bars, the same below the header of a family and below a block with its first row, 4 of 8 lines with brackets, strings and comments, 4 of 6 lines with literals that span them, 4 of 7 block scalar lines; every text of up to 4 of 8 atoms (3 of 13 with all brackets), three operands with two operators, choices within choices, values with up to three suffixes; rows over 5 targets and their combinations |
| `Morphing` | `GlyphsAsWritten`, `EveryLoopTravels`, `LeastTravel`, `FadeKeepsColour`, `ReadsToTheEnd` | paths of up to 3 commands of each kind, absolute and relative, documents of up to 3 of 12 fragments (one is malformed), 5 texts against 10 partners (paths and dots, some with slanted edges, and texts of none to three loops) in both directions with 3 paints, 8 points a loop, curves of 2 segments, 2 frames |

Why these bounds are enough. Three rows are what the interactions of the scene
take: one to hold or hide a slot, one to take it over, one to read it; the
sections on findings below show that every known failure needs three rows or
fewer. Two ticks hold two blocks and a window that is open in between; the
entrances, morphs and captures use frames two ticks apart so that a window can open and
close between frames. Five frames fill both workers and the channel with one
frame to come. Two requests let the sweep hold one job while the other handler
works, and a list limit of one makes it leave jobs for the next sweep. Two
clients let one subscribe after the streams were closed for the other. Two edits
and a generation give the page a text changed while its request flies and one
changed while the retry is armed. Three lines are a header, what it opens and what
ends it; four bars are a block, two rows and the bar whose meaning is in doubt;
three operands are two operators of different strength, on either side. Texts of
one to three loops against texts of two and three, in both directions, give the greedy choice
several loops on either side and leave one or two unpaired; the shapes include one turned the
other way and one rotated.

`OwnerShows` and `MorphHandsOver` exclude what the findings below are about, and
say so at their definitions; a slot is owned when the last animation to have
begun on it overlaps no other. A goal that comes back to its slot through live
fields (`Followers`) is excluded too: `x -> y + 1` where `y: x` has no value to show.

`RateIsIntegral` is about rates declared as literals that no row writes (a morph
may, see below), `LastFrameCloses` about
scores whose length is a multiple of the frame step (the frame count truncates).
No configuration switches the deadlock check off: a finished model says so with
an action of its own.

Fairness. The scene and the parser are sequential and have safety properties only
(`ScoreReader` is given weak fairness of its steps, which nothing depends on). A
reader of glyphs runs as long as it has a step: weak fairness of `Reading`. In the
pipeline every worker is weakly fair, which is the Go scheduler; the main
goroutine is strongly fair, so that an ffmpeg that stalls again and again does not
hold it for ever; and an ffmpeg that has stopped reading reads again in the end (`FfmpegReads`),
because no write of the code has a timeout. Its death is not assumed. In the jobs the handlers, renders,
cleaner, timer and restart are weakly fair; a sweep's steps that the disk or the
database may refuse are strongly fair, which says that a failure of either does
not last for ever; so is the purge of orphans when there is one. Clients, faults and crashes are never forced. In the event
stream the handlers and `main` are weakly fair, which takes the clients to read what
they are sent, and the cleaner's return is
strongly fair because a `select` with both channels ready may take the ticker,
but does not do so for ever. Neither a generation's end nor the deadline is fair:
`ShutsDown` assumes of the generations that they end, as a premise of the
property, and `DeadlineEnds` holds though one may hang. Requests that `Shutdown` waits for
are those two kinds: a render, which its own timeout ends, is not among them. On the page the pause of
the form ends, a render is answered at the latest by the handler's timeout and a
generation by the client's; edits, errors, losses and a client's leaving are never
forced and the bounds make them stop, which is the premise of `Converges`.

## Where the code and its documents disagree

Three configurations are runs of the project: each checks one property and TLC
finds it violated.

| Configuration | What happens |
|---|---|
| `FrameNoFfmpeg` | without ffmpeg the first frame panics on a nil stream in a non-nil interface |
| `JobsAbandoned` | the video of a client that went away is never deleted |
| `OutputAtRest` | the text goes from A to B and back to A, the last request gets a 500, and the error stays: the guard takes A for settled, although "the output must always match the editor text" (`views.templ:237`) |

The others are kept as configurations to run by hand; each, too, ends in a
violation, of the property its last line names.

| Configuration | What happens |
|---|---|
| `LiteralBlanks` | a literal loses the blanks that end the line it opens on, although "the literal's content is exact" (`scan.go:52`): the line is trimmed as a whole |
| `SceneSetAtClose` | a `set` written after a block is overwritten by the block's tween, which closes in the same frame |
| `SceneReentry` | the second entrance of an entity tweens from hidden to hidden |
| `SceneCaptureAtClose` | a capture after a block reads the frame before |
| `SceneCaptureAtTop` | a capture at the top of the score reads fields not initialised yet |
| `SceneRetween` | the second tween of a live field starts with a jump |
| `SceneSetUpstream` | a field that reads a set field does not follow it |
| `SceneRateUpstream` | a field that reads a rate is a frame behind |
| `SceneLiveBeforeTween` | a live field that a later row tweens does not follow before it |
| `SceneChainedGoals` | a held goal that reads another is a frame behind, depending on map order |
| `SceneSetThenTween` | a tween of a live field that was set leaves its curve |
| `SceneTwoWriters` | a morph writes its destination's opacity although that is a rate: the pass that "enforces one writer" looks at the targets of an animation, and a morph's destination is none of them |
| `JobsDebugLeft` | a debug directory that could not be removed outlives its row |
| `JobsLivePurged` | a sweep removes the work directory of a request still at work, if the retention is shorter than it takes |

Writing and running the models also showed the following. No run is about it;
properties that exclude a case say so at their definitions.

- Scene: the default ease is smooth, where `md/tween.md` says linear; a morph clears the held assignment of its source's opacity but not of its
  destination's; an exit whose window reaches into a later entrance leaves the
  entity off; of two tweens that overlap, the one that closes first pins the slot
  through its held assignment; a window may reach past the end of the score and
  never close.
- Live order: `liveFieldDepth` shares one `seen` map over a whole walk, so a field
  reached twice may get too small a depth, depending on map order. The rounds of
  `evalLive` repair one inversion on a path of reads; with fields 0 to 4, where 1
  reads 3, 2 reads 1 and 4, 4 reads 1 and 3, and 0 reads all others, some orders
  have two on one path, and field 0 is a frame behind.
- Parser: a comment or a blank line inside a record ends it; fields of a family's
  member may be less indented than the member (the comment at `parse.go:560` says
  deeper); a block's clock of `30%` is 0.3 seconds, where `md/syntax.md` says a
  fraction of the parent; `lag` changes the result with its place among the
  modifiers, where `md/syntax.md` says order is free; a `|` inside a string splits
  a cell; `x.1.2` is an error; `name: snapshot a + b` is live in `b`.
- Rows: a star on the right side that ranges over more than one element always
  clashes with the target it writes, and is refused.
- Outlines: a number after `Z` makes the reader loop for ever; what is drawn after
  `Z` without an `M` loses its first point; `C` and `Q` read missing numbers as 0;
  a morph's stroke is styled by a rule of its own (`morph.go:424`), so it snaps
  when the target itself is drawn.
- Text: entities are measured at compile time, before `initFonts` (`app.go:111`)
  in the first render of a process; a layout of width 0 is cached (`text.go:335`)
  until its key changes. `faceCache` and the fonts are shared by concurrent
  renders without a lock.
- Page: a request that gets no response is not sent again, and the badge may then
  speak of an older text; the badge still reads "synced" during the pause after an
  edit; a lost request for a generation leaves the text it had.
- Generations: one whose client left stays "running" for ever and is never purged,
  since the purge needs `completed_at`; two tabs that generate see each other's
  progress.

## What is proved

Every theorem holds for all values of the constants under the module's named
assumption (`SceneAssumption`, `PathAssumption`, `MorphAssumption`, `ReaderAssumption`, `PipelineAssumption`,
`JobsAssumption`, `StreamAssumption`, `GenerationAssumption`, `PlaygroundAssumption`),
which TLC evaluates in every run. An assumption gives the constants their types and says what the parser or
the compiler guarantees of them; of a morph's partner it says that only a text has
several loops. The groups of the invariants below were checked by TLC
on the same instances as the properties before they were proved.

`SceneRuntimeProofs` proves `TypeOK`, `HeldByFinished`, `PresenceEarned` and
`CaptureIsFrozen`. The invariant (`IInv`) is `TypeOK` with: every presence row names
entities (needed to know which field a morph writes); every event names a slot of
its kind; and the work left of a phase is work that phase could have been given
(so that the animation a turn runs is not done and the slot an assignment is
applied to has one). Each action of `Score`, `Compiled` and `Step` has its lemma.

It also proves `LastFrameCloses`, `RateIsIntegral`, `LiveFollows` and
`PresenceFollowsScore` for every score, frame step and set of fields. The invariant
for these, `FramesInv`, is `IInv` with eight groups, each kept by every step with the help of
those before it:

- `RowsStand`: what is fixed of a row once it is written (its slot is known and no
  rate, an outline morph that has begun saw its destination hidden).
- `ClockOnGrid`: `now` is a multiple of the frame step, at most the score's length,
  and at the end less than a frame away from it.
- `EventsOnTime`: an event runs in the first frame that reaches it, before any row
  that begins after it.
- `RowsOnTime`: a row begins in the first frame that reaches its window and is done
  in the first that reaches its end; when one begins, all rows before it in
  `advanceAnims`' order have begun and those that end by then are done; when one is
  done, so are those before it that end no later. The last clause is what windows of
  length zero and frames that skip several windows need, and was found by the proof.
- `LiveStands`, `PassSettles`: what a live pass may still have to do, and that what
  it has done reads nothing it has yet to do. That gives `LiveFollows`: a pass goes
  along the reads, so nothing changes below a field once it was evaluated.
- `RatesGrow`: a literal rate is its slope times the time of this frame or of the
  last one, depending on whether its turn has come.
- `LastDecides`: the last presence row to have begun decides, but for a morph that
  closes in this frame and has not had its turn.

Its last part proves `OwnerShows` and `MorphHandsOver`. `OwnersInv` adds to
`FramesInv`: on a slot with an owner the held assignment is the owner's, or none
(`OwnerHolds`); the owner left the slot on its curve (`OwnerMoves`), a morph its two
opacities as its progress asks (`MorphMoves`); and if only one assignment is held in
the scene, it shows from its second turn in the frame on (`PostShows`). The lemma the
rest hangs on is `OthersKeepOut`: when a row takes its turn, any other row that owns a
slot afterwards owned it before, and the turn did not write it. `PostShows` is where
`Followers` comes from: the last live pass may still change what a goal reads unless
the fields that change do not depend on the slot.

What the attempts to prove these properties showed about the model and the code: two
entities must not share an opacity (now part of `SceneAssumption`, as each entity has
its own record); `OwnerShows` failed for a goal with an offset that reads its own
slot through a live field, which no run had (the tween run now has such goals, and the
property says so); `RateIsIntegral` failed for a rate opacity that a morph writes,
which is what `SceneTwoWriters` shows; and `LiveFollows` turned out to hold for more
fields than it claimed, so it claims more now.

`FramePipelineProofs` proves `TypeOK`, `FramesAccounted`, `SuccessIsComplete` and
the refinement `RunSpec`. The invariant adds that the queue holds distinct frames
in order, each carrying its own picture, below the frame under way; that every
frame handed over is queued, held, saved or its loss recorded, for as long as
workers run; and what each place of the main goroutine implies about the channel
and the pool, in particular that after the join no worker runs.

`RenderJobsProofs` proves `TypeOK`, `AccountsAgree`, `VideoHasRow` and
`VideoIsKept`, for any number of requests and restarts. The invariant says for
each request what its place implies of its row, reply and video, and that the
jobs a sweep holds have expired. Its core: a row is open until its own handler
settles it, so a sweep never meets a handler that is still encoding.

`EventStreamProofs` proves `TypeOK` and `ClosedOnce`. The invariant relates each
channel to its handler's place.

`PlaygroundProofs` proves `LogTellsTheStory` for any number of generations and
attempts, and `BadgeAtRest` for any texts. `LogTellsTheStory` speaks of a handler
that answers; the invariant (`PlaceInv`, `CompletedInv`, `KeptInv`) says for every
place of the handler what the row and the log are: while it calls, every attempt
on record did not validate and has a smaller number than the loop's counter, which
is what keeps the numbers growing although a record may be missing. Without a key a
generation fails with no attempt on record, before the loop. It is proved
for the generation that moves; the others keep theirs (`OneMoves`). `PageInv` says
of a request under way that it carries the editor's text unless the form is armed,
of one answered that the output and the badge are its answer's, and that an answer
below 500 is for the editor's text unless the form is armed: the last is what the
guard re-establishes with each answer.

`OutlineProofs` proves `FadeKeepsColour` for any number of frames and any paint of the
two sides: the fill is a mean weighted with the alphas (`FillIsMean`), a side without
alpha has no weight, and nothing that is read or drawn during a morph changes the paint
of its sides (`PaintInv`).

It also proves `LeastTravel` and `EveryLoopTravels`, for documents of any length, any
commands and coordinates, any number of points to a curve and to a loop and any number
of frames. Both are about sums over the points of a loop, which the model takes with
recursive functions. The prover has no induction over data, but a set of numbers up to n
that has 0 and the successor of each of its members has all of them (`Upwards`, from the least
element that is missing), and that is enough to show that a recursive function exists
(`RepeatedExists`) and what its values are (`SumToIs`).

- `PathInv` and `ReaderInv`: every token a path is read from leaves points with integer
  coordinates, through all commands, symbols, uses and transforms. So both sides of a morph are
  lists of outlines with points, and `ResampledIs` makes each a loop of `Samples` points.
- `MorphInv` gives `LeastTravel`: the pairs made so far are aligned. A turn of a loop does
  not change its area and a reversal negates it (`AreaOfRotated`, `AreaOfReversed`), and two
  turns are one (`RotatedTwice`), so the offset `AlignLoop` chooses is compared with all.
  That it is the best of all is what the search must show: a sum only grows, so an offset
  that is given up at the best cost would not have been better (`TriedIs`), and after
  each offset the one kept is no worse than any tried (`Searched`, `AlignLoopIsBest`).
- `TravelInv` gives the pairs of `EveryLoopTravels`: the loops used are as many as the
  pairs, or all are used; the source's loops leave in order; those of the target that are used have
  arrived, at places of their own; and a pair outside both is a point and a loop with one centroid. The
  centroid of a resampled loop is an integer because its points are multiples of `Samples`
  (`CoarseIsCentred`), and every mean of the two keeps it (`BetweenKeepsCentroid`).
- `FlatInv` gives the loop of an open path no area. Along each axis a folded path is
  a walk whose way back is its way there (`FoldedBack`); a sample lies on the edge it
  is taken from (`SampleOnEdge`), an edge is as long one way as the other (`HypotIs`), and
  a rounded sample depends on its place along the edge only, whichever way the edge is walked
  and whichever of two edges that meet it is taken from (`SampleIsPlace`, `SamePlace`). So the
  samples mirror each other (`SamplesMirrored`), and the area of a loop that is the same
  both ways round is its own negative (`MirrorIsFlat`).

The same module proves `GlyphsAsWritten`, for documents and paths of any length, and on
the way that every complete path is read into the contours its segments draw
(`PathsAreRead`). The invariant is `GlyphInv`:

- `PathRuns`: between two turns, the reader has reached the end of a segment. The text of
  a path splits into segments number by number (`Splits`) and a turn takes all numbers up to
  the next command, so it adds as many segments as there are groups of operands
  (`TurnSplits`, `TurnAdds`). `After` says that the current point and the start of the
  subpath are the ones of the segments so far, and that the contours with the one being
  drawn are what those segments draw (`OutlinesTo`). Each command arrives at the ends of its
  segments (`AlongReaches`, `PairsReach`, `CurvesReach`), and the polynomials it evaluates
  are the points of de Casteljau's construction (`ThreePoints`, `FourPoints`).
- `PathDone`: at the end the contours are the path's (`Outline`).
- `DocInv`: the current symbol is the one that is open, the depth is the one below the
  outermost open text group, whose transform is kept (`SymbolOpen`, `GroupsOpen`); the
  contours kept for each symbol and the uses are those of the elements read so far,
  joined (`Collected`, `PlacedAt`). While a path is read, it is the last of these elements and
  not yet in its symbol.
- At the end every use is resolved: dropping the uses outside a text group first and
  the empty glyphs later is the same as dropping both at once (`ChosenTwice`).

The attempt showed that `GlyphsAsWritten` was false for documents with a symbol inside
another one, which no run had: the reader forgets the outer symbol when the inner one is
closed, and leaves out the outer one's later paths. typst writes its symbols side by side, so
`AsWritten` now excludes this.

The attempt to prove `EveryLoopTravels` showed that it was false as it stood, for documents that no
run had: it counted the loops of each list that were equal to a given one, and a loop of the target
that has shrunk to a point counts as the growing point of another one as well. It now asks for
a place of its own for each loop.

`ScoreLayoutProofs` proves `EveryLineOnce`, `FieldsUnderNearest` and
`RowsFitTheirBlock` for documents of any length, any durations and any names of
eases and the like. An open record, block, family or member belongs to the result
only once it is flushed, and most lines flush something; so the invariant (`IInv`) speaks of
the part as it would be if it ended here (`Ended(p)`), which flushing does not change
(`FlushingKeeps`):

- `ScanStands`: the logical lines made so far are numbered in increasing order, below the
  line at hand and below the one that waits for its bracket or string to close.
- `Shape`: at most one statement is open, or a family with one member.
- The lines of the parts read, the definition's line and the lines of `Ended(p)` are
  the written lines up to `at`, each group above the next; within `Ended(p)` each statement
  stands above the next and is well read (`WellRead`): its rows, locals, members and
  fields are in order, and its rows fit. A header between a field and its record would
  lie within the lines of one record, which is how `FieldsUnderNearest` follows.
- `MemberStands`: an open member belongs to the open family.

Each step opens a statement (`OpenedTook`), adds to the last one (`GrownTook`) or ends a
part (`EndPartKeeps`), and adds exactly the lines between the two values of `at`.
What the expressions on a line say is not needed, only which line a field ends on: the
theorems do not depend on how `Expressions` reads them. The attempt showed that `EveryLineOnce` said
less than was meant of families and blocks: it compared the locals of a family
with its members' headers only, and left open where the first row of a block stands. Both are
now part of `FamilyInOrder` and `BlockInOrder`.

`TextKeptProofs` proves `TextKept`, for documents of any length and lines of any
characters. All its texts are folds over sequences, and the library defines a fold by
choosing positions one after the other; so the first lemmas turn a fold over n
members into a run, a function on 0..n that begins with the base and takes one step at a
time (`FoldExists`, `FoldRepeats`), and what holds of every prefix follows along the run
(`Upwards`). `TextIInv` is `IInv` with three parts:

- `TextInv`: with `ScanText`, the logical lines made so far, with the pending one, show
  the text of the physical lines read (`Before`), comments apart, and the scanner takes itself to be
  inside a string exactly when the quotes kept so far are odd in number. An odd
  number of quotes is how `TextKept` says that a `#` stands in a string; the scanner has a flag
  instead, which it also uses to skip a quote after a backslash. The two agree on
  `Plain` documents, and this invariant is that they do.
- `KeyInv`: every logical line stands for the physical line of its number, and the line
  of a block scalar is its key with its literal.
- `FieldInv`: every field that is read is what `FieldOf` makes of its line.

The other half of the argument reads the literal back. An escaped text, read as the lexer
reads the inside of a string, denotes the text that was escaped, whatever it holds
(`Says`, `LiteralDenotes`); so the value of a scalar's line is a single token
(`LexLiteral`), which the grammar carries from the lowest level to the highest
without an operator or a suffix to stop at (`LiteralParses`); and the line itself is
taken for a field, with that value, under the name its key has (`KeyIs`, `ScalarRead`).
That last step needs `ReaderAssumption` to say that a colon is not a character of a word,
as it is in the source's regular expression.

What is compared is a text without spaces and line breaks outside its literals (`Content`),
so every blank, indent and line break within one counts. The code does lose some: the blanks
that end the line a literal opens on. `TextKept` says that it loses no others (`KeptOf` leaves
out just these), and `LiteralsExact`, which keeps them, is what `LiteralBlanks`
shows to fail. Trimming outside a literal is harmless because two texts that are open or closed
alike and have one content stay so whatever is appended to both (`AlikeAppend`), and a space
appended outside a literal changes neither (`AlikeSpace`).

What the attempt showed about the model: of a scalar `TextKept` said what its string
was, not that nothing else of its value was read; it now gives the whole value.

Only model-checked:

- `ReadsAsWritten`, `FollowsWhatItReads` and `EveryElementOnce`: the grammar,
  the dependencies and the expansion of stars recurse over texts and trees of any depth,
  with recursive operators, and what those compute is beyond the prover.
- All liveness (`Terminates`, `WorkReclaimed`, `SettledGoes`, `ShutsDown`,
  `DeadlineEnds`, `Converges`, `ReadsToTheEnd`), which is out of the prover's reach.

## Not modelled

- Drawing (`render.go`, `text.go`, `typst.go`, `geometry.go`): floating-point
  geometry, fonts and a subprocess; the outlines that the morphs use are the part
  with an exact counterpart in integers.
- In the scene: warps, record arrows, highlights, text morphs, staggers, families
  and data columns inside `SceneRuntime`, merged records, live globals, other
  eases, errors of evaluation.
- In the parser: spelling of numbers and units, error texts, the bodies of `fn` and
  `extern`; in the expansion of rows: the value of `it`, `after` chains, and errors
  other than those of groups; in the outlines: the tokenizer of paths, strokes,
  ellipses.
- The server without a store, its read-only pages, configuration and secrets,
  traces, and the flags of the commands: no state that changes.
- The race on `faceCache`: what the Go runtime does with it is not a choice between
  states of the program.
