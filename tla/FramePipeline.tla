--------------------------- MODULE FramePipeline ---------------------------
(***************************************************************************)
(* One render of internal/pdtt/app.go: the main goroutine steps the scene,  *)
(* draws into a buffer it reuses, streams the frame to ffmpeg and hands a   *)
(* copy to the debug PNG workers over a bounded channel; it then finalises  *)
(* the mp4, waits for the workers and, when anything failed, clears the     *)
(* output directory and leaves error.txt. A render is either App.Run's or   *)
(* pkg/render.Scene's, which has no encoder and leaves the directory to its *)
(* caller.                                                                  *)
(*                                                                          *)
(* A picture is the number of the frame it shows. What Step, the encoder    *)
(* and the file system answer is chosen freely; ffmpeg may die at any time, *)
(* and may stop reading, which blocks whoever writes to it.                 *)
(***************************************************************************)
EXTENDS Integers, Sequences, FiniteSets

CONSTANTS
  NFrames,   \* FrameCount
  Workers,   \* the PNG writers, pngWorkerCount of them
  Capacity,  \* of the jobs channel (16 in the code)
  None       \* no job

ASSUME PipelineAssumption ==
  /\ NFrames \in Nat \ {0}
  /\ Workers # {}
  /\ Capacity \in Nat \ {0}
  /\ None \notin [path : Nat, pix : Nat]

Frames == 0..(NFrames - 1)
Jobs == [path : Frames, pix : Frames]
Absent == -1   \* no file
Partial == -2  \* a file whose picture is not finished

VARIABLES
  caller,   \* of the renderer: "App.Run" or "render.Scene"
  pc,       \* where the main goroutine is
  k,        \* the frame under way
  buffer,   \* the picture in the renderer's draw buffer
  jobs,     \* the jobs channel
  closed,   \* close(jobs) was called
  job,      \* the job each worker holds
  at,       \* where each worker is: "idle", "create", "encode" or "exited"
  png,      \* each frame's file: Absent, Partial or the picture in it
  pngErr,   \* a save failed
  piped,    \* frames written to the stream
  ffmpeg,   \* "none", "running", "stalled", "dead" or "closed"
  mp4,      \* "absent", "growing" or "whole"
  snaps,    \* frames whose variables OnFrame captured
  failed,   \* the run has an error to return
  outcome   \* "running", "ok", "error", "unreported" or "panic"

Cli == caller = "App.Run"
encoder == <<piped, ffmpeg, mp4>>
pool == <<job, at, png, pngErr>>
vars == <<caller, pc, k, buffer, jobs, closed, job, at, png, pngErr, piped,
          ffmpeg, mp4, snaps, failed, outcome>>

TypeOK ==
  /\ caller \in {"App.Run", "render.Scene"}
  /\ pc \in {"begin", "start", "step", "pipe", "hand", "close", "abort",
             "encode", "join", "report", "write", "end"}
  /\ k \in 0..NFrames /\ buffer \in Frames
  /\ jobs \in Seq(Jobs) /\ Len(jobs) <= Capacity
  /\ closed \in BOOLEAN /\ pngErr \in BOOLEAN /\ failed \in BOOLEAN
  /\ job \in [Workers -> Jobs \cup {None}]
  /\ at \in [Workers -> {"idle", "create", "encode", "exited"}]
  /\ png \in [Frames -> {Absent, Partial} \cup Frames]
  /\ piped \in 0..NFrames /\ snaps \subseteq Frames
  /\ ffmpeg \in {"none", "running", "stalled", "dead", "closed"}
  /\ mp4 \in {"absent", "growing", "whole"}
  /\ outcome \in {"running", "ok", "error", "unreported", "panic"}

Init ==
  /\ caller \in {"App.Run", "render.Scene"}
  /\ pc = "begin" /\ k = 0 /\ buffer = 0
  /\ jobs = <<>> /\ closed = FALSE
  /\ job = [w \in Workers |-> None] /\ at = [w \in Workers |-> "idle"]
  /\ png = [f \in Frames |-> Absent] /\ pngErr = FALSE
  /\ piped = 0 /\ ffmpeg = "none" /\ mp4 = "absent"
  /\ snaps = {} /\ failed = FALSE /\ outcome = "running"

(***************************************************************************)
(* The main goroutine.                                                     *)
(***************************************************************************)

\* Preparing the directory, parsing, compiling and starting ffmpeg; each can
\* fail. Without ffmpeg on the PATH the stream is nil and the run goes on.
Begin ==
  /\ pc = "begin"
  /\ \/ /\ Cli /\ pc' = "start"
        /\ ffmpeg' = "running" /\ mp4' = "growing" /\ UNCHANGED failed
     \/ pc' = "start" /\ UNCHANGED <<ffmpeg, mp4, failed>>
     \/ pc' = "report" /\ failed' = TRUE /\ UNCHANGED <<ffmpeg, mp4>>
  /\ UNCHANGED <<caller, k, buffer, jobs, closed, pool, piped, snaps, outcome>>

\* Render loads its fonts and makes the frames directory before it starts the
\* workers; on failure the stream is closed and its error dropped. Closing it
\* waits for ffmpeg.
Start ==
  /\ pc = "start"
  /\ \/ pc' = "step" /\ UNCHANGED <<failed, encoder>>
     \/ /\ pc' = "report" /\ failed' = TRUE /\ ffmpeg # "stalled"
        /\ ffmpeg' = IF ffmpeg = "none" THEN "none" ELSE "closed"
        /\ UNCHANGED <<piped, mp4>>
  /\ UNCHANGED <<caller, k, buffer, jobs, closed, pool, snaps, outcome>>

\* rt.Step, OnFrame and Frame: the next picture is drawn over the last one.
StepFrame ==
  /\ pc = "step"
  /\ buffer' = k
  /\ snaps' = snaps \cup {k}
  /\ pc' = "pipe"
  /\ UNCHANGED <<caller, k, jobs, closed, pool, encoder, failed, outcome>>

StepFails ==
  /\ pc = "step"
  /\ failed' = TRUE /\ closed' = TRUE /\ pc' = "abort"
  /\ UNCHANGED <<caller, k, buffer, jobs, pool, encoder, snaps, outcome>>

\* The stream is always handed to Render as a sink, also when it is nil.
HasSink == Cli
NilStream == HasSink /\ ffmpeg = "none"

\* A write into a buffer or a pipe that is full blocks until ffmpeg reads.
Pipe ==
  /\ pc = "pipe" /\ ~NilStream /\ ffmpeg # "stalled"
  /\ pc' = "hand"
  /\ piped' = IF HasSink THEN piped + 1 ELSE piped
  /\ UNCHANGED <<caller, k, buffer, jobs, closed, pool, ffmpeg, mp4, snaps,
                 failed, outcome>>

\* Writes to a dead ffmpeg fail at the latest when the buffer is flushed.
PipeFails ==
  /\ pc = "pipe" /\ ffmpeg = "dead"
  /\ failed' = TRUE /\ closed' = TRUE /\ pc' = "abort"
  /\ UNCHANGED <<caller, k, buffer, jobs, pool, encoder, snaps, outcome>>

PipePanics ==
  /\ pc = "pipe" /\ NilStream
  /\ outcome' = "panic" /\ pc' = "end"
  /\ UNCHANGED <<caller, k, buffer, jobs, closed, pool, encoder, snaps,
                 failed>>

\* The send blocks while the channel is full.
RoomAlways == TRUE \* mutant: a channel without a bound
Room == Len(jobs) < Capacity

\* Mutant: the job keeps the first picture, not a copy of this one.
JobOfBuffer(f) == [path |-> f, pix |-> 0]
JobOf(f) == [path |-> f, pix |-> buffer]

\* Mutant: a job that finds the channel full is dropped.
HandOffDropping ==
  /\ pc = "hand"
  /\ jobs' = IF Len(jobs) < Capacity THEN Append(jobs, JobOf(k)) ELSE jobs
  /\ k' = k + 1
  /\ pc' = IF k' = NFrames THEN "close" ELSE "step"
  /\ UNCHANGED <<caller, buffer, closed, pool, encoder, snaps, failed,
                 outcome>>
HandOff ==
  /\ pc = "hand" /\ Room
  /\ jobs' = Append(jobs, JobOf(k))
  /\ k' = k + 1
  /\ pc' = IF k' = NFrames THEN "close" ELSE "step"
  /\ UNCHANGED <<caller, buffer, closed, pool, encoder, snaps, failed,
                 outcome>>

CloseJobs ==
  /\ pc = "close"
  /\ closed' = TRUE /\ pc' = "encode"
  /\ UNCHANGED <<caller, k, buffer, jobs, pool, encoder, snaps, failed,
                 outcome>>

Joined == \A w \in Workers : at[w] = "exited"

\* Mutant: an error returns at once, its workers still writing.
AbortUnjoined ==
  /\ pc = "abort" /\ ffmpeg # "stalled"
  /\ ffmpeg' = IF ffmpeg = "none" THEN "none" ELSE "closed"
  /\ pc' = "report"
  /\ UNCHANGED <<caller, k, buffer, jobs, closed, pool, piped, mp4, snaps,
                 failed, outcome>>
\* An error in the loop: Render waits for the workers, then run closes the
\* stream; the first error is the one returned.
Abort ==
  /\ pc = "abort" /\ Joined /\ ffmpeg # "stalled"
  /\ ffmpeg' = IF ffmpeg = "none" THEN "none" ELSE "closed"
  /\ pc' = "report"
  /\ UNCHANGED <<caller, k, buffer, jobs, closed, pool, piped, mp4, snaps,
                 failed, outcome>>

\* stream.Close: the mp4 is whole when ffmpeg lived to take every frame.
Encode ==
  /\ pc = "encode" /\ ffmpeg # "stalled"
  /\ pc' = "join"
  /\ IF ffmpeg = "running" THEN mp4' = "whole" ELSE UNCHANGED mp4
  /\ failed' = (failed \/ ffmpeg = "dead")
  /\ ffmpeg' = IF ffmpeg = "none" THEN "none" ELSE "closed"
  /\ UNCHANGED <<caller, k, buffer, jobs, closed, pool, piped, snaps, outcome>>

\* WaitDebug: the workers' first error is the run's when it has no other.
Join ==
  /\ pc = "join" /\ Joined
  /\ failed' = (failed \/ pngErr)
  /\ IF failed' THEN pc' = "report" /\ UNCHANGED outcome
                ELSE pc' = "end" /\ outcome' = "ok"
  /\ UNCHANGED <<caller, k, buffer, jobs, closed, pool, encoder, snaps>>

\* os.RemoveAll of the output directory: all of it, or what it came to before
\* it failed.
Remove(kept, video) ==
  /\ png' = [f \in Frames |-> IF f \in kept THEN png[f] ELSE Absent]
  /\ mp4' = video

\* Run's writeErrorOutput clears the directory and then writes error.txt;
\* clearing it may fail half way.
Report ==
  /\ pc = "report"
  /\ IF Cli
     THEN \/ Remove({}, "absent") /\ pc' = "write" /\ UNCHANGED outcome
          \/ /\ \E kept \in SUBSET Frames, video \in {mp4, "absent"} : Remove(kept, video)
             /\ pc' = "end" /\ outcome' = "unreported"
     ELSE pc' = "end" /\ outcome' = "error" /\ UNCHANGED <<png, mp4>>
  /\ UNCHANGED <<caller, k, buffer, jobs, closed, job, at, pngErr, piped,
                 ffmpeg, snaps, failed>>

WriteError ==
  /\ pc = "write"
  /\ pc' = "end" /\ outcome' \in {"error", "unreported"}
  /\ UNCHANGED <<caller, k, buffer, jobs, closed, pool, encoder, snaps,
                 failed>>

Main ==
  \/ Begin \/ Start \/ StepFrame \/ StepFails \/ Pipe \/ PipeFails
  \/ PipePanics \/ HandOff \/ CloseJobs \/ Abort \/ Encode \/ Join \/ Report
  \/ WriteError

(***************************************************************************)
(* The workers; they start with the loop and end with the process.         *)
(***************************************************************************)
Started ==
  /\ pc \notin {"begin", "start"} /\ outcome # "panic"
  /\ pc \in {"report", "write", "end"} => closed

Take(w) ==
  /\ Started /\ at[w] = "idle" /\ jobs # <<>>
  /\ job' = [job EXCEPT ![w] = Head(jobs)]
  /\ jobs' = Tail(jobs)
  /\ at' = [at EXCEPT ![w] = "create"]
  /\ UNCHANGED <<caller, pc, k, buffer, closed, png, pngErr, encoder, snaps,
                 failed, outcome>>

Exit(w) ==
  /\ Started /\ at[w] = "idle" /\ jobs = <<>> /\ closed
  /\ at' = [at EXCEPT ![w] = "exited"]
  /\ UNCHANGED <<caller, pc, k, buffer, jobs, closed, job, png, pngErr,
                 encoder, snaps, failed, outcome>>

\* savePNG: creating the file, then encoding into it; either can fail, which
\* leaves no file or a part of one, and the worker goes on.
Create(w) ==
  /\ Started /\ at[w] = "create"
  /\ at' = [at EXCEPT ![w] = "encode"]
  /\ png' = [png EXCEPT ![job[w].path] = Partial]
  /\ UNCHANGED <<caller, pc, k, buffer, jobs, closed, job, pngErr, encoder,
                 snaps, failed, outcome>>

Save(w) ==
  /\ Started /\ at[w] = "encode"
  /\ png' = [png EXCEPT ![job[w].path] = job[w].pix]
  /\ job' = [job EXCEPT ![w] = None]
  /\ at' = [at EXCEPT ![w] = "idle"]
  /\ UNCHANGED <<caller, pc, k, buffer, jobs, closed, pngErr, encoder, snaps,
                 failed, outcome>>

\* Mutant: a worker tries a failed save again.
SaveRetries(w) ==
  /\ Started /\ at[w] \in {"create", "encode"}
  /\ pngErr' = TRUE
  /\ at' = [at EXCEPT ![w] = "create"]
  /\ UNCHANGED <<caller, pc, k, buffer, jobs, closed, job, png, encoder,
                 snaps, failed, outcome>>
SaveFails(w) ==
  /\ Started /\ at[w] \in {"create", "encode"}
  /\ pngErr' = TRUE
  /\ job' = [job EXCEPT ![w] = None]
  /\ at' = [at EXCEPT ![w] = "idle"]
  /\ UNCHANGED <<caller, pc, k, buffer, jobs, closed, png, encoder, snaps,
                 failed, outcome>>

Worker(w) == Take(w) \/ Exit(w) \/ Create(w) \/ Save(w) \/ SaveFails(w)

(***************************************************************************)
(* ffmpeg.                                                                 *)
(***************************************************************************)
Turns(from, to) ==
  /\ ffmpeg \in from /\ ffmpeg' = to
  /\ UNCHANGED <<caller, pc, k, buffer, jobs, closed, pool, piped, mp4, snaps,
                 failed, outcome>>
FfmpegDies == Turns({"running", "stalled"}, "dead")
FfmpegStalls == Turns({"running"}, "stalled")
FfmpegReads == Turns({"stalled"}, "running")

Returned == pc = "end" /\ UNCHANGED vars

Next == Main \/ (\E w \in Workers : Worker(w)) \/ FfmpegDies \/ FfmpegStalls
        \/ FfmpegReads \/ Returned

\* The Go scheduler runs every goroutine that can run. There is no timeout on a
\* write to ffmpeg: it is taken to read on in the end, and a write to move on
\* however often it stalls.
Fairness ==
  /\ SF_vars(Main) /\ WF_vars(FfmpegReads)
  /\ \A w \in Workers : WF_vars(Worker(w))

Spec == Init /\ [][Next]_vars
FairSpec == Spec /\ Fairness

(***************************************************************************)
(* Properties.                                                             *)
(***************************************************************************)
Queued(f) == \E i \in DOMAIN jobs : jobs[i].path = f
HeldBy(f, w) == at[w] \in {"create", "encode"} /\ job[w].path = f

\* Every frame handed over is somewhere: in the channel, with one worker, in
\* its file with its own picture, or its loss is on record; and it is in one
\* place only, so no two workers write one file.
FramesAccounted ==
  /\ pc \notin {"report", "write", "end"} =>
       \A f \in 0..(k - 1) :
         Queued(f) \/ (\E w \in Workers : HeldBy(f, w)) \/ png[f] = f \/ pngErr
  /\ \A f \in Frames, v, w \in Workers :
       HeldBy(f, v) => ~Queued(f) /\ (HeldBy(f, w) => v = w)

\* A run that returns no error leaves every frame as its own picture and, with
\* an encoder, an mp4 of all of them; a debug render has a snapshot of each.
SuccessIsComplete ==
  outcome = "ok" =>
    /\ \A f \in Frames : png[f] = f
    /\ snaps = Frames
    /\ Cli => mp4 = "whole" /\ piped = NFrames

\* The pipeline does what a render promises: in particular no worker writes
\* once the run has returned, which is what lets the caller remove the
\* directory.
Run == INSTANCE RenderRun
         WITH clears <- Cli,
              shown <- {f \in Frames : png[f] # Absent}
RunSpec == Run!Spec

\* A run ends: no send blocks for ever on a channel nobody drains, and no wait
\* on workers that never see the channel closed.
Terminates == <>(pc = "end")

\* app.go, of MP4Encoder.Start: it "returns (nil, nil) when ffmpeg is
\* unavailable so callers can render frames anyway".
RendersWithoutFfmpeg == outcome # "panic"
=============================================================================
