------------------------ MODULE FramePipelineProofs ------------------------
(***************************************************************************)
(* Proofs about the frame pipeline, for any number of frames and workers    *)
(* and any channel capacity: its types; that no frame is lost or written    *)
(* twice at once; that success is complete; that nobody writes after the    *)
(* run has returned.                                                        *)
(***************************************************************************)
EXTENDS FramePipeline, SequenceTheorems, TLAPS

USE DEF Cli

Working(w) == at[w] \in {"create", "encode"}

\* A frame is in the channel once, or with one worker, and before that the
\* loop has handed it over; every job holds the picture of its own frame.
JobsInOrder ==
  /\ \A i \in DOMAIN jobs : jobs[i].path < k /\ jobs[i].pix = jobs[i].path
  /\ \A i, j \in DOMAIN jobs : jobs[i].path = jobs[j].path => i = j
  /\ \A w \in Workers : Working(w) =>
       /\ job[w] # None /\ job[w].path < k /\ job[w].pix = job[w].path
       /\ \A i \in DOMAIN jobs : jobs[i].path # job[w].path
       /\ \A v \in Workers : Working(v) /\ job[v].path = job[w].path => v = w

\* A frame handed over is in the channel, with a worker, in its file with its
\* own picture, or a save has failed.
NoneLost ==
  pc \notin {"report", "write", "end"} =>
    \A f \in Frames : f < k =>
      Queued(f) \/ (\E w \in Workers : HeldBy(f, w)) \/ png[f] = f \/ pngErr

\* What the main goroutine's place says of the rest.
Progress ==
  /\ pc \in {"step", "pipe", "hand"} => k < NFrames /\ ~closed
  /\ pc \in {"close", "encode", "join"} => k = NFrames
  /\ pc \in {"begin", "start", "close"} => ~closed
  /\ pc \in {"begin", "start"} => k = 0 /\ jobs = <<>>
  /\ pc \in {"encode", "join", "abort"} => closed
  /\ pc \in {"begin", "start"} => \A w \in Workers : at[w] = "idle"
  /\ pc \in {"pipe", "hand"} => buffer = k /\ k \in snaps
  /\ \A f \in Frames : f < k => f \in snaps
  /\ piped \in Nat
  /\ pc \in {"begin", "start", "step", "pipe"} => piped = IF Cli THEN k ELSE 0
  /\ pc = "hand" => piped = IF Cli THEN k + 1 ELSE 0
  /\ pc \in {"close", "encode", "join"} => piped = IF Cli THEN k ELSE 0
  /\ pc \in {"begin", "start", "step", "pipe", "hand", "close", "encode"}
       => ffmpeg # "closed"
  /\ pc \in {"hand", "close", "encode"} /\ Cli => ffmpeg \in {"running", "stalled", "dead"}
  /\ pc = "join" /\ ~failed /\ Cli => mp4 = "whole"
  /\ pc # "end" => outcome = "running"
  /\ pc \in {"abort", "report", "write"} => failed
  /\ pc = "write" => Cli /\ \A f \in Frames : png[f] = Absent
  /\ outcome = "ok" => pc = "end" /\ closed
  /\ ~Cli => ffmpeg = "none"
  /\ pc \in {"report", "write", "end"} /\ closed /\ outcome # "panic" => Joined
  /\ \A w \in Workers : at[w] = "exited" => closed /\ jobs = <<>>

IInv == TypeOK /\ JobsInOrder /\ NoneLost /\ Progress /\ SuccessIsComplete

LEMMA FrameFacts ==
  /\ NFrames \in Nat /\ NFrames > 0
  /\ \A f \in Frames : f \in Nat /\ f < NFrames /\ f # Absent /\ f # Partial
  /\ \A n \in Nat : n < NFrames => n \in Frames
  /\ 0 \in Frames
  BY PipelineAssumption DEF Frames, Absent, Partial

LEMMA NoneIsNoJob == None \notin Jobs
  BY PipelineAssumption DEF Jobs, Frames

LEMMA InitIInv == Init => IInv
<1> SUFFICES ASSUME Init
             PROVE  IInv
  OBVIOUS
<1>1. jobs \in Seq(Jobs) /\ DOMAIN jobs = {} /\ Len(jobs) = 0
  BY EmptySeq DEF Init
<1>2. TypeOK
  <2>1. 0 \in 0..NFrames /\ 0 \in Frames /\ 0 <= Capacity
    BY FrameFacts, PipelineAssumption
  <2>2. /\ job \in [Workers -> Jobs \cup {None}]
        /\ at \in [Workers -> {"idle", "create", "encode", "exited"}]
        /\ png \in [Frames -> {Absent, Partial} \cup Frames]
    BY DEF Init
  <2> QED
    BY <1>1, <2>1, <2>2 DEF Init, TypeOK
<1>3. JobsInOrder /\ NoneLost
  BY <1>1, FrameFacts DEF Init, JobsInOrder, NoneLost, Working
<1>4. Progress /\ SuccessIsComplete
  BY FrameFacts DEF Init, Progress, SuccessIsComplete
<1> QED
  BY <1>2, <1>3, <1>4 DEF IInv

\* Jobs and files stay as they are while the main goroutine does other things.
LEMMA PoolUntouched ==
  ASSUME IInv, UNCHANGED <<k, jobs, pool>>,
         pc \in {"report", "write", "end"} => pc' \in {"report", "write", "end"}
  PROVE  JobsInOrder' /\ NoneLost'
<1>1. JobsInOrder'
  BY DEF IInv, JobsInOrder, Working, pool
<1>2. NoneLost'
  BY DEF IInv, NoneLost, Queued, HeldBy, pool
<1> QED
  BY <1>1, <1>2

(***************************************************************************)
(* The main goroutine keeps the invariant.                                 *)
(***************************************************************************)
LEMMA OpeningIInv ==
  ASSUME IInv, Begin \/ Start
  PROVE  IInv'
<1>1. TypeOK'
  <2>1. /\ pc' \in {"start", "step", "report"} /\ failed' \in BOOLEAN
        /\ ffmpeg' \in {"none", "running", "stalled", "dead", "closed"}
        /\ mp4' \in {"absent", "growing", "whole"}
    BY DEF Begin, Start, IInv, TypeOK, encoder
  <2>2. UNCHANGED <<caller, k, buffer, jobs, closed, pool, piped, snaps, outcome>>
    BY DEF Begin, Start, encoder
  <2> QED
    BY <2>1, <2>2 DEF IInv, TypeOK, pool
<1>2. JobsInOrder' /\ NoneLost'
  BY PoolUntouched DEF Begin, Start
<1>3. Progress'
  <2>1. CASE Begin
    BY <2>1, FrameFacts DEF Begin, IInv, TypeOK, Progress, Joined, pool
  <2>2. CASE Start
    BY <2>2, FrameFacts DEF Start, IInv, TypeOK, Progress, Joined, pool, encoder
  <2> QED
    BY <2>1, <2>2
<1>4. SuccessIsComplete'
  BY DEF Begin, Start, IInv, Progress, SuccessIsComplete
<1> QED
  BY <1>1, <1>2, <1>3, <1>4 DEF IInv

LEMMA LoopIInv ==
  ASSUME IInv, StepFrame \/ StepFails \/ Pipe \/ PipeFails \/ PipePanics
  PROVE  IInv'
<1>1. pc \in {"step", "pipe"} /\ k \in Frames /\ k < NFrames
  <2>1. pc \in {"step", "pipe"}  BY DEF StepFrame, StepFails, Pipe, PipeFails, PipePanics
  <2>2. k < NFrames  BY <2>1 DEF IInv, Progress
  <2>3. k \in 0..NFrames  BY DEF IInv, TypeOK
  <2> QED
    BY <2>1, <2>2, <2>3, FrameFacts
<1>2. TypeOK'
  <2>1. CASE StepFrame \/ StepFails
    BY <1>1, <2>1, FrameFacts DEF StepFrame, StepFails, IInv, TypeOK, pool, encoder
  <2>2. CASE Pipe
    BY <1>1, <2>2, FrameFacts DEF Pipe, HasSink, IInv, TypeOK, Progress, pool
  <2>3. CASE PipeFails \/ PipePanics
    BY <1>1, <2>3, FrameFacts DEF PipeFails, PipePanics, IInv, TypeOK, pool, encoder
  <2> QED
    BY <2>1, <2>2, <2>3
<1>3. JobsInOrder' /\ NoneLost'
  BY <1>1, PoolUntouched DEF StepFrame, StepFails, Pipe, PipeFails, PipePanics
<1>4. Progress'
  <2>1. CASE StepFrame
    BY <1>1, <2>1 DEF StepFrame, IInv, TypeOK, Progress, Joined, pool, encoder
  <2>2. CASE StepFails \/ PipeFails
    BY <1>1, <2>2
    DEF StepFails, PipeFails, IInv, TypeOK, Progress, Joined, pool, encoder
  <2>3. CASE Pipe
    BY <1>1, <2>3
    DEF Pipe, HasSink, NilStream, IInv, TypeOK, Progress, Joined, pool
  <2>4. CASE PipePanics
    BY <1>1, <2>4 DEF PipePanics, IInv, TypeOK, Progress, Joined, pool, encoder
  <2> QED
    BY <2>1, <2>2, <2>3, <2>4
<1>5. SuccessIsComplete'
  BY <1>1
  DEF StepFrame, StepFails, Pipe, PipeFails, PipePanics, IInv, Progress,
      SuccessIsComplete
<1> QED
  BY <1>2, <1>3, <1>4, <1>5 DEF IInv

LEMMA HandOffIInv ==
  ASSUME IInv, HandOff
  PROVE  IInv'
<1>1. pc = "hand" /\ k \in Frames /\ k < NFrames /\ buffer = k /\ ~closed
  BY FrameFacts DEF HandOff, IInv, TypeOK, Progress
<1> DEFINE j == JobOf(k)
<1>2. j \in Jobs /\ j.path = k /\ j.pix = k
  BY <1>1 DEF JobOf, Jobs
<1>3. jobs \in Seq(Jobs) /\ jobs' = Append(jobs, j) /\ Len(jobs) < Capacity
  BY DEF HandOff, Room, IInv, TypeOK
<1> HIDE DEF j
<1>4. /\ jobs' \in Seq(Jobs) /\ Len(jobs') = Len(jobs) + 1 /\ Len(jobs) \in Nat
      /\ DOMAIN jobs = 1..Len(jobs)
      /\ DOMAIN jobs' = DOMAIN jobs \cup {Len(jobs) + 1}
      /\ Len(jobs) + 1 \notin DOMAIN jobs
      /\ \A i \in DOMAIN jobs : jobs'[i] = jobs[i]
      /\ jobs'[Len(jobs) + 1] = j
  BY <1>2, <1>3, AppendProperties, LenProperties
<1>5. k' = k + 1 /\ k' \in 0..NFrames
  BY <1>1, FrameFacts DEF HandOff, IInv, TypeOK
<1>6. TypeOK'
  <2>1. Len(jobs') <= Capacity
    BY <1>3, <1>4, PipelineAssumption
  <2> QED
    BY <1>4, <1>5, <2>1 DEF HandOff, IInv, TypeOK, pool, encoder
<1>7. JobsInOrder'
  <2>1. \A i \in DOMAIN jobs : jobs[i].path \in Nat /\ jobs[i].path < k
    <3>1. \A i \in DOMAIN jobs : jobs[i] \in Jobs
      BY <1>3, <1>4
    <3> QED
      BY <3>1, FrameFacts DEF IInv, JobsInOrder, Jobs
  <2>2. \A w \in Workers : Working(w) => job[w].path \in Nat /\ job[w].path < k
    <3>1. \A w \in Workers : Working(w) => job[w] \in Jobs
      BY DEF IInv, TypeOK, JobsInOrder
    <3> QED
      BY <3>1, FrameFacts DEF IInv, JobsInOrder, Jobs
  <2>3. \A w \in Workers : Working(w)' = Working(w) /\ job'[w] = job[w]
    BY DEF HandOff, pool, Working
  <2>4. \A i \in DOMAIN jobs' : jobs'[i].path < k' /\ jobs'[i].pix = jobs'[i].path
    BY <1>1, <1>2, <1>4, <1>5, <2>1, FrameFacts DEF IInv, JobsInOrder
  <2>5. \A i, m \in DOMAIN jobs' : jobs'[i].path = jobs'[m].path => i = m
    BY <1>2, <1>4, <2>1, FrameFacts DEF IInv, JobsInOrder
  <2>6. ASSUME NEW w \in Workers, Working(w)
        PROVE  /\ job[w] # None /\ job[w].path < k' /\ job[w].pix = job[w].path
               /\ \A i \in DOMAIN jobs' : jobs'[i].path # job[w].path
               /\ \A v \in Workers :
                    Working(v) /\ job[v].path = job[w].path => v = w
    BY <1>1, <1>2, <1>4, <1>5, <2>2, <2>6, FrameFacts DEF IInv, JobsInOrder
  <2> QED
    BY <2>3, <2>4, <2>5, <2>6 DEF JobsInOrder
<1>8. NoneLost'
  <2> SUFFICES ASSUME NEW f \in Frames, f < k + 1
               PROVE  \/ \E i \in DOMAIN jobs' : jobs'[i].path = f
                      \/ \E w \in Workers : HeldBy(f, w)
                      \/ png[f] = f \/ pngErr
    BY <1>5 DEF HandOff, pool, NoneLost, Queued, HeldBy
  <2>1. CASE f = k
    BY <1>2, <1>4, <2>1
  <2>2. CASE f < k
    BY <1>1, <1>4, <2>2 DEF IInv, NoneLost, Queued
  <2> QED
    BY <1>1, <2>1, <2>2, FrameFacts
<1>9. Progress'
  BY <1>1, <1>5, FrameFacts
  DEF HandOff, IInv, TypeOK, Progress, Joined, pool, encoder
<1>10. SuccessIsComplete'
  BY <1>1 DEF HandOff, IInv, Progress, SuccessIsComplete
<1> QED
  BY <1>6, <1>7, <1>8, <1>9, <1>10 DEF IInv

LEMMA ClosingIInv ==
  ASSUME IInv, CloseJobs \/ Abort \/ Encode
  PROVE  IInv'
<1>1. TypeOK'
  <2>1. CASE CloseJobs
    BY <2>1 DEF CloseJobs, IInv, TypeOK, pool, encoder
  <2>2. CASE Abort
    BY <2>2 DEF Abort, IInv, TypeOK, pool, encoder
  <2>3. CASE Encode
    BY <2>3 DEF Encode, IInv, TypeOK, pool, encoder
  <2> QED
    BY <2>1, <2>2, <2>3
<1>2. JobsInOrder' /\ NoneLost'
  BY PoolUntouched DEF CloseJobs, Abort, Encode
<1>3. Progress'
  <2>1. CASE CloseJobs
    BY <2>1 DEF CloseJobs, IInv, TypeOK, Progress, Joined, pool, encoder
  <2>2. CASE Abort
    BY <2>2 DEF Abort, IInv, TypeOK, Progress, Joined, pool
  <2>3. CASE Encode
    BY <2>3 DEF Encode, IInv, TypeOK, Progress, Joined, pool
  <2> QED
    BY <2>1, <2>2, <2>3
<1>4. SuccessIsComplete'
  BY DEF CloseJobs, Abort, Encode, IInv, Progress, SuccessIsComplete, pool, encoder
<1> QED
  BY <1>1, <1>2, <1>3, <1>4 DEF IInv

\* ffmpeg neither starts nor closes by itself, and touches nothing of the run's.
LEMMA FfmpegTurns ==
  ASSUME IInv, FfmpegDies \/ FfmpegStalls \/ FfmpegReads
  PROVE  /\ ffmpeg \in {"running", "stalled"}
         /\ ffmpeg' \in {"running", "stalled", "dead"}
         /\ UNCHANGED <<caller, pc, k, buffer, jobs, closed, pool, piped, mp4, snaps,
                        failed, outcome>>
<1>1. CASE FfmpegDies
  BY <1>1, Zenon DEF FfmpegDies, Turns
<1>2. CASE FfmpegStalls
  BY <1>2, Zenon DEF FfmpegStalls, Turns
<1>3. CASE FfmpegReads
  BY <1>3, Zenon DEF FfmpegReads, Turns
<1> QED
  BY <1>1, <1>2, <1>3

LEMMA FfmpegIInv ==
  ASSUME IInv, FfmpegDies \/ FfmpegStalls \/ FfmpegReads
  PROVE  IInv'
<1> USE FfmpegTurns
<1>1. TypeOK'
  BY DEF IInv, TypeOK, pool
<1>2. JobsInOrder' /\ NoneLost'
  BY PoolUntouched
<1>3. Progress'
  BY DEF IInv, Progress, Joined, pool
<1>4. SuccessIsComplete'
  BY DEF IInv, SuccessIsComplete, pool
<1> QED
  BY <1>1, <1>2, <1>3, <1>4 DEF IInv

\* Once every worker has exited, nothing is queued or held.
LEMMA JoinedDrained ==
  ASSUME IInv, Joined
  PROVE  /\ jobs = <<>> /\ \A f : ~Queued(f)
         /\ \A f, w : w \in Workers => ~HeldBy(f, w)
<1>1. jobs = <<>>
  BY PipelineAssumption DEF Joined, IInv, Progress
<1> QED
  BY <1>1 DEF Joined, Queued, HeldBy

LEMMA JoinIInv ==
  ASSUME IInv, Join
  PROVE  IInv'
<1>1. TypeOK'
  BY DEF Join, IInv, TypeOK, pool, encoder
<1>2. JobsInOrder' /\ NoneLost'
  BY PoolUntouched DEF Join
<1>3. Progress'
  BY DEF Join, IInv, TypeOK, Progress, Joined, pool, encoder
<1>4. SuccessIsComplete'
  <2> SUFFICES ASSUME outcome' = "ok"
               PROVE  /\ \A f \in Frames : png[f] = f
                      /\ snaps = Frames
                      /\ Cli => mp4 = "whole" /\ piped = NFrames
    BY DEF SuccessIsComplete, Join, pool, encoder
  <2>1. pc = "join" /\ Joined /\ ~failed /\ ~pngErr /\ k = NFrames
    BY DEF Join, IInv, Progress
  <2>2. \A f \in Frames : png[f] = f
    BY <2>1, JoinedDrained, FrameFacts DEF IInv, NoneLost
  <2>3. snaps = Frames
    BY <2>1, FrameFacts DEF IInv, TypeOK, Progress
  <2>4. Cli => mp4 = "whole" /\ piped = NFrames
    BY <2>1 DEF IInv, Progress
  <2> QED
    BY <2>2, <2>3, <2>4
<1> QED
  BY <1>1, <1>2, <1>3, <1>4 DEF IInv

LEMMA ReportIInv ==
  ASSUME IInv, Report \/ WriteError
  PROVE  IInv'
<1>1. pc \in {"report", "write"} /\ pc' \in {"write", "end"}
  BY DEF Report, WriteError
<1>2. TypeOK'
  <2>1. CASE Report
    <3>1. /\ png' \in [Frames -> {Absent, Partial} \cup Frames]
          /\ mp4' \in {"absent", "growing", "whole"}
      BY <2>1 DEF Report, Remove, IInv, TypeOK
    <3> QED
      BY <2>1, <3>1 DEF Report, IInv, TypeOK
  <2>2. CASE WriteError
    BY <2>2 DEF WriteError, IInv, TypeOK, pool, encoder
  <2> QED
    BY <2>1, <2>2
<1>3. JobsInOrder'
  BY DEF Report, WriteError, IInv, JobsInOrder, Working, pool
<1>4. NoneLost'
  BY <1>1 DEF NoneLost
<1>5. Progress'
  <2>1. CASE Report
    BY <2>1 DEF Report, Remove, IInv, TypeOK, Progress, Joined
  <2>2. CASE WriteError
    BY <2>2 DEF WriteError, IInv, TypeOK, Progress, Joined, pool, encoder
  <2> QED
    BY <2>1, <2>2
<1>6. SuccessIsComplete'
  BY <1>1 DEF Report, WriteError, IInv, Progress, SuccessIsComplete
<1> QED
  BY <1>2, <1>3, <1>4, <1>5, <1>6 DEF IInv

(***************************************************************************)
(* The workers keep the invariant.                                         *)
(***************************************************************************)

\* While a worker can take a step the run is under way.
LEMMA WorkerRuns ==
  ASSUME IInv, NEW w \in Workers, Started, at[w] # "exited"
  PROVE  outcome = "running" /\ pc \notin {"begin", "start", "report", "write", "end"}
  BY DEF IInv, TypeOK, Progress, Started, Joined

LEMMA TakeIInv ==
  ASSUME IInv, NEW w \in Workers, Take(w)
  PROVE  IInv'
<1>1. jobs \in Seq(Jobs) /\ jobs # <<>> /\ jobs' = Tail(jobs) /\ at[w] = "idle"
  BY DEF Take, IInv, TypeOK
<1> DEFINE j == Head(jobs)
<1>2. /\ jobs' \in Seq(Jobs) /\ Len(jobs') = Len(jobs) - 1 /\ Len(jobs) \in Nat
      /\ Len(jobs) > 0
      /\ DOMAIN jobs = 1..Len(jobs) /\ DOMAIN jobs' = 1..(Len(jobs) - 1)
      /\ \A i \in DOMAIN jobs' : jobs'[i] = jobs[i + 1] /\ i + 1 \in DOMAIN jobs
      /\ j = jobs[1] /\ 1 \in DOMAIN jobs /\ j \in Jobs
  BY <1>1, HeadTailProperties, LenProperties, EmptySeq
<1>3. \A i \in DOMAIN jobs : i = 1 \/ (i - 1 \in DOMAIN jobs' /\ jobs'[i - 1] = jobs[i])
  BY <1>2
<1> HIDE DEF j
<1>4. /\ job' = [job EXCEPT ![w] = j] /\ at' = [at EXCEPT ![w] = "create"]
      /\ job \in [Workers -> Jobs \cup {None}]
      /\ at \in [Workers -> {"idle", "create", "encode", "exited"}]
      /\ UNCHANGED <<caller, pc, k, buffer, closed, png, pngErr, encoder, snaps, failed,
                     outcome>>
  BY DEF Take, IInv, TypeOK, j
<1>5. TypeOK'
  <2>1. Len(jobs') <= Capacity
    BY <1>2, PipelineAssumption DEF IInv, TypeOK
  <2> QED
    BY <1>2, <1>4, <2>1 DEF IInv, TypeOK, encoder
<1>6. \A v \in Workers : v # w => Working(v)' = Working(v) /\ job'[v] = job[v]
  BY <1>4 DEF Working
<1>7. ~Working(w) /\ job'[w] = j
  BY <1>1, <1>4 DEF Working
<1>8. JobsInOrder'
  <2>1. /\ \A i \in DOMAIN jobs' : jobs'[i].path < k /\ jobs'[i].pix = jobs'[i].path
        /\ \A i, m \in DOMAIN jobs' : jobs'[i].path = jobs'[m].path => i = m
    BY <1>2 DEF IInv, JobsInOrder
  <2>2. j # None /\ j.path < k /\ j.pix = j.path
    BY <1>2, NoneIsNoJob DEF IInv, JobsInOrder
  <2>3. \A i \in DOMAIN jobs' : jobs'[i].path # j.path
    BY <1>2 DEF IInv, JobsInOrder
  <2>4. \A v \in Workers : Working(v) => job[v].path # j.path
    BY <1>2 DEF IInv, JobsInOrder
  <2>5. \A v \in Workers : v # w /\ Working(v) =>
          /\ job[v] # None /\ job[v].path < k /\ job[v].pix = job[v].path
          /\ \A i \in DOMAIN jobs' : jobs'[i].path # job[v].path
          /\ \A u \in Workers : Working(u) /\ job[u].path = job[v].path => u = v
    BY <1>2 DEF IInv, JobsInOrder
  <2>6. k' = k
    BY <1>4
  <2> QED
    BY <1>6, <1>7, <2>1, <2>2, <2>3, <2>4, <2>5, <2>6 DEF JobsInOrder
<1>9. NoneLost'
  <2> SUFFICES ASSUME NEW f \in Frames, f < k,
                      pc \notin {"report", "write", "end"}
               PROVE  \/ \E i \in DOMAIN jobs' : jobs'[i].path = f
                      \/ \E v \in Workers : HeldBy(f, v)'
                      \/ png[f] = f \/ pngErr
    BY <1>4 DEF NoneLost, Queued
  <2>1. CASE Queued(f)
    <3>1. PICK i \in DOMAIN jobs : jobs[i].path = f
      BY <2>1 DEF Queued
    <3>2. CASE i = 1
      <4>1. at'[w] = "create" /\ job'[w].path = f
        BY <1>2, <1>4, <3>1, <3>2
      <4> QED
        BY <4>1 DEF HeldBy
    <3>3. CASE i # 1
      BY <1>3, <3>1, <3>3
    <3> QED
      BY <3>2, <3>3
  <2>2. CASE \E v \in Workers : HeldBy(f, v)
    <3>1. PICK v \in Workers : HeldBy(f, v)
      BY <2>2
    <3>2. v # w
      BY <1>1, <3>1 DEF HeldBy
    <3> QED
      BY <1>4, <3>1, <3>2 DEF HeldBy
  <2> QED
    BY <2>1, <2>2 DEF IInv, NoneLost
<1>10. /\ outcome = "running"
       /\ pc \notin {"begin", "start", "report", "write", "end"}
  BY <1>1, WorkerRuns DEF Take
<1>11. Progress'
  <2>1. \A v \in Workers : at'[v] = "exited" => at[v] = "exited"
    BY <1>4
  <2>2. \A v \in Workers : at[v] # "exited"
    BY <1>1 DEF IInv, Progress
  <2> QED
    BY <1>4, <1>10, <2>1, <2>2 DEF IInv, Progress, encoder
<1>12. SuccessIsComplete'
  BY <1>4, <1>10 DEF SuccessIsComplete
<1> QED
  BY <1>5, <1>8, <1>9, <1>11, <1>12 DEF IInv

LEMMA ExitIInv ==
  ASSUME IInv, NEW w \in Workers, Exit(w)
  PROVE  IInv'
<1>1. /\ outcome = "running"
      /\ pc \notin {"begin", "start", "report", "write", "end"}
  BY WorkerRuns DEF Exit
<1>2. TypeOK'
  BY DEF Exit, IInv, TypeOK, encoder
<1>3. JobsInOrder'
  BY DEF Exit, IInv, TypeOK, JobsInOrder, Working
<1>4. NoneLost'
  BY DEF Exit, IInv, TypeOK, NoneLost, Queued, HeldBy
<1>5. Progress'
  BY <1>1 DEF Exit, IInv, TypeOK, Progress, encoder
<1>6. SuccessIsComplete'
  BY <1>1 DEF Exit, SuccessIsComplete
<1> QED
  BY <1>2, <1>3, <1>4, <1>5, <1>6 DEF IInv

LEMMA SavingIInv ==
  ASSUME IInv, NEW w \in Workers, Create(w) \/ Save(w) \/ SaveFails(w)
  PROVE  IInv'
<1>1. Working(w) /\ Started
  BY DEF Create, Save, SaveFails, Working
<1>2. /\ outcome = "running"
      /\ pc \notin {"begin", "start", "report", "write", "end"}
  BY <1>1, WorkerRuns DEF Working
<1>3. /\ job[w] \in Jobs /\ job[w].path \in Frames /\ job[w].pix = job[w].path
      /\ job[w].path < k
      /\ \A f \in Frames, v \in Workers : HeldBy(f, v) /\ HeldBy(f, w) => v = w
  BY <1>1 DEF IInv, TypeOK, JobsInOrder, Jobs, HeldBy, Working
<1>4. TypeOK'
  <2>1. CASE Create(w)
    BY <1>3, <2>1 DEF Create, IInv, TypeOK, encoder
  <2>2. CASE Save(w)
    BY <1>3, <2>2 DEF Save, IInv, TypeOK, encoder
  <2>3. CASE SaveFails(w)
    BY <2>3 DEF SaveFails, IInv, TypeOK, encoder
  <2> QED
    BY <2>1, <2>2, <2>3
<1>5. JobsInOrder'
  <2>1. UNCHANGED <<k, jobs>>
    BY DEF Create, Save, SaveFails
  <2>2. \A v \in Workers : Working(v)' => Working(v) /\ job'[v] = job[v]
    BY <1>1 DEF Create, Save, SaveFails, IInv, TypeOK, Working
  <2> QED
    BY <2>1, <2>2 DEF IInv, JobsInOrder
<1>6. NoneLost'
  <2>1. CASE Create(w)
    <3>1. /\ at' = [at EXCEPT ![w] = "encode"] /\ job' = job
          /\ png' = [png EXCEPT ![job[w].path] = Partial]
          /\ UNCHANGED <<caller, pc, k, jobs, pngErr>>
      BY <2>1 DEF Create
    <3>2. \A f, v : v \in Workers => (HeldBy(f, v)' = HeldBy(f, v))
      BY <1>1, <3>1 DEF HeldBy, IInv, TypeOK, Working
    <3>3. \A f \in Frames : png'[f] = png[f] \/ HeldBy(f, w)
      BY <1>1, <3>1 DEF HeldBy, IInv, TypeOK, Working
    <3> QED
      BY <3>1, <3>2, <3>3 DEF IInv, NoneLost, Queued
  <2>2. CASE Save(w)
    <3>1. /\ at' = [at EXCEPT ![w] = "idle"] /\ job' = [job EXCEPT ![w] = None]
          /\ png' = [png EXCEPT ![job[w].path] = job[w].path]
          /\ UNCHANGED <<caller, pc, k, jobs, pngErr>>
      BY <1>3, <2>2 DEF Save
    <3>2. \A f, v : v \in Workers /\ v # w => (HeldBy(f, v)' = HeldBy(f, v))
      BY <3>1 DEF HeldBy, IInv, TypeOK
    <3>3. \A f \in Frames : HeldBy(f, w) => png'[f] = f
      BY <1>3, <3>1 DEF HeldBy, IInv, TypeOK
    <3>4. \A f \in Frames : png[f] = f => png'[f] = f
      BY <3>1 DEF IInv, TypeOK
    <3> QED
      BY <3>1, <3>2, <3>3, <3>4 DEF IInv, NoneLost, Queued
  <2>3. CASE SaveFails(w)
    BY <2>3 DEF SaveFails, NoneLost
  <2> QED
    BY <2>1, <2>2, <2>3
<1>7. Progress'
  <2>1. \A v \in Workers : at'[v] = "exited" => at[v] = "exited"
    BY DEF Create, Save, SaveFails, IInv, TypeOK
  <2>2. UNCHANGED <<caller, pc, k, buffer, jobs, closed, encoder, snaps, failed, outcome>>
    BY DEF Create, Save, SaveFails
  <2> QED
    BY <1>2, <2>1, <2>2 DEF IInv, Progress, encoder
<1>8. SuccessIsComplete'
  BY <1>2 DEF Create, Save, SaveFails, SuccessIsComplete
<1> QED
  BY <1>4, <1>5, <1>6, <1>7, <1>8 DEF IInv

LEMMA NextIInv == IInv /\ [Next]_vars => IInv'
<1> SUFFICES ASSUME IInv, [Next]_vars
             PROVE  IInv'
  OBVIOUS
<1>1. CASE Main
  BY <1>1, OpeningIInv, LoopIInv, HandOffIInv, ClosingIInv, JoinIInv, ReportIInv
  DEF Main
<1>2. ASSUME NEW w \in Workers, Worker(w)
      PROVE  IInv'
  BY <1>2, TakeIInv, ExitIInv, SavingIInv DEF Worker
<1>3. CASE FfmpegDies \/ FfmpegStalls \/ FfmpegReads
  BY <1>3, FfmpegIInv
<1>4. CASE UNCHANGED vars
  <2>1. TypeOK'
    BY <1>4 DEF IInv, TypeOK, vars
  <2>2. JobsInOrder' /\ NoneLost'
    BY <1>4 DEF IInv, JobsInOrder, NoneLost, Working, Queued, HeldBy, vars
  <2>3. Progress' /\ SuccessIsComplete'
    BY <1>4 DEF IInv, Progress, Joined, SuccessIsComplete, vars
  <2> QED
    BY <2>1, <2>2, <2>3 DEF IInv
<1> QED
  BY <1>1, <1>2, <1>3, <1>4 DEF Next, Returned

LEMMA Inductive == Spec => []IInv
BY InitIInv, NextIInv, PTL DEF Spec

(***************************************************************************)
(* The theorems.                                                           *)
(***************************************************************************)

\* Every state of a render has its types; in particular the channel never
\* holds more than its capacity and no frame past the last is drawn.
THEOREM Typing == Spec => []TypeOK
<1>1. IInv => TypeOK
  BY DEF IInv
<1> QED
  BY <1>1, Inductive, PTL

\* No frame handed over is lost without an error on record, and none is in two
\* hands, for any number of workers racing on the channel.
THEOREM Conservation == Spec => []FramesAccounted
<1>1. IInv => FramesAccounted
  <2> SUFFICES ASSUME IInv
               PROVE  FramesAccounted
    OBVIOUS
  <2>1. ASSUME pc \notin {"report", "write", "end"}, NEW f \in 0..(k - 1)
        PROVE  \/ Queued(f) \/ (\E w \in Workers : HeldBy(f, w))
               \/ png[f] = f \/ pngErr
    <3>1. f \in Frames /\ f < k
      BY <2>1, FrameFacts DEF IInv, TypeOK
    <3> QED
      BY <2>1, <3>1 DEF IInv, NoneLost
  <2>2. ASSUME NEW f \in Frames, NEW v \in Workers, NEW w \in Workers, HeldBy(f, v)
        PROVE  ~Queued(f) /\ (HeldBy(f, w) => v = w)
    BY <2>2 DEF IInv, JobsInOrder, Working, HeldBy, Queued
  <2> QED
    BY <2>1, <2>2 DEF FramesAccounted
<1> QED
  BY <1>1, Inductive, PTL

\* A render that returns no error has left every frame's own picture and, with
\* an encoder, the whole mp4.
THEOREM Completeness == Spec => []SuccessIsComplete
<1>1. IInv => SuccessIsComplete
  BY DEF IInv
<1> QED
  BY <1>1, Inductive, PTL

(***************************************************************************)
(* Refinement.                                                             *)
(***************************************************************************)
Shown == {f \in Frames : png[f] # Absent}
RunStep == [Run!Next]_<<Cli, outcome, Shown>>

LEMMA CallerStays == ASSUME [Next]_vars PROVE caller' = caller
  BY DEF Next, Main, Begin, Start, StepFrame, StepFails, Pipe, PipeFails,
         PipePanics, HandOff, CloseJobs, Abort, Encode, Join, Report, WriteError,
         Worker, Take, Exit, Create, Save, SaveFails, Turns, FfmpegDies, FfmpegStalls,
         FfmpegReads, Returned, vars

\* A worker only ever adds to the files there are.
LEMMA WorkerShows ==
  ASSUME IInv, NEW w \in Workers, Worker(w), caller' = caller
  PROVE  RunStep
<1>1. CASE Take(w) \/ Exit(w) \/ SaveFails(w)
  BY <1>1 DEF Take, Exit, SaveFails, RunStep, Shown
<1>2. CASE Create(w) \/ Save(w)
  <2>1. outcome = "running" /\ outcome' = outcome
    BY <1>2, WorkerRuns DEF Create, Save
  <2>2. Working(w) /\ job[w] \in Jobs
    BY <1>2 DEF Create, Save, Working, IInv, TypeOK, JobsInOrder
  <2>3. job[w].path \in Frames /\ job[w].pix # Absent /\ Partial # Absent
    BY <2>2, FrameFacts DEF Jobs, Absent, Partial
  <2>4. \A f \in Frames : png[f] # Absent => png'[f] # Absent
    BY <1>2, <2>3 DEF Create, Save, IInv, TypeOK
  <2>5. Shown \subseteq Shown'
    BY <2>4 DEF Shown
  <2>6. Run!Show
    BY <2>1, <2>5 DEF Run!Show, Shown
  <2> QED
    BY <2>6 DEF RunStep, Run!Next
<1> QED
  BY <1>1, <1>2 DEF Worker

\* The steps of the main goroutine at which the run's outcome is decided or
\* its directory cleared.
LEMMA MainShows ==
  ASSUME IInv, IInv', Main, caller' = caller
  PROVE  RunStep
<1>1. CASE \/ Begin \/ Start \/ StepFrame \/ StepFails \/ Pipe \/ PipeFails
           \/ HandOff \/ CloseJobs \/ Abort \/ Encode
  BY <1>1 DEF Begin, Start, StepFrame, StepFails, Pipe, PipeFails, HandOff,
    CloseJobs, Abort, Encode, pool, RunStep, Shown
<1>2. CASE PipePanics
  <2>1. Run!Crash
    BY <1>2 DEF PipePanics, IInv, Progress, Run!Crash, pool
  <2> QED
    BY <2>1 DEF RunStep, Run!Next
<1>3. CASE Join
  <2>1. CASE outcome' = outcome
    BY <1>3, <2>1 DEF Join, RunStep, Shown, pool
  <2>2. CASE outcome' = "ok"
    <3>1. outcome = "running" /\ png' = png
      BY <1>3 DEF Join, IInv, Progress, pool
    <3>2. \A f \in Frames : png[f] = f /\ f # Absent
      BY <2>2, <3>1, FrameFacts DEF IInv, SuccessIsComplete
    <3>3. Run!Succeed
      BY <2>2, <3>1, <3>2 DEF Run!Succeed
    <3> QED
      BY <3>3 DEF RunStep, Run!Next
  <2> QED
    BY <1>3, <2>1, <2>2 DEF Join
<1>4. CASE Report
  <2>1. outcome = "running"
    BY <1>4 DEF Report, IInv, Progress
  <2>2. CASE Cli /\ outcome' = outcome
    <3>1. \A f \in Frames : png'[f] = Absent
      BY <1>4, <2>1, <2>2 DEF Report, Remove
    <3>2. Run!Drop
      BY <2>1, <2>2, <3>1 DEF Run!Drop
    <3> QED
      BY <3>2 DEF RunStep, Run!Next
  <2>3. CASE Cli /\ outcome' = "unreported"
    <3>1. PICK kept \in SUBSET Frames, video \in {mp4, "absent"} : Remove(kept, video)
      BY <1>4, <2>1, <2>3 DEF Report
    <3>2. Shown' \subseteq Shown
      BY <3>1 DEF Remove, Shown
    <3>3. Run!FailTwice
      BY <2>1, <2>3, <3>2 DEF Run!FailTwice, Shown
    <3> QED
      BY <3>3 DEF RunStep, Run!Next
  <2>4. CASE ~Cli
    <3>1. Run!Fail
      BY <1>4, <2>1, <2>4 DEF Report, Run!Fail
    <3> QED
      BY <3>1 DEF RunStep, Run!Next
  <2> QED
    BY <1>4, <2>2, <2>3, <2>4 DEF Report
<1>5. CASE WriteError
  <2>1. /\ outcome = "running" /\ png' = png /\ Cli
        /\ \A f \in Frames : png[f] = Absent
    BY <1>5 DEF WriteError, IInv, Progress, pool
  <2>2. Run!Fail \/ Run!FailTwice
    BY <1>5, <2>1 DEF WriteError, Run!Fail, Run!FailTwice
  <2> QED
    BY <2>2 DEF RunStep, Run!Next
<1> QED
  BY <1>1, <1>2, <1>3, <1>4, <1>5 DEF Main

\* The pipeline keeps the promise of RenderRun whatever its workers race to:
\* an error clears the caller's directory only when nobody is left to write
\* there, and success shows every frame.
THEOREM Refinement == Spec => RunSpec
<1>1. Init => Run!Init
  BY DEF Init, Run!Init
<1>2. ASSUME IInv, IInv', [Next]_vars
      PROVE  RunStep
  <2>0. caller' = caller
    BY <1>2, CallerStays
  <2>1. CASE Main
    BY <1>2, <2>0, <2>1, MainShows
  <2>2. CASE \E w \in Workers : Worker(w)
    BY <1>2, <2>0, <2>2, WorkerShows
  <2>3. CASE FfmpegDies \/ FfmpegStalls \/ FfmpegReads
    BY <1>2, <2>0, <2>3, FfmpegTurns DEF pool, RunStep, Shown
  <2>4. CASE UNCHANGED vars
    BY <2>4 DEF vars, pool, RunStep, Shown
  <2> QED
    BY <1>2, <2>1, <2>2, <2>3, <2>4 DEF Next, Returned
<1>3. RunStep => [Run!Next]_<<Cli, outcome, {f \in Frames : png[f] # Absent}>>
  BY DEF RunStep, Shown
<1> QED
  BY <1>1, <1>2, <1>3, Inductive, PTL DEF Spec, RunSpec, Run!Spec
=============================================================================
