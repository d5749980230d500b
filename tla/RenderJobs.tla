----------------------------- MODULE RenderJobs -----------------------------
(***************************************************************************)
(* POST /render of internal/web/server.go with its job rows                *)
(* (internal/jobs/store.go), its encoder (internal/web/mp4.go) and the     *)
(* cleaner (internal/jobs/cleaner.go), over restarts of the server.        *)
(*                                                                         *)
(* Each request is a handler goroutine and a render goroutine. The row is  *)
(* written with the request's context, so its statements fail once the     *)
(* client is gone; every result of them but the insertion's is ignored.    *)
(* Ages stop counting once they are past the retention, so time has no     *)
(* end. A file is modelled by whose request it is.                         *)
(***************************************************************************)
EXTENDS Integers, FiniteSets

CONSTANTS
  Requests,   \* the requests, and the ids of their jobs
  None,       \* no row, no directory
  Retention,  \* config.Retention, in ticks
  Timeout,    \* renderTimeout, in ticks
  Limit,      \* how many expired jobs one sweep lists (200 in the code)
  Faults,     \* what may go wrong: "abort", "db", "io", "crash"
  MaxBoots    \* bound: processes the server is started as

Old == Retention + 1
Ages == 0..Old

Rows == [state : {"running", "encoding", "completed", "failed"},
         owner : 0..MaxBoots]
NoOwner == 0

ASSUME JobsAssumption ==
  /\ Retention \in Nat \ {0} /\ Timeout \in Nat \ {0}
  /\ Limit \in Nat \ {0} /\ MaxBoots \in Nat \ {0}
  /\ IsFiniteSet(Requests)
  /\ None \notin Ages /\ None \notin Requests /\ None \notin Rows
  /\ Faults \subseteq {"abort", "db", "io", "crash"}

VARIABLES
  boot,      \* the process, and so the worker id of its store
  up,        \* it runs
  pc,        \* where each handler is
  gone,      \* the request's context is cancelled: its client went away, or
             \* its handler has returned
  row,       \* each job's row: its status with its stage, and its lease owner
  finished,  \* the order of completed_at: each job's place, 0 while it is NULL
  age,       \* how long ago that was
  video,     \* videos/{id}.mp4: "none", "tmp" (its temporary file) or "file"
  debug,     \* debug/{id}: "none", "partial" or "whole" (vars.json is there)
  work,      \* the age of the request's work directory
  waited,    \* how long the handler has waited for its render
  render,    \* the render goroutine: "idle" (also once its result was taken),
             \* "running", "ok" or "failed"
  janitor,   \* a goroutine is left to remove the work directory
  reply,     \* "none", "video" or "error"
  sweep      \* the cleaner: its place, its job and the jobs it has left

dirs == <<video, debug, work>>
rows == <<row, finished, age>>
vars == <<boot, up, pc, gone, rows, dirs, waited, render, janitor, reply, sweep>>

InFlight == {"insert", "read", "mkdir", "wait", "fail", "stage", "encode",
             "encoding", "complete", "debug", "vars", "reply", "cleanup"}
Sweep(at, job, left) == [at |-> at, job |-> job, left |-> left]
Resting == Sweep("rest", None, {})

TypeOK ==
  /\ boot \in 1..MaxBoots /\ up \in BOOLEAN
  /\ pc \in [Requests -> InFlight \cup {"unsent", "end", "lost"}]
  /\ gone \in [Requests -> BOOLEAN] /\ janitor \in [Requests -> BOOLEAN]
  /\ row \in [Requests -> Rows \cup {None}]
  /\ finished \in [Requests -> Nat] /\ age \in [Requests -> Ages]
  /\ video \in [Requests -> {"none", "tmp", "file"}]
  /\ debug \in [Requests -> {"none", "partial", "whole"}]
  /\ work \in [Requests -> Ages \cup {None}]
  /\ waited \in [Requests -> 0..Timeout]
  /\ render \in [Requests -> {"idle", "running", "ok", "failed"}]
  /\ reply \in [Requests -> {"none", "video", "error"}]
  /\ sweep \in [at : {"rest", "video", "debug", "row", "work"},
               job : Requests \cup {None}, left : SUBSET Requests]
  /\ sweep.at \in {"video", "debug", "row"} <=> sweep.job # None

Init ==
  /\ boot = 1 /\ up = TRUE
  /\ pc = [r \in Requests |-> "unsent"]
  /\ gone = [r \in Requests |-> FALSE]
  /\ row = [r \in Requests |-> None]
  /\ finished = [r \in Requests |-> 0] /\ age = [r \in Requests |-> 0]
  /\ video = [r \in Requests |-> "none"]
  /\ debug = [r \in Requests |-> "none"]
  /\ work = [r \in Requests |-> None]
  /\ waited = [r \in Requests |-> 0]
  /\ render = [r \in Requests |-> "idle"]
  /\ janitor = [r \in Requests |-> FALSE]
  /\ reply = [r \in Requests |-> "none"]
  /\ sweep = Resting

(***************************************************************************)
(* The store.                                                              *)
(***************************************************************************)
\* A statement run with the request's context fails once that is cancelled.
CanFail(r) == gone[r] \/ "db" \in Faults
CanRun(r) == ~gone[r]

\* The rows this process may still settle.
Leased(r) ==
  row[r] # None /\ row[r].state \in {"running", "encoding"} /\ row[r].owner = boot

Updated(r, state) ==
  IF Leased(r) THEN [row EXCEPT ![r] = [@ EXCEPT !.state = state]] ELSE row

Done == {r \in Requests : finished[r] # 0}

\* MarkCompleted and MarkFailed also set completed_at and drop the lease.
Settle(r, state) ==
  IF Leased(r)
  THEN /\ row' = [row EXCEPT ![r] = [state |-> state, owner |-> NoOwner]]
       /\ finished' = [finished EXCEPT ![r] = 1 + Cardinality(Done)]
       /\ age' = [age EXCEPT ![r] = 0]
  ELSE UNCHANGED rows

(***************************************************************************)
(* One request.                                                            *)
(***************************************************************************)
Go(r, from, to) == up /\ pc[r] = from /\ pc' = [pc EXCEPT ![r] = to]
Return(r) == gone' = [gone EXCEPT ![r] = TRUE]
Process == UNCHANGED <<boot, up, sweep>>

Send(r) ==
  /\ Go(r, "unsent", "insert")
  /\ UNCHANGED <<gone, rows, dirs, waited, render, janitor, reply>> /\ Process

Disconnect(r) ==
  /\ "abort" \in Faults /\ pc[r] \in InFlight /\ ~gone[r]
  /\ gone' = [gone EXCEPT ![r] = TRUE]
  /\ UNCHANGED <<pc, rows, dirs, waited, render, janitor, reply>> /\ Process

\* CreateRunning inserts the row and reads it back; either statement can fail,
\* which is all the client is told.
Insert(r) ==
  /\ Go(r, "insert", "read") /\ CanRun(r)
  /\ row' = [row EXCEPT ![r] = [state |-> "running", owner |-> boot]]
  /\ UNCHANGED <<gone, finished, age, dirs, waited, render, janitor, reply>>
  /\ Process

ReadBack(r) ==
  /\ Go(r, "read", "mkdir") /\ CanRun(r)
  /\ UNCHANGED <<gone, rows, dirs, waited, render, janitor, reply>> /\ Process

CreateFails(r) ==
  /\ Go(r, "insert", "end") \/ Go(r, "read", "end")
  /\ CanFail(r)
  /\ reply' = [reply EXCEPT ![r] = "error"] /\ Return(r)
  /\ UNCHANGED <<rows, dirs, waited, render, janitor>> /\ Process

StartRender(r) ==
  /\ Go(r, "mkdir", "wait")
  /\ work' = [work EXCEPT ![r] = 0]
  /\ waited' = [waited EXCEPT ![r] = 0]
  /\ render' = [render EXCEPT ![r] = "running"]
  /\ UNCHANGED <<gone, rows, video, debug, janitor, reply>> /\ Process

MkdirFails(r) ==
  /\ Go(r, "mkdir", "fail") /\ "io" \in Faults
  /\ UNCHANGED <<gone, rows, dirs, waited, render, janitor, reply>> /\ Process

\* renderScene, in its own goroutine: nothing stops it before it is done.
Rendered(r) ==
  /\ up /\ render[r] = "running"
  /\ render' \in {[render EXCEPT ![r] = "ok"], [render EXCEPT ![r] = "failed"]}
  /\ UNCHANGED <<pc, gone, rows, dirs, waited, janitor, reply>> /\ Process

Receive(r) ==
  /\ render[r] \in {"ok", "failed"}
  /\ Go(r, "wait", IF render[r] = "ok" THEN "stage" ELSE "fail")
  /\ waited' = [waited EXCEPT ![r] = 0]
  /\ render' = [render EXCEPT ![r] = "idle"]
  /\ UNCHANGED <<gone, rows, dirs, janitor, reply>> /\ Process

\* The timeout's mark is detached from the request's context. The handler
\* returns; the work directory is left to a goroutine that waits for the render.
\* Mutant: the handler goes on waiting.
TimedOutWaiting(r) ==
  /\ Go(r, "wait", "wait") /\ waited[r] = Timeout
  /\ Settle(r, "failed") \/ ("db" \in Faults /\ UNCHANGED rows)
  /\ waited' = [waited EXCEPT ![r] = 0]
  /\ janitor' = [janitor EXCEPT ![r] = TRUE]
  /\ reply' = [reply EXCEPT ![r] = "error"]
  /\ UNCHANGED <<gone, dirs, render>> /\ Process
TimedOut(r) ==
  /\ Go(r, "wait", "end") /\ waited[r] = Timeout
  /\ Settle(r, "failed") \/ ("db" \in Faults /\ UNCHANGED rows)
  /\ waited' = [waited EXCEPT ![r] = 0]
  /\ janitor' = [janitor EXCEPT ![r] = TRUE]
  /\ reply' = [reply EXCEPT ![r] = "error"] /\ Return(r)
  /\ UNCHANGED <<dirs, render>> /\ Process

\* os.RemoveAll of the work directory; nobody looks at its error. A directory
\* of which it removed something only is as new.
RemoveWork(r) ==
  \/ work' = [work EXCEPT ![r] = None]
  \/ /\ "io" \in Faults /\ work[r] # None
     /\ \E a \in {work[r], 0} : work' = [work EXCEPT ![r] = a]

Janitor(r) ==
  /\ up /\ janitor[r] /\ render[r] \in {"ok", "failed"}
  /\ janitor' = [janitor EXCEPT ![r] = FALSE]
  /\ render' = [render EXCEPT ![r] = "idle"]
  /\ RemoveWork(r)
  /\ UNCHANGED <<pc, gone, rows, video, debug, waited, reply>> /\ Process

Fail(r) ==
  /\ Go(r, "fail", "cleanup")
  /\ (CanRun(r) /\ Settle(r, "failed")) \/ (CanFail(r) /\ UNCHANGED rows)
  /\ reply' = [reply EXCEPT ![r] = "error"]
  /\ UNCHANGED <<gone, dirs, waited, render, janitor>> /\ Process

Stage(r) ==
  /\ Go(r, "stage", "encode")
  /\ \/ CanRun(r) /\ row' = Updated(r, "encoding")
     \/ CanFail(r) /\ UNCHANGED row
  /\ UNCHANGED <<gone, finished, age, dirs, waited, render, janitor, reply>>
  /\ Process

\* The encoder writes a temporary file and renames it when it is whole.
Encode(r) ==
  /\ Go(r, "encode", "encoding") /\ work[r] # None
  /\ video' = [video EXCEPT ![r] = "tmp"]
  /\ UNCHANGED <<gone, rows, debug, work, waited, render, janitor, reply>>
  /\ Process

Encoded(r) ==
  /\ Go(r, "encoding", "complete")
  /\ video' = [video EXCEPT ![r] = "file"]
  /\ UNCHANGED <<gone, rows, debug, work, waited, render, janitor, reply>>
  /\ Process

\* The temporary file is removed, if that succeeds.
EncodeFails(r) ==
  /\ Go(r, "encode", "fail") \/ Go(r, "encoding", "fail")
  /\ "io" \in Faults \/ work[r] = None
  /\ \/ video' = [video EXCEPT ![r] = "none"]
     \/ "io" \in Faults /\ UNCHANGED video
  /\ UNCHANGED <<gone, rows, debug, work, waited, render, janitor, reply>>
  /\ Process

Complete(r) ==
  /\ Go(r, "complete", "debug")
  /\ (CanRun(r) /\ Settle(r, "completed")) \/ (CanFail(r) /\ UNCHANGED rows)
  /\ UNCHANGED <<gone, dirs, waited, render, janitor, reply>> /\ Process

\* saveDebugSession: the directory, then the frames and vars.json; a failure
\* on the way is ignored.
OpenDebug(r) ==
  /\ Go(r, "debug", "vars")
  /\ debug' = [debug EXCEPT ![r] = "partial"]
  /\ UNCHANGED <<gone, rows, video, work, waited, render, janitor, reply>>
  /\ Process

WriteVars(r) ==
  /\ Go(r, "vars", "reply") /\ work[r] # None /\ debug[r] = "partial"
  /\ debug' = [debug EXCEPT ![r] = "whole"]
  /\ UNCHANGED <<gone, rows, video, work, waited, render, janitor, reply>>
  /\ Process

DebugFails(r) ==
  /\ \/ Go(r, "debug", "reply") /\ "io" \in Faults
     \/ /\ Go(r, "vars", "reply")
        /\ "io" \in Faults \/ work[r] = None \/ debug[r] = "none"
  /\ UNCHANGED <<gone, rows, dirs, waited, render, janitor, reply>> /\ Process

Reply(r) ==
  /\ Go(r, "reply", "cleanup")
  /\ reply' = [reply EXCEPT ![r] = "video"]
  /\ UNCHANGED <<gone, rows, dirs, waited, render, janitor>> /\ Process

\* The deferred removal of the work directory.
Cleanup(r) ==
  /\ Go(r, "cleanup", "end") /\ RemoveWork(r) /\ Return(r)
  /\ UNCHANGED <<rows, video, debug, waited, render, janitor, reply>>
  /\ Process

Handler(r) ==
  \/ Insert(r) \/ ReadBack(r) \/ CreateFails(r) \/ StartRender(r) \/ MkdirFails(r)
  \/ Receive(r) \/ TimedOut(r) \/ Fail(r) \/ Stage(r) \/ Encode(r) \/ Encoded(r)
  \/ EncodeFails(r) \/ Complete(r) \/ OpenDebug(r) \/ WriteVars(r)
  \/ DebugFails(r) \/ Reply(r) \/ Cleanup(r)

(***************************************************************************)
(* The cleaner.                                                            *)
(***************************************************************************)
Client == UNCHANGED <<boot, up, pc, gone, waited, render, janitor, reply>>

\* Mutant: the cutoff is the time of the sweep.
ExpiredAtOnce(r) == age[r] >= 0
Expired(r) == age[r] > Retention

\* ListExpired: the oldest Limit of the expired jobs.
List ==
  LET ids == {r \in Done : row[r] # None /\ Expired(r)}
  IN  {r \in ids : Cardinality({q \in ids : finished[q] < finished[r]}) < Limit}

\* A sweep goes through its jobs, oldest first, and then on to the work
\* directories.
\* Mutant: the sweep does not see the end of its jobs.
SweepPastEnd(left) ==
  \/ left = {} /\ sweep' = Sweep("video", None, {})
  \/ \E r \in left : /\ \A q \in left : finished[r] <= finished[q]
                     /\ sweep' = Sweep("video", r, left \ {r})
SweepOn(left) ==
  \/ left = {} /\ sweep' = Sweep("work", None, {})
  \/ \E r \in left : /\ \A q \in left : finished[r] <= finished[q]
                     /\ sweep' = Sweep("video", r, left \ {r})
NextJob == SweepOn(sweep.left)

StartSweep ==
  /\ up /\ sweep.at = "rest"
  /\ SweepOn(List)
  /\ UNCHANGED <<rows, dirs>> /\ Client

ListFails ==
  /\ up /\ sweep.at = "rest" /\ "db" \in Faults
  /\ SweepOn({})
  /\ UNCHANGED <<rows, dirs>> /\ Client

Sweeps(r, at) == up /\ sweep.at = at /\ sweep.job = r

HasPath(r) == row[r] # None /\ row[r].state = "completed"

\* A job without a video path has no video to remove; one already removed is
\* as good.
\* Mutant: a video that is not there counts as a failure.
RemoveVideoStrictly(r) ==
  /\ Sweeps(r, "video")
  /\ IF HasPath(r)
     THEN IF video[r] = "file"
          THEN /\ video' = [video EXCEPT ![r] = "none"]
               /\ sweep' = [sweep EXCEPT !.at = "debug"]
          ELSE NextJob /\ UNCHANGED video
     ELSE sweep' = [sweep EXCEPT !.at = "debug"] /\ UNCHANGED video
  /\ UNCHANGED <<rows, debug, work>> /\ Client
RemoveVideo(r) ==
  /\ Sweeps(r, "video")
  /\ video' = [video EXCEPT ![r] = IF HasPath(r) THEN "none" ELSE @]
  /\ sweep' = [sweep EXCEPT !.at = "debug"]
  /\ UNCHANGED <<rows, debug, work>> /\ Client

\* Mutant: the sweep goes on to the row.
RemoveVideoFailsAndGoesOn(r) ==
  /\ Sweeps(r, "video") /\ "io" \in Faults /\ HasPath(r) /\ video[r] = "file"
  /\ sweep' = [sweep EXCEPT !.at = "debug"]
  /\ UNCHANGED <<rows, dirs>> /\ Client
RemoveVideoFails(r) ==
  /\ Sweeps(r, "video") /\ "io" \in Faults /\ HasPath(r) /\ video[r] = "file"
  /\ NextJob
  /\ UNCHANGED <<rows, dirs>> /\ Client

RemoveDebug(r) ==
  /\ Sweeps(r, "debug")
  /\ debug' = [debug EXCEPT ![r] = "none"]
  /\ sweep' = [sweep EXCEPT !.at = "row"]
  /\ UNCHANGED <<rows, video, work>> /\ Client

\* The failure is logged and the row is deleted all the same.
RemoveDebugFails(r) ==
  /\ Sweeps(r, "debug") /\ "io" \in Faults /\ debug[r] # "none"
  /\ sweep' = [sweep EXCEPT !.at = "row"]
  /\ UNCHANGED <<rows, dirs>> /\ Client

DeleteRow(r) ==
  /\ Sweeps(r, "row")
  /\ row' = [row EXCEPT ![r] = None]
  /\ NextJob
  /\ UNCHANGED <<finished, age, dirs>> /\ Client

DeleteFails(r) ==
  /\ Sweeps(r, "row") /\ "db" \in Faults
  /\ NextJob
  /\ UNCHANGED <<rows, dirs>> /\ Client

\* purgeOrphanWorkDirs looks at nothing but the directories' age.
\* Mutant: a directory whose job has a row is not an orphan.
OrphansWithoutRow ==
  {r \in Requests : work[r] # None /\ work[r] > Retention /\ row[r] = None}
Orphans == {r \in Requests : work[r] # None /\ work[r] > Retention}

PurgeWork ==
  /\ up /\ sweep.at = "work"
  /\ work' = [r \in Requests |-> IF r \in Orphans THEN None ELSE work[r]]
  /\ sweep' = Resting
  /\ UNCHANGED <<rows, video, debug>> /\ Client

\* The directories that could not be removed are left for a later sweep; those
\* that lost something are as new.
PurgeWorkFails ==
  /\ up /\ sweep.at = "work" /\ "io" \in Faults
  /\ \E kept \in (SUBSET Orphans) \ {{}} : \E touched \in SUBSET kept :
       work' = [r \in Requests |-> CASE r \in touched -> 0
                                     [] r \in Orphans \ kept -> None
                                     [] OTHER -> work[r]]
  /\ sweep' = Resting
  /\ UNCHANGED <<rows, video, debug>> /\ Client

Removing(r) == RemoveVideo(r) \/ RemoveVideoFails(r)
RemovingDebug(r) == RemoveDebug(r) \/ RemoveDebugFails(r)
Deleting(r) == DeleteRow(r) \/ DeleteFails(r)
Cleaner ==
  \/ StartSweep \/ ListFails \/ PurgeWork \/ PurgeWorkFails
  \/ \E r \in Requests : Removing(r) \/ RemovingDebug(r) \/ Deleting(r)

(***************************************************************************)
(* Time, and the end of a process with its goroutines.                     *)
(***************************************************************************)
Later(a) == IF a = Old THEN Old ELSE a + 1

\* A timer that is due fires before more time passes.
Tick ==
  /\ \A r \in Requests : pc[r] = "wait" => waited[r] < Timeout
  /\ age' = [r \in Requests |->
               IF finished[r] # 0 THEN Later(age[r]) ELSE age[r]]
  /\ work' = [r \in Requests |-> IF work[r] = None THEN None ELSE Later(work[r])]
  /\ waited' = [r \in Requests |-> IF pc[r] = "wait" THEN waited[r] + 1
                                   ELSE waited[r]]
  /\ UNCHANGED <<boot, up, pc, gone, row, finished, video, debug, render, janitor,
                 reply, sweep>>

Crash ==
  /\ up /\ "crash" \in Faults /\ boot < MaxBoots
  /\ up' = FALSE
  /\ pc' = [r \in Requests |-> IF pc[r] \in InFlight THEN "lost" ELSE pc[r]]
  /\ gone' = [r \in Requests |-> gone[r] \/ pc[r] \in InFlight]
  /\ render' = [r \in Requests |-> "idle"]
  /\ janitor' = [r \in Requests |-> FALSE]
  /\ waited' = [r \in Requests |-> 0]
  /\ sweep' = Resting
  /\ UNCHANGED <<boot, rows, dirs, reply>>

Boot ==
  /\ ~up /\ boot < MaxBoots
  /\ up' = TRUE /\ boot' = boot + 1
  /\ UNCHANGED <<pc, gone, rows, dirs, waited, render, janitor, reply, sweep>>

Next ==
  \/ \E r \in Requests :
       Send(r) \/ Disconnect(r) \/ Handler(r) \/ Rendered(r) \/ Janitor(r)
  \/ Cleaner \/ Tick \/ Crash \/ Boot

Spec == Init /\ [][Next]_vars

\* Goroutines that can run do, renders end, time passes, the server is started
\* again, and what a sweep fails to list, remove or delete does not fail for ever.
Fairness ==
  /\ \A r \in Requests :
       /\ WF_vars(Handler(r)) /\ WF_vars(Rendered(r)) /\ WF_vars(Janitor(r))
       /\ SF_vars(RemoveVideo(r)) /\ WF_vars(RemovingDebug(r)) /\ SF_vars(DeleteRow(r))
  /\ WF_vars(Cleaner) /\ SF_vars(StartSweep) /\ SF_vars(PurgeWork /\ Orphans # {})
  /\ WF_vars(Tick) /\ WF_vars(Boot)
FairSpec == Spec /\ Fairness

(***************************************************************************)
(* Properties.                                                             *)
(***************************************************************************)
Is(r, state) == row[r] # None /\ row[r].state = state

\* The three accounts of a render agree, whatever the client, the database and
\* a timeout racing the render do: who was answered with a video is never in
\* the log as failed, who was answered with an error is never in it as
\* completed and has left no video.
AccountsAgree ==
  \A r \in Requests :
    /\ reply[r] = "video" => ~Is(r, "failed")
    /\ reply[r] = "error" => ~Is(r, "completed") /\ video[r] # "file"

\* No video outlives its row: as long as there is one, the log says whose it
\* is, through failed removals and crashes in the middle of a sweep.
VideoHasRow == \A r \in Requests : video[r] = "file" => row[r] # None

\* A completed job's video is there for the whole retention.
VideoIsKept ==
  \A r \in Requests :
    Is(r, "completed") /\ age[r] <= Retention => video[r] = "file"

\* Every work directory goes in the end, also those of requests lost in a crash
\* and of renders that outlive their timeout.
WorkReclaimed == \A r \in Requests : work[r] # None ~> work[r] = None

\* Every job that was settled is deleted in the end, also when a crash came
\* between the removal of its files and that of its row.
SettledGoes ==
  \A r \in Requests :
    Is(r, "completed") \/ Is(r, "failed") ~> row[r] = None

(***************************************************************************)
(* What the comments of cleaner.go promise and the code does not keep.     *)
(***************************************************************************)

\* "Cleaner periodically deletes expired render jobs (and their videos)". Every
\* video is deleted in the end. (The row of a request whose client has gone is
\* never settled, so it never expires.)
VideosExpire == \A r \in Requests : video[r] = "file" ~> video[r] # "file"

\* "Debugger frames + vars.json live in debug/{id}; same retention as the job."
\* No debug directory outlives its row.
DebugHasRow == \A r \in Requests : debug[r] # "none" => row[r] # None

\* The cleaner deletes "orphaned work directories": none that its request is
\* still working in.
OnlyOrphansPurged ==
  \A r \in Requests :
    pc[r] \in {"wait", "encode", "encoding", "debug", "vars"}
    => work[r] # None
=============================================================================
