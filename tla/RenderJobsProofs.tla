-------------------------- MODULE RenderJobsProofs --------------------------
(***************************************************************************)
(* Proofs about the render jobs, for any number of requests, restarts and  *)
(* retentions: their types; that the reply, the row and the video of a     *)
(* request agree; that no video outlives its row; that a completed job's   *)
(* video is kept for the retention.                                        *)
(***************************************************************************)
EXTENDS RenderJobs, FiniteSetTheorems, TLAPS

Open(r) == row[r] # None /\ row[r].state \in {"running", "encoding"}
Unencoded == {"read", "mkdir", "wait", "fail", "stage", "encode", "encoding"}

\* What a request's place says of its row, its reply and its video, and what
\* the sweep knows of it. A row is open until its handler settles it; only then
\* can it expire, so a sweep never meets a handler that still encodes.
RequestInv(r) ==
  /\ pc[r] \in {"unsent", "insert"} =>
       row[r] = None /\ video[r] = "none" /\ reply[r] = "none" /\ finished[r] = 0
  /\ pc[r] \in Unencoded \cup {"complete"} => Open(r) /\ reply[r] = "none"
  /\ pc[r] \in Unencoded => video[r] # "file"
  /\ pc[r] = "complete" => video[r] = "file"
  /\ pc[r] \in {"debug", "vars", "reply"} => ~Is(r, "failed") /\ reply[r] = "none"
  /\ Open(r) => finished[r] = 0
  /\ row[r] = None \/ Is(r, "failed") => video[r] # "file"
  /\ Is(r, "completed") /\ video[r] # "file" => age[r] > Retention
  /\ reply[r] = "video" => ~Is(r, "failed")
  /\ reply[r] = "error" => ~Is(r, "completed") /\ video[r] # "file"
  /\ r = sweep.job \/ r \in sweep.left => finished[r] # 0 /\ age[r] > Retention
  /\ sweep.at \in {"debug", "row"} /\ r = sweep.job => video[r] # "file"

IInv == TypeOK /\ \A r \in Requests : RequestInv(r)

LEMMA Bounds ==
  /\ Retention \in Nat /\ Timeout \in Nat /\ MaxBoots \in Nat \ {0}
  /\ 0 \in Ages /\ Old \in Ages /\ 0 \in 0..Timeout
  /\ \A a \in Ages : a \in Nat /\ Later(a) \in Ages /\ (a > Retention => Later(a) > Retention)
  /\ \A a \in Ages : a # None
  /\ \A r \in Requests : r # None
  BY JobsAssumption DEF Ages, Old, Later

\* A removal leaves a directory that is gone, as old as it was, or new.
LEMMA RemovedAge ==
  ASSUME IInv, NEW r \in Requests, RemoveWork(r)
  PROVE  work' \in [Requests -> Ages \cup {None}]
<1>1. work \in [Requests -> Ages \cup {None}]
  BY DEF IInv, TypeOK
<1>2. CASE work' = [work EXCEPT ![r] = None]
  BY <1>1, <1>2
<1>3. CASE \E a \in {work[r], 0} : work' = [work EXCEPT ![r] = a]
  BY <1>1, <1>3, Bounds
<1> QED
  BY <1>2, <1>3 DEF RemoveWork

LEMMA RowFacts ==
  /\ None \notin Rows
  /\ \A b \in 0..MaxBoots, s \in {"running", "encoding", "completed", "failed"} :
       [state |-> s, owner |-> b] \in Rows
  BY JobsAssumption DEF Rows

LEMMA InitIInv == Init => IInv
<1> SUFFICES ASSUME Init
             PROVE  IInv
  OBVIOUS
<1>1. TypeOK
  <2>1. 1 \in 1..MaxBoots /\ 0 \in Nat
    BY Bounds
  <2>2. /\ pc \in [Requests -> InFlight \cup {"unsent", "end", "lost"}]
        /\ gone \in [Requests -> BOOLEAN] /\ janitor \in [Requests -> BOOLEAN]
        /\ row \in [Requests -> Rows \cup {None}]
        /\ finished \in [Requests -> Nat] /\ age \in [Requests -> Ages]
    BY <2>1, Bounds DEF Init
  <2>3. /\ video \in [Requests -> {"none", "tmp", "file"}]
        /\ debug \in [Requests -> {"none", "partial", "whole"}]
        /\ work \in [Requests -> Ages \cup {None}]
        /\ waited \in [Requests -> 0..Timeout]
        /\ render \in [Requests -> {"idle", "running", "ok", "failed"}]
        /\ reply \in [Requests -> {"none", "video", "error"}]
    BY Bounds DEF Init
  <2>4. /\ sweep \in [at : {"rest", "video", "debug", "row", "work"},
                      job : Requests \cup {None}, left : SUBSET Requests]
        /\ sweep.at \in {"video", "debug", "row"} <=> sweep.job # None
    BY DEF Init, Resting, Sweep
  <2> QED
    BY <2>1, <2>2, <2>3, <2>4 DEF Init, TypeOK
<1>2. ASSUME NEW r \in Requests
      PROVE  RequestInv(r)
  BY <1>2, Bounds DEF Init, RequestInv, Unencoded, Open, Is, Resting, Sweep
<1> QED
  BY <1>1, <1>2 DEF IInv

\* A request nothing happens to keeps what is known of it.
LEMMA Frame ==
  ASSUME NEW q, RequestInv(q), UNCHANGED sweep,
         pc'[q] = pc[q], row'[q] = row[q], finished'[q] = finished[q],
         age'[q] = age[q], video'[q] = video[q], reply'[q] = reply[q]
  PROVE  RequestInv(q)'
  BY DEF RequestInv, Open, Is

\* Settling a row touches that row only.
LEMMA SettleOne ==
  ASSUME IInv, NEW r \in Requests, NEW state \in {"completed", "failed"},
         Settle(r, state)
  PROVE  /\ row' \in [Requests -> Rows \cup {None}]
         /\ finished' \in [Requests -> Nat] /\ age' \in [Requests -> Ages]
         /\ \A q \in Requests : q # r =>
              row'[q] = row[q] /\ finished'[q] = finished[q] /\ age'[q] = age[q]
         /\ \/ /\ row'[r] = [state |-> state, owner |-> NoOwner]
               /\ row'[r] # None /\ row'[r].state = state
               /\ finished'[r] # 0 /\ finished[r] = 0 /\ age'[r] = 0
            \/ row'[r] = row[r] /\ finished'[r] = finished[r] /\ age'[r] = age[r]
<1>1. CASE Leased(r)
  <2>1. Cardinality(Done) \in Nat
    BY JobsAssumption, FS_Subset, FS_CardinalityType DEF Done
  <2>2. finished[r] = 0
    BY <1>1 DEF Leased, IInv, RequestInv, Open
  <2>3. [state |-> state, owner |-> NoOwner] \in Rows
    <3>1. NoOwner \in 0..MaxBoots
      BY Bounds DEF NoOwner
    <3> QED
      BY <3>1, RowFacts
  <2> DEFINE new == [state |-> state, owner |-> NoOwner]
  <2>4. new # None /\ new.state = state
    BY <2>3, RowFacts
  <2>5. /\ row' = [row EXCEPT ![r] = new]
        /\ finished' = [finished EXCEPT ![r] = 1 + Cardinality(Done)]
        /\ age' = [age EXCEPT ![r] = 0]
    BY <1>1 DEF Settle
  <2> HIDE DEF new
  <2>6. /\ row \in [Requests -> Rows \cup {None}]
        /\ finished \in [Requests -> Nat] /\ age \in [Requests -> Ages]
    BY DEF IInv, TypeOK
  <2>7. row' \in [Requests -> Rows \cup {None}] /\ row'[r] = new
    BY <2>3, <2>5, <2>6 DEF new
  <2>8. finished' \in [Requests -> Nat] /\ finished'[r] # 0
    BY <2>1, <2>5, <2>6
  <2>9. age' \in [Requests -> Ages] /\ age'[r] = 0
    BY <2>5, <2>6, Bounds
  <2> QED
    BY <2>2, <2>4, <2>5, <2>6, <2>7, <2>8, <2>9 DEF new
<1>2. CASE ~Leased(r)
  BY <1>2 DEF Settle, rows, IInv, TypeOK
<1> QED
  BY <1>1, <1>2

(***************************************************************************)
(* The handlers keep the invariant.                                        *)
(***************************************************************************)
Quiet(r) ==
  \/ Send(r) \/ Disconnect(r) \/ ReadBack(r) \/ CreateFails(r) \/ StartRender(r)
  \/ MkdirFails(r) \/ Rendered(r) \/ Receive(r) \/ Janitor(r) \/ OpenDebug(r)
  \/ WriteVars(r) \/ DebugFails(r) \/ Reply(r) \/ Cleanup(r)

\* Steps that leave the rows and the videos alone.
LEMMA QuietIInv ==
  ASSUME IInv, NEW r \in Requests, Quiet(r)
  PROVE  IInv'
<1>1. UNCHANGED <<boot, up, sweep, row, finished, age, video>>
  BY DEF Quiet, Send, Disconnect, ReadBack, CreateFails, StartRender, MkdirFails,
    Rendered, Receive, Janitor, OpenDebug, WriteVars, DebugFails, Reply, Cleanup,
    Process, rows, dirs
<1>2. /\ pc' \in [Requests -> InFlight \cup {"unsent", "end", "lost"}]
      /\ reply' \in [Requests -> {"none", "video", "error"}]
      /\ \A q \in Requests : q # r => pc'[q] = pc[q] /\ reply'[q] = reply[q]
  BY DEF Quiet, Send, Disconnect, ReadBack, CreateFails, StartRender, MkdirFails,
    Rendered, Receive, Janitor, OpenDebug, WriteVars, DebugFails, Reply, Cleanup,
    Go, IInv, TypeOK, InFlight
<1>3. gone' \in [Requests -> BOOLEAN] /\ janitor' \in [Requests -> BOOLEAN]
  BY DEF Quiet, Send, Disconnect, ReadBack, CreateFails, StartRender, MkdirFails,
    Rendered, Receive, Janitor, OpenDebug, WriteVars, DebugFails, Reply, Cleanup,
    Return, IInv, TypeOK
<1>4. /\ debug' \in [Requests -> {"none", "partial", "whole"}]
      /\ render' \in [Requests -> {"idle", "running", "ok", "failed"}]
  BY DEF Quiet, Send, Disconnect, ReadBack, CreateFails, StartRender, MkdirFails,
    Rendered, Receive, Janitor, OpenDebug, WriteVars, DebugFails, Reply, Cleanup,
    dirs, IInv, TypeOK
<1>5. work' \in [Requests -> Ages \cup {None}] /\ waited' \in [Requests -> 0..Timeout]
  <2>1. CASE Janitor(r) \/ Cleanup(r)
    <3>1. RemoveWork(r) /\ waited' = waited
      BY <2>1 DEF Janitor, Cleanup
    <3> QED
      BY <3>1, RemovedAge DEF IInv, TypeOK
  <2>2. CASE ~(Janitor(r) \/ Cleanup(r))
    BY <2>2, Bounds DEF Quiet, Send, Disconnect, ReadBack, CreateFails, StartRender,
      MkdirFails, Rendered, Receive, OpenDebug, WriteVars, DebugFails, Reply, dirs,
      IInv, TypeOK
  <2> QED
    BY <2>1, <2>2
<1>6. TypeOK'
  BY <1>1, <1>2, <1>3, <1>4, <1>5 DEF IInv, TypeOK
<1>7. ASSUME NEW q \in Requests, q # r
      PROVE  RequestInv(q)'
  BY <1>1, <1>2, <1>7, Frame DEF IInv
<1>8. RequestInv(r)'
  <2>1. CASE Disconnect(r) \/ Rendered(r) \/ Janitor(r)
    BY <1>1, <2>1, Frame DEF Disconnect, Rendered, Janitor, IInv
  <2>2. CASE \/ Send(r) \/ ReadBack(r) \/ StartRender(r) \/ MkdirFails(r)
             \/ Receive(r) \/ OpenDebug(r) \/ WriteVars(r) \/ DebugFails(r)
             \/ Cleanup(r)
    <3>1. reply' = reply /\ pc \in [Requests -> InFlight \cup {"unsent", "end", "lost"}]
      BY <2>2 DEF Send, ReadBack, StartRender, MkdirFails, Receive, OpenDebug,
        WriteVars, DebugFails, Cleanup, IInv, TypeOK
    <3>2. \/ pc[r] = "unsent" /\ pc'[r] = "insert"
          \/ pc[r] \in Unencoded /\ pc'[r] \in Unencoded
          \/ pc[r] \in {"debug", "vars", "reply"} /\ pc'[r] \in {"debug", "vars", "reply"}
          \/ pc'[r] = "end"
      BY <2>2, <3>1 DEF Send, ReadBack, StartRender, MkdirFails, Receive, OpenDebug,
        WriteVars, DebugFails, Cleanup, Go, Unencoded
    <3> QED
      BY <1>1, <3>1, <3>2 DEF IInv, RequestInv, Open, Is, Unencoded
  <2>3. CASE CreateFails(r)
    <3>1. /\ pc[r] \in {"insert", "read"} /\ pc'[r] = "end" /\ reply'[r] = "error"
      BY <2>3 DEF CreateFails, Go, IInv, TypeOK
    <3> QED
      BY <1>1, <3>1 DEF IInv, RequestInv, Open, Is, Unencoded
  <2>4. CASE Reply(r)
    <3>1. pc[r] = "reply" /\ pc'[r] = "cleanup" /\ reply'[r] = "video"
      BY <2>4 DEF Reply, Go, IInv, TypeOK
    <3> QED
      BY <1>1, <3>1 DEF IInv, RequestInv, Open, Is, Unencoded
  <2> QED
    BY <2>1, <2>2, <2>3, <2>4 DEF Quiet
<1> QED
  BY <1>6, <1>7, <1>8 DEF IInv

\* The row appears, and its stage changes, while it is open.
LEMMA OpenRowIInv ==
  ASSUME IInv, NEW r \in Requests, Insert(r) \/ Stage(r)
  PROVE  IInv'
<1>1. /\ UNCHANGED <<boot, up, sweep, finished, age, video, debug, work, gone,
                     waited, render, janitor, reply>>
      /\ pc' \in [Requests -> InFlight \cup {"unsent", "end", "lost"}]
      /\ \A q \in Requests : q # r => pc'[q] = pc[q]
  BY DEF Insert, Stage, Process, dirs, Go, IInv, TypeOK, InFlight
<1>2. /\ row' \in [Requests -> Rows \cup {None}]
      /\ \A q \in Requests : q # r => row'[q] = row[q]
      /\ \/ pc[r] = "insert" /\ pc'[r] = "read" /\ Open(r)'
         \/ pc[r] = "stage" /\ pc'[r] = "encode" /\ Open(r)'
  <2>1. CASE Insert(r)
    <3>1. [state |-> "running", owner |-> boot] \in Rows
      <4>1. boot \in 0..MaxBoots
        BY Bounds DEF IInv, TypeOK
      <4> QED
        BY <4>1, RowFacts
    <3>2. [state |-> "running", owner |-> boot] # None
      BY <3>1, RowFacts
    <3> QED
      BY <2>1, <3>1, <3>2 DEF Insert, Go, Open, IInv, TypeOK
  <2>2. CASE Stage(r) /\ row' = row
    BY <2>2 DEF Stage, Go, IInv, TypeOK, RequestInv, Open, Unencoded
  <2>3. CASE Stage(r) /\ row' # row
    <3>1. row' = [row EXCEPT ![r] = [@ EXCEPT !.state = "encoding"]] /\ row[r] # None
      BY <2>3 DEF Stage, Updated, Leased
    <3>2. row \in [Requests -> Rows \cup {None}] /\ row[r] \in Rows
      BY <3>1 DEF IInv, TypeOK
    <3> DEFINE new == [row[r] EXCEPT !.state = "encoding"]
    <3>3. new \in Rows /\ new.state = "encoding"
      BY <3>2 DEF Rows
    <3>4. row' = [row EXCEPT ![r] = new]
      BY <3>1
    <3> HIDE DEF new
    <3>5. row' \in [Requests -> Rows \cup {None}] /\ row'[r] = new /\ new # None
      BY <3>2, <3>3, <3>4, RowFacts
    <3> QED
      BY <2>3, <3>2, <3>3, <3>4, <3>5 DEF Stage, Go, IInv, TypeOK, Open
  <2> QED
    BY <2>1, <2>2, <2>3
<1>3. TypeOK'
  BY <1>1, <1>2 DEF IInv, TypeOK
<1>4. ASSUME NEW q \in Requests, q # r
      PROVE  RequestInv(q)'
  BY <1>1, <1>2, <1>4, Frame DEF IInv
<1>5. RequestInv(r)'
  BY <1>1, <1>2 DEF IInv, RequestInv, Open, Is, Unencoded
<1> QED
  BY <1>3, <1>4, <1>5 DEF IInv

\* The row is settled, or its statement fails and leaves it open for ever.
LEMMA SettlingIInv ==
  ASSUME IInv, NEW r \in Requests, TimedOut(r) \/ Fail(r) \/ Complete(r)
  PROVE  IInv'
<1>1. /\ UNCHANGED <<boot, up, sweep, video, debug, work, render>>
      /\ gone' \in [Requests -> BOOLEAN]
      /\ pc' \in [Requests -> InFlight \cup {"unsent", "end", "lost"}]
      /\ reply' \in [Requests -> {"none", "video", "error"}]
      /\ \A q \in Requests : q # r => pc'[q] = pc[q] /\ reply'[q] = reply[q]
  <2>1. UNCHANGED <<boot, up, sweep, video, debug, work, render>>
    BY DEF TimedOut, Fail, Complete, Process, dirs
  <2>2. gone' = gone \/ gone' = [gone EXCEPT ![r] = TRUE]
    BY DEF TimedOut, Fail, Complete, Return
  <2>3. reply' = reply \/ reply' = [reply EXCEPT ![r] = "error"]
    BY DEF TimedOut, Fail, Complete
  <2>4. \E at \in {"end", "cleanup", "debug"} : pc' = [pc EXCEPT ![r] = at]
    BY DEF TimedOut, Fail, Complete, Go
  <2>5. /\ gone \in [Requests -> BOOLEAN] /\ reply \in [Requests -> {"none", "video", "error"}]
        /\ pc \in [Requests -> InFlight \cup {"unsent", "end", "lost"}]
    BY DEF IInv, TypeOK
  <2>6. {"end", "cleanup", "debug"} \subseteq InFlight \cup {"unsent", "end", "lost"}
    BY DEF InFlight
  <2> QED
    BY ONLY <2>1, <2>2, <2>3, <2>4, <2>5, <2>6
<1>2. waited' \in [Requests -> 0..Timeout] /\ janitor' \in [Requests -> BOOLEAN]
  <2>1. CASE TimedOut(r)
    BY <2>1, Bounds DEF TimedOut, IInv, TypeOK
  <2>2. CASE Fail(r) \/ Complete(r)
    BY <2>2 DEF Fail, Complete, IInv, TypeOK
  <2> QED
    BY <2>1, <2>2
<1>3. \/ /\ pc[r] \in {"wait", "fail"} /\ pc'[r] \in {"cleanup", "end"}
         /\ reply'[r] = "error" /\ (Settle(r, "failed") \/ UNCHANGED rows)
      \/ /\ pc[r] = "complete" /\ pc'[r] = "debug" /\ reply'[r] = reply[r]
         /\ Settle(r, "completed") \/ UNCHANGED rows
  BY DEF TimedOut, Fail, Complete, Go, IInv, TypeOK
<1>4. /\ row' \in [Requests -> Rows \cup {None}]
      /\ finished' \in [Requests -> Nat] /\ age' \in [Requests -> Ages]
      /\ \A q \in Requests : q # r =>
           row'[q] = row[q] /\ finished'[q] = finished[q] /\ age'[q] = age[q]
  <2>1. CASE UNCHANGED rows
    BY <2>1 DEF rows, IInv, TypeOK
  <2>2. CASE \E state \in {"completed", "failed"} : Settle(r, state)
    BY <2>2, SettleOne
  <2> QED
    BY <1>3, <2>1, <2>2
<1>5. TypeOK'
  BY <1>1, <1>2, <1>4 DEF IInv, TypeOK
<1>6. ASSUME NEW q \in Requests, q # r
      PROVE  RequestInv(q)'
  BY <1>1, <1>4, <1>6, Frame DEF IInv
<1>7. RequestInv(r)'
  <2>1. CASE UNCHANGED rows
    BY <1>1, <1>3, <2>1 DEF rows, IInv, RequestInv, Open, Is, Unencoded
  <2>2. CASE pc[r] \in {"wait", "fail"} /\ Settle(r, "failed")
    <3>1. \/ row'[r] # None /\ row'[r].state = "failed" /\ finished'[r] # 0
          \/ row'[r] = row[r] /\ finished'[r] = finished[r] /\ age'[r] = age[r]
      BY <2>2, SettleOne
    <3>2. r # sweep.job /\ r \notin sweep.left /\ video'[r] # "file"
      BY <1>1, <2>2 DEF IInv, RequestInv, Unencoded
    <3>3. reply'[r] = "error" /\ pc'[r] \in {"cleanup", "end"} /\ ~Is(r, "completed")
      BY <1>3, <2>2 DEF IInv, RequestInv, Open, Is, Unencoded
    <3> QED
      BY <1>1, <2>2, <3>1, <3>2, <3>3 DEF IInv, RequestInv, Open, Is, Unencoded
  <2>3. CASE pc[r] = "complete" /\ Settle(r, "completed")
    <3>1. \/ row'[r] # None /\ row'[r].state = "completed" /\ finished'[r] # 0
          \/ row'[r] = row[r] /\ finished'[r] = finished[r] /\ age'[r] = age[r]
      BY <2>3, SettleOne
    <3>2. r # sweep.job /\ r \notin sweep.left /\ video'[r] = "file"
      BY <1>1, <2>3 DEF IInv, RequestInv
    <3>3. pc'[r] = "debug" /\ reply'[r] = "none"
      BY <1>3, <2>3 DEF IInv, RequestInv
    <3> QED
      BY <1>1, <2>3, <3>1, <3>2, <3>3 DEF IInv, RequestInv, Open, Is, Unencoded
  <2> QED
    BY <1>3, <2>1, <2>2, <2>3
<1> QED
  BY <1>5, <1>6, <1>7 DEF IInv

LEMMA EncodingIInv ==
  ASSUME IInv, NEW r \in Requests, Encode(r) \/ Encoded(r) \/ EncodeFails(r)
  PROVE  IInv'
<1>1. /\ UNCHANGED <<boot, up, sweep, row, finished, age, debug, work, gone, waited,
                     render, janitor, reply>>
      /\ pc' \in [Requests -> InFlight \cup {"unsent", "end", "lost"}]
      /\ video' \in [Requests -> {"none", "tmp", "file"}]
      /\ \A q \in Requests : q # r => pc'[q] = pc[q] /\ video'[q] = video[q]
  BY DEF Encode, Encoded, EncodeFails, Process, rows, Go, IInv, TypeOK, InFlight
<1>2. \/ /\ pc[r] \in {"encode", "encoding"} /\ pc'[r] \in {"encoding", "fail"}
         /\ video'[r] \in {"none", "tmp"}
      \/ pc[r] = "encoding" /\ pc'[r] = "complete" /\ video'[r] = "file"
  <2>1. CASE EncodeFails(r)
    <3>1. video[r] \in {"none", "tmp"}
      BY <2>1 DEF EncodeFails, Go, IInv, TypeOK, RequestInv, Open, Is, Unencoded
    <3> QED
      BY <2>1, <3>1 DEF EncodeFails, Go, dirs, IInv, TypeOK
  <2>2. CASE Encode(r) \/ Encoded(r)
    BY <2>2 DEF Encode, Encoded, Go, IInv, TypeOK
  <2> QED
    BY <2>1, <2>2
<1>3. TypeOK'
  BY <1>1 DEF IInv, TypeOK
<1>4. ASSUME NEW q \in Requests, q # r
      PROVE  RequestInv(q)'
  BY <1>1, <1>4, Frame DEF IInv
<1>5. RequestInv(r)'
  BY <1>1, <1>2 DEF IInv, RequestInv, Open, Is, Unencoded
<1> QED
  BY <1>3, <1>4, <1>5 DEF IInv

(***************************************************************************)
(* The cleaner keeps the invariant.                                        *)
(***************************************************************************)

\* A sweep goes on with jobs it has, and with no file of them touched yet.
LEMMA SweepsOn ==
  ASSUME NEW left \in SUBSET Requests, SweepOn(left)
  PROVE  /\ sweep' \in [at : {"rest", "video", "debug", "row", "work"},
                        job : Requests \cup {None}, left : SUBSET Requests]
         /\ sweep'.at \in {"video", "work"}
         /\ sweep'.at \in {"video", "debug", "row"} <=> sweep'.job # None
         /\ sweep'.left \subseteq left /\ sweep'.job \in left \cup {None}
<1>1. CASE sweep' = Sweep("work", None, {})
  BY <1>1 DEF Sweep
<1>2. CASE \E r \in left : sweep' = Sweep("video", r, left \ {r})
  BY <1>2, Bounds DEF Sweep
<1> QED
  BY <1>1, <1>2 DEF SweepOn

\* What starting, continuing or ending a sweep does to a request: nothing.
LEMMA SweepIInv ==
  ASSUME IInv, NEW left \in SUBSET Requests, SweepOn(left), Client,
         \A q \in left : finished[q] # 0 /\ age[q] > Retention,
         UNCHANGED <<finished, age, dirs>>,
         row' \in [Requests -> Rows \cup {None}],
         \A q \in Requests :
           \/ row'[q] = row[q]
           \/ row'[q] = None /\ video[q] # "file" /\ finished[q] # 0
  PROVE  IInv'
<1>1. TypeOK'
  BY SweepsOn DEF Client, dirs, IInv, TypeOK
<1>2. ASSUME NEW q \in Requests
      PROVE  RequestInv(q)'
  <2>1. q = sweep'.job \/ q \in sweep'.left => finished[q] # 0 /\ age[q] > Retention
    BY SweepsOn, Bounds
  <2>2. sweep'.at \notin {"debug", "row"}
    BY SweepsOn
  <2>3. pc' = pc /\ reply' = reply /\ finished' = finished /\ age' = age /\ video' = video
    BY DEF Client, dirs
  <2>4. RequestInv(q)
    BY DEF IInv
  <2>5. CASE row'[q] = row[q]
    BY <2>1, <2>2, <2>3, <2>4, <2>5 DEF RequestInv, Open, Is
  <2>6. CASE row'[q] = None /\ row[q] # None /\ video[q] # "file" /\ finished[q] # 0
    BY <2>1, <2>2, <2>3, <2>4, <2>6 DEF RequestInv, Open, Is
  <2> QED
    BY <2>5, <2>6
<1> QED
  BY <1>1, <1>2 DEF IInv

\* The files of the job in hand go; its row and the other requests stay.
LEMMA RemovalIInv ==
  ASSUME IInv, NEW r \in Requests,
         \/ RemoveVideo(r) \/ RemoveDebug(r) \/ RemoveDebugFails(r)
  PROVE  IInv'
<1>1. /\ UNCHANGED <<boot, up, pc, gone, waited, render, janitor, reply, row,
                     finished, age, work>>
      /\ sweep.job = r /\ sweep'.job = r /\ sweep'.left = sweep.left
      /\ sweep' \in [at : {"rest", "video", "debug", "row", "work"},
                     job : Requests \cup {None}, left : SUBSET Requests]
      /\ sweep'.at \in {"debug", "row"}
      /\ video' \in [Requests -> {"none", "tmp", "file"}]
      /\ debug' \in [Requests -> {"none", "partial", "whole"}]
      /\ \A q \in Requests : q # r => video'[q] = video[q]
  BY DEF RemoveVideo, RemoveDebug, RemoveDebugFails, Client, rows, dirs, Sweeps,
    IInv, TypeOK
<1>2. TypeOK'
  BY <1>1, Bounds DEF IInv, TypeOK
<1>3. finished[r] # 0 /\ age[r] > Retention /\ ~Open(r)
  BY <1>1 DEF IInv, RequestInv
<1>4. video'[r] # "file" /\ (video'[r] = video[r] \/ video'[r] = "none")
  <2>1. CASE RemoveVideo(r)
    <3>1. row[r] = None \/ Is(r, "failed") \/ Is(r, "completed")
      BY <1>3 DEF IInv, TypeOK, Rows, Open, Is
    <3> QED
      BY <2>1, <3>1 DEF RemoveVideo, HasPath, Is, IInv, TypeOK, RequestInv
  <2>2. CASE RemoveDebug(r) \/ RemoveDebugFails(r)
    BY <2>2 DEF RemoveDebug, RemoveDebugFails, Sweeps, dirs, IInv, RequestInv
  <2> QED
    BY <2>1, <2>2
<1>5. ASSUME NEW q \in Requests
      PROVE  RequestInv(q)'
  BY <1>1, <1>3, <1>4 DEF IInv, RequestInv, Open, Is, Unencoded
<1> QED
  BY <1>2, <1>5 DEF IInv

LEMMA CleanerIInv ==
  ASSUME IInv, Cleaner
  PROVE  IInv'
<1>1. row \in [Requests -> Rows \cup {None}]
  BY DEF IInv, TypeOK
<1>2. CASE StartSweep \/ ListFails
  <2>1. \A q \in List : q \in Requests /\ finished[q] # 0 /\ age[q] > Retention
    BY DEF List, Done, Expired
  <2>2. List \in SUBSET Requests /\ {} \in SUBSET Requests
    BY DEF List, Done
  <2> QED
    BY <1>1, <1>2, <2>1, <2>2, SweepIInv DEF StartSweep, ListFails, rows
<1>3. ASSUME NEW r \in Requests, RemoveVideoFails(r) \/ DeleteRow(r) \/ DeleteFails(r)
      PROVE  IInv'
  <2>1. sweep.job = r /\ SweepOn(sweep.left) /\ Client
        /\ UNCHANGED <<finished, age, dirs>>
    BY <1>3 DEF RemoveVideoFails, DeleteRow, DeleteFails, Sweeps, NextJob, rows
  <2>2. /\ sweep.left \in SUBSET Requests
        /\ \A q \in sweep.left : finished[q] # 0 /\ age[q] > Retention
    BY DEF IInv, TypeOK, RequestInv
  <2>3. CASE DeleteRow(r)
    <3>1. video[r] # "file" /\ finished[r] # 0
      BY <2>1, <2>3 DEF DeleteRow, Sweeps, IInv, RequestInv
    <3>2. /\ row' \in [Requests -> Rows \cup {None}] /\ row'[r] = None
          /\ \A q \in Requests : q # r => row'[q] = row[q]
      BY <1>1, <2>3 DEF DeleteRow
    <3> QED
      BY <2>1, <2>2, <3>1, <3>2, SweepIInv
  <2>4. CASE RemoveVideoFails(r) \/ DeleteFails(r)
    <3>1. row' = row
      BY <2>4 DEF RemoveVideoFails, DeleteFails, rows
    <3> QED
      BY <1>1, <2>1, <2>2, <3>1, SweepIInv
  <2> QED
    BY <1>3, <2>3, <2>4
<1>4. ASSUME PurgeWork \/ PurgeWorkFails
      PROVE  IInv'
  <2>1. /\ UNCHANGED <<boot, up, pc, gone, waited, render, janitor, reply, row,
                       finished, age, video, debug>>
        /\ sweep' = Resting
    BY <1>4 DEF PurgeWork, PurgeWorkFails, Client, rows
  <2>2. work' \in [Requests -> Ages \cup {None}]
    <3>1. CASE PurgeWork
      BY <3>1 DEF PurgeWork, IInv, TypeOK
    <3>2. CASE PurgeWorkFails
      <4>1. PICK kept, touched :
              work' = [q \in Requests |-> CASE q \in touched -> 0
                                           [] q \in Orphans \ kept -> None
                                           [] OTHER -> work[q]]
        BY <3>2 DEF PurgeWorkFails
      <4> QED
        BY <4>1, Bounds DEF IInv, TypeOK
    <3> QED
      BY <1>4, <3>1, <3>2
  <2>3. TypeOK'
    BY <2>1, <2>2 DEF Resting, Sweep, IInv, TypeOK
  <2>4. ASSUME NEW q \in Requests
        PROVE  RequestInv(q)'
    BY <2>1, Bounds DEF Resting, Sweep, IInv, RequestInv, Open, Is
  <2> QED
    BY <2>3, <2>4 DEF IInv
<1> QED
  BY <1>2, <1>3, <1>4, RemovalIInv DEF Cleaner, Removing, RemovingDebug, Deleting

(***************************************************************************)
(* Time and restarts keep the invariant.                                   *)
(***************************************************************************)
LEMMA WorldIInv ==
  ASSUME IInv, Tick \/ Crash \/ Boot \/ UNCHANGED vars
  PROVE  IInv'
<1>1. CASE Tick
  <2>1. /\ age' \in [Requests -> Ages] /\ work' \in [Requests -> Ages \cup {None}]
        /\ \A q \in Requests : age[q] > Retention => age'[q] > Retention
    BY <1>1, Bounds DEF Tick, IInv, TypeOK
  <2>2. waited' \in [Requests -> 0..Timeout]
    BY <1>1, Bounds DEF Tick, IInv, TypeOK
  <2>3. TypeOK'
    BY <1>1, <2>1, <2>2 DEF Tick, IInv, TypeOK
  <2>4. ASSUME NEW q \in Requests
        PROVE  RequestInv(q)'
    BY <1>1, <2>1 DEF Tick, IInv, RequestInv, Open, Is
  <2> QED
    BY <2>3, <2>4 DEF IInv
<1>2. CASE Crash
  <2>1. TypeOK'
    BY <1>2, Bounds DEF Crash, Resting, Sweep, rows, dirs, IInv, TypeOK
  <2>2. ASSUME NEW q \in Requests
        PROVE  RequestInv(q)'
    <3>1. \/ pc'[q] = pc[q] /\ pc[q] \notin InFlight
          \/ pc'[q] = "lost"
      BY <1>2 DEF Crash
    <3> QED
      BY <1>2, <3>1, Bounds DEF Crash, Resting, Sweep, rows, dirs, IInv, RequestInv,
        Open, Is, Unencoded, InFlight
  <2> QED
    BY <2>1, <2>2 DEF IInv
<1>3. CASE Boot
  <2>1. TypeOK'
    BY <1>3, Bounds DEF Boot, rows, dirs, IInv, TypeOK
  <2>2. ASSUME NEW q \in Requests
        PROVE  RequestInv(q)'
    BY <1>3, Frame DEF Boot, rows, dirs, IInv
  <2> QED
    BY <2>1, <2>2 DEF IInv
<1>4. CASE UNCHANGED vars
  <2>1. TypeOK'
    BY <1>4 DEF vars, rows, dirs, IInv, TypeOK
  <2>2. ASSUME NEW q \in Requests
        PROVE  RequestInv(q)'
    BY <1>4, Frame DEF vars, rows, dirs, IInv
  <2> QED
    BY <2>1, <2>2 DEF IInv
<1> QED
  BY <1>1, <1>2, <1>3, <1>4

LEMMA Inductive == Spec => []IInv
<1>1. ASSUME IInv, [Next]_vars
      PROVE  IInv'
  <2>1. ASSUME NEW r \in Requests,
               Send(r) \/ Disconnect(r) \/ Handler(r) \/ Rendered(r) \/ Janitor(r)
        PROVE  IInv'
    BY <1>1, <2>1, QuietIInv, OpenRowIInv, SettlingIInv, EncodingIInv
    DEF Quiet, Handler
  <2> QED
    BY <1>1, <2>1, CleanerIInv, WorldIInv DEF Next
<1> QED
  BY <1>1, InitIInv, PTL DEF Spec

(***************************************************************************)
(* The theorems.                                                           *)
(***************************************************************************)

\* Every state of the server, through any number of restarts, has its types.
THEOREM Typing == Spec => []TypeOK
<1>1. IInv => TypeOK
  BY DEF IInv
<1> QED
  BY <1>1, Inductive, PTL

\* What a client is told, what the log says and whether there is a video agree
\* for any number of requests, whatever fails and whoever goes away.
THEOREM Agreement == Spec => []AccountsAgree
<1>1. IInv => AccountsAgree
  BY DEF IInv, RequestInv, AccountsAgree
<1> QED
  BY <1>1, Inductive, PTL

\* The cleaner, interrupted anywhere, never leaves a video without its row.
THEOREM NoOrphanVideo == Spec => []VideoHasRow
<1>1. IInv => VideoHasRow
  BY DEF IInv, RequestInv, VideoHasRow
<1> QED
  BY <1>1, Inductive, PTL

\* A completed job's video is there for the whole retention.
THEOREM Kept == Spec => []VideoIsKept
<1>1. IInv => VideoIsKept
  <2> SUFFICES ASSUME IInv, NEW r \in Requests, Is(r, "completed"), age[r] <= Retention
               PROVE  video[r] = "file"
    BY DEF VideoIsKept
  <2>1. age[r] \in Nat /\ Retention \in Nat
    BY Bounds DEF IInv, TypeOK
  <2> QED
    BY <2>1 DEF IInv, RequestInv
<1> QED
  BY <1>1, Inductive, PTL
=============================================================================
