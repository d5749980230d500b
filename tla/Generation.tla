----------------------------- MODULE Generation -----------------------------
(***************************************************************************)
(* POST /generate: handleGenerate of internal/web/server.go, the generator *)
(* of internal/web/openrouter.go that asks a language model for a scene    *)
(* and once more for a repair, and the rows of internal/jobs/generation.go *)
(* that tell an administrator what happened.                               *)
(*                                                                         *)
(* Every call on the store takes the request's context, so it fails once   *)
(* the client is gone, and may fail otherwise; its error is logged or      *)
(* ignored everywhere but in CreateGeneration. The generations share no    *)
(* state but the store. Their progress messages are EventStream's.         *)
(***************************************************************************)
EXTENDS Integers, Sequences, FiniteSets

CONSTANTS
  Generations,    \* the requests for /generate
  Texts,          \* the scenes there can be
  Valid,          \* those that render.Validate accepts
  Long,           \* those above max_scene_bytes
  NoText,         \* no scene
  MaxAttempts,    \* maxOpenRouterAttempts (2 in the code)
  MaxStoreFaults  \* bound: calls on the store that fail while the client waits

ASSUME GenerationAssumption ==
  /\ Valid \subseteq Texts /\ Long \subseteq Texts /\ NoText \notin Texts
  /\ MaxAttempts \in Nat \ {0} /\ MaxStoreFaults \in Nat

VARIABLES
  stored,    \* the server has a store
  keyed,     \* it has a key for the language model
  handler,   \* where each handler is
  attempt,   \* the generator's loop counter
  scene,     \* the scene extracted from the last response
  gone,      \* the client is gone: the request's context is cancelled
  row,       \* the row of generation_logs
  attempts,  \* its rows of generation_attempts
  missed,    \* a call on the store has failed
  faults     \* such calls while the client waited

generation == <<handler, attempt, scene, gone, row, attempts, missed, faults>>

NoRow == [status |-> "absent", scene |-> NoText]
AttemptRows == [attempt : 1..MaxAttempts, scene : Texts \cup {NoText}, invalid : BOOLEAN, failed : BOOLEAN]

GenerationTypeOK ==
  /\ stored \in BOOLEAN /\ keyed \in BOOLEAN
  /\ handler \in [Generations -> {"away", "opening", "calling", "validating", "checking",
                                  "failing", "inserting", "refusing", "ended"}]
  /\ attempt \in [Generations -> 0..MaxAttempts]
  /\ scene \in [Generations -> Texts \cup {NoText}]
  /\ gone \in [Generations -> BOOLEAN] /\ missed \in [Generations -> BOOLEAN]
  /\ row \in [Generations -> [status : {"absent", "running", "completed", "failed", "purged"},
                              scene : Texts \cup {NoText}]]
  /\ attempts \in [Generations -> Seq(AttemptRows)]
  /\ faults \in 0..MaxStoreFaults

GenerationInit ==
  /\ stored \in BOOLEAN /\ keyed \in BOOLEAN
  /\ handler = [g \in Generations |-> "away"] /\ attempt = [g \in Generations |-> 0]
  /\ scene = [g \in Generations |-> NoText]
  /\ gone = [g \in Generations |-> FALSE] /\ missed = [g \in Generations |-> FALSE]
  /\ row = [g \in Generations |-> NoRow] /\ attempts = [g \in Generations |-> <<>>]
  /\ faults = 0

(***************************************************************************)
(* One statement of the store, with the request's context.                 *)
(***************************************************************************)
Executes(g) == stored /\ ~gone[g] /\ UNCHANGED <<missed, faults>>
Misses(g) ==
  /\ stored
  /\ missed' = [missed EXCEPT ![g] = TRUE]
  /\ IF gone[g] THEN UNCHANGED faults ELSE faults < MaxStoreFaults /\ faults' = faults + 1
Skips == ~stored /\ UNCHANGED <<missed, faults>>

\* recordAttempt: its error is only logged.
RecordAttempt(g, s, invalid, failed) ==
  \/ /\ Executes(g)
     /\ attempts' = [attempts EXCEPT ![g] =
          Append(@, [attempt |-> attempt[g], scene |-> s, invalid |-> invalid, failed |-> failed])]
  \/ (Misses(g) \/ Skips) /\ UNCHANGED attempts

\* markGenerationCompleted and markGenerationFailed: their error is ignored.
\* A failure leaves the row's scene alone.
Mark(g, status, s) ==
  \/ /\ Executes(g) /\ row[g].status # "absent"
     /\ row' = [row EXCEPT ![g].status = status, ![g].scene = IF s = NoText THEN @ ELSE s]
  \/ (Misses(g) \/ Skips) /\ UNCHANGED row

(***************************************************************************)
(* handleGenerate, once its form and its prompt are accepted.              *)
(***************************************************************************)
Goes(g, pc) == handler' = [handler EXCEPT ![g] = pc]

\* Generate, up to its loop. Without a key it fails before the first attempt.
Begin(g) ==
  IF keyed THEN Goes(g, "calling") /\ attempt' = [attempt EXCEPT ![g] = 1]
           ELSE Goes(g, "failing") /\ UNCHANGED attempt

Open(g) ==
  /\ handler[g] = "opening"
  /\ \/ Executes(g) /\ row' = [row EXCEPT ![g].status = "running"] /\ Begin(g)
     \/ Misses(g) /\ Goes(g, "refusing") /\ UNCHANGED <<row, attempt>>
     \/ Skips /\ Begin(g) /\ UNCHANGED row
  /\ UNCHANGED <<scene, gone, attempts>>

(***************************************************************************)
(* Generate: chat, extractPDTT, validator. A response holds some scene, or *)
(* the call fails; it always fails once the context is cancelled.          *)
(***************************************************************************)
ChatAnswers(g) ==
  /\ handler[g] = "calling" /\ ~gone[g]
  /\ \E s \in Texts : scene' = [scene EXCEPT ![g] = s]
  /\ Goes(g, "validating") /\ UNCHANGED <<attempt, gone, row, attempts, missed, faults>>

ChatFails(g) ==
  /\ handler[g] = "calling"
  /\ RecordAttempt(g, NoText, FALSE, TRUE)
  /\ Goes(g, "failing") /\ UNCHANGED <<attempt, scene, gone, row>>

\* Mutant: the last attempt is only recorded when its scene is valid.
ValidateUnrecorded(g) ==
  /\ handler[g] = "validating"
  /\ IF scene[g] \in Valid
     THEN RecordAttempt(g, scene[g], FALSE, FALSE) /\ Goes(g, "checking") /\ UNCHANGED attempt
     ELSE IF attempt[g] = MaxAttempts
     THEN Goes(g, "failing") /\ UNCHANGED <<attempt, attempts, missed, faults>>
     ELSE /\ RecordAttempt(g, scene[g], TRUE, FALSE)
          /\ Goes(g, "calling") /\ attempt' = [attempt EXCEPT ![g] = @ + 1]
  /\ UNCHANGED <<scene, gone, row>>
Validate(g) ==
  /\ handler[g] = "validating"
  /\ RecordAttempt(g, scene[g], scene[g] \notin Valid, FALSE)
  /\ IF scene[g] \in Valid THEN Goes(g, "checking") /\ UNCHANGED attempt
     ELSE IF attempt[g] = MaxAttempts THEN Goes(g, "failing") /\ UNCHANGED attempt
     ELSE Goes(g, "calling") /\ attempt' = [attempt EXCEPT ![g] = @ + 1]
  /\ UNCHANGED <<scene, gone, row>>

\* The answer is 200 with a script that inserts the scene.
Complete(g) ==
  /\ handler[g] = "checking" /\ scene[g] \notin Long
  /\ Mark(g, "completed", scene[g]) /\ Goes(g, "inserting")
  /\ UNCHANGED <<attempt, scene, gone, attempts>>

\* The answer is 422 with a card of the last attempt.
Fail(g) ==
  /\ handler[g] = "failing" \/ (handler[g] = "checking" /\ scene[g] \in Long)
  /\ Mark(g, "failed", NoText) /\ Goes(g, "refusing")
  /\ UNCHANGED <<attempt, scene, gone, attempts>>

\* The client disconnects while its request runs.
Vanish(g) ==
  /\ handler[g] \notin {"away", "ended"} /\ ~gone[g]
  /\ gone' = [gone EXCEPT ![g] = TRUE]
  /\ UNCHANGED <<handler, attempt, scene, row, attempts, missed, faults>>

\* DeleteExpiredGenerations takes the rows with a completed_at, in time all
\* of them; their attempts go with them (ON DELETE CASCADE).
Purge(g) ==
  /\ row[g].status \in {"completed", "failed"}
  /\ row' = [row EXCEPT ![g].status = "purged"] /\ attempts' = [attempts EXCEPT ![g] = <<>>]
  /\ UNCHANGED <<handler, attempt, scene, gone, missed, faults>>

GenerationStep(g) ==
  Open(g) \/ ChatAnswers(g) \/ ChatFails(g) \/ Validate(g) \/ Complete(g) \/ Fail(g)

(***************************************************************************)
(* What the rows promise.                                                  *)
(***************************************************************************)
\* The attempts of a generation are rows numbered from 1, each but the last
\* a scene that did not validate; while no call on the store has failed there
\* is one for each response so far, and a row is settled by the time its
\* handler answers: completed with the scene the page inserts, which is valid,
\* within the limit and the last attempt's, or failed, because of the last
\* attempt when the server has a key and without one attempt when it has not.
\* Only a request whose client is gone or whose store failed leaves its row
\* running (openrouter.go Generate, server.go handleGenerate).
LogTellsTheStory ==
  \A g \in Generations :
    LET log == attempts[g]
        n == Len(log)
        answering == handler[g] \in {"inserting", "refusing", "ended"}
    IN  /\ \A i \in 1..(n - 1) : log[i].invalid /\ log[i].attempt < log[i + 1].attempt
        /\ row[g].status = "completed" =>
             /\ row[g].scene \in Valid \ Long /\ row[g].scene = scene[g]
             /\ n > 0 => ~log[n].failed
        /\ (stored /\ ~missed[g] /\ row[g].status # "purged") =>
             /\ n = attempt[g] - (IF handler[g] \in {"calling", "validating"} THEN 1 ELSE 0)
             /\ answering => row[g].status \in {"completed", "failed"}
             /\ handler[g] = "inserting" =>
                  row[g].status = "completed" /\ log[n].scene = row[g].scene /\ ~log[n].invalid
             /\ row[g].status = "failed" =>
                  \/ ~keyed /\ n = 0
                  \/ n > 0 /\ \/ log[n].failed \/ log[n].scene \in Long
                              \/ log[n].invalid /\ log[n].attempt = MaxAttempts
=============================================================================
