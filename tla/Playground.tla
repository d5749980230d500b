----------------------------- MODULE Playground -----------------------------
(***************************************************************************)
(* The page of internal/web/views.templ and the server behind it: an       *)
(* editor, a form that renders its text after a pause (hx-trigger with     *)
(* delay, hx-sync="this:replace"), the guard that sends the text again     *)
(* until the answer is for what the editor holds, the badge that tells the *)
(* user whether it is, and a form that asks for a generated scene.         *)
(*                                                                         *)
(* htmx is what the page takes it for: triggering the form starts its      *)
(* delay anew; a request sent while another is under way replaces it, and  *)
(* the one replaced is not heard of again; a request that gets no response *)
(* ends with status 0.                                                     *)
(***************************************************************************)
EXTENDS Generation

CONSTANTS
  Default,    \* defaultScenePlaceholder
  MaxEdits,   \* bound: changes typed by the user
  MaxErrors,  \* bound: answers with a status of 500 to a render
  MaxLosses   \* bound: render requests that get no response

ASSUME PlaygroundAssumption ==
  Default \in Texts /\ MaxEdits \in Nat /\ MaxErrors \in Nat /\ MaxLosses \in Nat

VARIABLES
  text,              \* hidden.value, the editor's text
  armed,             \* the delay of render-now is running
  request,           \* what became of the render form's last request
  sentCode,          \* the text it carries
  settledCode,       \* the text of the last final answer
  busy, settled, lastRenderFailed, aiBusy,  \* of renderPage
  output,            \* the answer shown: its status and the text it is for
  asking,            \* the generation the page waits for, or NoText
  edits, errors, losses

guard == <<request, sentCode, settledCode, busy, settled, lastRenderFailed, output>>
counts == <<edits, errors, losses>>
vars == <<generation, stored, keyed, guard, text, armed, aiBusy, asking, counts>>

PlaygroundTypeOK ==
  /\ GenerationTypeOK
  /\ text \in Texts /\ sentCode \in Texts \cup {NoText} /\ settledCode \in Texts \cup {NoText}
  /\ {armed, busy, settled, lastRenderFailed, aiBusy} \subseteq BOOLEAN
  /\ request \in {"unsent", "flying", "answered", "lost"}
  /\ output \in [status : {0, 200, 422, 500}, text : Texts \cup {NoText}]
  /\ asking \in Generations \cup {NoText}
  /\ edits \in 0..MaxEdits /\ errors \in 0..MaxErrors /\ losses \in 0..MaxLosses

\* The page has just loaded: its script sets the default scene and triggers
\* the form.
Init ==
  /\ GenerationInit
  /\ text = Default /\ armed = TRUE /\ request = "unsent"
  /\ sentCode = NoText /\ settledCode = NoText
  /\ busy = FALSE /\ settled = FALSE /\ lastRenderFailed = FALSE /\ aiBusy = FALSE
  /\ output = [status |-> 0, text |-> NoText] /\ asking = NoText
  /\ edits = 0 /\ errors = 0 /\ losses = 0

(***************************************************************************)
(* The editor and the render form.                                         *)
(***************************************************************************)
\* jar.onUpdate and pdttSetScene. Mutant: the form is not triggered.
SetTextQuietly(t) == text' = t /\ UNCHANGED armed
SetText(t) == text' = t /\ armed' = TRUE

Edit ==
  /\ edits < MaxEdits /\ edits' = edits + 1
  /\ \E t \in Texts \ {text} : SetText(t)
  /\ UNCHANGED <<generation, stored, keyed, guard, aiBusy, asking, errors, losses>>

\* The pause is over: htmx sends the form, dropping a request under way.
Send ==
  /\ armed
  /\ armed' = FALSE /\ request' = "flying" /\ sentCode' = text /\ busy' = TRUE
  /\ UNCHANGED <<generation, stored, keyed, text, settledCode, settled, lastRenderFailed, output,
                 aiBusy, asking, counts>>

\* What handleRender may answer: a scene that is empty, too long or not valid
\* is refused, a valid one may still fail in the render, the encoder or the
\* timeout, and setting a render up may fail for any of the others.
Refused(t) == t \notin Valid \/ t \in Long
StatusesFor(t) == (IF Refused(t) THEN {422} ELSE {200, 422}) \cup (IF t \in Long THEN {} ELSE {500})

\* settledCode, after an answer that is final.
SettledBy(status) == IF status < 500 THEN sentCode ELSE settledCode

\* Whether the guard triggers the form. Mutant: not after a server error.
RetriesFinal(status) == status < 500 /\ text # SettledBy(status)
Retries(status) == text # SettledBy(status)

\* A response: afterRequest of renderPage, the guard, and the swap.
Answer ==
  /\ request = "flying" /\ request' = "answered" /\ busy' = FALSE /\ settled' = TRUE
  /\ \E status \in StatusesFor(sentCode) :
       /\ IF status = 500 THEN errors < MaxErrors /\ errors' = errors + 1 ELSE UNCHANGED errors
       /\ lastRenderFailed' = (status >= 400)
       /\ settledCode' = SettledBy(status)
       /\ armed' = (armed \/ Retries(status))
       /\ output' = [status |-> status, text |-> sentCode]
  /\ UNCHANGED <<generation, stored, keyed, text, sentCode, aiBusy, asking, edits, losses>>

\* No response: status 0, for which the guard and the page do next to nothing.
Lose ==
  /\ request = "flying" /\ losses < MaxLosses /\ losses' = losses + 1
  /\ request' = "lost" /\ busy' = FALSE
  /\ UNCHANGED <<generation, stored, keyed, text, armed, sentCode, settledCode, settled,
                 lastRenderFailed, output, aiBusy, asking, edits, errors>>

(***************************************************************************)
(* The form for generated scenes; its button is disabled while aiBusy.     *)
(***************************************************************************)
page == <<guard, text, armed, counts>>

Ask ==
  /\ ~aiBusy /\ aiBusy' = TRUE
  /\ \E g \in Generations : handler[g] = "away" /\ asking' = g /\ Goes(g, "opening")
  /\ UNCHANGED <<attempt, scene, gone, row, attempts, missed, faults, stored, keyed, page>>

\* The answer arrives; a scene goes into the editor, whatever it holds.
Receive ==
  /\ asking # NoText /\ handler[asking] \in {"inserting", "refusing"}
  /\ aiBusy' = FALSE /\ asking' = NoText /\ Goes(asking, "ended")
  /\ IF handler[asking] = "inserting" /\ ~gone[asking] THEN SetText(scene[asking])
                                                       ELSE UNCHANGED <<text, armed>>
  /\ UNCHANGED <<attempt, scene, gone, row, attempts, missed, faults, stored, keyed,
                 guard, counts>>

GenerationNext ==
  /\ \E g \in Generations : GenerationStep(g) \/ Vanish(g) \/ Purge(g)
  /\ UNCHANGED <<stored, keyed, page, aiBusy, asking>>

Done ==
  /\ ~armed /\ request # "flying" /\ edits = MaxEdits
  /\ \A g \in Generations : handler[g] = "ended" /\ row[g].status \notin {"completed", "failed"}
  /\ UNCHANGED vars

Next == Edit \/ Send \/ Answer \/ Lose \/ Ask \/ Receive \/ GenerationNext \/ Done

\* The pause of the form ends, a render is answered at the latest by its
\* timeout, and a call on the language model by the client's.
Fairness ==
  /\ WF_vars(Send) /\ WF_vars(Answer) /\ WF_vars(Receive)
  /\ \A g \in Generations :
       WF_vars(GenerationStep(g) /\ UNCHANGED <<stored, keyed, page, aiBusy, asking>>)

Spec == Init /\ [][Next]_vars /\ Fairness

(***************************************************************************)
(* What the page promises.                                                 *)
(***************************************************************************)
syncState == IF ~settled \/ busy THEN "compiling" ELSE IF lastRenderFailed THEN "error" ELSE "synced"

\* The output is never passed off as another text's: at rest, when the last
\* request was answered, the badge reads "preview matches your scene" just
\* when the output is a preview of the text in the editor (views.templ,
\* syncState and the convergence guard).
BadgeAtRest ==
  (~armed /\ request = "answered") =>
     /\ syncState # "compiling"
     /\ (syncState = "synced") <=> output = [status |-> 200, text |-> text]
     /\ output.status < 500 => output.text = text

\* When the user stops and the server recovers, the page comes to rest showing
\* an answer for the text in the editor, to which the last final answer went as
\* well, whatever was replaced, generated or failed on the way, unless the last
\* request was lost; and it is not left waiting for a generation. The answer
\* shown need not be the final one: the guard of views.templ does not send a
\* text again that it had a final answer for.
Converges ==
  <>[] /\ ~armed /\ ~aiBusy
       /\ \/ request = "lost"
          \/ request = "answered" /\ settledCode = text /\ output.text = text

\* views.templ:237 says of the guard that "the output must always match the
\* editor text", with an answer of the server that is final: a finished render
\* or a real scene error. At rest, that is. When the user goes back to the text
\* of the last final answer and the server fails on it, the guard takes the
\* text for settled and the error stays.
OutputMatchesText ==
  (~armed /\ request = "answered") => output.text = text /\ output.status < 500
=============================================================================
