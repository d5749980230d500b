----------------------------- MODULE RenderRun -----------------------------
(***************************************************************************)
(* What a render promises its caller: while it runs, finished frames appear *)
(* in the output directory; it ends once, with every frame there or with an *)
(* error and no frame of the failed run; and nothing touches the directory  *)
(* once it has returned.                                                    *)
(***************************************************************************)
CONSTANT Frames   \* the frames of the scene

VARIABLES
  clears,   \* the caller's directory is cleared when the render fails
  outcome, shown

Init == clears \in BOOLEAN /\ outcome = "running" /\ shown = {}

Show == outcome = "running" /\ shown \subseteq shown' /\ UNCHANGED outcome

Drop == outcome = "running" /\ clears /\ shown' = {} /\ UNCHANGED outcome

Succeed == /\ outcome = "running" /\ shown = Frames
           /\ outcome' = "ok" /\ UNCHANGED shown

Fail == /\ outcome = "running" /\ (clears => shown = {})
        /\ outcome' = "error" /\ UNCHANGED shown

\* The directory could not be cleared either, or not all of it: both errors are
\* returned, and what is left there is of the failed run.
FailTwice == /\ outcome = "running" /\ clears
             /\ outcome' = "unreported" /\ shown' \subseteq shown

\* The process dies of a panic: nothing is promised of the directory, except
\* that nobody is left to write there.
Crash == /\ outcome = "running"
         /\ outcome' = "panic" /\ UNCHANGED shown

Next == /\ UNCHANGED clears
        /\ Show \/ Drop \/ Succeed \/ Fail \/ FailTwice \/ Crash

Spec == Init /\ [][Next]_<<clears, outcome, shown>>
=============================================================================
