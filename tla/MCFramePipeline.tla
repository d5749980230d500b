-------------------------- MODULE MCFramePipeline --------------------------
(* Two workers and a channel of two jobs, for five frames: enough for the     *)
(* channel to be full with both workers busy and a frame still to come.      *)
EXTENDS FramePipeline
CONSTANTS w1, w2
=============================================================================
