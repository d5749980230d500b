---------------------------- MODULE MCRenderJobs ----------------------------
(***************************************************************************)
(* RenderJobs for TLC. Nothing tells one request from another, and a sweep *)
(* takes its jobs by their place in the log, so the safety run looks at    *)
(* one of the states that differ in the names of the requests only.        *)
(***************************************************************************)
EXTENDS RenderJobs, TLC

AnyRequest == Permutations(Requests)
=============================================================================
