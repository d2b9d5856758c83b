----------------------------- MODULE MCGangJobs -----------------------------
(* Model-checking instances of GangJobs. *)
EXTENDS GangJobs, TLC

=============================================================================
