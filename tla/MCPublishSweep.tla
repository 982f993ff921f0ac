--------------------------- MODULE MCPublishSweep ---------------------------
(* Small instances of PublishSweep for TLC.  Its run checks liveness, so the   *)
(* symmetry of replicas is not used.                                           *)
EXTENDS PublishSweep
=============================================================================
