------------------------ MODULE MCCrawlerLifecycle --------------------------
(* Small instances of CrawlerLifecycle for TLC.  Its run checks liveness, so   *)
(* the symmetry of jobs and requests is not used.                              *)
EXTENDS CrawlerLifecycle
=============================================================================
