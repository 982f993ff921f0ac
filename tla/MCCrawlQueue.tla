---------------------------- MODULE MCCrawlQueue ----------------------------
(* Small instances of CrawlQueue for TLC. *)
EXTENDS CrawlQueue, TLC

\* Catalogs and workers are interchangeable while no catalog is broken; used
\* by the safety runs only.
Symmetry == Permutations(Catalogs) \cup Permutations(Workers)
=============================================================================
