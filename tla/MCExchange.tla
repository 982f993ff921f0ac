----------------------------- MODULE MCExchange -----------------------------
(* Small instances of Exchange for TLC.  Messages differ in how they are     *)
(* routed, so there is no symmetry to use.                                   *)
EXTENDS Exchange, TLC
=============================================================================
