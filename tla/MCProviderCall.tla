--------------------------- MODULE MCProviderCall ---------------------------
(* Small instances of ProviderCall for TLC. *)
EXTENDS ProviderCall

\* Requests are interchangeable: of the initial states that differ only in which
\* of two requests uses a static reference, one is enough.
MCInit ==
    /\ Init
    /\ ref[CHOOSE r \in Requests : TRUE] \in Static => \A r \in Requests : ref[r] \in Static

MCSpec == MCInit /\ [][Next]_vars /\ Fairness
=============================================================================
