------------------------------ MODULE CatalogRun ------------------------------
(***************************************************************************)
(* What one run of a publish pipeline promises the network: it sends only   *)
(* catalogs it has built for this run, it retires the catalog they replace  *)
(* only when every one of them has arrived, and it counts as served only    *)
(* when nothing it had to send is missing.  A run may fail at any point.    *)
(***************************************************************************)
VARIABLES phase,   \* "idle", "collecting", "sending", "served", "failed"
          want,    \* the catalogs of the run, fixed once it starts sending
          sent,    \* those that have arrived
          old      \* the catalog they replace: "active" or "retired"

vars == <<phase, want, sent, old>>

Init == phase = "idle" /\ want = {} /\ sent = {} /\ old = "active"

Begin ==
    /\ phase \in {"idle", "served", "failed"}
    /\ phase' \in {"collecting", "failed"} /\ want' = {} /\ sent' = {}
    /\ UNCHANGED old

\* While it collects, a run may decide on any catalogs.
Collect ==
    /\ phase = "collecting"
    /\ UNCHANGED <<phase, sent, old>>

StartSending ==
    /\ phase = "collecting"
    /\ phase' = "sending"
    /\ UNCHANGED <<want, sent, old>>

Send ==
    /\ phase = "sending"
    /\ \E c \in want \ sent : sent' = sent \cup {c}
    /\ UNCHANGED <<phase, want, old>>

\* Only a run that has sent everything ends well, and only one that has sent
\* something may retire what it replaces.
Serve ==
    /\ phase = "sending" /\ sent = want
    /\ phase' = "served"
    /\ old' = old \/ (want # {} /\ old' = "retired")
    /\ UNCHANGED <<want, sent>>

\* A run that failed, or whose process died.
Fail ==
    /\ phase \in {"collecting", "sending"}
    /\ phase' \in {"failed", "idle"}
    /\ UNCHANGED <<want, sent, old>>

Next == Begin \/ Collect \/ StartSending \/ Send \/ Serve \/ Fail

Spec == Init /\ [][Next]_vars
=============================================================================
