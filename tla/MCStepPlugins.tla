--------------------------- MODULE MCStepPlugins ---------------------------
EXTENDS StepPlugins

CONSTANT m1

MCStates ==
    [party |-> {"active", "suspended"}, signingKey |-> {"active", "encryption"},
     binding |-> {"active", "withdrawn"}, owner |-> {"active", "unroutable"},
     agreement |-> {"none", "requester", "discoverer"}]

\* A network policy from its manifest beside a default, and a file that
\* switches the network's policy off and has no default.
MCFiles ==
    {[network |-> "manifest", default |-> "rego"],
     [network |-> "disabled", default |-> "none"]}

\* "tag" is in the context.
MCPayloads == {{"order", "offer", "note"}, {"order", "tag"}}
MCReads ==
    <<[order |-> "other", offer |-> "undeclared", tag |-> "supported", note |-> "unversioned"],
      [order |-> "other", offer |-> "other", tag |-> "other", note |-> "uncanonical"]>>
MCReaders == {Reloader, m1}
MCMessages == {m1}
=============================================================================
