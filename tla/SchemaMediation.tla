-------------------------- MODULE SchemaMediation --------------------------
(***************************************************************************)
(* The schema version mediator on a caller's outgoing messages: the        *)
(* counterparty's node manifest says which of the payload's schema objects *)
(* are in a version it does not support, each of those needs a translation *)
(* artifact from the network, and the message is forwarded translated,     *)
(* forwarded as it came, or refused.  Objects whose type the manifest does *)
(* not declare, or declares without a canonical version, are left as they  *)
(* are.  Artifacts, and their absence, are kept in a bounded in-memory     *)
(* cache.                                                                  *)
(***************************************************************************)
EXTENDS ManifestLoader, Sequences

CONSTANTS
    Messages,     \* messages being mediated, each a reader of manifests
    Payloads,     \* what a message may carry: sets of schema objects
    Reads,        \* per manifest version, what it says of an object's version
    Outside,      \* the objects that are in the context, not in the message
    PositiveTTL,  \* how long an artifact is kept
    NegativeTTL,  \* how long its absence is remembered
    MaxEntries    \* capacity of the artifact cache

\* "other": a version that is not supported, beside a canonical one;
\* "unversioned": the same of a context URL that names no version at all.
Verdicts == {"supported", "other", "unversioned", "undeclared", "uncanonical"}
Objects == UNION Payloads

ASSUME MediationAssumption ==
    /\ Messages \subseteq Readers /\ MaxEntries \in Nat \ {0}
    /\ Reads \in [1 .. MaxVersion -> [Objects -> Verdicts]] /\ Outside \subseteq Objects

VARIABLES
    policy,       \* [action, onFailure], and whether the own manifest was found
    published,    \* objects whose translation artifact exists
    artifacts,    \* the cache: what was found for an object, and remaining life
    slots,        \* its keys in insertion order
    mediation     \* each message's mediation

mediationVars == <<policy, published, artifacts, slots, mediation>>

NoMediation == [pc |-> "arrived", carries |-> {}, named |-> FALSE, version |-> 0, todo |-> {},
                fetched |-> {}, translated |-> {}, rewritten |-> FALSE, trouble |-> FALSE]

\* onFailure is read only when the action is to translate, and neither by a
\* node that was not onboarded when it started.
MediationInit ==
    /\ policy \in [action : {"translate"}, onFailure : {"reject", "passThrough"}, onboarded : {TRUE}]
                    \cup [action : {"reject"}, onFailure : {"reject"}, onboarded : BOOLEAN]
    /\ published = {}
    /\ artifacts = <<>>
    /\ slots = <<>>
    /\ mediation = [m \in Messages |-> NoMediation]

\* applyOnFailure: the untouched message goes on, or is refused.
OnFailure(m) ==
    mediation' = [mediation EXCEPT ![m].trouble = TRUE,
                    ![m].pc = IF policy.onFailure = "passThrough" THEN "forwarded" ELSE "refused"]

\* Mediate refuses everything if the node was not onboarded, forwards what names
\* no counterparty, refuses a body that cannot be walked, and otherwise asks
\* for the counterparty's manifest.
Mediate(m) ==
    /\ mediation[m].pc = "arrived"
    /\ \/ /\ mediation' = [mediation EXCEPT ![m].pc = "refused"]
          /\ UNCHANGED load
       \/ /\ policy.onboarded
          /\ mediation' = [mediation EXCEPT ![m].pc = "forwarded"]
          /\ UNCHANGED load
       \/ \E p \in Payloads :
          /\ policy.onboarded
          /\ mediation' = [mediation EXCEPT ![m].pc = "manifest", ![m].named = TRUE, ![m].carries = p]
          /\ load' = [load EXCEPT ![m] = LoadAt("call", FALSE, NoDoc)]
    /\ UNCHANGED <<manifest, entry, refreshed, faults, missed, policy, published, artifacts, slots>>

\* What CheckCompatibility finds to translate in a payload: an undeclared type,
\* and one without a canonical version, is skipped.
Needs(p, v) == {o \in p : Reads[v][o] \in {"other", "unversioned"}}

\* CheckCompatibility against the manifest the loader handed out.
CheckCompatibility(m) ==
    /\ mediation[m].pc = "manifest"
    /\ \/ /\ load[m].pc = "failed"
          /\ OnFailure(m)
       \/ LET v == load[m].doc.v
              needs == Needs(mediation[m].carries, v)
          IN  /\ load[m].pc = "got"
              /\ mediation' = [mediation EXCEPT ![m].version = v, ![m].todo = needs,
                                 ![m].pc = CASE needs = {} -> "forwarded"
                                             [] needs # {} /\ policy.action = "reject" -> "refused"
                                             [] OTHER -> "fetch"]
    /\ load' = [load EXCEPT ![m] = NoLoad]
    /\ UNCHANGED <<manifest, entry, refreshed, faults, missed, policy, published, artifacts, slots>>

Without(f, x) == [y \in DOMAIN f \ {x} |-> f[y]]
With(f, x, e) == [y \in DOMAIN f \cup {x} |-> IF y = x THEN e ELSE f[y]]

Known(o) == o \in DOMAIN artifacts /\ artifacts[o].left > 0

\* set: a new key evicts the one inserted longest ago when the slots are full.
\* An entry that ran out leaves the cache when it is read, its slot stays.
Remember(o, found) ==
    LET kept == IF o \in DOMAIN artifacts /\ artifacts[o].left = 0 THEN Without(artifacts, o) ELSE artifacts
        full == Len(slots) >= MaxEntries
        news == [found |-> found, left |-> IF found THEN PositiveTTL ELSE NegativeTTL]
    IN  IF o \in DOMAIN kept
        THEN artifacts' = With(kept, o, news) /\ UNCHANGED slots
        ELSE /\ artifacts' = With(IF full THEN Without(kept, Head(slots)) ELSE kept, o, news)
             /\ slots' = Append(IF full THEN Tail(slots) ELSE slots, o)

\* Mutant: a missing artifact is no trouble.
Fetched_Ignoring(m, o, found) ==
    mediation' = [mediation EXCEPT ![m].todo = @ \ {o},
                                   ![m].fetched = IF found THEN @ \cup {o} ELSE @]

\* fetchAllArtifacts tries every need, whatever became of the others.
Fetched(m, o, found) ==
    mediation' = [mediation EXCEPT ![m].todo = @ \ {o},
                                   ![m].fetched = IF found THEN @ \cup {o} ELSE @,
                                   ![m].trouble = @ \/ ~found]

\* deriveArtifactURL: the artifact's URL names the version it translates from.
HasURL(m, o) == Reads[mediation[m].version][o] = "other"

\* fetchArtifactByURL: from the cache, or from the network.
FetchArtifact(m, o) ==
    /\ mediation[m].pc = "fetch" /\ o \in mediation[m].todo
    /\ \/ /\ ~HasURL(m, o)
          /\ Fetched(m, o, FALSE)
          /\ UNCHANGED <<artifacts, slots>>
       \/ /\ HasURL(m, o) /\ Known(o)
          /\ Fetched(m, o, artifacts[o].found)
          /\ UNCHANGED <<artifacts, slots>>
       \/ /\ HasURL(m, o) /\ ~Known(o)
          /\ Fetched(m, o, o \in published)
          /\ Remember(o, o \in published)
    /\ UNCHANGED <<loaderVars, policy, published>>

\* Neither attempt got an answer; nothing is remembered of that.
FetchFails(m, o) ==
    /\ mediation[m].pc = "fetch" /\ o \in mediation[m].todo /\ HasURL(m, o) /\ ~Known(o)
    /\ Fault
    /\ Fetched(m, o, FALSE)
    /\ artifacts' = Without(artifacts, o)
    /\ UNCHANGED <<manifest, entry, refreshed, load, missed, policy, published, slots>>

\* The objects of the message are translated, each in its place, in a copy that
\* replaces the message at the end.  The artifact of an object in the context
\* is applied, before them, to the message as a whole; its object stays as it is.
Translate(m) ==
    /\ mediation[m].pc = "fetch" /\ mediation[m].todo = {}
    /\ \/ mediation[m].trouble /\ OnFailure(m)
       \/ /\ ~mediation[m].trouble
          /\ mediation' = [mediation EXCEPT ![m].pc = "forwarded",
                             ![m].translated = mediation[m].fetched \ Outside,
                             ![m].rewritten = mediation[m].fetched \cap Outside # {}]
    /\ UNCHANGED <<loaderVars, policy, published, artifacts, slots>>

\* An artifact does not compile or fails on this payload: refused, whatever
\* onFailure says.
TranslateFails(m) ==
    /\ mediation[m].pc = "fetch" /\ mediation[m].todo = {} /\ ~mediation[m].trouble
    /\ Fault
    /\ mediation' = [mediation EXCEPT ![m].pc = "refused"]
    /\ UNCHANGED <<manifest, entry, refreshed, load, missed, policy, published, artifacts, slots>>

\* The message is answered and the next one arrives.
NextMessage(m) ==
    /\ mediation[m].pc \in {"forwarded", "refused"}
    /\ mediation' = [mediation EXCEPT ![m] = NoMediation]
    /\ UNCHANGED <<loaderVars, policy, published, artifacts, slots>>

\* The network publishes a translation that some manifest asks for.
PublishArtifact(o) ==
    /\ o \notin published /\ \E v \in DOMAIN Reads : Reads[v][o] = "other"
    /\ published' = published \cup {o}
    /\ UNCHANGED <<loaderVars, policy, artifacts, slots, mediation>>

MediationTick ==
    /\ LoaderTick
    /\ artifacts' = [o \in DOMAIN artifacts |->
                       [artifacts[o] EXCEPT !.left = IF @ > 0 THEN @ - 1 ELSE 0]]
    /\ UNCHANGED <<policy, published, slots, mediation>>

MediationStep(m) ==
    \/ Mediate(m) \/ CheckCompatibility(m) \/ Translate(m)
    \/ \E o \in Objects : FetchArtifact(m, o)
    \/ Loading(m) /\ UNCHANGED mediationVars

MediationNext ==
    \/ \E m \in Messages :
         \/ MediationStep(m) \/ TranslateFails(m) \/ NextMessage(m)
         \/ \E o \in Objects : FetchFails(m, o)
         \/ LoadFails(m) /\ UNCHANGED mediationVars
    \/ \E o \in Objects : PublishArtifact(o)
    \/ (Release \/ SignRelease) /\ UNCHANGED mediationVars
    \/ MediationTick

Untouched(m) == mediation[m].translated = {} /\ ~mediation[m].rewritten

\* A message is forwarded with exactly the objects translated that are in the
\* message and in a version which the counterparty's manifest, as it was handed
\* out, declares the type of but does not support; or exactly as it came, and
\* then only if no counterparty was named or the operator chose passThrough and
\* something was missing: never in part.  Not translated, and so excepted, is
\* an object of an undeclared type, or of a type without a canonical version;
\* and one in the context, whose artifact is applied to the message as a whole,
\* which happens for no other reason.  The cache never outgrows its capacity.
MediatedWhole ==
    /\ \A m \in Messages :
         LET needs == Needs(mediation[m].carries, mediation[m].version)
         IN  mediation[m].pc = "forwarded" =>
               \/ Untouched(m) /\ ~mediation[m].named
               \/ Untouched(m) /\ mediation[m].trouble /\ policy.onFailure = "passThrough"
               \/ /\ mediation[m].named /\ ~mediation[m].trouble
                  /\ mediation[m].translated = needs \ Outside
                  /\ mediation[m].rewritten <=> needs \cap Outside # {}
    /\ Len(slots) <= MaxEntries
    /\ \A o \in DOMAIN artifacts : \E i \in DOMAIN slots : slots[i] = o
=============================================================================
